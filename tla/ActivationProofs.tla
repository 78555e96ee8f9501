------------------------- MODULE ActivationProofs --------------------------
(***************************************************************************)
(* What activates a signal: the signals it is made of, in Combinators, or  *)
(* the clock, in Till.  The two specifications share no variable, and      *)
(* every theorem here is about one of them.                                *)
(*                                                                         *)
(* Combinators, for any expressions, inputs and threads: the output of a   *)
(* combination is activated when and only when its operands ask for it,    *)
(* and leaves nothing behind.  The invariant counts.  Of each call it says *)
(* how often it is still to be made, in whatever thread; what an `&` waits *)
(* for is the sum of the calls of done() to be made and of the operands    *)
(* not activated; an `|` is, for each operand, in its queue or about to be *)
(* put there; and an output has as many references as somebody may drop.   *)
(* What lies below a call in an agenda is said by its position from the    *)
(* bottom, where a call stays until it is made.                            *)
(***************************************************************************)
EXTENDS Combinators, Till, FiniteSetTheorems, FunctionTheorems, SequenceTheorems, WellFoundedInduction, TLAPS

-----------------------------------------------------------------------------
\* Where e is in the sequence q, and how often.
Spots(q, e) == {i \in DOMAIN q : q[i] = e}
Occ(q, e) == Cardinality(Spots(q, e))

\* The j-th call of a thread from the bottom of its agenda.
Deep(a, t, j) == a[t][Len(a[t]) + 1 - j]

Places(a) == {p \in Threads \X Nat : p[2] \in 1..Len(a[p[1]])}
PlacesOf(a, c) == {p \in Places(a) : Deep(a, p[1], p[2]) = c}

\* How often the call c is still to be made.
Pending(a, c) == Cardinality(PlacesOf(a, c))

-----------------------------------------------------------------------------
\* Sets of positions are finite.
LEMMA OccType ==
  ASSUME NEW S, NEW q \in Seq(S), NEW e
  PROVE  /\ IsFiniteSet(Spots(q, e))
         /\ Occ(q, e) \in Nat
         /\ Occ(q, e) > 0 <=> \E i \in DOMAIN q : q[i] = e
<1>1. DOMAIN q = 1..Len(q) /\ Len(q) \in Nat
  OBVIOUS
<1>2. IsFiniteSet(1..Len(q))
  BY <1>1, FS_Interval
<1>3. IsFiniteSet(Spots(q, e))
  BY <1>1, <1>2, FS_Subset DEF Spots
<1>4. Occ(q, e) \in Nat /\ (Occ(q, e) = 0 <=> Spots(q, e) = {})
  BY <1>3, FS_CardinalityType, FS_EmptySet DEF Occ
<1>5. Spots(q, e) # {} <=> \E i \in DOMAIN q : q[i] = e
  BY DEF Spots
<1> QED
  BY <1>3, <1>4, <1>5

\* Of a sequence with one element more.
LEMMA OccAppend ==
  ASSUME NEW S, NEW q \in Seq(S), NEW x \in S, NEW e
  PROVE  Occ(Append(q, x), e) = Occ(q, e) + One(x, e)
<1>1. DOMAIN q = 1..Len(q) /\ Len(q) \in Nat /\ Append(q, x) \in Seq(S)
      /\ DOMAIN Append(q, x) = 1..(Len(q) + 1)
  OBVIOUS
<1>2. Spots(Append(q, x), e) = IF x = e THEN Spots(q, e) \cup {Len(q) + 1} ELSE Spots(q, e)
  BY <1>1 DEF Spots
<1>3. IsFiniteSet(Spots(q, e)) /\ Len(q) + 1 \notin Spots(q, e) /\ Occ(q, e) \in Nat
  <2>1. Len(q) + 1 \notin Spots(q, e)
    BY <1>1 DEF Spots
  <2> QED
    BY <2>1, OccType
<1>4. Cardinality(Spots(q, e) \cup {Len(q) + 1}) = Cardinality(Spots(q, e)) + 1
  BY <1>3, FS_AddElement
<1> QED
  BY <1>2, <1>3, <1>4 DEF Occ, One

\* Of two sequences, one after the other.
LEMMA OccConcat ==
  ASSUME NEW S, NEW q \in Seq(S), NEW r \in Seq(S), NEW e
  PROVE  Occ(q \o r, e) = Occ(q, e) + Occ(r, e)
<1> DEFINE K == Spots(q \o r, e) \ Spots(q, e)
           f == [i \in Spots(r, e) |-> Len(q) + i]
<1>1. /\ DOMAIN q = 1..Len(q) /\ Len(q) \in Nat /\ DOMAIN r = 1..Len(r) /\ Len(r) \in Nat
      /\ q \o r \in Seq(S) /\ DOMAIN (q \o r) = 1..(Len(q) + Len(r))
      /\ \A i \in 1..Len(q) : (q \o r)[i] = q[i]
      /\ \A i \in 1..Len(r) : (q \o r)[Len(q) + i] = r[i]
  BY ConcatProperties
<1>2. IsFiniteSet(Spots(q, e)) /\ IsFiniteSet(Spots(r, e)) /\ IsFiniteSet(Spots(q \o r, e))
  BY <1>1, OccType
<1>3. Spots(q \o r, e) = Spots(q, e) \cup K /\ Spots(q, e) \cap K = {}
  BY <1>1 DEF Spots
<1>4. f \in Bijection(Spots(r, e), K)
  <2>1. \A i \in Spots(r, e) : f[i] \in K
    BY <1>1 DEF Spots
  <2>2. f \in [Spots(r, e) -> K]
    BY <2>1
  <2>3. \A i, k \in Spots(r, e) : f[i] = f[k] => i = k
    BY <1>1 DEF Spots
  <2>4. \A k \in K : \E i \in Spots(r, e) : f[i] = k
    <3> TAKE k \in K
    <3>1. k - Len(q) \in Spots(r, e)
      BY <1>1 DEF Spots
    <3> QED
      BY <1>1, <3>1 DEF Spots
  <2> QED
    BY <2>2, <2>3, <2>4, Fun_IsBij
<1> HIDE DEF K, f
<1>5. IsFiniteSet(K) /\ Cardinality(K) = Cardinality(Spots(r, e))
  BY <1>2, <1>4, FS_Bijection DEF ExistsBijection
<1>6. Cardinality(Spots(q, e) \cup K)
         = Cardinality(Spots(q, e)) + Cardinality(K) - Cardinality(Spots(q, e) \cap K)
  BY <1>2, <1>5, FS_Union
<1>7. /\ Cardinality(Spots(q, e) \cap K) = 0
      /\ Cardinality(Spots(q, e)) \in Nat /\ Cardinality(K) \in Nat
  BY <1>2, <1>3, <1>5, FS_EmptySet, FS_CardinalityType
<1> QED
  BY <1>3, <1>5, <1>6, <1>7 DEF Occ

\* Of a short sequence.
LEMMA OccShort ==
  ASSUME NEW e
  PROVE  /\ Occ(<<>>, e) = 0
         /\ \A x : Occ(<<x>>, e) = One(x, e)
         /\ \A x, y : Occ(<<x, y>>, e) = One(x, e) + One(y, e)
         /\ \A x, y, z : Occ(<<x, y, z>>, e) = One(x, e) + One(y, e) + One(z, e)
<1>1. Occ(<<>>, e) = 0
  <2>1. Spots(<<>>, e) = {}
    BY DEF Spots
  <2> QED
    BY <2>1, FS_EmptySet DEF Occ
<1>2. \A x : One(x, e) \in Nat
  BY DEF One
<1>3. ASSUME NEW x PROVE Occ(<<x>>, e) = One(x, e)
  <2>1. <<>> \in Seq({x}) /\ x \in {x} /\ <<x>> = Append(<<>>, x)
    OBVIOUS
  <2>2. Occ(Append(<<>>, x), e) = Occ(<<>>, e) + One(x, e)
    BY <2>1, OccAppend
  <2> QED
    BY <1>1, <1>2, <2>1, <2>2
<1>4. ASSUME NEW x, NEW y PROVE Occ(<<x, y>>, e) = One(x, e) + One(y, e)
  <2>1. <<x>> \in Seq({x, y}) /\ y \in {x, y} /\ <<x, y>> = Append(<<x>>, y)
    OBVIOUS
  <2>2. Occ(Append(<<x>>, y), e) = Occ(<<x>>, e) + One(y, e)
    BY <2>1, OccAppend
  <2> QED
    BY <1>3, <2>1, <2>2
<1>5. ASSUME NEW x, NEW y, NEW z PROVE Occ(<<x, y, z>>, e) = One(x, e) + One(y, e) + One(z, e)
  <2>1. <<x, y>> \in Seq({x, y, z}) /\ z \in {x, y, z} /\ <<x, y, z>> = Append(<<x, y>>, z)
    OBVIOUS
  <2>2. Occ(Append(<<x, y>>, z), e) = Occ(<<x, y>>, e) + One(z, e)
    BY <2>1, OccAppend
  <2> QED
    BY <1>4, <2>1, <2>2
<1> QED
  BY <1>1, <1>3, <1>4, <1>5

\* Of a sequence from which one element was taken.
LEMMA OccRemove ==
  ASSUME NEW S, NEW q \in Seq(S), NEW k \in DOMAIN q, NEW e
  PROVE  /\ RemoveAt(q, k) \in Seq(S)
         /\ Occ(q, e) = Occ(RemoveAt(q, k), e) + One(q[k], e)
<1> DEFINE b == SubSeq(q, 1, k - 1)
           r == SubSeq(q, k + 1, Len(q))
           p == Append(b, q[k])
<1>1. k \in 1..Len(q) /\ Len(q) \in Nat /\ q[k] \in S
  OBVIOUS
<1> DEFINE n == Len(q)
<1>2. /\ b \in Seq(S) /\ Len(b) = k - 1 /\ \A i \in 1..(k - 1) : b[i] = q[i]
      /\ r \in Seq(S) /\ Len(r) = Len(q) - k /\ \A i \in 1..(Len(q) - k) : r[i] = q[k + i]
  BY <1>1, SubSeqProperties
<1> HIDE DEF b, r
<1>3. p \in Seq(S) /\ Len(p) = k /\ \A i \in 1..k : p[i] = q[i]
  BY <1>1, <1>2
<1>4. Occ(p, e) = Occ(b, e) + One(q[k], e)
  BY <1>1, <1>2, OccAppend
<1> HIDE DEF p
<1>5. q = p \o r
  <2>1. /\ p \o r \in Seq(S) /\ Len(p \o r) = Len(p) + Len(r)
        /\ \A i \in 1..(Len(p) + Len(r)) : (p \o r)[i] = IF i <= Len(p) THEN p[i] ELSE r[i - Len(p)]
    BY <1>2, <1>3, ConcatProperties
  <2>2. n \in Nat /\ k \in 1..n /\ n = Len(q)
    BY <1>1
  <2> HIDE DEF n
  <2>3. Len(p) = k /\ Len(r) = n - k
    BY <1>2, <1>3, <2>2
  <2>4. Len(p) + Len(r) = n
    BY <2>2, <2>3
  <2>5. Len(p \o r) = Len(q)
    BY <2>1, <2>2, <2>4
  <2>6. ASSUME NEW i \in 1..n PROVE (p \o r)[i] = q[i]
    <3>1. (p \o r)[i] = IF i <= k THEN p[i] ELSE r[i - k]
      BY <2>1, <2>3, <2>4
    <3>2. i <= k => i \in 1..k
      BY <2>2
    <3>3. ~(i <= k) => i - k \in 1..(n - k) /\ k + (i - k) = i
      BY <2>2
    <3>4. \A m \in 1..k : p[m] = q[m]
      BY <1>3
    <3>5. \A m \in 1..(n - k) : r[m] = q[k + m]
      BY <1>2, <2>2
    <3>6. ~(i <= k) => r[i - k] = q[i]
      BY <3>3, <3>5
    <3>7. i <= k => p[i] = q[i]
      BY <3>2, <3>4
    <3> QED
      BY <3>1, <3>6, <3>7
  <2> QED
    BY <2>1, <2>2, <2>5, <2>6, SeqEqual
<1>6. Occ(p \o r, e) = Occ(p, e) + Occ(r, e)
  BY <1>2, <1>3, OccConcat
<1>7. b \o r \in Seq(S) /\ Occ(b \o r, e) = Occ(b, e) + Occ(r, e)
  BY <1>2, OccConcat, ConcatProperties
<1>8. RemoveAt(q, k) = b \o r
  BY DEF RemoveAt, b, r
<1>9. Occ(b, e) \in Nat /\ Occ(r, e) \in Nat /\ One(q[k], e) \in Nat
  BY <1>2, OccType DEF One
<1> QED
  BY <1>4, <1>5, <1>6, <1>7, <1>8, <1>9

-----------------------------------------------------------------------------
(***************************************************************************)
(* The agendas are stacks: a call at its top makes room for those it       *)
(* makes, and the calls below it stay where they are.                      *)
(***************************************************************************)
Stacks(a, S) == a \in [Threads -> Seq(S)] /\ IsFiniteSet(Places(a))

\* The counts are numbers.
LEMMA PendingType ==
  ASSUME NEW S, NEW a, Stacks(a, S), NEW c
  PROVE  /\ Pending(a, c) \in Nat
         /\ IsFiniteSet(PlacesOf(a, c))
         /\ Pending(a, c) > 0 <=> \E t \in Threads : \E j \in 1..Len(a[t]) : Deep(a, t, j) = c
<1>1. PlacesOf(a, c) \subseteq Places(a)
  BY DEF PlacesOf
<1>2. IsFiniteSet(PlacesOf(a, c))
  BY <1>1, FS_Subset DEF Stacks
<1>3. Pending(a, c) \in Nat /\ (Pending(a, c) = 0 <=> PlacesOf(a, c) = {})
  BY <1>2, FS_CardinalityType, FS_EmptySet DEF Pending
<1>4. PlacesOf(a, c) # {} <=> \E t \in Threads : \E j \in 1..Len(a[t]) : Deep(a, t, j) = c
  <2>1. ASSUME PlacesOf(a, c) # {}
        PROVE  \E t \in Threads : \E j \in 1..Len(a[t]) : Deep(a, t, j) = c
    BY <2>1 DEF PlacesOf, Places
  <2>2. ASSUME NEW t \in Threads, NEW j \in 1..Len(a[t]), Deep(a, t, j) = c
        PROVE  PlacesOf(a, c) # {}
    <3>1. <<t, j>> \in PlacesOf(a, c)
      <4>1. j \in Nat
        BY DEF Stacks
      <4> QED
        BY <2>2, <4>1 DEF PlacesOf, Places
    <3> QED
      BY <3>1
  <2> QED
    BY <2>1, <2>2
<1> QED
  BY <1>2, <1>3, <1>4

\* Finitely many places in one agenda.
LEMMA ColumnFinite ==
  ASSUME NEW t, NEW n \in Nat
  PROVE  IsFiniteSet({t} \X (1..n))
<1> DEFINE f == [j \in 1..n |-> <<t, j>>]
<1>1. f \in [1..n -> {t} \X (1..n)]
  OBVIOUS
<1>2. \A p \in {t} \X (1..n) : \E j \in 1..n : f[j] = p
  OBVIOUS
<1>3. f \in Surjection(1..n, {t} \X (1..n))
  BY <1>1, <1>2, Fun_IsSurj
<1> QED
  BY <1>3, FS_Surjection, FS_Interval

\* In the agenda of t these calls are put on top of the first k.
Puts(S, t, k, calls) ==
    /\ agenda' \in [Threads -> Seq(S)]
    /\ k \in Nat /\ k <= Len(agenda[t]) /\ Len(calls) \in Nat
    /\ Len(agenda'[t]) = k + Len(calls)
    /\ \A u \in Threads \ {t} : agenda'[u] = agenda[u]
    /\ \A j \in 1..k : Deep(agenda', t, j) = Deep(agenda, t, j)
    /\ \A i \in 1..Len(calls) : Deep(agenda', t, k + Len(calls) + 1 - i) = calls[i]

\* A call is replaced by those it makes.
LEMMA Moves ==
  ASSUME NEW S, Stacks(agenda, S), NEW t \in Threads, agenda[t] # <<>>,
         NEW calls \in Seq(S), Follow(t, calls)
  PROVE  /\ Puts(S, t, Len(agenda[t]) - 1, calls)
         /\ Len(agenda[t]) \in Nat \ {0}
         /\ Deep(agenda, t, Len(agenda[t])) = Head(agenda[t])
<1> DEFINE q == agenda[t]
           n == Len(q)
           m == Len(calls)
<1>1. q \in Seq(S) /\ q # <<>>
  BY DEF Stacks
<1>2. n \in Nat \ {0} /\ m \in Nat /\ Head(q) = q[1] /\ Tail(q) \in Seq(S) /\ Len(Tail(q)) = n - 1
      /\ \A i \in 1..(n - 1) : Tail(q)[i] = q[i + 1]
  BY <1>1, EmptySeq, HeadTailProperties, LenProperties
<1>3. agenda' = [agenda EXCEPT ![t] = calls \o Tail(q)]
  BY DEF Follow
<1> HIDE DEF q
<1>4. /\ calls \o Tail(q) \in Seq(S)
      /\ Len(calls \o Tail(q)) = m + (n - 1)
      /\ \A i \in 1..(m + (n - 1)) :
            (calls \o Tail(q))[i] = IF i <= m THEN calls[i] ELSE Tail(q)[i - m]
  BY <1>2, ConcatProperties
<1>5. agenda' \in [Threads -> Seq(S)] /\ agenda'[t] = calls \o Tail(q)
      /\ \A u \in Threads \ {t} : agenda'[u] = agenda[u]
  BY <1>3, <1>4 DEF Stacks
<1>6. Len(agenda'[t]) = n - 1 + m
  BY <1>2, <1>4, <1>5
<1> HIDE DEF n, m
<1>7. ASSUME NEW j \in 1..(n - 1)
      PROVE  Deep(agenda', t, j) = Deep(agenda, t, j)
  <2>1. /\ n - 1 + m + 1 - j \in 1..(m + (n - 1)) /\ ~(n - 1 + m + 1 - j <= m)
        /\ (n - 1 + m + 1 - j) - m = n - j /\ n - j \in 1..(n - 1) /\ (n - j) + 1 = n + 1 - j
    BY <1>2
  <2>2. agenda'[t][n - 1 + m + 1 - j] = Tail(q)[n - j]
    BY <1>4, <1>5, <2>1
  <2>3. Tail(q)[n - j] = q[n + 1 - j]
    BY <1>2, <2>1
  <2> QED
    BY <1>6, <2>2, <2>3 DEF Deep, n, q
<1>8. ASSUME NEW i \in 1..m
      PROVE  Deep(agenda', t, n - 1 + m + 1 - i) = calls[i]
  <2>1. n - 1 + m + 1 - (n - 1 + m + 1 - i) = i /\ i \in 1..(m + (n - 1)) /\ i <= m
    BY <1>2
  <2>2. agenda'[t][i] = calls[i]
    BY <1>4, <1>5, <2>1
  <2> QED
    BY <1>6, <2>1, <2>2 DEF Deep
<1>9. Deep(agenda, t, n) = Head(q)
  <2>1. n + 1 - n = 1
    BY <1>2
  <2> QED
    BY <1>2, <2>1 DEF Deep, n, q
<1>10. n - 1 \in Nat /\ n - 1 <= n
  BY <1>2
<1> QED
  BY <1>2, <1>5, <1>6, <1>7, <1>8, <1>9, <1>10 DEF n, m, q, Puts

\* A thread without an agenda gets one.
LEMMA Begins ==
  ASSUME NEW S, Stacks(agenda, S), NEW t \in Threads, agenda[t] = <<>>,
         NEW calls \in Seq(S), agenda' = [agenda EXCEPT ![t] = calls]
  PROVE  Puts(S, t, 0, calls) /\ Len(agenda[t]) = 0
<1>1. agenda' \in [Threads -> Seq(S)] /\ agenda'[t] = calls
      /\ \A u \in Threads \ {t} : agenda'[u] = agenda[u]
  BY DEF Stacks
<1>2. Len(calls) \in Nat /\ Len(agenda[t]) = 0
  OBVIOUS
<1>3. ASSUME NEW i \in 1..Len(calls)
      PROVE  Deep(agenda', t, 0 + Len(calls) + 1 - i) = calls[i]
  <2>1. Len(calls) + 1 - (0 + Len(calls) + 1 - i) = i
    BY <1>2
  <2> QED
    BY <1>1, <2>1 DEF Deep
<1>4. 0 \in Nat /\ 0 <= Len(agenda[t]) /\ Len(agenda'[t]) = 0 + Len(calls)
  BY <1>1, <1>2
<1>5. \A j \in 1..0 : Deep(agenda', t, j) = Deep(agenda, t, j)
  OBVIOUS
<1> QED
  BY <1>1, <1>2, <1>3, <1>4, <1>5 DEF Puts

\* What that does to the counts.
LEMMA Counts ==
  ASSUME NEW S, Stacks(agenda, S), NEW t \in Threads, NEW k, NEW calls \in Seq(S),
         Puts(S, t, k, calls), Len(agenda[t]) \in {k, k + 1}
  PROVE  /\ Stacks(agenda', S)
         /\ \A c : Pending(agenda', c) + (IF Len(agenda[t]) = k THEN 0 ELSE One(Deep(agenda, t, k + 1), c))
                      = Pending(agenda, c) + Occ(calls, c)
<1> DEFINE n == Len(agenda[t])
           m == Len(calls)
<1>1. n \in Nat /\ m \in Nat /\ k \in Nat /\ Len(agenda'[t]) = k + m /\ DOMAIN calls = 1..m /\ n \in {k, k + 1}
  BY DEF Stacks, Puts
<1>2. IsFiniteSet(Places(agenda'))
  <2>1. Places(agenda') \subseteq Places(agenda) \cup ({t} \X (1..(k + m)))
    BY <1>1 DEF Places, Puts
  <2>2. IsFiniteSet({t} \X (1..(k + m)))
    <3>1. k + m \in Nat
      BY <1>1
    <3> QED
      BY <3>1, ColumnFinite
  <2>3. IsFiniteSet(Places(agenda) \cup ({t} \X (1..(k + m))))
    BY <2>2, FS_Union DEF Stacks
  <2> QED
    BY <2>1, <2>3, FS_Subset
<1>3. Stacks(agenda', S)
  BY <1>2 DEF Stacks, Puts
<1>4. ASSUME NEW c
      PROVE  Pending(agenda', c) + (IF n = k THEN 0 ELSE One(Deep(agenda, t, k + 1), c))
                = Pending(agenda, c) + Occ(calls, c)
  <2> DEFINE old == PlacesOf(agenda, c)
             kept == {p \in old : p # <<t, k + 1>>}
             new == {p \in PlacesOf(agenda', c) : p[1] = t /\ p[2] > k}
             f == [i \in Spots(calls, c) |-> <<t, k + m + 1 - i>>]
  <2>1. f \in Bijection(Spots(calls, c), new)
    <3>1. \A i \in Spots(calls, c) : f[i] \in new
      <4> TAKE i \in Spots(calls, c)
      <4>1. i \in 1..m /\ calls[i] = c
        BY <1>1 DEF Spots
      <4>2. k + m + 1 - i \in 1..(k + m) /\ k + m + 1 - i \in Nat /\ k + m + 1 - i > k
        <5>1. i \in Nat /\ 1 <= i /\ i <= m /\ k \in Nat /\ m \in Nat
          BY <1>1, <4>1
        <5> HIDE DEF m
        <5> QED
          BY <5>1
      <4>3. Deep(agenda', t, k + m + 1 - i) = c
        BY <4>1 DEF Puts
      <4> QED
        BY <1>1, <4>2, <4>3 DEF PlacesOf, Places
    <3>2. f \in [Spots(calls, c) -> new]
      BY <3>1
    <3>3. \A i, l \in Spots(calls, c) : f[i] = f[l] => i = l
      BY <1>1 DEF Spots
    <3>4. \A p \in new : \E i \in Spots(calls, c) : f[i] = p
      <4> TAKE p \in new
      <4>1. p = <<t, p[2]>> /\ p[2] \in Nat /\ p[2] > k /\ p[2] <= k + m /\ Deep(agenda', t, p[2]) = c
        BY <1>1 DEF PlacesOf, Places
      <4>2. k + m + 1 - p[2] \in 1..m /\ k + m + 1 - (k + m + 1 - p[2]) = p[2]
        <5>1. p[2] \in Nat /\ p[2] > k /\ p[2] <= k + m /\ k \in Nat /\ m \in Nat
          BY <1>1, <4>1
        <5> HIDE DEF m, new, f, old, kept
        <5>2. \A l \in Nat : l > k /\ l <= k + m => k + m + 1 - l \in 1..m /\ k + m + 1 - (k + m + 1 - l) = l
          BY <1>1
        <5> QED
          BY <5>1, <5>2
      <4>3. calls[k + m + 1 - p[2]] = c
        BY <4>1, <4>2 DEF Puts
      <4>4. k + m + 1 - p[2] \in Spots(calls, c)
        BY <1>1, <4>2, <4>3 DEF Spots
      <4> QED
        BY <4>1, <4>2, <4>4
    <3> QED
      BY <3>2, <3>3, <3>4, Fun_IsBij
  <2>2. PlacesOf(agenda', c) = kept \cup new
    <3>1. ASSUME NEW p \in PlacesOf(agenda', c), p \notin new
          PROVE  p \in kept
      <4>1. p = <<p[1], p[2]>> /\ p[1] \in Threads /\ p[2] \in 1..Len(agenda'[p[1]]) /\ p[2] \in Nat
            /\ Deep(agenda', p[1], p[2]) = c
        BY DEF PlacesOf, Places
      <4>2. CASE p[1] # t
        <5>1. agenda'[p[1]] = agenda[p[1]]
          BY <4>1, <4>2 DEF Puts
        <5>2. p \in old
          BY <4>1, <5>1 DEF PlacesOf, Places, Deep
        <5> QED
          BY <4>1, <4>2, <5>2
      <4>3. CASE p[1] = t
        <5>1. p[2] \in 1..k
          BY <1>1, <3>1, <4>1, <4>3
        <5>2. Deep(agenda, t, p[2]) = c /\ p[2] \in 1..n
          BY <1>1, <4>1, <4>3, <5>1 DEF Puts
        <5>3. p \in old
          BY <4>1, <4>3, <5>2 DEF PlacesOf, Places
        <5> QED
          BY <1>1, <4>1, <5>1, <5>3
      <4> QED
        BY <4>2, <4>3
    <3>2. ASSUME NEW p \in kept
          PROVE  p \in PlacesOf(agenda', c)
      <4>1. p = <<p[1], p[2]>> /\ p[1] \in Threads /\ p[2] \in 1..Len(agenda[p[1]]) /\ p[2] \in Nat
            /\ Deep(agenda, p[1], p[2]) = c /\ p # <<t, k + 1>>
        BY DEF PlacesOf, Places
      <4>2. CASE p[1] # t
        <5>1. agenda'[p[1]] = agenda[p[1]]
          BY <4>1, <4>2 DEF Puts
        <5> QED
          BY <4>1, <5>1 DEF PlacesOf, Places, Deep
      <4>3. CASE p[1] = t
        <5>1. p[2] \in 1..k
          BY <1>1, <4>1, <4>3
        <5>2. Deep(agenda', t, p[2]) = c /\ p[2] \in 1..Len(agenda'[t])
          BY <1>1, <4>1, <4>3, <5>1 DEF Puts
        <5> QED
          BY <4>1, <4>3, <5>2 DEF PlacesOf, Places
      <4> QED
        BY <4>2, <4>3
    <3> QED
      BY <3>1, <3>2
  <2>3. kept \cap new = {}
    BY <1>1 DEF PlacesOf, Places
  <2>4. IsFiniteSet(old) /\ IsFiniteSet(Spots(calls, c)) /\ Cardinality(old) = Pending(agenda, c)
        /\ Cardinality(Spots(calls, c)) = Occ(calls, c)
        /\ Pending(agenda, c) \in Nat /\ Occ(calls, c) \in Nat
    BY PendingType, OccType DEF Pending, Occ
  <2>5. kept = old \ {<<t, k + 1>>}
    OBVIOUS
  <2>6. <<t, k + 1>> \in old <=> (n # k /\ Deep(agenda, t, k + 1) = c)
    BY <1>1 DEF PlacesOf, Places
  <2> HIDE DEF old, new, f, kept
  <2>7. IsFiniteSet(new) /\ Cardinality(new) = Occ(calls, c)
    BY <2>1, <2>4, FS_Bijection DEF ExistsBijection
  <2>8. IsFiniteSet(kept) /\ Cardinality(kept) = IF <<t, k + 1>> \in old THEN Cardinality(old) - 1 ELSE Cardinality(old)
    BY <2>4, <2>5, FS_RemoveElement
  <2>9. Cardinality(kept \cup new) = Cardinality(kept) + Cardinality(new) - Cardinality(kept \cap new)
    BY <2>7, <2>8, FS_Union
  <2>10. Cardinality(kept \cap new) = 0
    BY <2>3, FS_EmptySet
  <2>11. Pending(agenda', c) = Cardinality(kept) + Cardinality(new)
    <3>1. Cardinality(kept) \in Nat /\ Cardinality(new) \in Nat
      BY <2>7, <2>8, FS_CardinalityType
    <3> QED
      BY <2>2, <2>9, <2>10, <3>1 DEF Pending
  <2> QED
    BY <2>4, <2>6, <2>7, <2>8, <2>11 DEF One
<1> QED
  BY <1>3, <1>4

-----------------------------------------------------------------------------
(***************************************************************************)
(* The calls there are.                                                    *)
(***************************************************************************)
FireOf(o) == Do("fire", o, Null)
DoneOf(o) == Do("done", o, Null)
CleanupOf(o) == Do("cleanup", o, Null)
UnrefOf(o) == Do("unref", o, Null)
CombineOf(o) == Do("combine", o, Null)
WaitOf(o) == Do("wait", o, Null)
ForgetOf(o) == Do("forget", o, Null)
ReadOf(o) == Do("read", o, Null)
GoOn(o) == Do("go", o, o)
GoIn(s) == Do("go", Null, s)
AssignIt == Do("assign", Null, Future)
ThenOn(o, s) == Do("then", o, s)
RemoveOn(o, s) == Do("remove_then", o, s)

JobCalls == {FireOf(o) : o \in Outputs} \cup {DoneOf(o) : o \in Outputs} \cup {CleanupOf(o) : o \in Outputs}

PlanCalls == {CombineOf(o) : o \in Outputs} \cup {WaitOf(o) : o \in Outputs}
             \cup {ForgetOf(o) : o \in Outputs} \cup {ReadOf(o) : o \in Outputs}

AgendaCalls == JobCalls \cup PlanCalls \cup {UnrefOf(o) : o \in Outputs} \cup {GoOn(o) : o \in Outputs}
               \cup {GoIn(s) : s \in Inputs} \cup {AssignIt}
               \cup {ThenOn(o, s) : o \in Outputs, s \in Signals}
               \cup {RemoveOn(o, s) : o \in Outputs, s \in Signals}

\* A call is its three fields.
LEMMA Fields ==
  /\ \A a, b, c, d, e, f : Do(a, b, c) = Do(d, e, f) <=> a = d /\ b = e /\ c = f
  /\ \A a, b, c : Do(a, b, c).call = a /\ Do(a, b, c).out = b /\ Do(a, b, c).signal = c
<1>1. \A a, b, c : Do(a, b, c).call = a /\ Do(a, b, c).out = b /\ Do(a, b, c).signal = c
  BY DEF Do
<1>2. \A a, b, c, d, e, f : Do(a, b, c) = Do(d, e, f) => a = d /\ b = e /\ c = f
  BY <1>1
<1> QED
  BY <1>1, <1>2

\* One call counts as another when they are the same.
LEMMA OneDo ==
  \A a, b, c, d, e, f : One(Do(a, b, c), Do(d, e, f)) = IF a = d /\ b = e /\ c = f THEN 1 ELSE 0
BY Fields DEF One

\* The calls of an agenda have the shapes that the class builds, and no other.
LEMMA Kinds ==
  ASSUME NEW c \in AgendaCalls
  PROVE  /\ c.call = "then" => c.out \in Outputs /\ c.signal \in Signals /\ c = ThenOn(c.out, c.signal)
         /\ c.call = "remove_then" => c.out \in Outputs /\ c.signal \in Signals /\ c = RemoveOn(c.out, c.signal)
         /\ c.call = "go" => \/ c.out \in Outputs /\ c.signal = c.out /\ c = GoOn(c.out)
                             \/ c.signal \in Inputs /\ c.out = Null /\ c = GoIn(c.signal)
         /\ c.call = "fire" => c.out \in Outputs /\ c = FireOf(c.out)
         /\ c.call = "done" => c.out \in Outputs /\ c = DoneOf(c.out)
         /\ c.call = "cleanup" => c.out \in Outputs /\ c = CleanupOf(c.out)
         /\ c.call = "unref" => c.out \in Outputs /\ c = UnrefOf(c.out)
         /\ c.call = "combine" => c.out \in Outputs /\ c = CombineOf(c.out)
         /\ c.call = "wait" => c.out \in Outputs /\ c = WaitOf(c.out)
         /\ c.call = "forget" => c.out \in Outputs /\ c = ForgetOf(c.out)
         /\ c.call = "read" => c.out \in Outputs /\ c = ReadOf(c.out)
         /\ c.call = "assign" => c = AssignIt
<1> USE DEF FireOf, DoneOf, CleanupOf, UnrefOf, CombineOf, WaitOf, ForgetOf, ReadOf, GoOn, GoIn,
            AssignIt, ThenOn, RemoveOn
<1>1. CASE c \in JobCalls
  BY <1>1, Fields DEF JobCalls
<1>2. CASE c \in PlanCalls
  BY <1>2, Fields DEF PlanCalls
<1>3. CASE \E o \in Outputs : c = UnrefOf(o) \/ c = GoOn(o)
  BY <1>3, Fields
<1>4. CASE c = AssignIt \/ \E s \in Inputs : c = GoIn(s)
  BY <1>4, Fields
<1>5. CASE \E o \in Outputs, s \in Signals : c = ThenOn(o, s) \/ c = RemoveOn(o, s)
  BY <1>5, Fields
<1> QED
  BY <1>1, <1>2, <1>3, <1>4, <1>5 DEF AgendaCalls

\* They are calls.
LEMMA AgendaCallsAreCalls ==
  AgendaCalls \subseteq Calls /\ JobCalls \subseteq AgendaCalls
<1>1. ASSUME NEW c \in AgendaCalls PROVE c \in Calls
  <2>1. Inputs \subseteq Signals /\ Outputs \subseteq Signals /\ Future \in Signals
    BY CombinatorsAssumption DEF Signals
  <2> QED
    BY <2>1 DEF AgendaCalls, JobCalls, PlanCalls, FireOf, DoneOf, CleanupOf, UnrefOf, CombineOf, WaitOf,
                ForgetOf, ReadOf, GoOn, GoIn, AssignIt, ThenOn, RemoveOn, Do, Calls
<1> QED
  BY <1>1 DEF AgendaCalls

-----------------------------------------------------------------------------
(***************************************************************************)
(* The inductive invariant.                                                *)
(***************************************************************************)
Outs == {expr[i].out : i \in DOMAIN expr}
Earlier(o, p) == \E i, k \in DOMAIN expr : i < k /\ expr[i].out = o /\ expr[k].out = p

\* What a combination is written with, and what it works on.
Terms(o) == {Term(o).left, Term(o).right}
Operands(o) == {Left(o), Right(o)}
Mult(o, s) == One(Left(o), s) + One(Right(o), s)

Forgets == \E o \in Outputs : Pending(agenda, ForgetOf(o)) > 0

\* The builder still refers to what this combination returned.
Held(c) == /\ c \in Outs /\ value[c] # Null
           /\ \A p \in Outs : c \in Terms(p) => value[p] = Null
           /\ c = Result(expr) => Forgets

\* An OrSignal refers to this operand.
DepOf(o, s) == deps[o] # <<>> /\ s \in Operands(o)

Kept(s) == \/ \E c \in Outs : Held(c) /\ value[c] = s
           \/ \E o \in Outputs : DepOf(o, s)

Bit(p) == IF p THEN 1 ELSE 0

IsPlan(c) == c.call \in {"combine", "wait", "forget", "read"}

\* The order of what the builder has planned.
Before(c, d) == \/ c.call = "combine" /\ d.call = "combine" /\ Earlier(c.out, d.out)
                \/ c.call = "combine" /\ d.call \in {"wait", "forget", "read"}
                \/ c.call = "wait" /\ d.call \in {"forget", "read"}
                \/ c.call = "forget" /\ d.call = "read"

\* The types, with the calls there can be.
Types == /\ expr \in Expressions
         /\ go \subseteq Signals
         /\ jobs \in [Signals -> Seq(JobCalls)]
         /\ value \in [Outputs -> Signals \cup {Null}]
         /\ deps \in [Outputs -> Seq(Signals)]
         /\ remaining \in [Outputs -> 0..2]
         /\ refs \in [Outputs -> Nat]
         /\ Stacks(agenda, AgendaCalls)
         /\ answer \in {Null, "assigned"}
         /\ returned \subseteq {Null, "assigned"}

\* What lies below a call in its agenda.
StackInv ==
    /\ \A t \in Threads : \A j \in 1..Len(agenda[t]) :
          IsPlan(Deep(agenda, t, j)) \/ Deep(agenda, t, j).call = "then" => t = Builder
    /\ \A i, j \in 1..Len(agenda[Builder]) : i < j /\ IsPlan(Deep(agenda, Builder, j)) =>
          IsPlan(Deep(agenda, Builder, i)) /\ Before(Deep(agenda, Builder, j), Deep(agenda, Builder, i))
    /\ \A t \in Threads : \A j \in 1..Len(agenda[t]) : \A o \in Outputs, s \in Signals :
          Deep(agenda, t, j) = ThenOn(o, s) /\ s # o /\ IsOr(o) =>
             \E i \in 1..(j - 1) : Deep(agenda, t, i) = ThenOn(o, o)
    /\ \A t \in Threads : \A j \in 1..Len(agenda[t]) : \A o \in Outputs :
          Deep(agenda, t, j) = GoOn(o) => j > 1 /\ Deep(agenda, t, j - 1) = UnrefOf(o)
    /\ \A t \in Threads : \A j \in 1..Len(agenda[t]) :
          Deep(agenda, t, j) = GoIn(Future) /\ answer = Null =>
             j + 1 <= Len(agenda[t]) /\ Deep(agenda, t, j + 1) = AssignIt

\* What the builder still has to do, and what it did.
PlanInv ==
    /\ \A o \in Outputs : Pending(agenda, CombineOf(o)) > 0 <=> o \in Outs /\ value[o] = Null
    /\ \A o \in Outputs : value[o] # Null => o \in Outs
    /\ \A o \in Outputs : Pending(agenda, WaitOf(o)) > 0 \/ Pending(agenda, ForgetOf(o)) > 0
                             \/ Pending(agenda, ReadOf(o)) > 0 => o = Result(expr)
    /\ \A o \in Outputs : Pending(agenda, CombineOf(o)) > 0 \/ Pending(agenda, WaitOf(o)) > 0 => Forgets
    /\ \A o \in Outputs : Pending(agenda, ReadOf(o)) > 0 => IsFutureWait(expr)

\* What was made has its operands.
MadeInv ==
    /\ \A c \in Outputs : value[c] \in Outputs => value[c] \in Made
    /\ \A o \in Made : Operands(o) \subseteq Signals \ {o}
    /\ \A o \in Outputs : value[o] # Null => \A w \in Terms(o) : w \in Outputs => value[w] # Null

\* Why a call is still to be made.
CallInv ==
    /\ \A o \in Outputs, s \in Signals : Pending(agenda, ThenOn(o, s)) > 0 =>
          o \in Made /\ Held(o) /\ ((s = o /\ IsOr(o)) \/ s \in Operands(o))
    /\ \A o \in Outputs : Pending(agenda, GoOn(o)) > 0 => o \in Made /\ Asked(o)
    /\ \A o \in Outputs, s \in Signals : Pending(agenda, RemoveOn(o, s)) > 0 =>
          o \in Made /\ IsOr(o) /\ s \in Operands(o) /\ deps[o] = <<>>
    /\ \A o \in Outputs : Pending(agenda, FireOf(o)) > 0 => o \in Made /\ IsOr(o) /\ Asked(o)
    /\ \A o \in Outputs : Pending(agenda, DoneOf(o)) > 0 => o \in Made /\ ~IsOr(o)
    /\ \A o \in Outputs : Pending(agenda, CleanupOf(o)) > 0 =>
          /\ o \in Made /\ IsOr(o) /\ (o \in go \/ refs[o] = 0)
          /\ \A s \in Operands(o) : Pending(agenda, ThenOn(o, s)) = 0
    /\ \A o \in Outputs : Pending(agenda, UnrefOf(o)) > 0 => o \in Made

\* Why it is in a queue.
JobInv ==
    /\ \A s \in go : jobs[s] = <<>>
    /\ \A s \in Signals, o \in Outputs : Occ(jobs[s], FireOf(o)) > 0 =>
          o \in Made /\ IsOr(o) /\ s \in Operands(o)
    /\ \A s \in Signals, o \in Outputs : Occ(jobs[s], DoneOf(o)) > 0 =>
          o \in Made /\ ~IsOr(o) /\ s \in Operands(o)
    /\ \A s \in Signals, o \in Outputs : Occ(jobs[s], CleanupOf(o)) > 0 =>
          /\ o \in Made /\ IsOr(o) /\ s = o /\ refs[o] > 0
          /\ \A d \in Operands(o) : Pending(agenda, ThenOn(o, d)) = 0

GoInv == \A o \in Outputs : o \in go => o \in Made /\ Asked(o)

\* An OrSignal lets go of its operands when its output is activated or freed.
DepInv ==
    \A o \in Outputs :
       /\ deps[o] # <<>> => /\ o \in Made /\ IsOr(o) /\ deps[o] = <<Left(o), Right(o)>>
                            /\ Left(o) = Right(o) => Left(o) \notin Outputs
       /\ o \in Made /\ IsOr(o) /\ deps[o] = <<>> =>
             /\ o \in go \/ refs[o] = 0
             /\ \A d \in Operands(o) : Pending(agenda, ThenOn(o, d)) = 0

\* The builder and the OrSignals do not refer to the same output twice.
UniqueInv ==
    /\ \A c, d \in Outs : Held(c) /\ Held(d) /\ value[c] = value[d] /\ value[c] \in Outputs => c = d
    /\ \A o \in Outputs, c \in Outs : Held(c) /\ value[c] \in Outputs => ~DepOf(o, value[c])
    /\ \A o, p, s \in Outputs : DepOf(o, s) /\ DepOf(p, s) => o = p

\* The references that are known are counted.
RefInv == \A s \in Outputs :
             refs[s] >= Pending(agenda, UnrefOf(s)) + Bit(Kept(s)) + Bit(remaining[s] > 0)

\* What an `&` still waits for from one operand.
Slot(o, s) == IF s \in go THEN Pending(agenda, ThenOn(o, s)) ELSE Mult(o, s)

AndInv ==
    /\ \A o \in Outputs : remaining[o] > 0 => o \in Made /\ ~IsOr(o)
    /\ \A o \in Made : ~IsOr(o) =>
        /\ \A l, r \in Signals : l = Left(o) /\ r = Right(o) =>
              remaining[o] = Pending(agenda, DoneOf(o)) + Slot(o, l) + (IF r = l THEN 0 ELSE Slot(o, r))
        /\ \A s \in Operands(o) : s \notin go /\ (s \in Outputs => refs[s] > 0) =>
              Occ(jobs[s], DoneOf(o)) + Pending(agenda, ThenOn(o, s)) = Mult(o, s)
        /\ remaining[o] = 0 => o \in go \/ Pending(agenda, GoOn(o)) > 0

OrInv ==
    \A o \in Made : IsOr(o) =>
        /\ \A d \in Operands(o) :
             /\ d \notin go /\ deps[o] # <<>> =>
                   Occ(jobs[d], FireOf(o)) + Pending(agenda, ThenOn(o, d)) = Mult(o, d)
             /\ d \notin go /\ deps[o] = <<>> => Occ(jobs[d], FireOf(o)) <= Pending(agenda, RemoveOn(o, d))
             /\ d \in go => \/ o \in go \/ refs[o] = 0 \/ Pending(agenda, GoOn(o)) > 0
                            \/ Pending(agenda, FireOf(o)) > 0 \/ Pending(agenda, ThenOn(o, d)) > 0
        /\ Pending(agenda, ThenOn(o, o)) <= 1
        /\ deps[o] # <<>> /\ (o \in go \/ refs[o] = 0) =>
              Pending(agenda, CleanupOf(o)) > 0 \/ Pending(agenda, ThenOn(o, o)) > 0
        /\ deps[o] # <<>> /\ o \notin go /\ refs[o] > 0 =>
              Occ(jobs[o], CleanupOf(o)) > 0 \/ Pending(agenda, ThenOn(o, o)) > 0

\* What Future.wait() gets, and with it the property.
FutureInv ==
    /\ Future \in go => answer # Null
    /\ IsFutureWait(expr) /\ value[Result(expr)] # Null =>
          \/ value[Result(expr)] \in {Result(expr), Future}
          \/ Right(Result(expr)) \in go \cup {True} \/ Future \in go
    /\ \A o \in Outputs : Pending(agenda, ReadOf(o)) > 0 => value[o] \in go \/ Pending(agenda, WaitOf(o)) > 0
    /\ Null \in returned => IsFutureWait(expr) /\ Right(Result(expr)) \in go \cup {True}

Inv == /\ Types /\ StackInv /\ PlanInv /\ MadeInv /\ CallInv /\ JobInv /\ GoInv /\ DepInv
       /\ UniqueInv /\ RefInv /\ AndInv /\ OrInv /\ FutureInv

-----------------------------------------------------------------------------
(***************************************************************************)
(* The expression.                                                         *)
(***************************************************************************)
\* Each combination has its term, and an output is an operand of a later
\* combination, of one only, or the result.
LEMMA ExprFacts ==
  ASSUME expr \in Expressions
  PROVE  /\ Len(expr) \in DOMAIN expr /\ DOMAIN expr = 1..Len(expr) /\ Len(expr) \in Nat \ {0}
         /\ \A i \in DOMAIN expr : expr[i].out \in Outs /\ Term(expr[i].out) = expr[i]
         /\ Outs \subseteq Outputs /\ Result(expr) \in Outs
         /\ \A o \in Outs : Term(o) \in Combination /\ Term(o).out = o
         /\ \A o \in Outs : \A w \in Terms(o) : w \in Outputs =>
               w \in Outs /\ Earlier(w, o) /\ w # Result(expr)
         /\ \A o, p \in Outs : \A w \in Outputs : w \in Terms(o) /\ w \in Terms(p) => o = p
         /\ \A o \in Outs : Term(o).left = Term(o).right => Term(o).left \notin Outputs
         /\ \A o, p \in Outs : Earlier(o, p) => ~Earlier(p, o) /\ o # p
<1> DEFINE e == expr
<1>1. /\ e \in Seq(Combination) /\ e # <<>>
      /\ \A i, k \in DOMAIN e : i # k => e[i].out # e[k].out
      /\ \A i \in DOMAIN e : {e[i].left, e[i].right} \cap Outputs \subseteq {e[k].out : k \in 1..(i - 1)}
      /\ \A i, k \in DOMAIN e : i # k =>
            {e[i].left, e[i].right} \cap {e[k].left, e[k].right} \cap Outputs = {}
      /\ \A i \in DOMAIN e : e[i].left = e[i].right => e[i].left \notin Outputs
  BY CombinatorsAssumption
<1>2. Len(e) \in DOMAIN e /\ DOMAIN e = 1..Len(e) /\ Len(e) \in Nat \ {0}
  BY <1>1, EmptySeq, LenProperties
<1>3. \A i \in DOMAIN e : e[i] \in Combination
  BY <1>1, <1>2, ElementOfSeq
<1> HIDE DEF e
<1>4. ASSUME NEW i \in DOMAIN e PROVE Term(e[i].out) = e[i] /\ e[i].out \in Outs
  <2>1. e[i] \in ToSet(e) /\ \A c \in ToSet(e) : c.out = e[i].out => c = e[i]
    BY <1>1 DEF ToSet
  <2> QED
    BY <2>1 DEF Term, Outs, e
<1>5. \A o \in Outs : \E i \in DOMAIN e : o = e[i].out /\ Term(o) = e[i]
  BY <1>4 DEF Outs, e
<1>6. Outs \subseteq Outputs /\ Result(e) \in Outs /\ \A o \in Outs : Term(o) \in Combination /\ Term(o).out = o
  BY <1>2, <1>3, <1>4, <1>5 DEF Combination, Result
<1>7. ASSUME NEW o \in Outs, NEW w \in Terms(o), w \in Outputs
      PROVE  w \in Outs /\ Earlier(w, o) /\ w # Result(e)
  <2>1. PICK i \in DOMAIN e : o = e[i].out /\ Term(o) = e[i]
    BY <1>5
  <2>2. w \in {e[i].left, e[i].right} \cap Outputs
    BY <1>7, <2>1 DEF Terms
  <2>3. PICK k \in 1..(i - 1) : w = e[k].out
    BY <1>1, <2>2
  <2>4. k \in DOMAIN e /\ k < i /\ i <= Len(e)
    BY <1>2, <2>3
  <2>5. w \in Outs /\ Earlier(w, o)
    BY <1>4, <2>1, <2>3, <2>4 DEF Earlier, e
  <2>6. w # e[Len(e)].out
    BY <1>1, <1>2, <2>3, <2>4
  <2> QED
    BY <2>5, <2>6 DEF Result
<1>8. ASSUME NEW o \in Outs, NEW p \in Outs, NEW w \in Outputs, w \in Terms(o), w \in Terms(p)
      PROVE  o = p
  <2>1. PICK i \in DOMAIN e : o = e[i].out /\ Term(o) = e[i]
    BY <1>5
  <2>2. PICK k \in DOMAIN e : p = e[k].out /\ Term(p) = e[k]
    BY <1>5
  <2>3. w \in {e[i].left, e[i].right} \cap {e[k].left, e[k].right} \cap Outputs
    BY <1>8, <2>1, <2>2 DEF Terms
  <2> QED
    BY <1>1, <2>1, <2>2, <2>3
<1>9. \A o \in Outs : Term(o).left = Term(o).right => Term(o).left \notin Outputs
  BY <1>1, <1>5
<1>10. ASSUME NEW o \in Outs, NEW p \in Outs, Earlier(o, p), Earlier(p, o) \/ o = p
       PROVE  FALSE
  <2>1. PICK i, k \in DOMAIN e : i < k /\ e[i].out = o /\ e[k].out = p
    BY <1>10 DEF Earlier, e
  <2>2. CASE o = p
    BY <1>1, <1>2, <2>1, <2>2
  <2>3. CASE Earlier(p, o)
    <3>1. PICK m, n \in DOMAIN e : m < n /\ e[m].out = p /\ e[n].out = o
      BY <2>3 DEF Earlier, e
    <3>2. m = k /\ n = i
      BY <1>1, <2>1, <3>1
    <3> QED
      BY <1>2, <2>1, <3>1, <3>2
  <2> QED
    BY <1>10, <2>2, <2>3
<1> QED
  BY <1>2, <1>4, <1>6, <1>7, <1>8, <1>9, <1>10 DEF e

-----------------------------------------------------------------------------
(***************************************************************************)
(* The top of an agenda.                                                   *)
(***************************************************************************)
\* What a thread does next is one of its calls.
LEMMA Top ==
  ASSUME Types, NEW t \in Threads, agenda[t] # <<>>
  PROVE  /\ agenda[t] \in Seq(AgendaCalls) /\ Head(agenda[t]) \in AgendaCalls
         /\ Len(agenda[t]) \in Nat \ {0}
         /\ Deep(agenda, t, Len(agenda[t])) = Head(agenda[t])
         /\ Pending(agenda, Head(agenda[t])) > 0
<1> DEFINE q == agenda[t]
           n == Len(q)
<1>1. q \in Seq(AgendaCalls) /\ q # <<>>
  BY DEF Types, Stacks
<1>2. n \in Nat \ {0} /\ Head(q) = q[1] /\ Head(q) \in AgendaCalls
  BY <1>1, EmptySeq, HeadTailProperties, LenProperties
<1>3. Deep(agenda, t, n) = Head(q)
  <2>1. n + 1 - n = 1
    <3> HIDE DEF n
    <3> QED
      BY <1>2
  <2> QED
    BY <1>2, <2>1 DEF Deep
<1>4. n \in 1..n
  <2> HIDE DEF n
  <2> QED
    BY <1>2
<1>5. Pending(agenda, Head(q)) > 0
  BY <1>3, <1>4, PendingType DEF Types
<1> QED
  BY <1>1, <1>2, <1>3, <1>5

\* A call is paid with those it makes.
Paid(h, calls) == /\ Stacks(agenda', AgendaCalls)
                  /\ \A c : /\ Pending(agenda, c) \in Nat /\ Pending(agenda', c) \in Nat
                            /\ Pending(agenda', c) + One(h, c) = Pending(agenda, c) + Occ(calls, c)

\* Every step of a thread is paid like this.
LEMMA Pays ==
  ASSUME Types, NEW t \in Threads, agenda[t] # <<>>,
         NEW calls \in Seq(AgendaCalls), Follow(t, calls)
  PROVE  Paid(Head(agenda[t]), calls)
<1> DEFINE n == Len(agenda[t])
<1>1. Stacks(agenda, AgendaCalls)
  BY DEF Types
<1>2. Puts(AgendaCalls, t, n - 1, calls) /\ n \in Nat \ {0} /\ Deep(agenda, t, n) = Head(agenda[t])
  BY <1>1, Moves
<1>3. n \in {n - 1, (n - 1) + 1} /\ n # n - 1 /\ (n - 1) + 1 = n
  <2> HIDE DEF n
  <2> QED
    BY <1>2
<1>4. /\ Stacks(agenda', AgendaCalls)
      /\ \A c : Pending(agenda', c) + (IF n = n - 1 THEN 0 ELSE One(Deep(agenda, t, (n - 1) + 1), c))
                  = Pending(agenda, c) + Occ(calls, c)
  BY <1>1, <1>2, <1>3, Counts
<1>5. \A c : Pending(agenda', c) + One(Head(agenda[t]), c) = Pending(agenda, c) + Occ(calls, c)
  <2> HIDE DEF n
  <2> QED
    BY <1>2, <1>3, <1>4
<1>6. \A c : Pending(agenda, c) \in Nat /\ Pending(agenda', c) \in Nat
  BY <1>1, <1>4, PendingType
<1> QED
  BY <1>4, <1>5, <1>6 DEF Paid

\* Nothing is being registered.
NoThens == \A o \in Outputs, s \in Signals : Pending(agenda, ThenOn(o, s)) = 0

\* When the builder goes on with its plan, it is in no call, and what it plans
\* to do comes later.
LEMMA TopPlan ==
  ASSUME Types, StackInv, NEW t \in Threads, agenda[t] # <<>>, IsPlan(Head(agenda[t]))
  PROVE  /\ t = Builder /\ NoThens
         /\ \A c : IsPlan(c) /\ Pending(agenda, c) > 0 => c = Head(agenda[t]) \/ Before(Head(agenda[t]), c)
         /\ Pending(agenda, Head(agenda[t])) = 1
<1> DEFINE n == Len(agenda[t])
           h == Head(agenda[t])
<1>1. n \in Nat \ {0} /\ Deep(agenda, t, n) = h /\ n \in 1..n /\ h \in AgendaCalls /\ expr \in Expressions
  <2>1. n \in Nat \ {0} /\ Deep(agenda, t, n) = h /\ h \in AgendaCalls /\ expr \in Expressions
    BY Top DEF Types
  <2> HIDE DEF n
  <2> QED
    BY <2>1
<1>2. t = Builder
  BY <1>1 DEF StackInv
<1>3. Stacks(agenda, AgendaCalls)
  BY DEF Types
<1> HIDE DEF n, h
<1>4. ASSUME NEW j \in 1..n, j # n
      PROVE  IsPlan(Deep(agenda, t, j)) /\ Before(h, Deep(agenda, t, j))
  <2>1. j < n
    BY <1>1, <1>4
  <2> QED
    BY <1>1, <1>2, <2>1 DEF StackInv, n, h
<1>5. IsPlan(h)
  BY DEF h
<1>6. ASSUME NEW u \in Threads, NEW j \in 1..Len(agenda[u]),
             IsPlan(Deep(agenda, u, j)) \/ Deep(agenda, u, j).call = "then"
      PROVE  u = t /\ j \in 1..n
  BY <1>2, <1>6 DEF StackInv, n
<1>7. NoThens
  <2> SUFFICES ASSUME NEW o \in Outputs, NEW s \in Signals, Pending(agenda, ThenOn(o, s)) # 0
               PROVE  FALSE
    BY DEF NoThens
  <2>1. PICK u \in Threads : \E j \in 1..Len(agenda[u]) : Deep(agenda, u, j) = ThenOn(o, s)
    BY <1>3, PendingType
  <2>2. PICK j \in 1..Len(agenda[u]) : Deep(agenda, u, j) = ThenOn(o, s)
    BY <2>1
  <2>3. ThenOn(o, s).call = "then" /\ ~IsPlan(ThenOn(o, s))
    BY Fields DEF ThenOn, IsPlan
  <2>4. u = t /\ j \in 1..n
    BY <1>6, <2>2, <2>3
  <2> QED
    BY <1>1, <1>4, <1>5, <2>2, <2>3, <2>4
<1>8. ASSUME NEW c, IsPlan(c), Pending(agenda, c) > 0
      PROVE  c = h \/ Before(h, c)
  <2>1. PICK u \in Threads : \E j \in 1..Len(agenda[u]) : Deep(agenda, u, j) = c
    BY <1>3, <1>8, PendingType
  <2>2. PICK j \in 1..Len(agenda[u]) : Deep(agenda, u, j) = c
    BY <2>1
  <2>3. u = t /\ j \in 1..n
    BY <1>6, <1>8, <2>2
  <2> QED
    BY <1>1, <1>4, <2>2, <2>3
<1>9. ~Before(h, h)
  <2>1. ~(h.call = "combine" /\ h.out \in Outs /\ Earlier(h.out, h.out))
    BY <1>1, ExprFacts
  <2>2. Earlier(h.out, h.out) => h.out \in Outs
    BY DEF Earlier, Outs
  <2> QED
    BY <2>1, <2>2 DEF Before
<1>10. PlacesOf(agenda, h) = {<<t, n>>}
  <2>1. <<t, n>> \in PlacesOf(agenda, h)
    BY <1>1 DEF PlacesOf, Places, n
  <2>2. ASSUME NEW p \in PlacesOf(agenda, h) PROVE p = <<t, n>>
    <3>1. p = <<p[1], p[2]>> /\ p[1] \in Threads /\ p[2] \in 1..Len(agenda[p[1]])
          /\ Deep(agenda, p[1], p[2]) = h
      BY DEF PlacesOf, Places
    <3>2. p[1] = t /\ p[2] \in 1..n
      BY <1>5, <1>6, <3>1
    <3>3. p[2] = n
      BY <1>4, <1>9, <3>1, <3>2
    <3> QED
      BY <3>1, <3>2, <3>3
  <2> QED
    BY <2>1, <2>2
<1>11. Pending(agenda, h) = 1
  BY <1>10, FS_Singleton DEF Pending
<1> QED
  BY <1>2, <1>7, <1>8, <1>11 DEF h

\* When a combination is evaluated, its operands are there and still held.
LEMMA CombineTop ==
  ASSUME Types, StackInv, PlanInv, MadeInv, NEW t \in Threads, At(t, "combine"),
         NEW o, o = Out(t)
  PROVE  /\ Head(agenda[t]) = CombineOf(o) /\ o \in Outs /\ value[o] = Null /\ NoThens
         /\ Pending(agenda, CombineOf(o)) = 1 /\ Forgets
         /\ \A w \in Terms(o) : w \in Outputs => Held(w) /\ w # o
         /\ Left(o) \in Signals \ {o} /\ Right(o) \in (Signals \ {o}) \cup {Null, True, False}
         /\ \A c : IsPlan(c) /\ Pending(agenda, c) > 0 => c = CombineOf(o) \/ Before(CombineOf(o), c)
<1>1. agenda[t] # <<>> /\ Head(agenda[t]) \in AgendaCalls /\ Head(agenda[t]).call = "combine"
      /\ Pending(agenda, Head(agenda[t])) > 0 /\ expr \in Expressions
  BY Top DEF At, Types
<1>2. Head(agenda[t]) = CombineOf(o) /\ o \in Outputs
  BY <1>1, Kinds DEF Out
<1>3. o \in Outs /\ value[o] = Null /\ Forgets
  BY <1>1, <1>2 DEF PlanInv
<1>4. /\ NoThens /\ Pending(agenda, CombineOf(o)) = 1
      /\ \A c : IsPlan(c) /\ Pending(agenda, c) > 0 => c = CombineOf(o) \/ Before(CombineOf(o), c)
  BY <1>1, <1>2, TopPlan DEF IsPlan
<1>5. ASSUME NEW w \in Terms(o), w \in Outputs
      PROVE  Held(w) /\ w # o
  <2>1. w \in Outs /\ Earlier(w, o) /\ w # Result(expr) /\ ~Earlier(o, w) /\ w # o
    BY <1>1, <1>3, <1>5, ExprFacts
  <2>2. value[w] # Null
    <3> SUFFICES ASSUME value[w] = Null PROVE FALSE
      OBVIOUS
    <3>1. Pending(agenda, CombineOf(w)) > 0
      BY <1>5, <2>1 DEF PlanInv
    <3>2. CombineOf(w) # CombineOf(o) /\ IsPlan(CombineOf(w)) /\ ~Before(CombineOf(o), CombineOf(w))
      BY <2>1, Fields DEF CombineOf, IsPlan, Before
    <3> QED
      BY <1>4, <3>1, <3>2
  <2>3. \A p \in Outs : w \in Terms(p) => value[p] = Null
    BY <1>1, <1>3, <1>5, ExprFacts
  <2> QED
    BY <2>1, <2>2, <2>3 DEF Held
<1>6. ASSUME NEW w \in Terms(o) PROVE Operand(w) \in (Signals \ {o}) \cup ({w} \cap {Null, True, False})
  <2>1. w \in Inputs \cup Outputs \cup {Null, True, False}
    BY <1>1, <1>3, ExprFacts DEF Terms, Combination
  <2>2. CASE w \in Outputs
    <3>1. value[w] \in Signals \cup {Null} /\ value[w] # Null
      BY <1>5, <2>2 DEF Held, Types
    <3>2. value[w] # o
      BY <1>2, <1>3, <2>2, CombinatorsAssumption DEF MadeInv, Made, Signals
    <3> QED
      BY <2>2, <3>1, <3>2 DEF Operand
  <2>3. CASE w \in Inputs
    BY <1>2, <2>3, CombinatorsAssumption DEF Operand, Signals
  <2>4. CASE w \in {Null, True, False}
    BY <2>4, CombinatorsAssumption DEF Operand, Signals
  <2> QED
    BY <2>1, <2>2, <2>3, <2>4
<1>7. Term(o).left \notin {Null, True, False}
  <2>1. Term(o).left \in Inputs \cup Outputs
    BY <1>1, <1>3, ExprFacts DEF Combination
  <2> QED
    BY <2>1, CombinatorsAssumption DEF Signals
<1>8. Left(o) \in Signals \ {o} /\ Right(o) \in (Signals \ {o}) \cup {Null, True, False}
  BY <1>6, <1>7 DEF Left, Right, Terms
<1> QED
  BY <1>2, <1>3, <1>4, <1>5, <1>8

-----------------------------------------------------------------------------
(***************************************************************************)
(* What each step does, in the terms of the invariant: how the counts      *)
(* change, and what is known when it is taken.                             *)
(***************************************************************************)
Counted == /\ Stacks(agenda', AgendaCalls)
           /\ \A c : Pending(agenda, c) \in Nat /\ Pending(agenda', c) \in Nat

\* Dropping x, as a count of c.
Lost(x, c) == IF x \in Outputs THEN One(UnrefOf(x), c) ELSE 0

Ready(o) == /\ o \in Outs /\ value[o] = Null /\ NoThens /\ Forgets
            /\ Pending(agenda, CombineOf(o)) = 1
            /\ \A w \in Terms(o) : w \in Outputs => Held(w) /\ w # o
            /\ Left(o) \in Signals \ {o} /\ Right(o) \in (Signals \ {o}) \cup {Null, True, False}

Shortcuts(o, v, l, r) ==
    /\ Counted /\ Ready(o) /\ l = Left(o) /\ r = Right(o)
    /\ \/ v = l /\ r \in {Null, True, False}
       \/ v = Never /\ ~IsOr(o)
       \/ v = Done /\ IsOr(o) /\ (r = True \/ l \in go \/ r \in go)
    /\ \A c : Pending(agenda', c) + One(CombineOf(o), c)
                = Pending(agenda, c) + (IF v = l THEN 0 ELSE Lost(l, c)) + Lost(r, c)
    /\ value' = [value EXCEPT ![o] = v]
    /\ UNCHANGED <<expr, go, jobs, deps, remaining, refs, answer, returned>>

MakesOr(o, l, r) ==
    /\ Counted /\ Ready(o) /\ IsOr(o) /\ l = Left(o) /\ r = Right(o) /\ l \in Signals \ go /\ r \in Signals \ go
    /\ \A c : Pending(agenda', c) + One(CombineOf(o), c)
                = Pending(agenda, c) + One(ThenOn(o, l), c) + One(ThenOn(o, r), c) + One(ThenOn(o, o), c)
                    + Lost(l, c) + Lost(r, c)
    /\ value' = [value EXCEPT ![o] = o]
    /\ deps' = [deps EXCEPT ![o] = <<l, r>>]
    /\ refs' = [s \in Outputs |-> refs[s] + One(l, s) + One(r, s) + One(o, s)]
    /\ UNCHANGED <<expr, go, jobs, remaining, answer, returned>>

MakesAnd(o, l, r) ==
    /\ Counted /\ Ready(o) /\ ~IsOr(o) /\ l = Left(o) /\ r = Right(o) /\ l \in Signals /\ r \in Signals
    /\ \A c : Pending(agenda', c) + One(CombineOf(o), c)
                = Pending(agenda, c) + One(ThenOn(o, l), c) + One(ThenOn(o, r), c) + Lost(l, c) + Lost(r, c)
    /\ value' = [value EXCEPT ![o] = o]
    /\ remaining' = [remaining EXCEPT ![o] = 2]
    /\ refs' = [refs EXCEPT ![o] = 2]
    /\ UNCHANGED <<expr, go, jobs, deps, answer, returned>>

\* What is registered with s, and that nothing is left to register with the
\* operands when the cleanup is.
Registers(o, s, j) ==
    /\ o \in Outputs /\ s \in Signals /\ Pending(agenda, ThenOn(o, s)) > 0
    /\ j = IF s = o THEN CleanupOf(o) ELSE IF IsOr(o) THEN FireOf(o) ELSE DoneOf(o)
    /\ s = o /\ IsOr(o) /\ Pending(agenda, ThenOn(o, o)) = 1 =>
          \A d \in Signals : d # o => Pending(agenda, ThenOn(o, d)) = 0

Queues(o, s, j) ==
    /\ Counted /\ Registers(o, s, j) /\ s \notin go
    /\ \A c : Pending(agenda', c) + One(ThenOn(o, s), c) = Pending(agenda, c)
    /\ jobs' \in [Signals -> Seq(JobCalls)]
    /\ \A q \in Signals \ {s} : jobs'[q] = jobs[q]
    /\ \A c : Occ(jobs'[s], c) = Occ(jobs[s], c) + One(j, c)
    /\ UNCHANGED <<expr, go, value, deps, remaining, refs, answer, returned>>

Runs(o, s, j) ==
    /\ Counted /\ Registers(o, s, j) /\ s \in go
    /\ \A c : Pending(agenda', c) + One(ThenOn(o, s), c) = Pending(agenda, c) + One(j, c)
    /\ UNCHANGED <<expr, go, jobs, value, deps, remaining, refs, answer, returned>>

\* h is the call of go(): who holds the signal, and what the Future has.
Goes(h, s) ==
    /\ s \in Signals /\ Pending(agenda, h) > 0
    /\ \/ h = GoOn(s) /\ s \in Outputs /\ Pending(agenda, UnrefOf(s)) > 0
       \/ h = GoIn(s) /\ s \in Inputs /\ (s = Future => answer # Null)

Activates(h, s) ==
    /\ Counted /\ Goes(h, s) /\ s \notin go
    /\ \A c : Pending(agenda', c) + One(h, c) = Pending(agenda, c) + Occ(jobs[s], c)
    /\ go' = go \cup {s}
    /\ jobs' = [jobs EXCEPT ![s] = <<>>]
    /\ UNCHANGED <<expr, value, deps, remaining, refs, answer, returned>>

ActivatesAgain(h, s) ==
    /\ Counted /\ Goes(h, s) /\ s \in go
    /\ \A c : Pending(agenda', c) + One(h, c) = Pending(agenda, c)
    /\ UNCHANGED <<expr, go, jobs, value, deps, remaining, refs, answer, returned>>

Removes(o, s) ==
    /\ Counted /\ o \in Outputs /\ s \in Signals /\ Pending(agenda, RemoveOn(o, s)) > 0
    /\ \A c : Pending(agenda', c) + One(RemoveOn(o, s), c) = Pending(agenda, c)
    /\ jobs' \in [Signals -> Seq(JobCalls)]
    /\ \A q \in Signals : q # s \/ q \in go => jobs'[q] = jobs[q]
    /\ s \notin go => \A c : Occ(jobs[s], c) =
          Occ(jobs'[s], c) + (IF Occ(jobs[s], FireOf(o)) > 0 THEN One(FireOf(o), c) ELSE 0)
    /\ UNCHANGED <<expr, go, value, deps, remaining, refs, answer, returned>>

Waits(o) ==
    /\ Counted /\ o \in Outputs /\ Pending(agenda, WaitOf(o)) = 1 /\ NoThens /\ value[o] \in go
    /\ \A p \in Outputs : Pending(agenda, CombineOf(p)) = 0
    /\ \A c : Pending(agenda', c) + One(WaitOf(o), c) = Pending(agenda, c)
    /\ UNCHANGED <<expr, go, jobs, value, deps, remaining, refs, answer, returned>>

FiresDead(o) ==
    /\ Counted /\ o \in Outputs /\ Pending(agenda, FireOf(o)) > 0 /\ refs[o] = 0
    /\ \A c : Pending(agenda', c) + One(FireOf(o), c) = Pending(agenda, c)
    /\ UNCHANGED <<expr, go, jobs, value, deps, remaining, refs, answer, returned>>

Fires(o) ==
    /\ Counted /\ o \in Outputs /\ Pending(agenda, FireOf(o)) > 0 /\ refs[o] > 0
    /\ \A c : Pending(agenda', c) + One(FireOf(o), c) = Pending(agenda, c) + One(GoOn(o), c) + One(UnrefOf(o), c)
    /\ refs' = [refs EXCEPT ![o] = @ + 1]
    /\ UNCHANGED <<expr, go, jobs, value, deps, remaining, answer, returned>>

CleansNothing(o) ==
    /\ Counted /\ o \in Outputs /\ Pending(agenda, CleanupOf(o)) > 0 /\ deps[o] = <<>>
    /\ \A c : Pending(agenda', c) + One(CleanupOf(o), c) = Pending(agenda, c)
    /\ UNCHANGED <<expr, go, jobs, value, deps, remaining, refs, answer, returned>>

Cleans(o, l, r) ==
    /\ Counted /\ o \in Outputs /\ Pending(agenda, CleanupOf(o)) > 0
    /\ l = Left(o) /\ r = Right(o) /\ l \in Signals /\ r \in Signals /\ deps[o] # <<>>
    /\ \A c : Pending(agenda', c) + One(CleanupOf(o), c)
                = Pending(agenda, c) + One(RemoveOn(o, l), c) + One(RemoveOn(o, r), c) + Lost(l, c) + Lost(r, c)
    /\ deps' = [deps EXCEPT ![o] = <<>>]
    /\ UNCHANGED <<expr, go, jobs, value, remaining, refs, answer, returned>>

Counts1(o) ==
    /\ Counted /\ o \in Outputs /\ Pending(agenda, DoneOf(o)) > 0 /\ remaining[o] # 1
    /\ \A c : Pending(agenda', c) + One(DoneOf(o), c) = Pending(agenda, c)
    /\ remaining' = [remaining EXCEPT ![o] = @ - 1]
    /\ UNCHANGED <<expr, go, jobs, value, deps, refs, answer, returned>>

CountsLast(o) ==
    /\ Counted /\ o \in Outputs /\ Pending(agenda, DoneOf(o)) > 0 /\ remaining[o] = 1
    /\ \A c : Pending(agenda', c) + One(DoneOf(o), c) = Pending(agenda, c) + One(GoOn(o), c) + One(UnrefOf(o), c)
    /\ remaining' = [remaining EXCEPT ![o] = @ - 1]
    /\ UNCHANGED <<expr, go, jobs, value, deps, refs, answer, returned>>

Unrefs(o) ==
    /\ Counted /\ o \in Outputs /\ Pending(agenda, UnrefOf(o)) > 0 /\ refs[o] > 1
    /\ \A c : Pending(agenda', c) + One(UnrefOf(o), c) = Pending(agenda, c)
    /\ refs' = [refs EXCEPT ![o] = @ - 1]
    /\ UNCHANGED <<expr, go, jobs, value, deps, remaining, answer, returned>>

Frees(o) ==
    /\ Counted /\ o \in Outputs /\ Pending(agenda, UnrefOf(o)) > 0 /\ refs[o] = 1
    /\ \A c : Pending(agenda', c) + One(UnrefOf(o), c)
                = Pending(agenda, c) + (IF IsOr(o) THEN One(CleanupOf(o), c) ELSE 0)
    /\ refs' = [refs EXCEPT ![o] = @ - 1]
    /\ jobs' = [jobs EXCEPT ![o] = <<>>]
    /\ UNCHANGED <<expr, go, value, deps, remaining, answer, returned>>

ForgetsIt(o) ==
    /\ Counted /\ o \in Outputs /\ o = Result(expr) /\ value[o] # Null /\ NoThens
    /\ \A p \in Outputs : /\ Pending(agenda, CombineOf(p)) = 0 /\ Pending(agenda, WaitOf(p)) = 0
                          /\ Pending(agenda, ForgetOf(p)) = One(o, p)
    /\ \A c : Pending(agenda', c) + One(ForgetOf(o), c) = Pending(agenda, c) + Lost(value[o], c)
    /\ UNCHANGED <<expr, go, jobs, value, deps, remaining, refs, answer, returned>>

Assigns ==
    /\ Counted /\ \A c : Pending(agenda', c) + One(AssignIt, c) = Pending(agenda, c)
    /\ answer' = "assigned"
    /\ UNCHANGED <<expr, go, jobs, value, deps, remaining, refs, returned>>

Reads(o) ==
    /\ Counted /\ o \in Outputs /\ Pending(agenda, ReadOf(o)) = 1 /\ NoThens
    /\ \A p \in Outputs : /\ Pending(agenda, CombineOf(p)) = 0 /\ Pending(agenda, WaitOf(p)) = 0
    /\ \A c : Pending(agenda', c) + One(ReadOf(o), c) = Pending(agenda, c)
    /\ returned' = {answer}
    /\ UNCHANGED <<expr, go, jobs, value, deps, remaining, refs, answer>>

Begin(s) ==
    /\ Counted /\ s \in Inputs
    /\ \A c : Pending(agenda', c) = Pending(agenda, c) + (IF s = Future THEN One(AssignIt, c) ELSE 0) + One(GoIn(s), c)
    /\ UNCHANGED <<expr, go, jobs, value, deps, remaining, refs, answer, returned>>

\* What is dropped.
LEMMA OccDrop ==
  ASSUME NEW x
  PROVE  /\ Drop(x) \in Seq(AgendaCalls)
         /\ \A c : Occ(Drop(x), c) = Lost(x, c) /\ Lost(x, c) \in Nat
<1>1. \A o \in Outputs : UnrefOf(o) \in AgendaCalls
  BY DEF AgendaCalls
<1>2. Drop(x) = IF x \in Outputs THEN <<UnrefOf(x)>> ELSE <<>>
  BY DEF Drop, UnrefOf
<1>3. ASSUME NEW c PROVE Occ(Drop(x), c) = Lost(x, c) /\ Lost(x, c) \in Nat
  BY <1>2, OccShort DEF Lost, One
<1> QED
  BY <1>1, <1>2, <1>3

\* A combination that makes nothing.
LEMMA ShortcutDoes ==
  ASSUME Inv, NEW t \in Threads, CombineShortcut(t)
  PROVE  \E o \in Outputs : \E v, l, r : Shortcuts(o, v, l, r)
<1> DEFINE o == Out(t)
           l == Left(o)
           r == Right(o)
           d(x, v) == IF x = v THEN <<>> ELSE Drop(x)
<1>1. At(t, "combine") /\ agenda[t] # <<>>
  BY DEF CombineShortcut, At
<1>2. Head(agenda[t]) = CombineOf(o) /\ Ready(o) /\ o \in Outputs
  <2>1. Outs \subseteq Outputs
    BY ExprFacts DEF Inv, Types
  <2> QED
    BY <1>1, <2>1, CombineTop DEF Inv, Ready
<1>3. PICK v : /\ Shortcut(t, v)
               /\ \/ v = l /\ r \in {Null, True, False}
                  \/ v = Never /\ ~IsOr(o)
                  \/ v = Done /\ IsOr(o) /\ (r = True \/ l \in go \/ r \in go)
  BY DEF CombineShortcut, IsOr
<1> HIDE DEF o, l, r
<1>4. Follow(t, d(l, v) \o d(r, v))
  BY <1>3 DEF Shortcut, o, l, r
<1>5. d(l, v) \in Seq(AgendaCalls) /\ d(r, v) \in Seq(AgendaCalls)
  BY OccDrop
<1>6. \A c : Occ(d(l, v), c) = IF l = v THEN 0 ELSE Lost(l, c)
  BY OccDrop, OccShort
<1>7. \A c : Occ(d(r, v), c) = Lost(r, c)
  <2>1. r = v => r \notin Outputs
    <3>1. {Done, Never, Null, True, False} \cap Outputs = {}
      BY CombinatorsAssumption DEF Signals
    <3> QED
      BY <1>3, <3>1
  <2> QED
    BY <2>1, OccDrop, OccShort DEF Lost
<1> HIDE DEF d
<1>8. d(l, v) \o d(r, v) \in Seq(AgendaCalls) /\ \A c : Occ(d(l, v) \o d(r, v), c) = Occ(d(l, v), c) + Occ(d(r, v), c)
  BY <1>5, OccConcat
<1>9. Paid(CombineOf(o), d(l, v) \o d(r, v))
  BY <1>1, <1>2, <1>4, <1>8, Pays DEF Inv
<1>10. \A c : (IF v = l THEN 0 ELSE Lost(l, c)) \in Nat /\ Lost(r, c) \in Nat
  BY OccDrop
<1>11. \A c : Pending(agenda', c) + One(CombineOf(o), c)
                = Pending(agenda, c) + (IF v = l THEN 0 ELSE Lost(l, c)) + Lost(r, c)
  BY <1>6, <1>7, <1>8, <1>9, <1>10 DEF Paid
<1>12. value' = [value EXCEPT ![o] = v] /\ UNCHANGED <<expr, go, jobs, deps, remaining, refs, answer, returned>>
  BY <1>3 DEF Shortcut, o
<1>13. Counted
  BY <1>9 DEF Paid, Counted
<1>14. Shortcuts(o, v, l, r)
  BY <1>2, <1>3, <1>11, <1>12, <1>13 DEF Shortcuts, l, r
<1> QED
  BY <1>2, <1>14

\* An OrSignal is made.
LEMMA OrDoes ==
  ASSUME Inv, NEW t \in Threads, CombineOr(t)
  PROVE  \E o \in Outputs : \E l, r : MakesOr(o, l, r)
<1> DEFINE o == Out(t)
           l == Left(o)
           r == Right(o)
           q == <<Do("then", o, l), Do("then", o, r), Do("then", o, o)>>
<1>1. At(t, "combine") /\ agenda[t] # <<>>
  BY DEF CombineOr, At
<1>2. Head(agenda[t]) = CombineOf(o) /\ Ready(o) /\ o \in Outputs
  <2>1. Outs \subseteq Outputs
    BY ExprFacts DEF Inv, Types
  <2> QED
    BY <1>1, <2>1, CombineTop DEF Inv, Ready
<1>3. /\ IsOr(o) /\ l \in Signals \ go /\ r \in Signals \ go
      /\ value' = [value EXCEPT ![o] = o]
      /\ deps' = [deps EXCEPT ![o] = <<l, r>>]
      /\ refs' = [s \in Outputs |-> refs[s] + One(l, s) + One(r, s) + One(o, s)]
      /\ Follow(t, q \o Drop(l) \o Drop(r))
      /\ UNCHANGED <<expr, go, jobs, remaining, answer, returned>>
  BY DEF CombineOr, IsOr
<1> HIDE DEF o, l, r
<1>4. q \in Seq(AgendaCalls) /\ \A c : Occ(q, c) = One(ThenOn(o, l), c) + One(ThenOn(o, r), c) + One(ThenOn(o, o), c)
  <2>1. o \in Signals
    BY <1>2 DEF Signals
  <2>2. ThenOn(o, l) \in AgendaCalls /\ ThenOn(o, r) \in AgendaCalls /\ ThenOn(o, o) \in AgendaCalls
    BY <1>2, <1>3, <2>1 DEF AgendaCalls
  <2>3. q = <<ThenOn(o, l), ThenOn(o, r), ThenOn(o, o)>>
    BY DEF ThenOn
  <2> QED
    BY <2>2, <2>3, OccShort
<1>5. /\ Drop(l) \in Seq(AgendaCalls) /\ Drop(r) \in Seq(AgendaCalls)
      /\ \A c : Occ(Drop(l), c) = Lost(l, c) /\ Occ(Drop(r), c) = Lost(r, c) /\ Lost(l, c) \in Nat /\ Lost(r, c) \in Nat
  BY OccDrop
<1> HIDE DEF q
<1>6. q \o Drop(l) \in Seq(AgendaCalls) /\ \A c : Occ(q \o Drop(l), c) = Occ(q, c) + Occ(Drop(l), c)
  BY <1>4, <1>5, OccConcat, ConcatProperties
<1>7. /\ (q \o Drop(l)) \o Drop(r) \in Seq(AgendaCalls)
      /\ \A c : Occ((q \o Drop(l)) \o Drop(r), c) = Occ(q \o Drop(l), c) + Occ(Drop(r), c)
  <2> DEFINE p == q \o Drop(l)
  <2>1. p \in Seq(AgendaCalls) /\ Drop(r) \in Seq(AgendaCalls)
    BY <1>5, <1>6
  <2> HIDE DEF p
  <2>2. p \o Drop(r) \in Seq(AgendaCalls) /\ \A c : Occ(p \o Drop(r), c) = Occ(p, c) + Occ(Drop(r), c)
    BY <2>1, OccConcat, ConcatProperties
  <2> QED
    BY <2>2 DEF p
<1>8. Paid(CombineOf(o), (q \o Drop(l)) \o Drop(r))
  BY <1>1, <1>2, <1>3, <1>7, Pays DEF Inv
<1>9. \A c : Pending(agenda', c) + One(CombineOf(o), c)
                = Pending(agenda, c) + One(ThenOn(o, l), c) + One(ThenOn(o, r), c) + One(ThenOn(o, o), c)
                    + Lost(l, c) + Lost(r, c)
  <2>1. \A x, c : One(x, c) \in Nat
    BY DEF One
  <2> QED
    BY <1>4, <1>5, <1>6, <1>7, <1>8, <2>1 DEF Paid
<1>10. Counted
  BY <1>8 DEF Paid, Counted
<1>11. MakesOr(o, l, r)
  BY <1>2, <1>3, <1>9, <1>10 DEF MakesOr, l, r
<1> QED
  BY <1>2, <1>11

\* An AndSignals is made.
LEMMA AndDoes ==
  ASSUME Inv, NEW t \in Threads, CombineAnd(t)
  PROVE  \E o \in Outputs : \E l, r : MakesAnd(o, l, r)
<1> DEFINE o == Out(t)
           l == Left(o)
           r == Right(o)
           q == <<Do("then", o, l), Do("then", o, r)>>
<1>1. At(t, "combine") /\ agenda[t] # <<>>
  BY DEF CombineAnd, At
<1>2. Head(agenda[t]) = CombineOf(o) /\ Ready(o) /\ o \in Outputs
  <2>1. Outs \subseteq Outputs
    BY ExprFacts DEF Inv, Types
  <2> QED
    BY <1>1, <2>1, CombineTop DEF Inv, Ready
<1>3. /\ ~IsOr(o) /\ l \in Signals /\ r \in Signals
      /\ value' = [value EXCEPT ![o] = o]
      /\ remaining' = [remaining EXCEPT ![o] = 2]
      /\ refs' = [refs EXCEPT ![o] = 2]
      /\ Follow(t, q \o Drop(l) \o Drop(r))
      /\ UNCHANGED <<expr, go, jobs, deps, answer, returned>>
  BY DEF CombineAnd, IsOr
<1> HIDE DEF o, l, r
<1>4. q \in Seq(AgendaCalls) /\ \A c : Occ(q, c) = One(ThenOn(o, l), c) + One(ThenOn(o, r), c)
  <2>1. ThenOn(o, l) \in AgendaCalls /\ ThenOn(o, r) \in AgendaCalls
    BY <1>2, <1>3 DEF AgendaCalls
  <2>2. q = <<ThenOn(o, l), ThenOn(o, r)>>
    BY DEF ThenOn
  <2> QED
    BY <2>1, <2>2, OccShort
<1>5. /\ Drop(l) \in Seq(AgendaCalls) /\ Drop(r) \in Seq(AgendaCalls)
      /\ \A c : Occ(Drop(l), c) = Lost(l, c) /\ Occ(Drop(r), c) = Lost(r, c) /\ Lost(l, c) \in Nat /\ Lost(r, c) \in Nat
  BY OccDrop
<1> HIDE DEF q
<1>6. q \o Drop(l) \in Seq(AgendaCalls) /\ \A c : Occ(q \o Drop(l), c) = Occ(q, c) + Occ(Drop(l), c)
  BY <1>4, <1>5, OccConcat, ConcatProperties
<1>7. /\ (q \o Drop(l)) \o Drop(r) \in Seq(AgendaCalls)
      /\ \A c : Occ((q \o Drop(l)) \o Drop(r), c) = Occ(q \o Drop(l), c) + Occ(Drop(r), c)
  <2> DEFINE p == q \o Drop(l)
  <2>1. p \in Seq(AgendaCalls) /\ Drop(r) \in Seq(AgendaCalls)
    BY <1>5, <1>6
  <2> HIDE DEF p
  <2>2. p \o Drop(r) \in Seq(AgendaCalls) /\ \A c : Occ(p \o Drop(r), c) = Occ(p, c) + Occ(Drop(r), c)
    BY <2>1, OccConcat, ConcatProperties
  <2> QED
    BY <2>2 DEF p
<1>8. Paid(CombineOf(o), (q \o Drop(l)) \o Drop(r))
  BY <1>1, <1>2, <1>3, <1>7, Pays DEF Inv
<1>9. \A c : Pending(agenda', c) + One(CombineOf(o), c)
                = Pending(agenda, c) + One(ThenOn(o, l), c) + One(ThenOn(o, r), c) + Lost(l, c) + Lost(r, c)
  <2>1. \A x, c : One(x, c) \in Nat
    BY DEF One
  <2> QED
    BY <1>4, <1>5, <1>6, <1>7, <1>8, <2>1 DEF Paid
<1>10. Counted
  BY <1>8 DEF Paid, Counted
<1>11. MakesAnd(o, l, r)
  BY <1>2, <1>3, <1>9, <1>10 DEF MakesAnd, l, r
<1> QED
  BY <1>2, <1>11

\* Nothing is left to register with the operands when the cleanup is registered.
LEMMA ThenTop ==
  ASSUME Inv, NEW t \in Threads, agenda[t] # <<>>, NEW o \in Outputs, NEW s \in Signals,
         Head(agenda[t]) = ThenOn(o, s),
         NEW j, j = IF s = o THEN CleanupOf(o) ELSE IF IsOr(o) THEN FireOf(o) ELSE DoneOf(o)
  PROVE  Registers(o, s, j)
<1>1. Stacks(agenda, AgendaCalls) /\ StackInv
  BY DEF Inv, Types
<1> DEFINE n == Len(agenda[t])
<1>2. n \in 1..n /\ n \in Nat /\ Deep(agenda, t, n) = ThenOn(o, s) /\ Pending(agenda, ThenOn(o, s)) > 0
  <2>1. n \in Nat \ {0} /\ Deep(agenda, t, n) = ThenOn(o, s) /\ Pending(agenda, ThenOn(o, s)) > 0
    BY Top DEF Inv
  <2> HIDE DEF n
  <2> QED
    BY <2>1
<1>3. ThenOn(o, s).call = "then"
  BY Fields DEF ThenOn
<1>4. t = Builder
  BY <1>1, <1>2, <1>3 DEF StackInv
<1>5. ASSUME s = o, IsOr(o), Pending(agenda, ThenOn(o, o)) = 1,
             NEW d \in Signals, d # o, Pending(agenda, ThenOn(o, d)) # 0
      PROVE  FALSE
  <2>1. PICK u \in Threads : \E k \in 1..Len(agenda[u]) : Deep(agenda, u, k) = ThenOn(o, d)
    <3>1. Pending(agenda, ThenOn(o, d)) \in Nat
      BY <1>1, PendingType
    <3>2. Pending(agenda, ThenOn(o, d)) > 0
      BY <1>5, <3>1
    <3> QED
      BY <1>1, <3>2, PendingType
  <2>2. PICK k \in 1..Len(agenda[u]) : Deep(agenda, u, k) = ThenOn(o, d)
    BY <2>1
  <2>3. ThenOn(o, d).call = "then" /\ ThenOn(o, d) # ThenOn(o, o)
    BY <1>5, Fields DEF ThenOn
  <2>4. u = t /\ k \in 1..n
    BY <1>1, <1>4, <2>2, <2>3 DEF StackInv
  <2>5. PICK i \in 1..(k - 1) : Deep(agenda, t, i) = ThenOn(o, o)
    BY <1>1, <1>5, <2>2, <2>4 DEF StackInv
  <2>6. i \in 1..n /\ i \in Nat /\ i # n
    <3> HIDE DEF n
    <3> QED
      BY <1>2, <2>4, <2>5
  <2>7. {<<t, i>>, <<t, n>>} \subseteq PlacesOf(agenda, ThenOn(o, o))
    BY <1>2, <1>5, <2>5, <2>6 DEF PlacesOf, Places
  <2> DEFINE P == PlacesOf(agenda, ThenOn(o, o))
  <2>8. IsFiniteSet(P) /\ Cardinality(P) = 1
    BY <1>1, <1>5, PendingType DEF Pending
  <2>9. \E p : P = {p}
    <3> HIDE DEF P
    <3> QED
      BY <2>8, FS_Singleton
  <2>10. <<t, i>> # <<t, n>>
    BY <2>6
  <2> QED
    BY <2>7, <2>9, <2>10
<1>6. s = o /\ IsOr(o) /\ Pending(agenda, ThenOn(o, o)) = 1 =>
         \A d \in Signals : d # o => Pending(agenda, ThenOn(o, d)) = 0
  BY <1>5
<1> QED
  BY <1>2, <1>6 DEF Registers

\* What is queued is what a thread runs.
LEMMA JobsAre ==
  ASSUME Inv, NEW o \in Outputs, NEW s \in Signals, Pending(agenda, ThenOn(o, s)) > 0
  PROVE  /\ JobOf(o, s) = IF s = o THEN CleanupOf(o) ELSE IF IsOr(o) THEN FireOf(o) ELSE DoneOf(o)
         /\ JobOf(o, s) \in JobCalls
BY DEF JobOf, IsOr, CleanupOf, FireOf, DoneOf, JobCalls

\* then() queues.
LEMMA QueueDoes ==
  ASSUME Inv, NEW t \in Threads, ThenQueues(t)
  PROVE  \E o \in Outputs, s \in Signals : \E j : Queues(o, s, j)
<1> DEFINE o == Out(t)
           s == On(t)
           j == JobOf(o, s)
<1>1. agenda[t] # <<>> /\ Head(agenda[t]) \in AgendaCalls /\ Head(agenda[t]).call = "then"
  BY Top DEF ThenQueues, At, Inv
<1>2. Head(agenda[t]) = ThenOn(o, s) /\ o \in Outputs /\ s \in Signals
  BY <1>1, Kinds DEF Out, On
<1>3. /\ s \notin go /\ jobs' = [jobs EXCEPT ![s] = Append(@, j)] /\ Follow(t, <<>>)
      /\ UNCHANGED <<expr, go, value, deps, remaining, refs, answer, returned>>
  BY DEF ThenQueues
<1> HIDE DEF o, s
<1>4. Registers(o, s, j) /\ j \in JobCalls
  <2>1. Pending(agenda, ThenOn(o, s)) > 0
    BY <1>1, <1>2, Top DEF Inv
  <2> QED
    BY <1>1, <1>2, <2>1, ThenTop, JobsAre
<1> HIDE DEF j
<1>5. Paid(ThenOn(o, s), <<>>)
  <2>1. <<>> \in Seq(AgendaCalls)
    OBVIOUS
  <2> QED
    BY <1>1, <1>2, <1>3, <2>1, Pays DEF Inv
<1>6. Counted /\ \A c : Pending(agenda', c) + One(ThenOn(o, s), c) = Pending(agenda, c)
  BY <1>5, OccShort DEF Paid, Counted
<1>7. jobs \in [Signals -> Seq(JobCalls)]
  BY DEF Inv, Types
<1>8. /\ jobs' \in [Signals -> Seq(JobCalls)] /\ jobs'[s] = Append(jobs[s], j)
      /\ \A q \in Signals \ {s} : jobs'[q] = jobs[q]
  BY <1>2, <1>3, <1>4, <1>7
<1>9. \A c : Occ(jobs'[s], c) = Occ(jobs[s], c) + One(j, c)
  <2>1. jobs[s] \in Seq(JobCalls)
    BY <1>2, <1>7
  <2> QED
    BY <1>4, <1>8, <2>1, OccAppend
<1>10. Queues(o, s, j)
  BY <1>3, <1>4, <1>6, <1>8, <1>9 DEF Queues
<1> QED
  BY <1>2, <1>10

\* then() runs.
LEMMA RunDoes ==
  ASSUME Inv, NEW t \in Threads, ThenRuns(t)
  PROVE  \E o \in Outputs, s \in Signals : \E j : Runs(o, s, j)
<1> DEFINE o == Out(t)
           s == On(t)
           j == JobOf(o, s)
<1>1. agenda[t] # <<>> /\ Head(agenda[t]) \in AgendaCalls /\ Head(agenda[t]).call = "then"
  BY Top DEF ThenRuns, At, Inv
<1>2. Head(agenda[t]) = ThenOn(o, s) /\ o \in Outputs /\ s \in Signals
  BY <1>1, Kinds DEF Out, On
<1>3. /\ s \in go /\ Follow(t, <<j>>)
      /\ UNCHANGED <<expr, go, jobs, value, deps, remaining, refs, answer, returned>>
  BY DEF ThenRuns
<1> HIDE DEF o, s
<1>4. Registers(o, s, j) /\ j \in JobCalls
  <2>1. Pending(agenda, ThenOn(o, s)) > 0
    BY <1>1, <1>2, Top DEF Inv
  <2> QED
    BY <1>1, <1>2, <2>1, ThenTop, JobsAre
<1> HIDE DEF j
<1>5. Paid(ThenOn(o, s), <<j>>)
  <2>1. <<j>> \in Seq(AgendaCalls)
    BY <1>4, AgendaCallsAreCalls
  <2> QED
    BY <1>1, <1>2, <1>3, <2>1, Pays DEF Inv
<1>6. Counted /\ \A c : Pending(agenda', c) + One(ThenOn(o, s), c) = Pending(agenda, c) + One(j, c)
  BY <1>5, OccShort DEF Paid, Counted
<1>7. Runs(o, s, j)
  BY <1>3, <1>4, <1>6 DEF Runs
<1> QED
  BY <1>2, <1>7

\* What is known of the signal that is activated.
LEMMA GoTop ==
  ASSUME Inv, NEW t \in Threads, At(t, "go"), NEW s, s = On(t)
  PROVE  Goes(Head(agenda[t]), s)
<1> DEFINE n == Len(agenda[t])
           h == Head(agenda[t])
<1>1. agenda[t] # <<>> /\ h \in AgendaCalls /\ h.call = "go"
  BY Top DEF At, Inv
<1>2. n \in Nat \ {0} /\ Deep(agenda, t, n) = h /\ Pending(agenda, h) > 0
  BY <1>1, Top DEF Inv
<1>3. n \in 1..n /\ ~(n + 1 <= n) /\ (n > 1 => n - 1 \in 1..n)
  <2> HIDE DEF n
  <2> QED
    BY <1>2
<1>4. Stacks(agenda, AgendaCalls) /\ StackInv
  BY DEF Inv, Types
<1> HIDE DEF n, h
<1>5. \/ s \in Outputs /\ h = GoOn(s)
      \/ s \in Inputs /\ h = GoIn(s)
  BY <1>1, Kinds DEF On, h
<1>6. CASE s \in Outputs /\ h = GoOn(s)
  <2>1. n > 1 /\ Deep(agenda, t, n - 1) = UnrefOf(s)
    BY <1>2, <1>3, <1>4, <1>6 DEF StackInv, n
  <2>2. Pending(agenda, UnrefOf(s)) > 0
    BY <1>3, <1>4, <2>1, PendingType DEF n
  <2> QED
    BY <1>2, <1>6, <2>2 DEF Goes, Signals, h
<1>7. CASE s \in Inputs /\ h = GoIn(s)
  <2>1. s = Future => answer # Null
    BY <1>2, <1>3, <1>4, <1>7 DEF StackInv, n
  <2> QED
    BY <1>2, <1>7, <2>1 DEF Goes, Signals, h
<1> QED
  BY <1>5, <1>6, <1>7

\* The first go().
LEMMA GoDoes ==
  ASSUME Inv, NEW t \in Threads, GoFirst(t)
  PROVE  \E s \in Signals : \E h : Activates(h, s)
<1> DEFINE s == On(t)
           h == Head(agenda[t])
<1>1. At(t, "go") /\ agenda[t] # <<>>
  BY DEF GoFirst, At
<1>2. Goes(h, s) /\ s \in Signals
  <2>1. Goes(h, s)
    BY <1>1, GoTop
  <2> QED
    BY <2>1 DEF Goes
<1>3. /\ s \notin go /\ go' = go \cup {s} /\ jobs' = [jobs EXCEPT ![s] = <<>>] /\ Follow(t, jobs[s])
      /\ UNCHANGED <<expr, value, deps, remaining, refs, answer, returned>>
  BY DEF GoFirst
<1> HIDE DEF s
<1>4. jobs[s] \in Seq(JobCalls)
  BY <1>2 DEF Inv, Types
<1>5. jobs[s] \in Seq(AgendaCalls)
  <2>1. JobCalls \subseteq AgendaCalls
    BY AgendaCallsAreCalls
  <2> QED
    BY <1>4, <2>1
<1>6. Paid(h, jobs[s])
  BY <1>1, <1>3, <1>5, Pays DEF Inv
<1>7. Activates(h, s)
  BY <1>2, <1>3, <1>6 DEF Activates, Paid, Counted
<1> QED
  BY <1>2, <1>7

\* A later go().
LEMMA GoAgainDoes ==
  ASSUME Inv, NEW t \in Threads, GoAgain(t)
  PROVE  \E s \in Signals : \E h : ActivatesAgain(h, s)
<1> DEFINE s == On(t)
           h == Head(agenda[t])
<1>1. At(t, "go") /\ agenda[t] # <<>>
  BY DEF GoAgain, At
<1>2. Goes(h, s) /\ s \in Signals
  <2>1. Goes(h, s)
    BY <1>1, GoTop
  <2> QED
    BY <2>1 DEF Goes
<1>3. /\ s \in go /\ Follow(t, <<>>)
      /\ UNCHANGED <<expr, go, jobs, value, deps, remaining, refs, answer, returned>>
  BY DEF GoAgain
<1> HIDE DEF s
<1>4. Paid(h, <<>>)
  <2>1. <<>> \in Seq(AgendaCalls)
    OBVIOUS
  <2> QED
    BY <1>1, <1>3, <2>1, Pays DEF Inv
<1>5. ActivatesAgain(h, s)
  BY <1>2, <1>3, <1>4, OccShort DEF ActivatesAgain, Paid, Counted
<1> QED
  BY <1>2, <1>5

\* A set of numbers has a least one.
LEMMA Least ==
  ASSUME NEW S, S \subseteq Nat, S # {}
  PROVE  \E i \in S : \A k \in S : i <= k
<1>1. \E i \in S : \A k \in S : ~(<<k, i>> \in OpToRel(<, Nat))
  BY NatLessThanWellFounded, WFMin
<1>2. PICK i \in S : \A k \in S : ~(<<k, i>> \in OpToRel(<, Nat))
  BY <1>1
<1>3. ASSUME NEW k \in S
      PROVE  i <= k
  <2>1. <<k, i>> \in Nat \X Nat /\ i \in Nat /\ k \in Nat
    BY <1>2
  <2>2. ~(k < i)
    BY <1>2, <2>1 DEF OpToRel
  <2> QED
    BY <2>1, <2>2
<1> QED
  BY <1>2, <1>3

\* remove_then() takes one entry back, if there is one.
LEMMA RemoveDoes ==
  ASSUME Inv, NEW t \in Threads, RemoveThen(t)
  PROVE  \E o \in Outputs, s \in Signals : Removes(o, s)
<1> DEFINE o == Out(t)
           s == On(t)
           q == jobs[s]
           mine == {i \in DOMAIN q : q[i] = Do("fire", o, Null)}
           k == CHOOSE i \in mine : \A m \in mine : i <= m
<1>1. agenda[t] # <<>> /\ Head(agenda[t]) \in AgendaCalls /\ Head(agenda[t]).call = "remove_then"
  BY Top DEF RemoveThen, At, Inv
<1>2. Head(agenda[t]) = RemoveOn(o, s) /\ o \in Outputs /\ s \in Signals
  BY <1>1, Kinds DEF Out, On
<1>3. Pending(agenda, RemoveOn(o, s)) > 0
  BY <1>1, <1>2, Top DEF Inv
<1>4. /\ jobs' = (IF s \in go \/ mine = {} THEN jobs ELSE [jobs EXCEPT ![s] = RemoveAt(@, k)])
      /\ Follow(t, <<>>)
      /\ UNCHANGED <<expr, go, value, deps, remaining, refs, answer, returned>>
  BY DEF RemoveThen
<1> HIDE DEF o, s
<1>5. Paid(RemoveOn(o, s), <<>>)
  <2>1. <<>> \in Seq(AgendaCalls)
    OBVIOUS
  <2> QED
    BY <1>1, <1>2, <1>4, <2>1, Pays DEF Inv
<1>6. Counted /\ \A c : Pending(agenda', c) + One(RemoveOn(o, s), c) = Pending(agenda, c)
  BY <1>5, OccShort DEF Paid, Counted
<1>7. jobs \in [Signals -> Seq(JobCalls)] /\ q \in Seq(JobCalls)
  BY <1>2 DEF Inv, Types
<1>8. mine = Spots(q, FireOf(o))
  BY DEF Spots, FireOf
<1>9. mine # {} <=> Occ(q, FireOf(o)) > 0
  BY <1>7, OccType DEF FireOf
<1>10. CASE s \in go \/ mine = {}
  <2>1. \A c : Occ(q, c) \in Nat
    BY <1>7, OccType
  <2>2. jobs' = jobs
    BY <1>4, <1>10
  <2>3. s \notin go => ~(Occ(q, FireOf(o)) > 0)
    BY <1>9, <1>10
  <2> HIDE DEF mine, k
  <2>4. s \notin go => \A c : Occ(jobs[s], c) =
           Occ(jobs'[s], c) + (IF Occ(jobs[s], FireOf(o)) > 0 THEN One(FireOf(o), c) ELSE 0)
    BY <2>1, <2>2, <2>3
  <2>5. jobs' \in [Signals -> Seq(JobCalls)] /\ \A p \in Signals : jobs'[p] = jobs[p]
    BY <1>7, <2>2
  <2>6. Removes(o, s)
    BY <1>2, <1>3, <1>4, <1>6, <2>4, <2>5 DEF Removes
  <2> QED
    BY <1>2, <2>6
<1>11. CASE s \notin go /\ mine # {}
  <2>1. mine \subseteq Nat
    BY <1>7
  <2>2. k \in mine
    <3>1. \E i \in mine : \A m \in mine : i <= m
      <4> HIDE DEF mine
      <4> QED
        BY <1>11, <2>1, Least
    <3> QED
      BY <3>1
  <2>3. k \in DOMAIN q /\ q[k] = FireOf(o)
    BY <2>2 DEF FireOf
  <2> HIDE DEF k, q
  <2>4. RemoveAt(q, k) \in Seq(JobCalls) /\ \A c : Occ(q, c) = Occ(RemoveAt(q, k), c) + One(q[k], c)
    BY <1>7, <2>3, OccRemove
  <2>5. /\ jobs' \in [Signals -> Seq(JobCalls)] /\ jobs'[s] = RemoveAt(q, k)
        /\ \A p \in Signals : p # s \/ p \in go => jobs'[p] = jobs[p]
    BY <1>2, <1>4, <1>7, <1>11, <2>4 DEF q
  <2>6. \A c : Occ(q, c) = Occ(jobs'[s], c) + One(FireOf(o), c)
    BY <2>3, <2>4, <2>5
  <2>7. Occ(q, FireOf(o)) > 0
    BY <1>9, <1>11
  <2>8. Removes(o, s)
    BY <1>2, <1>3, <1>4, <1>6, <2>5, <2>6, <2>7 DEF Removes, q
  <2> QED
    BY <1>2, <2>8
<1> QED
  BY <1>10, <1>11

\* A call that makes none.
LEMMA Spent ==
  ASSUME Inv, NEW t \in Threads, agenda[t] # <<>>, Follow(t, <<>>)
  PROVE  Counted /\ \A c : Pending(agenda', c) + One(Head(agenda[t]), c) = Pending(agenda, c)
<1>1. <<>> \in Seq(AgendaCalls)
  OBVIOUS
<1>2. Paid(Head(agenda[t]), <<>>)
  BY <1>1, Pays DEF Inv
<1> QED
  BY <1>2, OccShort DEF Paid, Counted

\* A call that makes two.
LEMMA SpentOnTwo ==
  ASSUME Inv, NEW t \in Threads, agenda[t] # <<>>, NEW a \in AgendaCalls, NEW b \in AgendaCalls,
         Follow(t, <<a, b>>)
  PROVE  Counted /\ \A c : Pending(agenda', c) + One(Head(agenda[t]), c) = Pending(agenda, c) + One(a, c) + One(b, c)
<1>1. <<a, b>> \in Seq(AgendaCalls)
  OBVIOUS
<1>2. Paid(Head(agenda[t]), <<a, b>>)
  BY <1>1, Pays DEF Inv
<1>3. \A c : One(a, c) \in Nat /\ One(b, c) \in Nat
  BY DEF One
<1>4. \A c : Occ(<<a, b>>, c) = One(a, c) + One(b, c)
  BY OccShort
<1> DEFINE q == <<a, b>>
<1> HIDE DEF q
<1>5. Paid(Head(agenda[t]), q) /\ \A c : Occ(q, c) = One(a, c) + One(b, c)
  BY <1>2, <1>4 DEF q
<1> QED
  BY <1>3, <1>5 DEF Paid, Counted

\* The builder waited.
LEMMA WaitDoes ==
  ASSUME Inv, NEW t \in Threads, Waited(t)
  PROVE  \E o \in Outputs : Waits(o)
<1> DEFINE o == Out(t)
           h == Head(agenda[t])
<1>1. agenda[t] # <<>> /\ h \in AgendaCalls /\ h.call = "wait"
  BY Top DEF Waited, At, Inv
<1>2. h = WaitOf(o) /\ o \in Outputs
  BY <1>1, Kinds DEF Out
<1>3. /\ NoThens /\ Pending(agenda, WaitOf(o)) = 1
      /\ \A c : IsPlan(c) /\ Pending(agenda, c) > 0 => c = WaitOf(o) \/ Before(WaitOf(o), c)
  BY <1>1, <1>2, TopPlan DEF IsPlan, Inv
<1>4. /\ value[o] \in go /\ Follow(t, <<>>)
      /\ UNCHANGED <<expr, go, jobs, value, deps, remaining, refs, answer, returned>>
  BY DEF Waited
<1> HIDE DEF o
<1>5. Counted /\ \A c : Pending(agenda', c) + One(WaitOf(o), c) = Pending(agenda, c)
  BY <1>1, <1>2, <1>4, Spent
<1>6. ASSUME NEW p \in Outputs PROVE Pending(agenda, CombineOf(p)) = 0
  <2>1. IsPlan(CombineOf(p)) /\ CombineOf(p) # WaitOf(o) /\ ~Before(WaitOf(o), CombineOf(p))
    BY Fields DEF IsPlan, CombineOf, WaitOf, Before
  <2> QED
    BY <1>3, <1>5, <2>1 DEF Counted
<1>7. Waits(o)
  BY <1>2, <1>3, <1>4, <1>5, <1>6 DEF Waits
<1> QED
  BY <1>2, <1>7

\* The function of an OrSignal.
LEMMA FireDoes ==
  ASSUME Inv, NEW t \in Threads, Fire(t)
  PROVE  \E o \in Outputs : FiresDead(o) \/ Fires(o)
<1> DEFINE o == Out(t)
           h == Head(agenda[t])
<1>1. agenda[t] # <<>> /\ h \in AgendaCalls /\ h.call = "fire" /\ Pending(agenda, h) > 0
  BY Top DEF Fire, At, Inv
<1>2. h = FireOf(o) /\ o \in Outputs
  BY <1>1, Kinds DEF Out
<1>3. UNCHANGED <<expr, go, jobs, value, deps, remaining, answer, returned>>
  BY DEF Fire
<1>4. CASE refs[o] = 0 /\ Follow(t, <<>>) /\ UNCHANGED refs
  <2>1. Counted /\ \A c : Pending(agenda', c) + One(FireOf(o), c) = Pending(agenda, c)
    BY <1>1, <1>2, <1>4, Spent
  <2>2. FiresDead(o)
    BY <1>1, <1>2, <1>3, <1>4, <2>1 DEF FiresDead
  <2> QED
    BY <1>2, <2>2
<1>5. CASE /\ refs[o] > 0 /\ refs' = [refs EXCEPT ![o] = @ + 1]
           /\ Follow(t, <<Do("go", o, o), Do("unref", o, Null)>>)
  <2>1. GoOn(o) \in AgendaCalls /\ UnrefOf(o) \in AgendaCalls
    BY <1>2 DEF AgendaCalls
  <2>2. /\ Counted
        /\ \A c : Pending(agenda', c) + One(FireOf(o), c) = Pending(agenda, c) + One(GoOn(o), c) + One(UnrefOf(o), c)
    BY <1>1, <1>2, <1>5, <2>1, SpentOnTwo DEF GoOn, UnrefOf
  <2>3. Fires(o)
    BY <1>1, <1>2, <1>3, <1>5, <2>2 DEF Fires
  <2> QED
    BY <1>2, <2>3
<1> QED
  BY <1>4, <1>5 DEF Fire

\* The cleanup of an OrSignal.
LEMMA CleanupDoes ==
  ASSUME Inv, NEW t \in Threads, Cleanup(t)
  PROVE  \E o \in Outputs : CleansNothing(o) \/ \E l, r : Cleans(o, l, r)
<1> DEFINE o == Out(t)
           h == Head(agenda[t])
           l == Left(o)
           r == Right(o)
           q == <<Do("remove_then", o, l), Do("remove_then", o, r)>>
<1>1. agenda[t] # <<>> /\ h \in AgendaCalls /\ h.call = "cleanup" /\ Pending(agenda, h) > 0
  BY Top DEF Cleanup, At, Inv
<1>2. h = CleanupOf(o) /\ o \in Outputs
  BY <1>1, Kinds DEF Out
<1>3. /\ deps' = [deps EXCEPT ![o] = <<>>]
      /\ UNCHANGED <<expr, go, jobs, value, remaining, refs, answer, returned>>
  BY DEF Cleanup
<1>4. deps \in [Outputs -> Seq(Signals)]
  BY DEF Inv, Types
<1>5. CASE deps[o] = <<>>
  <2>1. Follow(t, <<>>)
    BY <1>5 DEF Cleanup
  <2>2. Counted /\ \A c : Pending(agenda', c) + One(CleanupOf(o), c) = Pending(agenda, c)
    BY <1>1, <1>2, <2>1, Spent
  <2>3. deps' = deps
    BY <1>2, <1>3, <1>4, <1>5
  <2>4. CleansNothing(o)
    BY <1>1, <1>2, <1>3, <1>5, <2>2, <2>3 DEF CleansNothing
  <2> QED
    BY <1>2, <2>4
<1>6. CASE deps[o] # <<>>
  <2>1. deps[o] = <<l, r>> /\ o \in Made
    BY <1>2, <1>6 DEF Inv, DepInv
  <2>2. l \in Signals /\ r \in Signals
    BY <2>1 DEF Inv, MadeInv, Operands
  <2>3. Follow(t, q \o Drop(l) \o Drop(r))
    BY <1>6, <2>1 DEF Cleanup
  <2> HIDE DEF o, l, r, h
  <2>4. q \in Seq(AgendaCalls) /\ \A c : Occ(q, c) = One(RemoveOn(o, l), c) + One(RemoveOn(o, r), c)
    <3>1. RemoveOn(o, l) \in AgendaCalls /\ RemoveOn(o, r) \in AgendaCalls
      BY <1>2, <2>2 DEF AgendaCalls
    <3>2. q = <<RemoveOn(o, l), RemoveOn(o, r)>>
      BY DEF RemoveOn
    <3> QED
      BY <3>1, <3>2, OccShort
  <2>5. /\ Drop(l) \in Seq(AgendaCalls) /\ Drop(r) \in Seq(AgendaCalls)
        /\ \A c : Occ(Drop(l), c) = Lost(l, c) /\ Occ(Drop(r), c) = Lost(r, c) /\ Lost(l, c) \in Nat /\ Lost(r, c) \in Nat
    BY OccDrop
  <2> HIDE DEF q
  <2>6. q \o Drop(l) \in Seq(AgendaCalls) /\ \A c : Occ(q \o Drop(l), c) = Occ(q, c) + Occ(Drop(l), c)
    BY <2>4, <2>5, OccConcat, ConcatProperties
  <2>7. /\ (q \o Drop(l)) \o Drop(r) \in Seq(AgendaCalls)
        /\ \A c : Occ((q \o Drop(l)) \o Drop(r), c) = Occ(q \o Drop(l), c) + Occ(Drop(r), c)
    <3> DEFINE p == q \o Drop(l)
    <3>1. p \in Seq(AgendaCalls) /\ Drop(r) \in Seq(AgendaCalls)
      BY <2>5, <2>6
    <3> HIDE DEF p
    <3>2. p \o Drop(r) \in Seq(AgendaCalls) /\ \A c : Occ(p \o Drop(r), c) = Occ(p, c) + Occ(Drop(r), c)
      BY <3>1, OccConcat, ConcatProperties
    <3> QED
      BY <3>2 DEF p
  <2>8. Paid(CleanupOf(o), (q \o Drop(l)) \o Drop(r))
    BY <1>1, <1>2, <2>3, <2>7, Pays DEF Inv, h
  <2>9. \A c : Pending(agenda', c) + One(CleanupOf(o), c)
                 = Pending(agenda, c) + One(RemoveOn(o, l), c) + One(RemoveOn(o, r), c) + Lost(l, c) + Lost(r, c)
    <3>1. \A x, c : One(x, c) \in Nat
      BY DEF One
    <3> QED
      BY <2>4, <2>5, <2>6, <2>7, <2>8, <3>1 DEF Paid
  <2>10. Counted
    BY <2>8 DEF Paid, Counted
  <2>11. Cleans(o, l, r)
    BY <1>1, <1>2, <1>3, <1>6, <2>2, <2>9, <2>10 DEF Cleans, l, r
  <2> QED
    BY <1>2, <2>11
<1> QED
  BY <1>5, <1>6

\* The function of an AndSignals.
LEMMA DoneDoes ==
  ASSUME Inv, NEW t \in Threads, AndDone(t)
  PROVE  \E o \in Outputs : Counts1(o) \/ CountsLast(o)
<1> DEFINE o == Out(t)
           h == Head(agenda[t])
<1>1. agenda[t] # <<>> /\ h \in AgendaCalls /\ h.call = "done" /\ Pending(agenda, h) > 0
  BY Top DEF AndDone, At, Inv
<1>2. h = DoneOf(o) /\ o \in Outputs
  BY <1>1, Kinds DEF Out
<1>3. /\ remaining' = [remaining EXCEPT ![o] = @ - 1]
      /\ UNCHANGED <<expr, go, jobs, value, deps, refs, answer, returned>>
  BY DEF AndDone
<1>4. CASE remaining[o] # 1
  <2>1. Follow(t, <<>>)
    BY <1>4 DEF AndDone
  <2>2. Counted /\ \A c : Pending(agenda', c) + One(DoneOf(o), c) = Pending(agenda, c)
    BY <1>1, <1>2, <2>1, Spent
  <2>3. Counts1(o)
    BY <1>1, <1>2, <1>3, <1>4, <2>2 DEF Counts1
  <2> QED
    BY <1>2, <2>3
<1>5. CASE remaining[o] = 1
  <2>1. Follow(t, <<Do("go", o, o), Do("unref", o, Null)>>)
    BY <1>5 DEF AndDone
  <2>2. GoOn(o) \in AgendaCalls /\ UnrefOf(o) \in AgendaCalls
    BY <1>2 DEF AgendaCalls
  <2>3. /\ Counted
        /\ \A c : Pending(agenda', c) + One(DoneOf(o), c) = Pending(agenda, c) + One(GoOn(o), c) + One(UnrefOf(o), c)
    BY <1>1, <1>2, <2>1, <2>2, SpentOnTwo DEF GoOn, UnrefOf
  <2>4. CountsLast(o)
    BY <1>1, <1>2, <1>3, <1>5, <2>3 DEF CountsLast
  <2> QED
    BY <1>2, <2>4
<1> QED
  BY <1>4, <1>5

\* A reference less.
LEMMA UnrefDoes ==
  ASSUME Inv, NEW t \in Threads, Unref(t)
  PROVE  \E o \in Outputs : Unrefs(o) \/ Frees(o)
<1> DEFINE o == Out(t)
           h == Head(agenda[t])
           q == IF IsOr(o) THEN <<CleanupOf(o)>> ELSE <<>>
<1>1. agenda[t] # <<>> /\ h \in AgendaCalls /\ h.call = "unref" /\ Pending(agenda, h) > 0
  BY Top DEF Unref, At, Inv
<1>2. h = UnrefOf(o) /\ o \in Outputs
  BY <1>1, Kinds DEF Out
<1>3. /\ refs' = [refs EXCEPT ![o] = @ - 1]
      /\ UNCHANGED <<expr, go, value, deps, remaining, answer, returned>>
  BY DEF Unref
<1>4. CASE refs[o] > 1 /\ Follow(t, <<>>) /\ UNCHANGED jobs
  <2>1. Counted /\ \A c : Pending(agenda', c) + One(UnrefOf(o), c) = Pending(agenda, c)
    BY <1>1, <1>2, <1>4, Spent
  <2>2. Unrefs(o)
    BY <1>1, <1>2, <1>3, <1>4, <2>1 DEF Unrefs
  <2> QED
    BY <1>2, <2>2
<1>5. CASE refs[o] = 1 /\ Follow(t, q) /\ jobs' = [jobs EXCEPT ![o] = <<>>]
  <2>1. q \in Seq(AgendaCalls) /\ \A c : Occ(q, c) = IF IsOr(o) THEN One(CleanupOf(o), c) ELSE 0
    <3>1. CleanupOf(o) \in AgendaCalls
      BY <1>2 DEF AgendaCalls, JobCalls
    <3> QED
      BY <3>1, OccShort
  <2> HIDE DEF q, o
  <2>2. Paid(UnrefOf(o), q)
    BY <1>1, <1>2, <1>5, <2>1, Pays DEF Inv
  <2>3. /\ Counted
        /\ \A c : Pending(agenda', c) + One(UnrefOf(o), c)
                    = Pending(agenda, c) + (IF IsOr(o) THEN One(CleanupOf(o), c) ELSE 0)
    BY <2>1, <2>2 DEF Paid, Counted
  <2>4. Frees(o)
    BY <1>1, <1>2, <1>3, <1>5, <2>3 DEF Frees
  <2> QED
    BY <1>2, <2>4
<1> QED
  BY <1>4, <1>5 DEF Unref, IsOr, CleanupOf

\* The builder drops the result.
LEMMA ForgetDoes ==
  ASSUME Inv, NEW t \in Threads, Forget(t)
  PROVE  \E o \in Outputs : ForgetsIt(o)
<1> DEFINE o == Out(t)
           h == Head(agenda[t])
<1>1. agenda[t] # <<>> /\ h \in AgendaCalls /\ h.call = "forget" /\ Pending(agenda, h) > 0
  BY Top DEF Forget, At, Inv
<1>2. h = ForgetOf(o) /\ o \in Outputs
  BY <1>1, Kinds DEF Out
<1>3. /\ NoThens /\ Pending(agenda, ForgetOf(o)) = 1
      /\ \A c : IsPlan(c) /\ Pending(agenda, c) > 0 => c = ForgetOf(o) \/ Before(ForgetOf(o), c)
  BY <1>1, <1>2, TopPlan DEF IsPlan, Inv
<1>4. /\ Follow(t, Drop(value[o]))
      /\ UNCHANGED <<expr, go, jobs, value, deps, remaining, refs, answer, returned>>
  BY DEF Forget
<1> HIDE DEF o
<1>5. Paid(ForgetOf(o), Drop(value[o]))
  BY <1>1, <1>2, <1>4, OccDrop, Pays DEF Inv
<1>6. Counted /\ \A c : Pending(agenda', c) + One(ForgetOf(o), c) = Pending(agenda, c) + Lost(value[o], c)
  BY <1>5, OccDrop DEF Paid, Counted
<1>7. ASSUME NEW p \in Outputs
      PROVE  /\ Pending(agenda, CombineOf(p)) = 0 /\ Pending(agenda, WaitOf(p)) = 0
             /\ Pending(agenda, ForgetOf(p)) = One(o, p)
  <2>1. /\ IsPlan(CombineOf(p)) /\ CombineOf(p) # ForgetOf(o) /\ ~Before(ForgetOf(o), CombineOf(p))
        /\ IsPlan(WaitOf(p)) /\ WaitOf(p) # ForgetOf(o) /\ ~Before(ForgetOf(o), WaitOf(p))
        /\ IsPlan(ForgetOf(p)) /\ (ForgetOf(p) = ForgetOf(o) => p = o) /\ ~Before(ForgetOf(o), ForgetOf(p))
    BY Fields DEF IsPlan, CombineOf, WaitOf, ForgetOf, Before
  <2> QED
    BY <1>3, <1>6, <2>1 DEF Counted, One
<1>8. o = Result(expr) /\ value[o] # Null
  <2>1. o = Result(expr) /\ o \in Outs
    BY <1>1, <1>2, ExprFacts DEF Inv, PlanInv, Types
  <2> QED
    BY <1>2, <1>7, <2>1 DEF Inv, PlanInv
<1>9. ForgetsIt(o)
  BY <1>2, <1>3, <1>4, <1>6, <1>7, <1>8 DEF ForgetsIt
<1> QED
  BY <1>2, <1>9

\* The Future is given its value.
LEMMA AssignDoes ==
  ASSUME Inv, NEW t \in Threads, Assign(t)
  PROVE  Assigns
<1>1. agenda[t] # <<>> /\ Head(agenda[t]) \in AgendaCalls /\ Head(agenda[t]).call = "assign"
  BY Top DEF Assign, At, Inv
<1>2. Head(agenda[t]) = AssignIt
  BY <1>1, Kinds
<1>3. Counted /\ \A c : Pending(agenda', c) + One(AssignIt, c) = Pending(agenda, c)
  BY <1>1, <1>2, Spent DEF Assign
<1> QED
  BY <1>3 DEF Assigns, Assign

\* The value of the Future is read.
LEMMA ReadDoes ==
  ASSUME Inv, NEW t \in Threads, Read(t)
  PROVE  \E o \in Outputs : Reads(o)
<1> DEFINE o == Out(t)
           h == Head(agenda[t])
<1>1. agenda[t] # <<>> /\ h \in AgendaCalls /\ h.call = "read"
  BY Top DEF Read, At, Inv
<1>2. h = ReadOf(o) /\ o \in Outputs
  BY <1>1, Kinds DEF Out
<1>3. /\ NoThens /\ Pending(agenda, ReadOf(o)) = 1
      /\ \A c : IsPlan(c) /\ Pending(agenda, c) > 0 => c = ReadOf(o) \/ Before(ReadOf(o), c)
  BY <1>1, <1>2, TopPlan DEF IsPlan, Inv
<1>4. /\ returned' = {answer} /\ Follow(t, <<>>)
      /\ UNCHANGED <<expr, go, jobs, value, deps, remaining, refs, answer>>
  BY DEF Read
<1> HIDE DEF o
<1>5. Counted /\ \A c : Pending(agenda', c) + One(ReadOf(o), c) = Pending(agenda, c)
  BY <1>1, <1>2, <1>4, Spent
<1>6. ASSUME NEW p \in Outputs PROVE Pending(agenda, CombineOf(p)) = 0 /\ Pending(agenda, WaitOf(p)) = 0
  <2>1. /\ IsPlan(CombineOf(p)) /\ CombineOf(p) # ReadOf(o) /\ ~Before(ReadOf(o), CombineOf(p))
        /\ IsPlan(WaitOf(p)) /\ WaitOf(p) # ReadOf(o) /\ ~Before(ReadOf(o), WaitOf(p))
    BY Fields DEF IsPlan, CombineOf, WaitOf, ReadOf, Before
  <2> QED
    BY <1>3, <1>5, <2>1 DEF Counted
<1>7. Reads(o)
  BY <1>2, <1>3, <1>4, <1>5, <1>6 DEF Reads
<1> QED
  BY <1>2, <1>7

\* A thread begins to activate an input.
LEMMA TriggerDoes ==
  ASSUME Inv, NEW t \in Triggers, NEW s \in Inputs, Trigger(t, s)
  PROVE  Begin(s)
<1> DEFINE a == IF s = Future THEN <<Do("assign", Null, s)>> ELSE <<>>
           b == <<Do("go", Null, s)>>
           q == a \o b
           k == 0
<1>1. /\ t \in Threads /\ agenda[t] = <<>> /\ agenda' = [agenda EXCEPT ![t] = q]
      /\ UNCHANGED <<expr, go, jobs, value, deps, remaining, refs, answer, returned>>
  BY DEF Trigger, Threads
<1>2. /\ a = (IF s = Future THEN <<AssignIt>> ELSE <<>>) /\ b = <<GoIn(s)>>
      /\ AssignIt \in AgendaCalls /\ GoIn(s) \in AgendaCalls
  BY DEF AssignIt, GoIn, AgendaCalls
<1> HIDE DEF a, b
<1>3. /\ a \in Seq(AgendaCalls) /\ \A c : Occ(a, c) = IF s = Future THEN One(AssignIt, c) ELSE 0
      /\ b \in Seq(AgendaCalls) /\ \A c : Occ(b, c) = One(GoIn(s), c)
  <2>1. /\ \A c : Occ(<<>>, c) = 0
        /\ \A x, c : Occ(<<x>>, c) = One(x, c)
    BY OccShort
  <2>2. a \in Seq(AgendaCalls) /\ b \in Seq(AgendaCalls)
    BY <1>2
  <2> QED
    BY <1>2, <2>1, <2>2
<1>4. q \in Seq(AgendaCalls) /\ \A c : Occ(q, c) = (IF s = Future THEN One(AssignIt, c) ELSE 0) + One(GoIn(s), c)
  BY <1>3, OccConcat, ConcatProperties
<1>5. Stacks(agenda, AgendaCalls)
  BY DEF Inv, Types
<1> HIDE DEF q
<1>6. Puts(AgendaCalls, t, k, q) /\ Len(agenda[t]) = k
  BY <1>1, <1>4, <1>5, Begins
<1>7. k = 0
  OBVIOUS
<1> HIDE DEF k
<1>8. /\ Stacks(agenda', AgendaCalls)
      /\ \A c : Pending(agenda', c) + (IF Len(agenda[t]) = k THEN 0 ELSE One(Deep(agenda, t, k + 1), c))
                   = Pending(agenda, c) + Occ(q, c)
  BY <1>1, <1>4, <1>5, <1>6, Counts
<1>9. Counted
  BY <1>5, <1>8, PendingType DEF Counted
<1>10. \A c : Pending(agenda', c) = Pending(agenda, c) + (IF s = Future THEN One(AssignIt, c) ELSE 0) + One(GoIn(s), c)
  <2>1. \A x, c : One(x, c) \in Nat
    BY DEF One
  <2> QED
    BY <1>4, <1>6, <1>8, <1>9, <2>1 DEF Counted
<1> QED
  BY <1>1, <1>9, <1>10 DEF Begin

-----------------------------------------------------------------------------
\* Every step is one of these.
Does == \/ \E o \in Outputs : \E v, l, r : Shortcuts(o, v, l, r)
        \/ \E o \in Outputs : \E l, r : MakesOr(o, l, r) \/ MakesAnd(o, l, r) \/ Cleans(o, l, r)
        \/ \E o \in Outputs, s \in Signals : \E j : Queues(o, s, j) \/ Runs(o, s, j)
        \/ \E s \in Signals : \E h : Activates(h, s) \/ ActivatesAgain(h, s)
        \/ \E o \in Outputs, s \in Signals : Removes(o, s)
        \/ \E o \in Outputs : \/ Waits(o) \/ FiresDead(o) \/ Fires(o) \/ CleansNothing(o)
                              \/ Counts1(o) \/ CountsLast(o) \/ Unrefs(o) \/ Frees(o) \/ ForgetsIt(o) \/ Reads(o)
        \/ Assigns
        \/ \E s \in Inputs : Begin(s)

\* A step of Next is one of them.
LEMMA NextDoes ==
  ASSUME Inv, Next
  PROVE  Does
<1>1. ASSUME NEW t \in Threads, Step(t)
      PROVE  Does
  <2>1. CASE CombineShortcut(t) \/ CombineOr(t) \/ CombineAnd(t)
    BY <2>1, ShortcutDoes, OrDoes, AndDoes DEF Does
  <2>2. CASE ThenQueues(t) \/ ThenRuns(t)
    BY <2>2, QueueDoes, RunDoes DEF Does
  <2>3. CASE GoFirst(t) \/ GoAgain(t)
    BY <2>3, GoDoes, GoAgainDoes DEF Does
  <2>4. CASE RemoveThen(t)
    BY <2>4, RemoveDoes DEF Does
  <2>5. CASE Waited(t)
    BY <2>5, WaitDoes DEF Does
  <2>6. CASE Fire(t)
    BY <2>6, FireDoes DEF Does
  <2>7. CASE Cleanup(t)
    BY <2>7, CleanupDoes DEF Does
  <2>8. CASE AndDone(t)
    BY <2>8, DoneDoes DEF Does
  <2>9. CASE Unref(t)
    BY <2>9, UnrefDoes DEF Does
  <2>10. CASE Forget(t)
    BY <2>10, ForgetDoes DEF Does
  <2>11. CASE Assign(t)
    BY <2>11, AssignDoes DEF Does
  <2>12. CASE Read(t)
    BY <2>12, ReadDoes DEF Does
  <2> QED
    BY <1>1, <2>1, <2>2, <2>3, <2>4, <2>5, <2>6, <2>7, <2>8, <2>9, <2>10, <2>11, <2>12 DEF Step
<1>2. ASSUME NEW t \in Triggers, NEW s \in Inputs, Trigger(t, s)
      PROVE  Does
  BY <1>2, TriggerDoes DEF Does
<1> QED
  BY <1>1, <1>2 DEF Next

\* What the terms say does not change.
LEMMA SameTerms ==
  ASSUME expr' = expr
  PROVE  /\ Outs' = Outs /\ Result(expr)' = Result(expr) /\ (IsFutureWait(expr))' = IsFutureWait(expr)
         /\ \A o : Term(o)' = Term(o) /\ IsOr(o)' = IsOr(o) /\ Terms(o)' = Terms(o)
BY DEF Outs, Result, IsFutureWait, Term, IsOr, Terms

\* And with the values, what they are applied to.
LEMMA SameOperands ==
  ASSUME expr' = expr, value' = value
  PROVE  /\ Made' = Made
         /\ \A o : Left(o)' = Left(o) /\ Right(o)' = Right(o) /\ Operands(o)' = Operands(o)
         /\ \A o, s : Mult(o, s)' = Mult(o, s)
BY DEF Made, Left, Right, Operand, Operands, Mult, Term

\* A combination gets its value once, and what was made keeps its operands.
LEMMA NewValue ==
  ASSUME Inv, NEW o \in Outputs, Ready(o), NEW v, v # Null, expr' = expr, value' = [value EXCEPT ![o] = v]
  PROVE  /\ \A p \in Outputs : value'[p] = IF p = o THEN v ELSE value[p]
         /\ \A p \in Outputs : value[p] # Null => value'[p] = value[p]
         /\ o \notin Made /\ Made' = IF v = o THEN Made \cup {o} ELSE Made
         /\ \A p : p \in Made \cup {o} => /\ Left(p)' = Left(p) /\ Right(p)' = Right(p)
                                         /\ Operands(p)' = Operands(p)
                                         /\ \A s : Mult(p, s)' = Mult(p, s)
<1>1. value \in [Outputs -> Signals \cup {Null}]
  BY DEF Inv, Types
<1>2. \A p \in Outputs : value'[p] = IF p = o THEN v ELSE value[p]
  BY <1>1
<1>3. value[o] = Null /\ o # Null
  BY CombinatorsAssumption DEF Ready, Signals
<1>4. o \notin Made /\ Made' = IF v = o THEN Made \cup {o} ELSE Made
  BY <1>2, <1>3 DEF Made
<1>5. ASSUME NEW p \in Made \cup {o}, NEW w \in Terms(p)
      PROVE  Operand(w)' = Operand(w)
  <2>1. w \in Outputs => w # o
    <3>1. p \in Made => p \in Outputs /\ value[p] # Null
      BY CombinatorsAssumption DEF Made, Signals
    <3> QED
      BY <1>3, <3>1 DEF Inv, MadeInv, Ready
  <2> QED
    BY <1>2, <2>1 DEF Operand
<1>6. \A p : Term(p)' = Term(p)
  BY SameTerms
<1>7. ASSUME NEW p \in Made \cup {o}
      PROVE  Left(p)' = Left(p) /\ Right(p)' = Right(p)
  BY <1>5, <1>6 DEF Left, Right, Terms
<1> QED
  BY <1>2, <1>3, <1>4, <1>7 DEF Operands, Mult

\* An operand that is an output is what an earlier combination returned, and
\* is referred to.
LEMMA OperandHeld ==
  ASSUME Inv, NEW o \in Outputs, Ready(o), NEW x \in Operands(o), x \in Outputs
  PROVE  /\ \E w \in Terms(o) : w \in Outputs /\ value[w] = x /\ Held(w)
         /\ x \in Made /\ Kept(x) /\ refs[x] > 0 /\ x # o
<1>1. Outs \subseteq Outputs /\ o \in Outs /\ expr \in Expressions
  BY ExprFacts DEF Inv, Types, Ready
<1>2. PICK w \in Terms(o) : x = Operand(w)
  BY DEF Operands, Left, Right, Terms
<1>3. w \in Outputs
  BY <1>2 DEF Operand
<1>4. Held(w) /\ value[w] = x
  BY <1>2, <1>3 DEF Operand, Ready
<1>5. Kept(x)
  BY <1>4 DEF Kept, Held
<1>6. x \in Made
  BY <1>3, <1>4 DEF Inv, MadeInv
<1>7. refs[x] > 0
  <2>1. /\ refs[x] \in Nat /\ Pending(agenda, UnrefOf(x)) \in Nat /\ Bit(remaining[x] > 0) \in Nat
        /\ Bit(Kept(x)) = 1
    BY <1>5, PendingType DEF Inv, Types, Bit
  <2> QED
    BY <2>1 DEF Inv, RefInv
<1>8. x # o
  BY <1>6, CombinatorsAssumption DEF Made, Ready, Signals
<1> QED
  BY <1>3, <1>4, <1>5, <1>6, <1>7, <1>8

\* An output is not both operands.
LEMMA TwoOperands ==
  ASSUME Inv, NEW o \in Outputs, Ready(o), Left(o) = Right(o)
  PROVE  Left(o) \notin Outputs
<1> SUFFICES ASSUME Left(o) \in Outputs PROVE FALSE
  OBVIOUS
<1>1. o \in Outs /\ expr \in Expressions
  BY DEF Ready, Inv, Types
<1>2. Term(o).left \in Outputs /\ Term(o).right \in Outputs /\ value[Term(o).left] = value[Term(o).right]
      /\ value[Term(o).left] \in Outputs
  BY DEF Left, Right, Operand
<1>3. Held(Term(o).left) /\ Held(Term(o).right)
  BY <1>2 DEF Ready, Terms
<1>4. Term(o).left = Term(o).right
  BY <1>2, <1>3 DEF Inv, UniqueInv, Held
<1> QED
  BY <1>1, <1>2, <1>4, ExprFacts

\* What is never undone.
LEMMA Stable ==
  ASSUME Inv, Does
  PROVE  /\ expr' = expr /\ go \subseteq go'
         /\ \A p \in Outputs : value[p] # Null => value'[p] = value[p]
         /\ Made \subseteq Made'
         /\ \A p \in Made' : p \in Made \/ \E l, r : MakesOr(p, l, r) \/ MakesAnd(p, l, r)
         /\ \A p \in Made : /\ Left(p)' = Left(p) /\ Right(p)' = Right(p) /\ Operands(p)' = Operands(p)
                            /\ \A s : Mult(p, s)' = Mult(p, s)
         /\ \A p \in Made : refs[p] = 0 => refs'[p] = 0
<1> DEFINE G == /\ expr' = expr /\ go \subseteq go'
                /\ \A p \in Outputs : value[p] # Null => value'[p] = value[p]
                /\ Made \subseteq Made'
                /\ \A p \in Made' : p \in Made \/ \E l, r : MakesOr(p, l, r) \/ MakesAnd(p, l, r)
                /\ \A p \in Made : /\ Left(p)' = Left(p) /\ Right(p)' = Right(p) /\ Operands(p)' = Operands(p)
                                   /\ \A s : Mult(p, s)' = Mult(p, s)
                /\ \A p \in Made : refs[p] = 0 => refs'[p] = 0
<1>1. refs \in [Outputs -> Nat] /\ \A p \in Made : p \in Outputs
  BY DEF Inv, Types, Made
<1>2. ASSUME expr' = expr, value' = value, go \subseteq go', \A p \in Made : refs[p] = 0 => refs'[p] = 0
      PROVE  G
  BY <1>2, SameOperands
<1>3. ASSUME NEW o \in Outputs, NEW v, NEW l, NEW r, Shortcuts(o, v, l, r)
      PROVE  G
  <2>1. v # Null /\ v # o
    BY <1>3, CombinatorsAssumption DEF Shortcuts, Ready, Signals
  <2> QED
    BY <1>3, <2>1, NewValue DEF Shortcuts
<1>4. ASSUME NEW o \in Outputs, NEW l, NEW r, MakesOr(o, l, r)
      PROVE  G
  <2>1. o # Null
    BY CombinatorsAssumption DEF Signals
  <2>2. \A p \in Made : refs[p] = 0 => p # l /\ p # r /\ p # o
    <3>1. Ready(o) /\ l \in Operands(o) /\ r \in Operands(o)
      BY <1>4 DEF MakesOr, Operands
    <3>2. o \notin Made
      BY <2>1, <3>1 DEF Ready, Made
    <3> QED
      BY <1>1, <3>1, <3>2, OperandHeld
  <2>3. \A p \in Made : refs[p] = 0 => refs'[p] = 0
    BY <1>1, <1>4, <2>2 DEF MakesOr, One
  <2>4. Ready(o) /\ value' = [value EXCEPT ![o] = o] /\ expr' = expr /\ go' = go
    BY <1>4 DEF MakesOr
  <2>5. /\ \A p \in Outputs : value[p] # Null => value'[p] = value[p]
        /\ Made' = Made \cup {o}
        /\ \A p \in Made : /\ Left(p)' = Left(p) /\ Right(p)' = Right(p) /\ Operands(p)' = Operands(p)
                           /\ \A s : Mult(p, s)' = Mult(p, s)
    BY <2>1, <2>4, NewValue
  <2>6. \A p \in Made' : p \in Made \/ \E l1, r1 : MakesOr(p, l1, r1) \/ MakesAnd(p, l1, r1)
    BY <1>4, <2>5
  <2> QED
    BY <2>3, <2>4, <2>5, <2>6
<1>5. ASSUME NEW o \in Outputs, NEW l, NEW r, MakesAnd(o, l, r)
      PROVE  G
  <2>1. o # Null
    BY CombinatorsAssumption DEF Signals
  <2>2. o \notin Made
    BY <1>5, <2>1 DEF MakesAnd, Ready, Made
  <2>3. \A p \in Made : refs[p] = 0 => refs'[p] = 0
    BY <1>1, <1>5, <2>2 DEF MakesAnd
  <2>4. Ready(o) /\ value' = [value EXCEPT ![o] = o] /\ expr' = expr /\ go' = go
    BY <1>5 DEF MakesAnd
  <2>5. /\ \A p \in Outputs : value[p] # Null => value'[p] = value[p]
        /\ Made' = Made \cup {o}
        /\ \A p \in Made : /\ Left(p)' = Left(p) /\ Right(p)' = Right(p) /\ Operands(p)' = Operands(p)
                           /\ \A s : Mult(p, s)' = Mult(p, s)
    BY <2>1, <2>4, NewValue
  <2>6. \A p \in Made' : p \in Made \/ \E l1, r1 : MakesOr(p, l1, r1) \/ MakesAnd(p, l1, r1)
    BY <1>5, <2>5
  <2> QED
    BY <2>3, <2>4, <2>5, <2>6
<1>6. ASSUME NEW o \in Outputs, NEW s \in Signals, NEW j, Queues(o, s, j) \/ Runs(o, s, j) \/ Removes(o, s)
      PROVE  G
  BY <1>2, <1>6 DEF Queues, Runs, Removes
<1>7. ASSUME NEW s \in Signals, NEW h, Activates(h, s) \/ ActivatesAgain(h, s)
      PROVE  G
  BY <1>2, <1>7 DEF Activates, ActivatesAgain
<1>8. ASSUME NEW o \in Outputs, Waits(o) \/ FiresDead(o) \/ CleansNothing(o) \/ ForgetsIt(o) \/ Reads(o)
      PROVE  G
  BY <1>2, <1>8 DEF Waits, FiresDead, CleansNothing, ForgetsIt, Reads
<1>9. ASSUME NEW o \in Outputs, Counts1(o) \/ CountsLast(o) \/ \E l, r : Cleans(o, l, r)
      PROVE  G
  BY <1>2, <1>9 DEF Counts1, CountsLast, Cleans
<1>10. ASSUME NEW o \in Outputs, Fires(o) \/ Unrefs(o) \/ Frees(o)
       PROVE  G
  <2>1. \A p \in Made : refs[p] = 0 => refs'[p] = 0
    BY <1>1, <1>10 DEF Fires, Unrefs, Frees
  <2> QED
    BY <1>2, <1>10, <2>1 DEF Fires, Unrefs, Frees
<1>11. ASSUME Assigns \/ \E s \in Inputs : Begin(s)
       PROVE  G
  BY <1>2, <1>11 DEF Assigns, Begin
<1> HIDE DEF G
<1>12. G
  BY <1>3, <1>4, <1>5, <1>6, <1>7, <1>8, <1>9, <1>10, <1>11 DEF Does
<1> QED
  BY <1>12 DEF G

\* A function of an AndSignals that is still to be run is counted.
LEMMA DoneCounts ==
  ASSUME Inv, NEW o \in Outputs, Pending(agenda, DoneOf(o)) > 0
  PROVE  remaining[o] \in {1, 2}
<1>1. o \in Made /\ ~IsOr(o) /\ Left(o) \in Signals /\ Right(o) \in Signals
  BY DEF Inv, CallInv, MadeInv, Operands
<1>2. remaining[o] = Pending(agenda, DoneOf(o)) + Slot(o, Left(o)) + (IF Right(o) = Left(o) THEN 0 ELSE Slot(o, Right(o)))
  BY <1>1 DEF Inv, AndInv
<1>3. /\ \A c : Pending(agenda, c) \in Nat
      /\ remaining[o] \in 0..2
  BY PendingType DEF Inv, Types
<1>4. Slot(o, Left(o)) \in Nat /\ Slot(o, Right(o)) \in Nat
  BY <1>3 DEF Slot, Mult, One
<1> QED
  BY <1>2, <1>3, <1>4

\* The types are kept.
LEMMA TypesStep ==
  ASSUME Inv, Does
  PROVE  Types'
<1>1. Types
  BY DEF Inv
<1>2. ASSUME NEW o \in Outputs, NEW v, NEW l, NEW r, Shortcuts(o, v, l, r)
      PROVE  Types'
  <2>1. v \in Signals
    BY <1>2 DEF Shortcuts, Ready, Signals
  <2> QED
    BY <1>1, <1>2, <2>1 DEF Shortcuts, Types, Counted
<1>3. ASSUME NEW o \in Outputs, NEW l, NEW r, MakesOr(o, l, r)
      PROVE  Types'
  <2>1. o \in Signals
    BY DEF Signals
  <2>2. \A s \in Outputs : refs[s] + One(l, s) + One(r, s) + One(o, s) \in Nat
    BY <1>1 DEF Types, One
  <2>3. refs' \in [Outputs -> Nat] /\ value' \in [Outputs -> Signals \cup {Null}] /\ deps' \in [Outputs -> Seq(Signals)]
    BY <1>1, <1>3, <2>1, <2>2 DEF MakesOr, Types
  <2> QED
    BY <1>1, <1>3, <2>3 DEF MakesOr, Types, Counted
<1>4. ASSUME NEW o \in Outputs, NEW l, NEW r, MakesAnd(o, l, r)
      PROVE  Types'
  <2>1. o \in Signals
    BY DEF Signals
  <2> QED
    BY <1>1, <1>4, <2>1 DEF MakesAnd, Types, Counted
<1>5. ASSUME NEW o \in Outputs, NEW s \in Signals, NEW j, Queues(o, s, j) \/ Runs(o, s, j) \/ Removes(o, s)
      PROVE  Types'
  BY <1>1, <1>5 DEF Types, Counted, Queues, Runs, Removes
<1>6. ASSUME NEW s \in Signals, NEW h, Activates(h, s) \/ ActivatesAgain(h, s)
      PROVE  Types'
  <2>1. go' \subseteq Signals
    BY <1>1, <1>6 DEF Types, Activates, ActivatesAgain
  <2>2. jobs' = jobs \/ jobs' = [jobs EXCEPT ![s] = <<>>]
    BY <1>6 DEF Activates, ActivatesAgain
  <2>3. jobs' \in [Signals -> Seq(JobCalls)]
    <3>1. <<>> \in Seq(JobCalls)
      OBVIOUS
    <3> QED
      BY <1>1, <2>2, <3>1 DEF Types
  <2> QED
    BY <1>1, <1>6, <2>1, <2>3 DEF Types, Counted, Activates, ActivatesAgain
<1>7. ASSUME NEW o \in Outputs, Waits(o) \/ FiresDead(o) \/ CleansNothing(o) \/ ForgetsIt(o) \/ Reads(o)
      PROVE  Types'
  BY <1>1, <1>7 DEF Types, Counted, Waits, FiresDead, CleansNothing, ForgetsIt, Reads
<1>8. ASSUME NEW o \in Outputs, \E l, r : Cleans(o, l, r)
      PROVE  Types'
  BY <1>1, <1>8 DEF Types, Counted, Cleans
<1>9. ASSUME NEW o \in Outputs, Counts1(o) \/ CountsLast(o)
      PROVE  Types'
  <2>1. remaining[o] \in {1, 2}
    BY <1>9, DoneCounts DEF Counts1, CountsLast
  <2>2. remaining[o] - 1 \in 0..2
    BY <2>1
  <2>3. remaining' \in [Outputs -> 0..2]
    BY <1>1, <1>9, <2>2 DEF Types, Counts1, CountsLast
  <2> QED
    BY <1>1, <1>9, <2>3 DEF Types, Counted, Counts1, CountsLast
<1>10. ASSUME NEW o \in Outputs, Fires(o) \/ Unrefs(o) \/ Frees(o)
       PROVE  Types'
  <2>1. refs[o] + 1 \in Nat /\ (refs[o] > 0 => refs[o] - 1 \in Nat)
    BY <1>1 DEF Types
  <2>2. refs' \in [Outputs -> Nat]
    <3>1. \/ refs' = [refs EXCEPT ![o] = refs[o] + 1]
          \/ refs[o] > 0 /\ refs' = [refs EXCEPT ![o] = refs[o] - 1]
      <4>1. refs[o] > 1 \/ refs[o] = 1 => refs[o] > 0
        BY <1>1 DEF Types
      <4> QED
        BY <1>10, <4>1 DEF Fires, Unrefs, Frees
    <3> QED
      BY <1>1, <2>1, <3>1 DEF Types
  <2>3. jobs' \in [Signals -> Seq(JobCalls)]
    <3>1. jobs' = jobs \/ jobs' = [jobs EXCEPT ![o] = <<>>]
      BY <1>10 DEF Fires, Unrefs, Frees
    <3>2. <<>> \in Seq(JobCalls)
      OBVIOUS
    <3> QED
      BY <1>1, <3>1, <3>2 DEF Types
  <2> QED
    BY <1>1, <1>10, <2>2, <2>3 DEF Types, Counted, Fires, Unrefs, Frees
<1>11. ASSUME Assigns \/ \E s \in Inputs : Begin(s)
       PROVE  Types'
  BY <1>1, <1>11 DEF Types, Counted, Assigns, Begin
<1> QED
  BY <1>2, <1>3, <1>4, <1>5, <1>6, <1>7, <1>8, <1>9, <1>10, <1>11 DEF Does

\* Only functions are in the queues.
LEMMA NotAJob ==
  ASSUME jobs \in [Signals -> Seq(JobCalls)], NEW s \in Signals, NEW c, c \notin JobCalls
  PROVE  Occ(jobs[s], c) = 0
<1>1. jobs[s] \in Seq(JobCalls)
  OBVIOUS
<1>2. ~ \E i \in DOMAIN jobs[s] : jobs[s][i] = c
  BY <1>1, ElementOfSeq
<1> QED
  BY <1>1, <1>2, OccType

\* The calls of which there is none more.
Fewer(c) == Pending(agenda', c) <= Pending(agenda, c)
Calm(o, s) == Fewer(GoOn(o)) /\ Fewer(RemoveOn(o, s)) /\ Fewer(FireOf(o)) /\ Fewer(DoneOf(o)) /\ Fewer(CleanupOf(o))

\* What makes a call due.
LEMMA Grows ==
  ASSUME Inv, Does, NEW o \in Outputs, NEW s \in Signals
  PROVE  /\ Fewer(ThenOn(o, s)) \/ \E l, r : MakesOr(o, l, r) \/ MakesAnd(o, l, r)
         /\ Fewer(GoOn(o)) \/ Fires(o) \/ CountsLast(o)
         /\ Fewer(RemoveOn(o, s)) \/ \E l, r : Cleans(o, l, r) /\ s \in {l, r}
         /\ \A c \in {FireOf(o), DoneOf(o), CleanupOf(o)} :
               \/ Fewer(c)
               \/ \E d \in Signals : Runs(o, d, c)
               \/ \E h : \E d \in Signals : Activates(h, d) /\ Occ(jobs[d], c) > 0
               \/ Frees(o) /\ IsOr(o) /\ c = CleanupOf(o)
<1> DEFINE G == /\ Fewer(ThenOn(o, s)) \/ \E l, r : MakesOr(o, l, r) \/ MakesAnd(o, l, r)
                /\ Fewer(GoOn(o)) \/ Fires(o) \/ CountsLast(o)
                /\ Fewer(RemoveOn(o, s)) \/ \E l, r : Cleans(o, l, r) /\ s \in {l, r}
                /\ \A c \in {FireOf(o), DoneOf(o), CleanupOf(o)} :
                      \/ Fewer(c)
                      \/ \E d \in Signals : Runs(o, d, c)
                      \/ \E h : \E d \in Signals : Activates(h, d) /\ Occ(jobs[d], c) > 0
                      \/ Frees(o) /\ IsOr(o) /\ c = CleanupOf(o)
<1> USE DEF ThenOn, GoOn, RemoveOn, FireOf, DoneOf, CleanupOf
<1>1. ASSUME Fewer(ThenOn(o, s)), Calm(o, s)
      PROVE  G
  BY <1>1 DEF Calm
<1>2. ASSUME NEW p \in Outputs, NEW v, NEW l, NEW r, Shortcuts(p, v, l, r)
      PROVE  G
  <2>1. Fewer(ThenOn(o, s)) /\ Calm(o, s)
    BY <1>2, OneDo DEF Shortcuts, Counted, CombineOf, Lost, UnrefOf, Fewer, Calm
  <2> QED
    BY <1>1, <2>1
<1>3. ASSUME NEW p \in Outputs, NEW l, NEW r, MakesOr(p, l, r)
      PROVE  G
  <2>1. (p = o \/ Fewer(ThenOn(o, s))) /\ Calm(o, s)
    BY <1>3, OneDo DEF MakesOr, Counted, CombineOf, Lost, UnrefOf, Fewer, Calm
  <2> QED
    BY <1>3, <2>1 DEF Calm
<1>4. ASSUME NEW p \in Outputs, NEW l, NEW r, MakesAnd(p, l, r)
      PROVE  G
  <2>1. (p = o \/ Fewer(ThenOn(o, s))) /\ Calm(o, s)
    BY <1>4, OneDo DEF MakesAnd, Counted, CombineOf, Lost, UnrefOf, Fewer, Calm
  <2> QED
    BY <1>4, <2>1 DEF Calm
<1>5. ASSUME NEW p \in Outputs, NEW l, NEW r, Cleans(p, l, r)
      PROVE  G
  <2>1. /\ Fewer(ThenOn(o, s)) /\ Fewer(GoOn(o)) /\ Fewer(FireOf(o)) /\ Fewer(DoneOf(o)) /\ Fewer(CleanupOf(o))
        /\ (p = o /\ s \in {l, r}) \/ Fewer(RemoveOn(o, s))
    <3>1. \A c : /\ Pending(agenda, c) \in Nat /\ Pending(agenda', c) \in Nat
                 /\ Pending(agenda', c) + One(CleanupOf(p), c) = Pending(agenda, c)
                      + One(RemoveOn(p, l), c) + One(RemoveOn(p, r), c) + Lost(l, c) + Lost(r, c)
      BY <1>5 DEF Cleans, Counted
    <3> QED
      BY <3>1, OneDo DEF Lost, UnrefOf, Fewer
  <2> QED
    BY <1>5, <2>1
<1>6. ASSUME NEW p \in Outputs, NEW d \in Signals, NEW j, Queues(p, d, j)
      PROVE  G
  <2>1. Fewer(ThenOn(o, s)) /\ Calm(o, s)
    <3>1. \A c : /\ Pending(agenda, c) \in Nat /\ Pending(agenda', c) \in Nat
                 /\ Pending(agenda', c) + One(ThenOn(p, d), c) = Pending(agenda, c)
      BY <1>6 DEF Queues, Counted
    <3>2. \A c : Fewer(c)
      BY <3>1 DEF One, Fewer
    <3> QED
      BY <3>2 DEF Calm
  <2> QED
    BY <1>1, <2>1
<1>7. ASSUME NEW p \in Outputs, NEW d \in Signals, NEW j, Runs(p, d, j)
      PROVE  G
  <2>1. /\ Fewer(ThenOn(o, s)) /\ Fewer(GoOn(o)) /\ Fewer(RemoveOn(o, s))
        /\ \A c \in {FireOf(o), DoneOf(o), CleanupOf(o)} : Fewer(c) \/ (p = o /\ c = j)
    BY <1>7, OneDo DEF Runs, Registers, Counted, Fewer
  <2> QED
    BY <1>7, <2>1
<1>8. ASSUME NEW d \in Signals, NEW h, Activates(h, d)
      PROVE  G
  <2>1. \A c : Occ(jobs[d], c) \in Nat
    BY OccType DEF Inv, Types
  <2>2. \A c : Fewer(c) \/ Occ(jobs[d], c) > 0
    BY <1>8, <2>1 DEF Activates, Counted, Fewer, One
  <2>3. Occ(jobs[d], ThenOn(o, s)) = 0 /\ Occ(jobs[d], GoOn(o)) = 0 /\ Occ(jobs[d], RemoveOn(o, s)) = 0
    <3>1. {ThenOn(o, s), GoOn(o), RemoveOn(o, s)} \cap JobCalls = {}
      BY Fields DEF JobCalls
    <3> QED
      BY <3>1, NotAJob DEF Inv, Types
  <2> QED
    BY <1>8, <2>2, <2>3
<1>9. ASSUME NEW d \in Signals, NEW h, ActivatesAgain(h, d)
      PROVE  G
  <2>1. Fewer(ThenOn(o, s)) /\ Calm(o, s)
    BY <1>9 DEF ActivatesAgain, Counted, Fewer, Calm, One
  <2> QED
    BY <1>1, <2>1
<1>10. ASSUME NEW p \in Outputs, NEW d \in Signals, Removes(p, d)
       PROVE  G
  <2>1. Fewer(ThenOn(o, s)) /\ Calm(o, s)
    <3>1. \A c : /\ Pending(agenda, c) \in Nat /\ Pending(agenda', c) \in Nat
                 /\ Pending(agenda', c) + One(RemoveOn(p, d), c) = Pending(agenda, c)
      BY <1>10 DEF Removes, Counted
    <3>2. \A c : Fewer(c)
      BY <3>1 DEF One, Fewer
    <3> QED
      BY <3>2 DEF Calm
  <2> QED
    BY <1>1, <2>1
<1>11. ASSUME NEW p \in Outputs, Waits(p) \/ FiresDead(p) \/ CleansNothing(p) \/ Counts1(p) \/ Unrefs(p)
                                   \/ Reads(p) \/ Assigns
       PROVE  G
  <2>1. Fewer(ThenOn(o, s)) /\ Calm(o, s)
    <3>1. \E h : \A c : /\ Pending(agenda, c) \in Nat /\ Pending(agenda', c) \in Nat
                        /\ Pending(agenda', c) + One(h, c) = Pending(agenda, c)
      <4>1. CASE Waits(p) \/ Reads(p)
        BY <4>1 DEF Waits, Reads, Counted
      <4>2. CASE FiresDead(p) \/ CleansNothing(p)
        BY <4>2 DEF FiresDead, CleansNothing, Counted
      <4>3. CASE Counts1(p) \/ Unrefs(p)
        BY <4>3 DEF Counts1, Unrefs, Counted
      <4>4. CASE Assigns
        BY <4>4 DEF Assigns, Counted
      <4> QED
        BY <1>11, <4>1, <4>2, <4>3, <4>4
    <3>2. \A c : Fewer(c)
      BY <3>1 DEF One, Fewer
    <3> QED
      BY <3>2 DEF Calm
  <2> QED
    BY <1>1, <2>1
<1>12. ASSUME NEW p \in Outputs, Fires(p) \/ CountsLast(p)
       PROVE  G
  <2>1. /\ Fewer(ThenOn(o, s)) /\ Fewer(RemoveOn(o, s)) /\ Fewer(FireOf(o)) /\ Fewer(DoneOf(o)) /\ Fewer(CleanupOf(o))
        /\ p = o \/ Fewer(GoOn(o))
    BY <1>12, OneDo DEF Fires, CountsLast, Counted, UnrefOf, Fewer
  <2> QED
    BY <1>12, <2>1
<1>13. ASSUME NEW p \in Outputs, Frees(p)
       PROVE  G
  <2>1. /\ Fewer(ThenOn(o, s)) /\ Fewer(RemoveOn(o, s)) /\ Fewer(FireOf(o)) /\ Fewer(DoneOf(o)) /\ Fewer(GoOn(o))
        /\ (p = o /\ IsOr(o)) \/ Fewer(CleanupOf(o))
    <3>1. \A c : /\ Pending(agenda, c) \in Nat /\ Pending(agenda', c) \in Nat
                 /\ Pending(agenda', c) + One(UnrefOf(p), c)
                      = Pending(agenda, c) + (IF IsOr(p) THEN One(CleanupOf(p), c) ELSE 0)
      BY <1>13 DEF Frees, Counted
    <3> QED
      BY <3>1, OneDo DEF UnrefOf, Fewer
  <2> QED
    BY <1>13, <2>1
<1>14. ASSUME NEW p \in Outputs, ForgetsIt(p)
       PROVE  G
  <2>1. Fewer(ThenOn(o, s)) /\ Calm(o, s)
    BY <1>14, OneDo DEF ForgetsIt, Counted, Fewer, Calm, ForgetOf, Lost, UnrefOf
  <2> QED
    BY <1>1, <2>1
<1>15. ASSUME NEW d \in Inputs, Begin(d)
       PROVE  G
  <2>1. d # o
    BY CombinatorsAssumption
  <2>2. Fewer(ThenOn(o, s)) /\ Calm(o, s)
    BY <1>15, <2>1, OneDo DEF Begin, Counted, Fewer, Calm, GoIn, AssignIt
  <2> QED
    BY <1>1, <2>2
<1> HIDE DEF G
<1>16. o \in Outputs
  OBVIOUS
<1>17. G
  BY <1>2, <1>3, <1>4, <1>5, <1>6, <1>7, <1>8, <1>9, <1>10, <1>11, <1>12, <1>13, <1>14, <1>15, <1>16 DEF Does
<1> QED
  BY <1>17 DEF G

-----------------------------------------------------------------------------
(***************************************************************************)
(* The plan, and what the builder holds.                                   *)
(***************************************************************************)
\* Nothing that is planned is done.
Idle == /\ expr' = expr /\ value' = value
        /\ \A p \in Outputs : /\ Pending(agenda', CombineOf(p)) = Pending(agenda, CombineOf(p))
                              /\ Pending(agenda', WaitOf(p)) = Pending(agenda, WaitOf(p))
                              /\ Pending(agenda', ForgetOf(p)) = Pending(agenda, ForgetOf(p))
                              /\ Pending(agenda', ReadOf(p)) = Pending(agenda, ReadOf(p))

\* The combination of o is evaluated.
Combines(o, v) == /\ Ready(o) /\ v # Null /\ expr' = expr /\ value' = [value EXCEPT ![o] = v]
                  /\ \A p \in Outputs : /\ Pending(agenda', CombineOf(p)) + One(o, p) = Pending(agenda, CombineOf(p))
                                        /\ Pending(agenda', WaitOf(p)) = Pending(agenda, WaitOf(p))
                                        /\ Pending(agenda', ForgetOf(p)) = Pending(agenda, ForgetOf(p))
                                        /\ Pending(agenda', ReadOf(p)) = Pending(agenda, ReadOf(p))

\* What the evaluation of a combination does to the plan.
LEMMA CombineCounts ==
  ASSUME Inv, NEW o \in Outputs, NEW l, NEW r
  PROVE  /\ \A v : Shortcuts(o, v, l, r) => Combines(o, v)
         /\ MakesOr(o, l, r) => Combines(o, o)
         /\ MakesAnd(o, l, r) => Combines(o, o)
<1> USE DEF CombineOf, WaitOf, ForgetOf, ReadOf
<1>1. o # Null /\ Never # Null /\ Done # Null
  BY CombinatorsAssumption DEF Signals
<1>2. \A p : One(o, p) = (IF o = p THEN 1 ELSE 0)
  BY DEF One
<1>3. ASSUME NEW v, Shortcuts(o, v, l, r) PROVE Combines(o, v)
  <2>1. Ready(o) /\ expr' = expr /\ value' = [value EXCEPT ![o] = v]
    BY <1>3 DEF Shortcuts
  <2>2. v # Null
    BY <1>1, <1>3, CombinatorsAssumption DEF Shortcuts, Ready, Signals
  <2>3. \A c : /\ Pending(agenda, c) \in Nat /\ Pending(agenda', c) \in Nat
               /\ Pending(agenda', c) + One(CombineOf(o), c)
                    = Pending(agenda, c) + (IF v = l THEN 0 ELSE Lost(l, c)) + Lost(r, c)
    BY <1>3 DEF Shortcuts, Counted
  <2> QED
    BY <1>2, <2>1, <2>2, <2>3, OneDo DEF Combines, Lost, UnrefOf
<1>4. ASSUME MakesOr(o, l, r) PROVE Combines(o, o)
  <2>1. Ready(o) /\ expr' = expr /\ value' = [value EXCEPT ![o] = o]
    BY <1>4 DEF MakesOr
  <2>2. \A c : /\ Pending(agenda, c) \in Nat /\ Pending(agenda', c) \in Nat
               /\ Pending(agenda', c) + One(CombineOf(o), c)
                    = Pending(agenda, c) + One(ThenOn(o, l), c) + One(ThenOn(o, r), c) + One(ThenOn(o, o), c)
                        + Lost(l, c) + Lost(r, c)
    BY <1>4 DEF MakesOr, Counted
  <2> QED
    BY <1>1, <1>2, <2>1, <2>2, OneDo DEF Combines, Lost, UnrefOf, ThenOn
<1>5. ASSUME MakesAnd(o, l, r) PROVE Combines(o, o)
  <2>1. Ready(o) /\ expr' = expr /\ value' = [value EXCEPT ![o] = o]
    BY <1>5 DEF MakesAnd
  <2>2. \A c : /\ Pending(agenda, c) \in Nat /\ Pending(agenda', c) \in Nat
               /\ Pending(agenda', c) + One(CombineOf(o), c)
                    = Pending(agenda, c) + One(ThenOn(o, l), c) + One(ThenOn(o, r), c) + Lost(l, c) + Lost(r, c)
    BY <1>5 DEF MakesAnd, Counted
  <2> QED
    BY <1>1, <1>2, <2>1, <2>2, OneDo DEF Combines, Lost, UnrefOf, ThenOn
<1> QED
  BY <1>3, <1>4, <1>5

\* And to the values.
LEMMA CombineValue ==
  ASSUME Inv, NEW o \in Outputs, NEW v, Combines(o, v)
  PROVE  /\ \A p \in Outputs : value'[p] = IF p = o THEN v ELSE value[p]
         /\ \A p \in Outputs : value[p] # Null => value'[p] = value[p]
         /\ o \notin Made /\ Made' = IF v = o THEN Made \cup {o} ELSE Made
         /\ \A p : p \in Made \cup {o} => /\ Left(p)' = Left(p) /\ Right(p)' = Right(p)
                                         /\ Operands(p)' = Operands(p)
                                         /\ \A s : Mult(p, s)' = Mult(p, s)
<1>1. Ready(o)
  BY DEF Combines
<1>2. v # Null
  BY DEF Combines
<1>3. expr' = expr
  BY DEF Combines
<1>4. value' = [value EXCEPT ![o] = v]
  BY DEF Combines
<1> QED
  BY <1>1, <1>2, <1>3, <1>4, NewValue

\* Most steps leave the plan as it is.
LEMMA PlanSteps ==
  ASSUME Inv, Does
  PROVE  \/ Idle
         \/ \E o \in Outputs : \E v : Combines(o, v)
         \/ \E o \in Outputs : Waits(o) \/ ForgetsIt(o) \/ Reads(o)
<1> USE DEF CombineOf, WaitOf, ForgetOf, ReadOf
<1>1. ASSUME NEW o \in Outputs, NEW v, NEW l, NEW r, Shortcuts(o, v, l, r) \/ MakesOr(o, l, r) \/ MakesAnd(o, l, r)
      PROVE  \E w : Combines(o, w)
  BY <1>1, CombineCounts
<1>2. ASSUME NEW o \in Outputs, NEW d \in Signals, NEW j, Queues(o, d, j)
      PROVE  Idle
  <2>1. \A c : /\ Pending(agenda, c) \in Nat /\ Pending(agenda', c) \in Nat
               /\ Pending(agenda', c) + One(ThenOn(o, d), c) = Pending(agenda, c)
    BY <1>2 DEF Queues, Counted
  <2> QED
    BY <1>2, <2>1, OneDo DEF Idle, Queues, ThenOn
<1>3. ASSUME NEW o \in Outputs, NEW d \in Signals, NEW j, Runs(o, d, j)
      PROVE  Idle
  <2>1. \A c : /\ Pending(agenda, c) \in Nat /\ Pending(agenda', c) \in Nat
               /\ Pending(agenda', c) + One(ThenOn(o, d), c) = Pending(agenda, c) + One(j, c)
    BY <1>3 DEF Runs, Counted
  <2>2. j \in {CleanupOf(o), FireOf(o), DoneOf(o)} /\ expr' = expr /\ value' = value
    BY <1>3 DEF Runs, Registers
  <2> QED
    BY <2>1, <2>2, OneDo DEF Idle, ThenOn, CleanupOf, FireOf, DoneOf
<1>4. ASSUME NEW s \in Signals, NEW h, Activates(h, s)
      PROVE  Idle
  <2>1. \A c : /\ Pending(agenda, c) \in Nat /\ Pending(agenda', c) \in Nat
               /\ Pending(agenda', c) + One(h, c) = Pending(agenda, c) + Occ(jobs[s], c)
    BY <1>4 DEF Activates, Counted
  <2>2. (h = GoOn(s) \/ h = GoIn(s)) /\ expr' = expr /\ value' = value
    BY <1>4 DEF Activates, Goes
  <2>3. ASSUME NEW p \in Outputs, NEW c \in {CombineOf(p), WaitOf(p), ForgetOf(p), ReadOf(p)}
        PROVE  Pending(agenda', c) = Pending(agenda, c)
    <3>1. c \notin JobCalls /\ c # h
      BY <2>2, Fields DEF JobCalls, CleanupOf, FireOf, DoneOf, GoOn, GoIn
    <3>2. Occ(jobs[s], c) = 0
      BY <3>1, NotAJob DEF Inv, Types
    <3> QED
      BY <2>1, <3>1, <3>2 DEF One
  <2> QED
    BY <2>2, <2>3 DEF Idle
<1>5. ASSUME NEW s \in Signals, NEW h, ActivatesAgain(h, s)
      PROVE  Idle
  <2>1. \A c : /\ Pending(agenda, c) \in Nat /\ Pending(agenda', c) \in Nat
               /\ Pending(agenda', c) + One(h, c) = Pending(agenda, c)
    BY <1>5 DEF ActivatesAgain, Counted
  <2>2. (h = GoOn(s) \/ h = GoIn(s)) /\ expr' = expr /\ value' = value
    BY <1>5 DEF ActivatesAgain, Goes
  <2> QED
    BY <2>1, <2>2, OneDo DEF Idle, GoOn, GoIn
<1>6. ASSUME NEW o \in Outputs, NEW s \in Signals, Removes(o, s)
      PROVE  Idle
  <2>1. \A c : /\ Pending(agenda, c) \in Nat /\ Pending(agenda', c) \in Nat
               /\ Pending(agenda', c) + One(RemoveOn(o, s), c) = Pending(agenda, c)
    BY <1>6 DEF Removes, Counted
  <2> QED
    BY <1>6, <2>1, OneDo DEF Idle, Removes, RemoveOn
<1>7. ASSUME NEW o \in Outputs, FiresDead(o) \/ CleansNothing(o) \/ Counts1(o) \/ Unrefs(o) \/ Assigns
      PROVE  Idle
  <2>1. PICK h \in {FireOf(o), CleanupOf(o), DoneOf(o), UnrefOf(o), AssignIt} :
           \A c : /\ Pending(agenda, c) \in Nat /\ Pending(agenda', c) \in Nat
                  /\ Pending(agenda', c) + One(h, c) = Pending(agenda, c)
    <3>1. CASE FiresDead(o) \/ CleansNothing(o)
      BY <3>1 DEF FiresDead, CleansNothing, Counted
    <3>2. CASE Counts1(o) \/ Unrefs(o)
      BY <3>2 DEF Counts1, Unrefs, Counted
    <3>3. CASE Assigns
      BY <3>3 DEF Assigns, Counted
    <3> QED
      BY <1>7, <3>1, <3>2, <3>3
  <2>2. expr' = expr /\ value' = value
    BY <1>7 DEF FiresDead, CleansNothing, Counts1, Unrefs, Assigns
  <2> QED
    BY <2>1, <2>2, OneDo DEF Idle, FireOf, CleanupOf, DoneOf, UnrefOf, AssignIt
<1>8. ASSUME NEW o \in Outputs, Fires(o) \/ CountsLast(o)
      PROVE  Idle
  <2>1. PICK h \in {FireOf(o), DoneOf(o)} :
           \A c : /\ Pending(agenda, c) \in Nat /\ Pending(agenda', c) \in Nat
                  /\ Pending(agenda', c) + One(h, c) = Pending(agenda, c) + One(GoOn(o), c) + One(UnrefOf(o), c)
    BY <1>8 DEF Fires, CountsLast, Counted
  <2>2. expr' = expr /\ value' = value
    BY <1>8 DEF Fires, CountsLast
  <2> QED
    BY <2>1, <2>2, OneDo DEF Idle, FireOf, DoneOf, UnrefOf, GoOn
<1>9. ASSUME NEW o \in Outputs, NEW l, NEW r, Cleans(o, l, r)
      PROVE  Idle
  <2>1. \A c : /\ Pending(agenda, c) \in Nat /\ Pending(agenda', c) \in Nat
               /\ Pending(agenda', c) + One(CleanupOf(o), c)
                    = Pending(agenda, c) + One(RemoveOn(o, l), c) + One(RemoveOn(o, r), c) + Lost(l, c) + Lost(r, c)
    BY <1>9 DEF Cleans, Counted
  <2>2. expr' = expr /\ value' = value
    BY <1>9 DEF Cleans
  <2> QED
    BY <2>1, <2>2, OneDo DEF Idle, CleanupOf, RemoveOn, Lost, UnrefOf
<1>10. ASSUME NEW o \in Outputs, Frees(o)
       PROVE  Idle
  <2>1. \A c : /\ Pending(agenda, c) \in Nat /\ Pending(agenda', c) \in Nat
               /\ Pending(agenda', c) + One(UnrefOf(o), c)
                    = Pending(agenda, c) + (IF IsOr(o) THEN One(CleanupOf(o), c) ELSE 0)
    BY <1>10 DEF Frees, Counted
  <2>2. expr' = expr /\ value' = value
    BY <1>10 DEF Frees
  <2> QED
    BY <2>1, <2>2, OneDo DEF Idle, CleanupOf, UnrefOf
<1>11. ASSUME NEW s \in Inputs, Begin(s)
       PROVE  Idle
  <2>1. \A c : /\ Pending(agenda, c) \in Nat /\ Pending(agenda', c) \in Nat
               /\ Pending(agenda', c) = Pending(agenda, c) + (IF s = Future THEN One(AssignIt, c) ELSE 0) + One(GoIn(s), c)
    BY <1>11 DEF Begin, Counted
  <2>2. expr' = expr /\ value' = value
    BY <1>11 DEF Begin
  <2> QED
    BY <2>1, <2>2, OneDo DEF Idle, AssignIt, GoIn
<1>12. Assigns => \E o \in Outputs : TRUE
  <2>1. Result(expr) \in Outputs
    BY ExprFacts DEF Inv, Types
  <2> QED
    BY <2>1
<1> QED
  BY <1>1, <1>2, <1>3, <1>4, <1>5, <1>6, <1>7, <1>8, <1>9, <1>10, <1>11, <1>12 DEF Does

\* The plan goes on in its order.
LEMMA PlanStep ==
  ASSUME Inv, Does
  PROVE  PlanInv'
<1> USE DEF CombineOf, WaitOf, ForgetOf, ReadOf
<1>1. PlanInv
  BY DEF Inv
<1>2. CASE Idle
  <2>1. /\ Outs' = Outs /\ Result(expr)' = Result(expr) /\ (IsFutureWait(expr))' = IsFutureWait(expr)
        /\ expr' = expr /\ value' = value
    BY <1>2, SameTerms DEF Idle
  <2>2. Forgets => Forgets'
    BY <1>2 DEF Forgets, Idle
  <2> QED
    BY <1>1, <1>2, <2>1, <2>2 DEF PlanInv, Idle
<1>3. ASSUME NEW o \in Outputs, NEW v, Combines(o, v)
      PROVE  PlanInv'
  <2>1. /\ Outs' = Outs /\ Result(expr)' = Result(expr) /\ (IsFutureWait(expr))' = IsFutureWait(expr)
    BY <1>3, SameTerms DEF Combines
  <2>2. \A p \in Outputs : value'[p] = IF p = o THEN v ELSE value[p]
    BY <1>3, CombineValue
  <2>3. Forgets => Forgets'
    BY <1>3 DEF Forgets, Combines
  <2>4. o \in Outs /\ v # Null
    BY <1>3 DEF Combines, Ready
  <2>5. \A p \in Outputs : /\ Pending(agenda, CombineOf(p)) \in Nat
    BY PendingType DEF Inv, Types
  <2>6. \A p \in Outputs : IF p = o THEN Pending(agenda', CombineOf(p)) = 0
                           ELSE Pending(agenda', CombineOf(p)) = Pending(agenda, CombineOf(p))
    <3>1. Pending(agenda, CombineOf(o)) = 1
      BY <1>3 DEF Combines, Ready
    <3>2. Types'
      BY TypesStep
    <3>3. \A p \in Outputs : /\ Pending(agenda', CombineOf(p)) \in Nat
      BY <3>2, PendingType DEF Types
    <3> QED
      BY <1>3, <2>5, <3>1, <3>3 DEF Combines, One
  <2>7. \A p \in Outputs : /\ Pending(agenda', WaitOf(p)) = Pending(agenda, WaitOf(p))
                           /\ Pending(agenda', ForgetOf(p)) = Pending(agenda, ForgetOf(p))
                           /\ Pending(agenda', ReadOf(p)) = Pending(agenda, ReadOf(p))
    BY <1>3 DEF Combines
  <2> QED
    BY <1>1, <2>1, <2>2, <2>3, <2>4, <2>6, <2>7 DEF PlanInv
<1>4. ASSUME NEW o \in Outputs, Waits(o) \/ ForgetsIt(o) \/ Reads(o)
      PROVE  PlanInv'
  <2>1. expr' = expr /\ value' = value
    BY <1>4 DEF Waits, ForgetsIt, Reads
  <2>2. /\ Outs' = Outs /\ Result(expr)' = Result(expr) /\ (IsFutureWait(expr))' = IsFutureWait(expr)
    BY <2>1, SameTerms
  <2>3. CASE Waits(o)
    <3>1. \A c : /\ Pending(agenda, c) \in Nat /\ Pending(agenda', c) \in Nat
                 /\ Pending(agenda', c) + One(WaitOf(o), c) = Pending(agenda, c)
      BY <2>3 DEF Waits, Counted
    <3>2. \A p \in Outputs : /\ Pending(agenda', CombineOf(p)) = Pending(agenda, CombineOf(p))
                             /\ Pending(agenda', ForgetOf(p)) = Pending(agenda, ForgetOf(p))
                             /\ Pending(agenda', ReadOf(p)) = Pending(agenda, ReadOf(p))
                             /\ Pending(agenda', WaitOf(p)) > 0 => Pending(agenda, WaitOf(p)) > 0
      BY <3>1, OneDo
    <3>3. Forgets => Forgets'
      BY <3>2 DEF Forgets
    <3> QED
      BY <1>1, <2>1, <2>2, <3>2, <3>3 DEF PlanInv
  <2>4. CASE ForgetsIt(o)
    <3>1. \A c : /\ Pending(agenda, c) \in Nat /\ Pending(agenda', c) \in Nat
                 /\ Pending(agenda', c) + One(ForgetOf(o), c) = Pending(agenda, c) + Lost(value[o], c)
      BY <2>4 DEF ForgetsIt, Counted
    <3>2. \A p \in Outputs : /\ Pending(agenda', CombineOf(p)) = Pending(agenda, CombineOf(p))
                             /\ Pending(agenda', WaitOf(p)) = Pending(agenda, WaitOf(p))
                             /\ Pending(agenda', ReadOf(p)) = Pending(agenda, ReadOf(p))
                             /\ Pending(agenda', ForgetOf(p)) > 0 => Pending(agenda, ForgetOf(p)) > 0
      BY <3>1, OneDo DEF Lost, UnrefOf
    <3>3. \A p \in Outputs : Pending(agenda, CombineOf(p)) = 0 /\ Pending(agenda, WaitOf(p)) = 0
      BY <2>4 DEF ForgetsIt
    <3> QED
      BY <1>1, <2>1, <2>2, <3>2, <3>3 DEF PlanInv
  <2>5. CASE Reads(o)
    <3>1. \A c : /\ Pending(agenda, c) \in Nat /\ Pending(agenda', c) \in Nat
                 /\ Pending(agenda', c) + One(ReadOf(o), c) = Pending(agenda, c)
      BY <2>5 DEF Reads, Counted
    <3>2. \A p \in Outputs : /\ Pending(agenda', CombineOf(p)) = Pending(agenda, CombineOf(p))
                             /\ Pending(agenda', WaitOf(p)) = Pending(agenda, WaitOf(p))
                             /\ Pending(agenda', ForgetOf(p)) = Pending(agenda, ForgetOf(p))
                             /\ Pending(agenda', ReadOf(p)) > 0 => Pending(agenda, ReadOf(p)) > 0
      BY <3>1, OneDo
    <3>3. Forgets => Forgets'
      BY <3>2 DEF Forgets
    <3> QED
      BY <1>1, <2>1, <2>2, <3>2, <3>3 DEF PlanInv
  <2> QED
    BY <1>4, <2>3, <2>4, <2>5
<1> QED
  BY <1>2, <1>3, <1>4, PlanSteps

\* Operands are there before what is made of them.
LEMMA MadeStep ==
  ASSUME Inv, Does
  PROVE  MadeInv'
<1>1. MadeInv
  BY DEF Inv
<1>2. CASE expr' = expr /\ value' = value
  BY <1>1, <1>2, SameTerms, SameOperands DEF MadeInv
<1>3. ASSUME NEW o \in Outputs, NEW v, Combines(o, v),
             v \in Outputs => v = o \/ v \in Made, v = o => Right(o) \in Signals
      PROVE  MadeInv'
  <2>0. Ready(o) /\ v # Null /\ expr' = expr /\ value' = [value EXCEPT ![o] = v]
    BY <1>3 DEF Combines
  <2>1. /\ \A p \in Outputs : value'[p] = IF p = o THEN v ELSE value[p]
        /\ Made' = IF v = o THEN Made \cup {o} ELSE Made
        /\ \A p : p \in Made \cup {o} => Operands(p)' = Operands(p)
    BY <1>3, CombineValue
  <2>2. \A p : Terms(p)' = Terms(p)
    BY <1>3, SameTerms DEF Combines
  <2>3. Operands(o) \subseteq Signals \ {o} \/ v # o
    <3>1. o \in Signals /\ {Null, True, False} \cap Signals = {}
      BY CombinatorsAssumption DEF Signals
    <3> QED
      BY <1>3, <2>0, <3>1 DEF Ready, Operands
  <2>4. \A c \in Outputs : value'[c] \in Outputs => value'[c] \in Made'
    BY <1>1, <1>3, <2>1 DEF MadeInv
  <2>5. \A p \in Made' : Operands(p)' \subseteq Signals \ {p}
    BY <1>1, <2>1, <2>3 DEF MadeInv
  <2>6. \A w \in Terms(o) : w \in Outputs => value[w] # Null
    BY <2>0 DEF Ready, Held
  <2>7. \A p \in Outputs : value'[p] # Null => \A w \in Terms(p) : w \in Outputs => value'[w] # Null
    BY <1>1, <2>0, <2>1, <2>6 DEF MadeInv
  <2> QED
    BY <2>2, <2>4, <2>5, <2>7 DEF MadeInv
<1>4. ASSUME NEW o \in Outputs, NEW v, NEW l, NEW r, Shortcuts(o, v, l, r)
      PROVE  MadeInv'
  <2>1. v \in Outputs => v \in Made
    <3>1. v \in Outputs => v = l /\ v \in Operands(o) /\ Ready(o)
      BY <1>4, CombinatorsAssumption DEF Shortcuts, Operands
    <3> QED
      BY <3>1, OperandHeld
  <2>2. v # o
    BY <1>4, CombinatorsAssumption DEF Shortcuts, Ready, Signals
  <2> QED
    BY <1>3, <1>4, <2>1, <2>2, CombineCounts
<1>5. ASSUME NEW o \in Outputs, NEW l, NEW r, MakesOr(o, l, r) \/ MakesAnd(o, l, r)
      PROVE  MadeInv'
  <2>1. Right(o) \in Signals
    BY <1>5 DEF MakesOr, MakesAnd
  <2> QED
    BY <1>3, <1>5, <2>1, CombineCounts
<1>6. value' = value \/ \/ \E o \in Outputs : \E v, l, r : Shortcuts(o, v, l, r)
                        \/ \E o \in Outputs : \E l, r : MakesOr(o, l, r) \/ MakesAnd(o, l, r)
  BY DEF Does, Queues, Runs, Activates, ActivatesAgain, Removes, Waits, FiresDead, Fires, CleansNothing, Cleans,
         Counts1, CountsLast, Unrefs, Frees, ForgetsIt, Reads, Assigns, Begin
<1> QED
  BY <1>2, <1>4, <1>5, <1>6, Stable

-----------------------------------------------------------------------------
\* When a combination is evaluated the builder gets hold of what it returned,
\* and lets go of the operands.
LEMMA HeldCombine ==
  ASSUME Inv, NEW o \in Outputs, NEW v, Combines(o, v)
  PROVE  /\ Held(o)' /\ o \in Outs /\ Outs' = Outs
         /\ \A p \in Outs : p # o => (Held(p)' <=> Held(p) /\ p \notin Terms(o))
<1>1. /\ Outs' = Outs /\ Result(expr)' = Result(expr) /\ \A p : Terms(p)' = Terms(p)
  BY SameTerms DEF Combines
<1>2. \A p \in Outputs : value'[p] = IF p = o THEN v ELSE value[p]
  BY CombineValue
<1>3. Outs \subseteq Outputs
  BY ExprFacts DEF Inv, Types
<1>4. o \in Outs /\ value[o] = Null /\ v # Null /\ Forgets /\ \A w \in Terms(o) : w \in Outputs => w # o
  BY DEF Combines, Ready
<1>5. Forgets'
  <2>1. PICK p \in Outputs : Pending(agenda, ForgetOf(p)) > 0
    BY <1>4 DEF Forgets
  <2>2. Pending(agenda', ForgetOf(p)) = Pending(agenda, ForgetOf(p))
    BY DEF Combines
  <2> QED
    BY <2>1, <2>2 DEF Forgets
<1>6. Held(o)'
  <2>1. ASSUME NEW p \in Outs, o \in Terms(p) PROVE value'[p] = Null
    <3>1. p # o
      BY <1>4, <2>1
    <3>2. value[p] = Null
      BY <1>3, <1>4, <2>1 DEF Inv, MadeInv
    <3> QED
      BY <1>2, <1>3, <3>1, <3>2
  <2> QED
    BY <1>1, <1>2, <1>4, <1>5, <2>1 DEF Held
<1>7. ASSUME NEW p \in Outs, p # o
      PROVE  Held(p)' <=> Held(p) /\ p \notin Terms(o)
  <2>1. value'[p] = value[p]
    BY <1>2, <1>3, <1>7
  <2>2. \A q \in Outs : value'[q] = Null <=> value[q] = Null /\ q # o
    BY <1>2, <1>3, <1>4
  <2> QED
    BY <1>1, <1>4, <1>5, <2>1, <2>2 DEF Held
<1> QED
  BY <1>1, <1>4, <1>6, <1>7

\* The last it lets go of is the result.
LEMMA HeldForget ==
  ASSUME Inv, NEW o \in Outputs, ForgetsIt(o)
  PROVE  /\ Held(o) /\ o \in Outs /\ Outs' = Outs /\ value' = value
         /\ \A p \in Outs : Held(p)' <=> Held(p) /\ p # o
<1>1. /\ Outs' = Outs /\ Result(expr)' = Result(expr) /\ \A p : Terms(p)' = Terms(p)
  BY SameTerms DEF ForgetsIt
<1>2. o = Result(expr) /\ value[o] # Null /\ value' = value /\ o \in Outs
  BY ExprFacts DEF ForgetsIt, Inv, Types
<1>3. \A p \in Outs : o \notin Terms(p)
  BY <1>2, ExprFacts DEF Inv, Types
<1>4. Forgets
  <2>1. Pending(agenda, ForgetOf(o)) = 1
    BY DEF ForgetsIt, One
  <2> QED
    BY <2>1 DEF Forgets
<1>5. ~Forgets'
  <2>1. ASSUME NEW p \in Outputs PROVE Pending(agenda', ForgetOf(p)) = 0
    <3>1. \A c : /\ Pending(agenda, c) \in Nat /\ Pending(agenda', c) \in Nat
                 /\ Pending(agenda', c) + One(ForgetOf(o), c) = Pending(agenda, c) + Lost(value[o], c)
      BY DEF ForgetsIt, Counted
    <3>2. Pending(agenda, ForgetOf(p)) = IF o = p THEN 1 ELSE 0
      BY DEF ForgetsIt, One
    <3> QED
      BY <3>1, <3>2, OneDo DEF ForgetOf, Lost, UnrefOf
  <2> QED
    BY <2>1 DEF Forgets
<1> QED
  BY <1>1, <1>2, <1>3, <1>4, <1>5 DEF Held

\* Else nothing changes in what it holds.
LEMMA HeldSame ==
  ASSUME Inv, Idle \/ \E o \in Outputs : Waits(o) \/ Reads(o)
  PROVE  /\ Outs' = Outs /\ expr' = expr /\ value' = value
         /\ \A p : Held(p)' <=> Held(p)
<1>1. expr' = expr /\ value' = value
  BY DEF Idle, Waits, Reads
<1>2. /\ Outs' = Outs /\ Result(expr)' = Result(expr) /\ \A p : Terms(p)' = Terms(p)
  BY <1>1, SameTerms
<1>3. \A p \in Outputs : Pending(agenda', ForgetOf(p)) = Pending(agenda, ForgetOf(p))
  <2>1. CASE Idle
    BY <2>1 DEF Idle
  <2>2. ASSUME NEW o \in Outputs, Waits(o)
        PROVE  \A p \in Outputs : Pending(agenda', ForgetOf(p)) = Pending(agenda, ForgetOf(p))
    <3>1. \A c : /\ Pending(agenda, c) \in Nat /\ Pending(agenda', c) \in Nat
                 /\ Pending(agenda', c) + One(WaitOf(o), c) = Pending(agenda, c)
      BY <2>2 DEF Waits, Counted
    <3> QED
      BY <3>1, OneDo DEF WaitOf, ForgetOf
  <2>3. ASSUME NEW o \in Outputs, Reads(o)
        PROVE  \A p \in Outputs : Pending(agenda', ForgetOf(p)) = Pending(agenda, ForgetOf(p))
    <3>1. \A c : /\ Pending(agenda, c) \in Nat /\ Pending(agenda', c) \in Nat
                 /\ Pending(agenda', c) + One(ReadOf(o), c) = Pending(agenda, c)
      BY <2>3 DEF Reads, Counted
    <3> QED
      BY <3>1, OneDo DEF ReadOf, ForgetOf
  <2> QED
    BY <2>1, <2>2, <2>3
<1>4. Forgets' <=> Forgets
  BY <1>3 DEF Forgets
<1> QED
  BY <1>1, <1>2, <1>4 DEF Held

\* An operand that is an output was made.
LEMMA OperandMade ==
  ASSUME Inv, NEW o \in Outputs, NEW x \in Operands(o), x \in Outputs
  PROVE  x \in Made /\ \E w \in Terms(o) : w \in Outputs /\ value[w] = x
<1>1. PICK w \in Terms(o) : x = Operand(w)
  BY DEF Operands, Left, Right, Terms
<1>2. w \in Outputs
  BY <1>1 DEF Operand
<1>3. value[w] = x
  BY <1>1, <1>2 DEF Operand
<1> QED
  BY <1>2, <1>3 DEF Inv, MadeInv

\* Before a combination is evaluated nobody knows its output.
LEMMA Fresh ==
  ASSUME Inv, NEW o \in Outputs, Ready(o)
  PROVE  /\ o \notin Made /\ o \notin go /\ deps[o] = <<>> /\ remaining[o] = 0
         /\ \A c \in Outputs : value[c] # o
         /\ \A p \in Outputs : ~DepOf(p, o)
         /\ \A s \in Signals : /\ Pending(agenda, ThenOn(o, s)) = 0 /\ Pending(agenda, RemoveOn(o, s)) = 0
                               /\ Occ(jobs[s], FireOf(o)) = 0 /\ Occ(jobs[s], DoneOf(o)) = 0
                               /\ Occ(jobs[s], CleanupOf(o)) = 0
         /\ Pending(agenda, GoOn(o)) = 0 /\ Pending(agenda, FireOf(o)) = 0 /\ Pending(agenda, DoneOf(o)) = 0
         /\ Pending(agenda, CleanupOf(o)) = 0 /\ Pending(agenda, UnrefOf(o)) = 0
<1>1. o \notin Made
  BY CombinatorsAssumption DEF Ready, Made, Signals
<1>2. /\ \A c : Pending(agenda, c) \in Nat
      /\ \A s \in Signals : \A c : Occ(jobs[s], c) \in Nat
      /\ remaining[o] \in 0..2
  BY PendingType, OccType DEF Inv, Types
<1>3. /\ \A s \in Signals : /\ Pending(agenda, ThenOn(o, s)) = 0 /\ Pending(agenda, RemoveOn(o, s)) = 0
      /\ Pending(agenda, GoOn(o)) = 0 /\ Pending(agenda, FireOf(o)) = 0 /\ Pending(agenda, DoneOf(o)) = 0
      /\ Pending(agenda, CleanupOf(o)) = 0 /\ Pending(agenda, UnrefOf(o)) = 0
  BY <1>1, <1>2 DEF Inv, CallInv
<1>4. \A s \in Signals : /\ Occ(jobs[s], FireOf(o)) = 0 /\ Occ(jobs[s], DoneOf(o)) = 0
                         /\ Occ(jobs[s], CleanupOf(o)) = 0
  BY <1>1, <1>2 DEF Inv, JobInv
<1>5. \A c \in Outputs : value[c] # o
  BY <1>1 DEF Inv, MadeInv
<1>6. o \notin go /\ deps[o] = <<>>
  BY <1>1 DEF Inv, GoInv, DepInv
<1>7. remaining[o] = 0
  BY <1>1, <1>2 DEF Inv, AndInv
<1>8. \A p \in Outputs : ~DepOf(p, o)
  BY <1>1, OperandMade DEF DepOf
<1> QED
  BY <1>1, <1>3, <1>4, <1>5, <1>6, <1>7, <1>8

-----------------------------------------------------------------------------
(***************************************************************************)
(* The conjuncts of the invariant, one by one.                             *)
(***************************************************************************)
\* By which steps an OrSignal lets go of its operands, an output is freed, a
\* signal is activated and a queue gets longer.
LEMMA Changes ==
  ASSUME Inv, Does
  PROVE  /\ \A p \in Made : deps'[p] = deps[p] \/ \E l, r : Cleans(p, l, r)
         /\ \A p \in Made : refs[p] > 0 => refs'[p] > 0 \/ Frees(p)
         /\ \A s \in Signals : s \in go' => s \in go \/ \E h : Activates(h, s)
         /\ \A s \in Signals : \A c : Occ(jobs'[s], c) <= Occ(jobs[s], c) \/ \E p \in Outputs : Queues(p, s, c)
         /\ \A s \in go' : jobs'[s] = <<>>
<1> DEFINE D == \A p \in Made : deps'[p] = deps[p] \/ \E l, r : Cleans(p, l, r)
           R == \A p \in Made : refs[p] > 0 => refs'[p] > 0 \/ Frees(p)
           A == \A s \in Signals : s \in go' => s \in go \/ \E h : Activates(h, s)
           Q == \A s \in Signals : \A c : Occ(jobs'[s], c) <= Occ(jobs[s], c) \/ \E p \in Outputs : Queues(p, s, c)
           E == \A s \in go' : jobs'[s] = <<>>
<1>1. /\ refs \in [Outputs -> Nat] /\ deps \in [Outputs -> Seq(Signals)] /\ jobs \in [Signals -> Seq(JobCalls)]
      /\ go \subseteq Signals /\ \A p \in Made : p \in Outputs
      /\ \A s \in go : jobs[s] = <<>>
  BY DEF Inv, Types, Made, JobInv
<1>2. \A s \in Signals : \A c : Occ(jobs[s], c) \in Nat /\ Occ(<<>>, c) = 0
  BY <1>1, OccType, OccShort
<1>3. (deps' = deps => D) /\ (refs' = refs => R) /\ (go' = go => A) /\ (jobs' = jobs => Q)
      /\ (go' = go /\ jobs' = jobs => E)
  BY <1>1, <1>2
<1>4. ASSUME NEW o \in Outputs, NEW v, NEW l, NEW r, Shortcuts(o, v, l, r)
      PROVE  D /\ R /\ A /\ Q /\ E
  BY <1>3, <1>4 DEF Shortcuts
<1>5. ASSUME NEW o \in Outputs, NEW l, NEW r, MakesOr(o, l, r)
      PROVE  D /\ R /\ A /\ Q /\ E
  <2>1. o \notin Made
    BY <1>5, CombinatorsAssumption DEF MakesOr, Ready, Made, Signals
  <2>2. D
    BY <1>1, <1>5, <2>1 DEF MakesOr
  <2>3. R
    BY <1>1, <1>5, <2>1 DEF MakesOr, One
  <2> QED
    BY <1>3, <1>5, <2>2, <2>3 DEF MakesOr
<1>6. ASSUME NEW o \in Outputs, NEW l, NEW r, MakesAnd(o, l, r)
      PROVE  D /\ R /\ A /\ Q /\ E
  <2>1. o \notin Made
    BY <1>6, CombinatorsAssumption DEF MakesAnd, Ready, Made, Signals
  <2>2. R
    BY <1>1, <1>6, <2>1 DEF MakesAnd
  <2> QED
    BY <1>3, <1>6, <2>2 DEF MakesAnd
<1>7. ASSUME NEW o \in Outputs, NEW s \in Signals, NEW j, Queues(o, s, j)
      PROVE  D /\ R /\ A /\ Q /\ E
  <2>1. Q
    <3>1. /\ \A q \in Signals \ {s} : jobs'[q] = jobs[q]
          /\ \A c : Occ(jobs'[s], c) = Occ(jobs[s], c) + One(j, c)
      BY <1>7 DEF Queues
    <3> QED
      BY <1>2, <1>7, <3>1 DEF One
  <2>2. E
    BY <1>1, <1>7 DEF Queues
  <2> QED
    BY <1>3, <1>7, <2>1, <2>2 DEF Queues
<1>8. ASSUME NEW o \in Outputs, NEW s \in Signals, NEW j, Runs(o, s, j)
      PROVE  D /\ R /\ A /\ Q /\ E
  BY <1>3, <1>8 DEF Runs
<1>9. ASSUME NEW o \in Outputs, NEW s \in Signals, Removes(o, s)
      PROVE  D /\ R /\ A /\ Q /\ E
  <2>1. Q
    <3>1. /\ \A q \in Signals : q # s \/ q \in go => jobs'[q] = jobs[q]
          /\ s \notin go => \A c : Occ(jobs[s], c) =
               Occ(jobs'[s], c) + (IF Occ(jobs[s], FireOf(o)) > 0 THEN One(FireOf(o), c) ELSE 0)
      BY <1>9 DEF Removes
    <3>2. jobs'[s] \in Seq(JobCalls)
      BY <1>9 DEF Removes
    <3>3. \A c : Occ(jobs'[s], c) \in Nat
      BY <3>2, OccType
    <3> QED
      BY <1>2, <3>1, <3>3 DEF One
  <2>2. E
    BY <1>1, <1>9 DEF Removes
  <2> QED
    BY <1>3, <1>9, <2>1, <2>2 DEF Removes
<1>10. ASSUME NEW s \in Signals, NEW h, Activates(h, s)
       PROVE  D /\ R /\ A /\ Q /\ E
  <2>1. jobs' = [jobs EXCEPT ![s] = <<>>] /\ go' = go \cup {s} /\ deps' = deps /\ refs' = refs
    BY <1>10 DEF Activates
  <2>2. Q
    BY <1>1, <1>2, <2>1
  <2>3. E
    BY <1>1, <2>1
  <2>4. A
    BY <1>10, <2>1
  <2> QED
    BY <1>3, <2>1, <2>2, <2>3, <2>4
<1>11. ASSUME NEW s \in Signals, NEW h, ActivatesAgain(h, s)
       PROVE  D /\ R /\ A /\ Q /\ E
  BY <1>3, <1>11 DEF ActivatesAgain
<1>12. ASSUME NEW o \in Outputs, NEW l, NEW r, Cleans(o, l, r)
       PROVE  D /\ R /\ A /\ Q /\ E
  <2>1. D
    <3>1. deps' = [deps EXCEPT ![o] = <<>>]
      BY <1>12 DEF Cleans
    <3> QED
      BY <1>1, <1>12, <3>1
  <2> QED
    BY <1>3, <1>12, <2>1 DEF Cleans
<1>13. ASSUME NEW o \in Outputs, Fires(o) \/ Unrefs(o)
       PROVE  D /\ R /\ A /\ Q /\ E
  <2>1. R
    BY <1>1, <1>13 DEF Fires, Unrefs
  <2> QED
    BY <1>3, <1>13, <2>1 DEF Fires, Unrefs
<1>14. ASSUME NEW o \in Outputs, Frees(o)
       PROVE  D /\ R /\ A /\ Q /\ E
  <2>1. /\ jobs' = [jobs EXCEPT ![o] = <<>>] /\ refs' = [refs EXCEPT ![o] = @ - 1] /\ go' = go /\ deps' = deps
        /\ o \in Signals
    BY <1>14 DEF Frees, Signals
  <2>2. R
    BY <1>1, <1>14, <2>1
  <2>3. Q
    BY <1>1, <1>2, <2>1
  <2>4. E
    BY <1>1, <2>1
  <2> QED
    BY <1>3, <2>1, <2>2, <2>3, <2>4
<1>15. ASSUME NEW o \in Outputs, Waits(o) \/ FiresDead(o) \/ CleansNothing(o) \/ ForgetsIt(o) \/ Reads(o)
       PROVE  D /\ R /\ A /\ Q /\ E
  BY <1>3, <1>15 DEF Waits, FiresDead, CleansNothing, ForgetsIt, Reads
<1>16. ASSUME NEW o \in Outputs, Counts1(o) \/ CountsLast(o)
       PROVE  D /\ R /\ A /\ Q /\ E
  BY <1>3, <1>16 DEF Counts1, CountsLast
<1>17. ASSUME Assigns \/ \E s \in Inputs : Begin(s)
       PROVE  D /\ R /\ A /\ Q /\ E
  BY <1>3, <1>17 DEF Assigns, Begin
<1> HIDE DEF D, R, A, Q, E
<1>18. D /\ R /\ A /\ Q /\ E
  BY <1>4, <1>5, <1>6, <1>7, <1>8, <1>9, <1>10, <1>11, <1>12, <1>13, <1>14, <1>15, <1>16, <1>17 DEF Does
<1> QED
  BY <1>18 DEF D, R, A, Q, E

\* While something is being registered, the builder gets hold of nothing else.
LEMMA HeldWhile ==
  ASSUME Inv, Does, NEW o \in Outputs, NEW s \in Signals, Pending(agenda, ThenOn(o, s)) > 0
  PROVE  Idle /\ \A p : Held(p)' <=> Held(p)
<1>1. ~NoThens
  <2>1. Pending(agenda, ThenOn(o, s)) # 0
    OBVIOUS
  <2> QED
    BY <2>1 DEF NoThens
<1>2. Idle
  BY <1>1, PlanSteps DEF Combines, Ready, Waits, ForgetsIt, Reads
<1> QED
  BY <1>2, HeldSame

\* An output that the builder is registering functions for is referred to.
LEMMA HeldRefs ==
  ASSUME Inv, NEW o \in Made, Held(o)
  PROVE  Kept(o) /\ refs[o] >= Pending(agenda, UnrefOf(o)) + 1 /\ refs[o] > 0
<1>1. o \in Outputs /\ value[o] = o /\ o \in Outs
  BY DEF Made, Held
<1>2. Kept(o)
  BY <1>1 DEF Kept
<1>3. refs[o] \in Nat /\ Pending(agenda, UnrefOf(o)) \in Nat
  BY <1>1, PendingType DEF Inv, Types
<1>4. refs[o] >= Pending(agenda, UnrefOf(o)) + (IF Kept(o) THEN 1 ELSE 0) + (IF remaining[o] > 0 THEN 1 ELSE 0)
  BY <1>1 DEF Inv, RefInv, Bit
<1>5. refs[o] >= Pending(agenda, UnrefOf(o)) + 1
  BY <1>2, <1>3, <1>4
<1> QED
  BY <1>2, <1>3, <1>5

\* When both operands of an AndSignals were counted, both were activated.
LEMMA LastIsAsked ==
  ASSUME Inv, NEW o \in Outputs, CountsLast(o)
  PROVE  o \in Made /\ ~IsOr(o) /\ Asked(o)
<1>1. o \in Made /\ ~IsOr(o) /\ Left(o) \in Signals /\ Right(o) \in Signals
  BY DEF CountsLast, Inv, CallInv, MadeInv, Operands
<1>2. remaining[o] = Pending(agenda, DoneOf(o)) + Slot(o, Left(o)) + (IF Right(o) = Left(o) THEN 0 ELSE Slot(o, Right(o)))
  BY <1>1 DEF Inv, AndInv
<1>3. remaining[o] = 1 /\ Pending(agenda, DoneOf(o)) > 0
  BY DEF CountsLast
<1>4. \A c : Pending(agenda, c) \in Nat
  BY PendingType DEF Inv, Types
<1>5. \A s : (s \in go => Slot(o, s) \in Nat) /\ (s \notin go /\ s \in {Left(o), Right(o)} => Slot(o, s) > 0)
  BY <1>4 DEF Slot, Mult, One
<1>6. \A s : Slot(o, s) \in Nat
  BY <1>4 DEF Slot, Mult, One
<1>7. Left(o) \in go
  BY <1>2, <1>3, <1>4, <1>5, <1>6
<1>8. Right(o) \in go
  BY <1>2, <1>3, <1>4, <1>5, <1>6
<1> QED
  BY <1>1, <1>7, <1>8 DEF Asked

\* The cleanup is registered when the operands are.
LEMMA CleanupLast ==
  ASSUME Inv, NEW o \in Outputs, NEW s \in Signals, Registers(o, s, CleanupOf(o))
  PROVE  /\ s = o /\ o \in Made /\ IsOr(o) /\ Held(o)
         /\ \A d \in Operands(o) : Pending(agenda, ThenOn(o, d)) = 0
<1>1. s = o
  BY Fields DEF Registers, CleanupOf, FireOf, DoneOf
<1>2. Pending(agenda, ThenOn(o, o)) > 0
  BY <1>1 DEF Registers
<1>3. o \in Made /\ Held(o) /\ (IsOr(o) \/ o \in Operands(o))
  BY <1>1, <1>2 DEF Inv, CallInv
<1>4. Operands(o) \subseteq Signals \ {o}
  BY <1>3 DEF Inv, MadeInv
<1>5. Pending(agenda, ThenOn(o, o)) = 1
  <2>1. Pending(agenda, ThenOn(o, o)) <= 1 /\ Pending(agenda, ThenOn(o, o)) \in Nat
    BY <1>3, <1>4, PendingType DEF Inv, OrInv, Types
  <2> QED
    BY <1>2, <2>1
<1> QED
  BY <1>1, <1>3, <1>4, <1>5 DEF Registers

\* What an OrSignal or an AndSignals registers with an operand.
LEMMA JobsKind ==
  ASSUME Inv, NEW o \in Outputs, NEW p \in Outputs, NEW s \in Signals
  PROVE  /\ Registers(p, s, FireOf(o)) => p = o /\ o \in Made /\ IsOr(o) /\ s \in Operands(o)
         /\ Registers(p, s, DoneOf(o)) => p = o /\ o \in Made /\ ~IsOr(o) /\ s \in Operands(o)
         /\ Registers(p, s, CleanupOf(o)) => p = o
<1> USE DEF FireOf, DoneOf, CleanupOf
<1>1. Registers(p, s, FireOf(o)) => p = o /\ s # o /\ IsOr(o) /\ Pending(agenda, ThenOn(o, s)) > 0
  BY Fields DEF Registers
<1>2. Registers(p, s, DoneOf(o)) => p = o /\ s # o /\ ~IsOr(o) /\ Pending(agenda, ThenOn(o, s)) > 0
  BY Fields DEF Registers
<1>3. Registers(p, s, CleanupOf(o)) => p = o
  BY Fields DEF Registers
<1>4. Pending(agenda, ThenOn(o, s)) > 0 /\ s # o => o \in Made /\ s \in Operands(o)
  BY DEF Inv, CallInv
<1> QED
  BY <1>1, <1>2, <1>3, <1>4

\* What asks for an output goes on asking.
LEMMA AsksOn ==
  ASSUME Inv, Does, NEW o \in Made
  PROVE  /\ IsOr(o)' = IsOr(o) /\ (Asked(o) => Asked(o)')
         /\ \A d \in Operands(o) : IsOr(o) /\ d \in go' => Asked(o)'
<1>1. /\ expr' = expr /\ go \subseteq go' /\ Left(o)' = Left(o) /\ Right(o)' = Right(o)
  BY Stable
<1>2. IsOr(o)' = IsOr(o)
  BY <1>1, SameTerms
<1> QED
  BY <1>1, <1>2 DEF Asked, Operands

\* The steps after which somebody is to drop a reference.
Drops == \E o \in Outputs :
            \/ \E v, l, r : Shortcuts(o, v, l, r)
            \/ \E l, r : MakesOr(o, l, r) \/ MakesAnd(o, l, r) \/ Cleans(o, l, r)
            \/ Fires(o) \/ CountsLast(o) \/ ForgetsIt(o)

\* When a reference to an output is dropped, it was made.
LEMMA UnrefsGrow ==
  ASSUME Inv, Does, NEW s \in Outputs
  PROVE  Fewer(UnrefOf(s)) \/ (Drops /\ s \in Made)
<1> USE DEF UnrefOf
<1>1. ASSUME NEW o \in Outputs, Ready(o), NEW l, NEW r, l = Left(o), r = Right(o), s = l \/ s = r
      PROVE  s \in Made
  BY <1>1, OperandHeld DEF Operands
<1>2. ASSUME NEW o \in Outputs, NEW v, NEW l, NEW r, Shortcuts(o, v, l, r)
      PROVE  Fewer(UnrefOf(s)) \/ s \in Made
  <2>1. \A c : /\ Pending(agenda, c) \in Nat /\ Pending(agenda', c) \in Nat
               /\ Pending(agenda', c) + One(CombineOf(o), c)
                    = Pending(agenda, c) + (IF v = l THEN 0 ELSE Lost(l, c)) + Lost(r, c)
    BY <1>2 DEF Shortcuts, Counted
  <2>2. Fewer(UnrefOf(s)) \/ s = l \/ s = r
    BY <2>1, OneDo DEF Lost, CombineOf, Fewer
  <2> QED
    BY <1>1, <1>2, <2>2 DEF Shortcuts
<1>3. ASSUME NEW o \in Outputs, NEW l, NEW r, MakesOr(o, l, r)
      PROVE  Fewer(UnrefOf(s)) \/ s \in Made
  <2>1. \A c : /\ Pending(agenda, c) \in Nat /\ Pending(agenda', c) \in Nat
               /\ Pending(agenda', c) + One(CombineOf(o), c)
                    = Pending(agenda, c) + One(ThenOn(o, l), c) + One(ThenOn(o, r), c) + One(ThenOn(o, o), c)
                        + Lost(l, c) + Lost(r, c)
    BY <1>3 DEF MakesOr, Counted
  <2>2. Fewer(UnrefOf(s)) \/ s = l \/ s = r
    BY <2>1, OneDo DEF Lost, CombineOf, ThenOn, Fewer
  <2> QED
    BY <1>1, <1>3, <2>2 DEF MakesOr
<1>4. ASSUME NEW o \in Outputs, NEW l, NEW r, MakesAnd(o, l, r)
      PROVE  Fewer(UnrefOf(s)) \/ s \in Made
  <2>1. \A c : /\ Pending(agenda, c) \in Nat /\ Pending(agenda', c) \in Nat
               /\ Pending(agenda', c) + One(CombineOf(o), c)
                    = Pending(agenda, c) + One(ThenOn(o, l), c) + One(ThenOn(o, r), c) + Lost(l, c) + Lost(r, c)
    BY <1>4 DEF MakesAnd, Counted
  <2>2. Fewer(UnrefOf(s)) \/ s = l \/ s = r
    BY <2>1, OneDo DEF Lost, CombineOf, ThenOn, Fewer
  <2> QED
    BY <1>1, <1>4, <2>2 DEF MakesAnd
<1>5. ASSUME NEW o \in Outputs, NEW l, NEW r, Cleans(o, l, r)
      PROVE  Fewer(UnrefOf(s)) \/ s \in Made
  <2>1. \A c : /\ Pending(agenda, c) \in Nat /\ Pending(agenda', c) \in Nat
               /\ Pending(agenda', c) + One(CleanupOf(o), c)
                    = Pending(agenda, c) + One(RemoveOn(o, l), c) + One(RemoveOn(o, r), c) + Lost(l, c) + Lost(r, c)
    BY <1>5 DEF Cleans, Counted
  <2>2. Fewer(UnrefOf(s)) \/ s = l \/ s = r
    BY <2>1, OneDo DEF Lost, CleanupOf, RemoveOn, Fewer
  <2>3. l \in Operands(o) /\ r \in Operands(o)
    BY <1>5 DEF Cleans, Operands
  <2> QED
    BY <2>2, <2>3, OperandMade
<1>6. ASSUME NEW o \in Outputs, Fires(o) \/ CountsLast(o)
      PROVE  Fewer(UnrefOf(s)) \/ s \in Made
  <2>1. PICK h \in {FireOf(o), DoneOf(o)} :
           \A c : /\ Pending(agenda, c) \in Nat /\ Pending(agenda', c) \in Nat
                  /\ Pending(agenda', c) + One(h, c) = Pending(agenda, c) + One(GoOn(o), c) + One(UnrefOf(o), c)
    BY <1>6 DEF Fires, CountsLast, Counted
  <2>2. Fewer(UnrefOf(s)) \/ s = o
    BY <2>1, OneDo DEF FireOf, DoneOf, GoOn, Fewer
  <2>3. o \in Made
    BY <1>6 DEF Fires, CountsLast, Inv, CallInv
  <2> QED
    BY <2>2, <2>3
<1>7. ASSUME NEW o \in Outputs, ForgetsIt(o)
      PROVE  Fewer(UnrefOf(s)) \/ s \in Made
  <2>1. \A c : /\ Pending(agenda, c) \in Nat /\ Pending(agenda', c) \in Nat
               /\ Pending(agenda', c) + One(ForgetOf(o), c) = Pending(agenda, c) + Lost(value[o], c)
    BY <1>7 DEF ForgetsIt, Counted
  <2>2. Fewer(UnrefOf(s)) \/ s = value[o]
    BY <2>1, OneDo DEF Lost, ForgetOf, Fewer
  <2> QED
    BY <2>2 DEF Inv, MadeInv
<1>8. ASSUME NEW o \in Outputs, NEW d \in Signals, NEW j, Runs(o, d, j)
      PROVE  Fewer(UnrefOf(s))
  <2>1. j \in {CleanupOf(o), FireOf(o), DoneOf(o)}
    BY <1>8 DEF Runs, Registers
  <2>2. \A c : /\ Pending(agenda, c) \in Nat /\ Pending(agenda', c) \in Nat
               /\ Pending(agenda', c) + One(ThenOn(o, d), c) = Pending(agenda, c) + One(j, c)
    BY <1>8 DEF Runs, Counted
  <2> QED
    BY <2>1, <2>2, OneDo DEF CleanupOf, FireOf, DoneOf, ThenOn, Fewer
<1>9. ASSUME NEW d \in Signals, NEW h, Activates(h, d)
      PROVE  Fewer(UnrefOf(s))
  <2>1. \A c : /\ Pending(agenda, c) \in Nat /\ Pending(agenda', c) \in Nat
               /\ Pending(agenda', c) + One(h, c) = Pending(agenda, c) + Occ(jobs[d], c)
    BY <1>9 DEF Activates, Counted
  <2>2. UnrefOf(s) \notin JobCalls
    BY Fields DEF JobCalls, CleanupOf, FireOf, DoneOf
  <2>3. Occ(jobs[d], UnrefOf(s)) = 0
    BY <2>2, NotAJob DEF Inv, Types
  <2> QED
    BY <2>1, <2>3 DEF One, Fewer
<1>10. ASSUME NEW o \in Outputs, Frees(o)
       PROVE  Fewer(UnrefOf(s))
  <2>1. \A c : /\ Pending(agenda, c) \in Nat /\ Pending(agenda', c) \in Nat
               /\ Pending(agenda', c) + One(UnrefOf(o), c)
                    = Pending(agenda, c) + (IF IsOr(o) THEN One(CleanupOf(o), c) ELSE 0)
    BY <1>10 DEF Frees, Counted
  <2> QED
    BY <2>1, OneDo DEF CleanupOf, Fewer
<1>11. ASSUME NEW d \in Inputs, Begin(d)
       PROVE  Fewer(UnrefOf(s))
  <2>1. \A c : /\ Pending(agenda, c) \in Nat /\ Pending(agenda', c) \in Nat
               /\ Pending(agenda', c) = Pending(agenda, c) + (IF d = Future THEN One(AssignIt, c) ELSE 0) + One(GoIn(d), c)
    BY <1>11 DEF Begin, Counted
  <2> QED
    BY <2>1, OneDo DEF AssignIt, GoIn, Fewer
<1>12. ASSUME NEW h, \A c : /\ Pending(agenda, c) \in Nat /\ Pending(agenda', c) \in Nat
                            /\ Pending(agenda', c) + One(h, c) = Pending(agenda, c)
       PROVE  Fewer(UnrefOf(s))
  BY <1>12 DEF One, Fewer
<1>13. ASSUME NEW o \in Outputs, NEW d \in Signals, NEW j, Queues(o, d, j) \/ Removes(o, d)
       PROVE  Fewer(UnrefOf(s))
  BY <1>12, <1>13 DEF Queues, Removes, Counted
<1>14. ASSUME NEW d \in Signals, NEW h, ActivatesAgain(h, d)
       PROVE  Fewer(UnrefOf(s))
  BY <1>12, <1>14 DEF ActivatesAgain, Counted
<1>15. ASSUME NEW o \in Outputs, Waits(o) \/ FiresDead(o) \/ CleansNothing(o)
       PROVE  Fewer(UnrefOf(s))
  BY <1>12, <1>15 DEF Waits, FiresDead, CleansNothing, Counted
<1>16. ASSUME NEW o \in Outputs, Counts1(o) \/ Unrefs(o) \/ Reads(o)
       PROVE  Fewer(UnrefOf(s))
  BY <1>12, <1>16 DEF Counts1, Unrefs, Reads, Counted
<1>17. ASSUME Assigns
       PROVE  Fewer(UnrefOf(s))
  BY <1>12, <1>17 DEF Assigns, Counted
<1> QED
  BY <1>2, <1>3, <1>4, <1>5, <1>6, <1>7, <1>8, <1>9, <1>10, <1>11, <1>13, <1>14, <1>15, <1>16, <1>17 DEF Does, Drops

\* Every call that becomes due has its reason, and the reason stays.
LEMMA CallStep ==
  ASSUME Inv, Does
  PROVE  CallInv'
<1>1. Types' /\ \A c : Pending(agenda, c) \in Nat /\ Pending(agenda', c) \in Nat
  <2>1. Types'
    BY TypesStep
  <2> QED
    BY <2>1, PendingType DEF Inv, Types
<1>2. /\ expr' = expr /\ go \subseteq go' /\ Made \subseteq Made'
      /\ \A p \in Made : Operands(p)' = Operands(p)
      /\ \A p \in Made : refs[p] = 0 => refs'[p] = 0
      /\ \A p : IsOr(p)' = IsOr(p)
  BY Stable, SameTerms
<1>3. \A p \in Made : deps[p] = <<>> => deps'[p] = <<>>
  <2>1. deps \in [Outputs -> Seq(Signals)] /\ \A p \in Made : p \in Outputs
    BY DEF Inv, Types, Made
  <2> QED
    BY <2>1, Changes DEF Cleans
<1>4. \A p \in Made : \A l, r : ~MakesOr(p, l, r) /\ ~MakesAnd(p, l, r)
  <2>1. \A p \in Made : p \in Outputs /\ value[p] # Null
    BY CombinatorsAssumption DEF Made, Signals
  <2> QED
    BY <2>1 DEF MakesOr, MakesAnd, Ready
<1>5. ASSUME NEW o \in Outputs, NEW s \in Signals, Pending(agenda', ThenOn(o, s)) > 0
      PROVE  (o \in Made /\ Held(o) /\ ((s = o /\ IsOr(o)) \/ s \in Operands(o)))'
  <2>1. CASE Fewer(ThenOn(o, s))
    <3>1. Pending(agenda, ThenOn(o, s)) > 0
      BY <1>1, <1>5, <2>1 DEF Fewer
    <3>2. o \in Made /\ Held(o) /\ ((s = o /\ IsOr(o)) \/ s \in Operands(o))
      BY <3>1 DEF Inv, CallInv
    <3>3. Held(o)'
      BY <3>1, <3>2, HeldWhile
    <3> QED
      BY <1>2, <3>2, <3>3
  <2>2. ASSUME NEW l, NEW r, MakesOr(o, l, r) \/ MakesAnd(o, l, r)
        PROVE  (o \in Made /\ Held(o) /\ ((s = o /\ IsOr(o)) \/ s \in Operands(o)))'
    <3>1. Combines(o, o)
      BY <2>2, CombineCounts
    <3>2. Held(o)' /\ o \in Made' /\ Operands(o)' = Operands(o)
      BY <3>1, HeldCombine, CombineValue
    <3>3. Pending(agenda, ThenOn(o, s)) = 0
      BY <2>2 DEF MakesOr, MakesAnd, Ready, NoThens
    <3>4. (s = o /\ IsOr(o)) \/ s \in {l, r}
      <4>1. CASE MakesOr(o, l, r)
        <5>1. /\ IsOr(o)
              /\ \A c : Pending(agenda', c) + One(CombineOf(o), c)
                    = Pending(agenda, c) + One(ThenOn(o, l), c) + One(ThenOn(o, r), c) + One(ThenOn(o, o), c)
                        + Lost(l, c) + Lost(r, c)
          BY <4>1 DEF MakesOr
        <5> QED
          BY <1>1, <1>5, <3>3, <5>1, OneDo DEF Lost, CombineOf, UnrefOf, ThenOn
      <4>2. CASE MakesAnd(o, l, r)
        <5>1. \A c : Pending(agenda', c) + One(CombineOf(o), c)
                    = Pending(agenda, c) + One(ThenOn(o, l), c) + One(ThenOn(o, r), c) + Lost(l, c) + Lost(r, c)
          BY <4>2 DEF MakesAnd
        <5> QED
          BY <1>1, <1>5, <3>3, <5>1, OneDo DEF Lost, CombineOf, UnrefOf, ThenOn
      <4> QED
        BY <2>2, <4>1, <4>2
    <3>5. l \in Operands(o) /\ r \in Operands(o)
      BY <2>2 DEF MakesOr, MakesAnd, Operands
    <3> QED
      BY <1>2, <3>2, <3>4, <3>5
  <2> QED
    BY <2>1, <2>2, Grows
<1>6. ASSUME NEW o \in Outputs, Pending(agenda', GoOn(o)) > 0
      PROVE  (o \in Made /\ Asked(o))'
  <2>1. o \in Made /\ Asked(o)
    <3>1. CASE Fewer(GoOn(o))
      <4>1. Pending(agenda, GoOn(o)) > 0
        BY <1>1, <1>6, <3>1 DEF Fewer
      <4> QED
        BY <4>1 DEF Inv, CallInv
    <3>2. CASE Fires(o)
      BY <3>2 DEF Fires, Inv, CallInv
    <3>3. CASE CountsLast(o)
      BY <3>3, LastIsAsked
    <3>4. \E s \in Signals : TRUE
      BY DEF Signals
    <3> QED
      BY <3>1, <3>2, <3>3, <3>4, Grows
  <2> QED
    BY <1>2, <2>1, AsksOn
<1>7. ASSUME NEW o \in Outputs, NEW s \in Signals, Pending(agenda', RemoveOn(o, s)) > 0
      PROVE  (o \in Made /\ IsOr(o) /\ s \in Operands(o))' /\ deps'[o] = <<>>
  <2>1. CASE Fewer(RemoveOn(o, s))
    <3>1. Pending(agenda, RemoveOn(o, s)) > 0
      BY <1>1, <1>7, <2>1 DEF Fewer
    <3>2. o \in Made /\ IsOr(o) /\ s \in Operands(o) /\ deps[o] = <<>>
      BY <3>1 DEF Inv, CallInv
    <3> QED
      BY <1>2, <1>3, <3>2
  <2>2. ASSUME NEW l, NEW r, Cleans(o, l, r), s \in {l, r}
        PROVE  (o \in Made /\ IsOr(o) /\ s \in Operands(o))' /\ deps'[o] = <<>>
    <3>1. o \in Made /\ IsOr(o)
      BY <2>2 DEF Cleans, Inv, CallInv
    <3>2. s \in Operands(o) /\ deps' = [deps EXCEPT ![o] = <<>>] /\ deps \in [Outputs -> Seq(Signals)]
      BY <2>2 DEF Cleans, Operands, Inv, Types
    <3> QED
      BY <1>2, <3>1, <3>2
  <2> QED
    BY <2>1, <2>2, Grows
<1>8. ASSUME NEW o \in Outputs, Pending(agenda', FireOf(o)) > 0
      PROVE  (o \in Made /\ IsOr(o) /\ Asked(o))'
  <2>1. CASE Fewer(FireOf(o))
    <3>1. Pending(agenda, FireOf(o)) > 0
      BY <1>1, <1>8, <2>1 DEF Fewer
    <3>2. o \in Made /\ IsOr(o) /\ Asked(o)
      BY <3>1 DEF Inv, CallInv
    <3> QED
      BY <1>2, <3>2, AsksOn
  <2>2. ASSUME NEW d \in Signals, Runs(o, d, FireOf(o))
        PROVE  (o \in Made /\ IsOr(o) /\ Asked(o))'
    <3>1. o \in Made /\ IsOr(o) /\ d \in Operands(o) /\ d \in go
      BY <2>2, JobsKind DEF Runs
    <3> QED
      BY <1>2, <3>1, AsksOn
  <2>3. ASSUME NEW h, NEW d \in Signals, Activates(h, d), Occ(jobs[d], FireOf(o)) > 0
        PROVE  (o \in Made /\ IsOr(o) /\ Asked(o))'
    <3>1. o \in Made /\ IsOr(o) /\ d \in Operands(o) /\ d \in go'
      BY <2>3 DEF Activates, Inv, JobInv
    <3> QED
      BY <1>2, <3>1, AsksOn
  <2>4. FireOf(o) # CleanupOf(o) /\ FireOf(o) \in {FireOf(o), DoneOf(o), CleanupOf(o)} /\ \E s \in Signals : TRUE
    BY Fields DEF FireOf, CleanupOf, Signals
  <2> QED
    BY <2>1, <2>2, <2>3, <2>4, Grows
<1>9. ASSUME NEW o \in Outputs, Pending(agenda', DoneOf(o)) > 0
      PROVE  (o \in Made /\ ~IsOr(o))'
  <2>1. CASE Fewer(DoneOf(o))
    <3>1. Pending(agenda, DoneOf(o)) > 0
      BY <1>1, <1>9, <2>1 DEF Fewer
    <3>2. o \in Made /\ ~IsOr(o)
      BY <3>1 DEF Inv, CallInv
    <3> QED
      BY <1>2, <3>2
  <2>2. ASSUME NEW d \in Signals, Runs(o, d, DoneOf(o))
        PROVE  (o \in Made /\ ~IsOr(o))'
    <3>1. o \in Made /\ ~IsOr(o)
      BY <2>2, JobsKind DEF Runs
    <3> QED
      BY <1>2, <3>1
  <2>3. ASSUME NEW h, NEW d \in Signals, Activates(h, d), Occ(jobs[d], DoneOf(o)) > 0
        PROVE  (o \in Made /\ ~IsOr(o))'
    <3>1. o \in Made /\ ~IsOr(o)
      BY <2>3 DEF Inv, JobInv
    <3> QED
      BY <1>2, <3>1
  <2>4. DoneOf(o) # CleanupOf(o) /\ DoneOf(o) \in {FireOf(o), DoneOf(o), CleanupOf(o)} /\ \E s \in Signals : TRUE
    BY Fields DEF DoneOf, CleanupOf, Signals
  <2> QED
    BY <2>1, <2>2, <2>3, <2>4, Grows
<1>10. ASSUME NEW o \in Outputs, Pending(agenda', CleanupOf(o)) > 0
       PROVE  /\ (o \in Made /\ IsOr(o) /\ (o \in go \/ refs[o] = 0))'
              /\ \A s \in Operands(o)' : Pending(agenda', ThenOn(o, s)) = 0
  <2> DEFINE C == /\ o \in Made /\ IsOr(o) /\ (o \in go' \/ refs'[o] = 0)
                  /\ \A s \in Operands(o) : Pending(agenda, ThenOn(o, s)) = 0
  <2>1. ASSUME Fewer(CleanupOf(o)) PROVE C
    <3>1. Pending(agenda, CleanupOf(o)) > 0
      BY <1>1, <1>10, <2>1 DEF Fewer
    <3>2. /\ o \in Made /\ IsOr(o) /\ (o \in go \/ refs[o] = 0)
          /\ \A s \in Operands(o) : Pending(agenda, ThenOn(o, s)) = 0
      BY <3>1 DEF Inv, CallInv
    <3> QED
      BY <1>2, <3>2
  <2>2. ASSUME NEW d \in Signals, Runs(o, d, CleanupOf(o))
        PROVE  C
    <3>1. Registers(o, d, CleanupOf(o)) /\ d \in go
      BY <2>2 DEF Runs
    <3> QED
      BY <1>2, <3>1, CleanupLast
  <2>3. ASSUME NEW h, NEW d \in Signals, Activates(h, d), Occ(jobs[d], CleanupOf(o)) > 0
        PROVE  C
    <3>1. /\ o \in Made /\ IsOr(o) /\ d = o /\ d \in go'
          /\ \A s \in Operands(o) : Pending(agenda, ThenOn(o, s)) = 0
      BY <2>3 DEF Activates, Inv, JobInv
    <3> QED
      BY <3>1
  <2>4. ASSUME Frees(o), IsOr(o) PROVE C
    <3>1. o \in Made /\ refs[o] = 1 /\ refs' = [refs EXCEPT ![o] = @ - 1] /\ refs \in [Outputs -> Nat]
          /\ Pending(agenda, UnrefOf(o)) > 0
      BY <2>4 DEF Frees, Inv, CallInv, Types
    <3>2. refs'[o] = 0
      BY <3>1
    <3>3. ~Held(o)
      <4>1. Held(o) => refs[o] >= Pending(agenda, UnrefOf(o)) + 1
        BY <3>1, HeldRefs
      <4> QED
        BY <1>1, <3>1, <4>1
    <3>4. \A s \in Operands(o) : s \in Signals /\ ~(Pending(agenda, ThenOn(o, s)) > 0)
      BY <3>1, <3>3 DEF Inv, CallInv, MadeInv
    <3> QED
      BY <1>1, <2>4, <3>1, <3>2, <3>4
  <2>5. CleanupOf(o) \in {FireOf(o), DoneOf(o), CleanupOf(o)} /\ \E s \in Signals : TRUE
    BY DEF Signals
  <2>6. C
    <3> HIDE DEF C
    <3> QED
      BY <2>1, <2>2, <2>3, <2>4, <2>5, Grows
  <2>7. \A s \in Operands(o) : Pending(agenda', ThenOn(o, s)) = 0
    <3> TAKE s \in Operands(o)
    <3>1. s \in Signals
      BY <2>6 DEF Inv, MadeInv
    <3>2. Fewer(ThenOn(o, s))
      BY <1>4, <2>6, <3>1, Grows
    <3> QED
      BY <1>1, <2>6, <3>2 DEF Fewer
  <2> QED
    BY <1>2, <2>6, <2>7
<1>11. ASSUME NEW o \in Outputs, Pending(agenda', UnrefOf(o)) > 0
       PROVE  o \in Made'
  <2>1. CASE Fewer(UnrefOf(o))
    <3>1. Pending(agenda, UnrefOf(o)) > 0
      BY <1>1, <1>11, <2>1 DEF Fewer
    <3> QED
      BY <1>2, <3>1 DEF Inv, CallInv
  <2> QED
    BY <1>2, <2>1, UnrefsGrow
<1> QED
  BY <1>5, <1>6, <1>7, <1>8, <1>9, <1>10, <1>11 DEF CallInv

\* What is queued is queued for its reason, and activated signals have no queue.
LEMMA JobStep ==
  ASSUME Inv, Does
  PROVE  JobInv'
<1>1. /\ \A c : Pending(agenda, c) \in Nat /\ Pending(agenda', c) \in Nat
      /\ \A s \in Signals : \A c : Occ(jobs[s], c) \in Nat /\ Occ(jobs'[s], c) \in Nat
  <2>1. Types'
    BY TypesStep
  <2> QED
    BY <2>1, PendingType, OccType DEF Inv, Types
<1>2. /\ expr' = expr /\ go \subseteq go' /\ Made \subseteq Made'
      /\ \A p \in Made : Operands(p)' = Operands(p)
      /\ \A p : IsOr(p)' = IsOr(p)
  BY Stable, SameTerms
<1>3. \A p \in Made : \A l, r : ~MakesOr(p, l, r) /\ ~MakesAnd(p, l, r)
  <2>1. \A p \in Made : p \in Outputs /\ value[p] # Null
    BY CombinatorsAssumption DEF Made, Signals
  <2> QED
    BY <2>1 DEF MakesOr, MakesAnd, Ready
<1>4. \A s \in Signals : \A c : Occ(jobs'[s], c) > 0 => Occ(jobs[s], c) > 0 \/ \E p \in Outputs : Queues(p, s, c)
  <2> TAKE s \in Signals
  <2> TAKE c
  <2>1. Occ(jobs'[s], c) <= Occ(jobs[s], c) \/ \E p \in Outputs : Queues(p, s, c)
    BY Changes
  <2>2. Occ(jobs[s], c) \in Nat /\ Occ(jobs'[s], c) \in Nat
    BY <1>1
  <2> QED
    BY <2>1, <2>2
<1>5. \A s \in go' : jobs'[s] = <<>>
  BY Changes
<1>6. ASSUME NEW s \in Signals, NEW o \in Outputs, Occ(jobs'[s], FireOf(o)) > 0
      PROVE  (o \in Made /\ IsOr(o) /\ s \in Operands(o))'
  <2>1. o \in Made /\ IsOr(o) /\ s \in Operands(o)
    <3>1. CASE Occ(jobs[s], FireOf(o)) > 0
      BY <3>1 DEF Inv, JobInv
    <3>2. ASSUME NEW p \in Outputs, Queues(p, s, FireOf(o))
          PROVE  o \in Made /\ IsOr(o) /\ s \in Operands(o)
      BY <3>2, JobsKind DEF Queues
    <3> QED
      BY <1>4, <1>6, <3>1, <3>2
  <2> QED
    BY <1>2, <2>1
<1>7. ASSUME NEW s \in Signals, NEW o \in Outputs, Occ(jobs'[s], DoneOf(o)) > 0
      PROVE  (o \in Made /\ ~IsOr(o) /\ s \in Operands(o))'
  <2>1. o \in Made /\ ~IsOr(o) /\ s \in Operands(o)
    <3>1. CASE Occ(jobs[s], DoneOf(o)) > 0
      BY <3>1 DEF Inv, JobInv
    <3>2. ASSUME NEW p \in Outputs, Queues(p, s, DoneOf(o))
          PROVE  o \in Made /\ ~IsOr(o) /\ s \in Operands(o)
      BY <3>2, JobsKind DEF Queues
    <3> QED
      BY <1>4, <1>7, <3>1, <3>2
  <2> QED
    BY <1>2, <2>1
<1>8. ASSUME NEW s \in Signals, NEW o \in Outputs, Occ(jobs'[s], CleanupOf(o)) > 0
      PROVE  /\ o \in Made' /\ IsOr(o)' /\ s = o /\ refs'[o] > 0
             /\ \A d \in Operands(o)' : Pending(agenda', ThenOn(o, d)) = 0
  <2>1. /\ o \in Made /\ IsOr(o) /\ s = o /\ refs[o] > 0
        /\ \A d \in Operands(o) : Pending(agenda, ThenOn(o, d)) = 0
    <3>1. CASE Occ(jobs[s], CleanupOf(o)) > 0
      BY <3>1 DEF Inv, JobInv
    <3>2. ASSUME NEW p \in Outputs, Queues(p, s, CleanupOf(o))
          PROVE  /\ o \in Made /\ IsOr(o) /\ s = o /\ refs[o] > 0
                 /\ \A d \in Operands(o) : Pending(agenda, ThenOn(o, d)) = 0
      <4>1. Registers(o, s, CleanupOf(o))
        BY <3>2, JobsKind DEF Queues
      <4>2. /\ s = o /\ o \in Made /\ IsOr(o) /\ Held(o)
            /\ \A d \in Operands(o) : Pending(agenda, ThenOn(o, d)) = 0
        BY <4>1, CleanupLast
      <4> QED
        BY <4>2, HeldRefs
    <3> QED
      BY <1>4, <1>8, <3>1, <3>2
  <2>2. ~Frees(o)
    <3>1. Frees(o) => jobs'[s] = <<>>
      BY <2>1 DEF Frees, Inv, Types
    <3>2. Occ(<<>>, CleanupOf(o)) = 0
      BY OccShort
    <3> QED
      BY <1>8, <3>1, <3>2
  <2>3. refs'[o] > 0
    BY <2>1, <2>2, Changes
  <2>4. \A d \in Operands(o) : Pending(agenda', ThenOn(o, d)) = 0
    <3> TAKE d \in Operands(o)
    <3>1. d \in Signals
      BY <2>1 DEF Inv, MadeInv
    <3>2. Fewer(ThenOn(o, d))
      BY <1>3, <2>1, <3>1, Grows
    <3> QED
      BY <1>1, <2>1, <3>2 DEF Fewer
  <2> QED
    BY <1>2, <2>1, <2>3, <2>4
<1> QED
  BY <1>5, <1>6, <1>7, <1>8 DEF JobInv

\* An output is activated by a call that was due.
LEMMA GoStep ==
  ASSUME Inv, Does
  PROVE  GoInv'
<1>1. ASSUME NEW o \in Outputs, o \in go'
      PROVE  (o \in Made /\ Asked(o))'
  <2>1. o \in Made /\ Asked(o)
    <3>1. CASE o \in go
      BY <3>1 DEF Inv, GoInv
    <3>2. ASSUME NEW h, Activates(h, o)
          PROVE  o \in Made /\ Asked(o)
      <4>1. Pending(agenda, GoOn(o)) > 0
        BY <3>2, CombinatorsAssumption DEF Activates, Goes
      <4> QED
        BY <4>1 DEF Inv, CallInv
    <3>3. o \in Signals
      BY DEF Signals
    <3> QED
      BY <1>1, <3>1, <3>2, <3>3, Changes
  <2> QED
    BY <2>1, AsksOn, Stable
<1> QED
  BY <1>1 DEF GoInv

\* An OrSignal gets its operands when it is made.
LEMMA DepsNew ==
  ASSUME Inv, Does, NEW o \in Outputs, o \notin Made, deps'[o] # <<>>
  PROVE  \E l, r : MakesOr(o, l, r)
<1>1. deps \in [Outputs -> Seq(Signals)]
  BY DEF Inv, Types
<1>2. deps[o] = <<>>
  BY DEF Inv, DepInv
<1>3. deps' # deps
  BY <1>2
<1>4. \E p \in Outputs : \E l, r : MakesOr(p, l, r) \/ Cleans(p, l, r)
  BY <1>3 DEF Does, Shortcuts, MakesAnd, Queues, Runs, Activates, ActivatesAgain, Removes, Waits, FiresDead, Fires,
              CleansNothing, Counts1, CountsLast, Unrefs, Frees, ForgetsIt, Reads, Assigns, Begin
<1>5. PICK p \in Outputs : \E l, r : MakesOr(p, l, r) \/ Cleans(p, l, r)
  BY <1>4
<1>6. p = o
  <2>1. p # o => deps'[o] = deps[o]
    BY <1>1, <1>5 DEF MakesOr, Cleans
  <2> QED
    BY <1>2, <2>1
<1> QED
  BY <1>1, <1>5, <1>6 DEF Cleans

\* The operands of an OrSignal are held while it can still be activated.
LEMMA DepStep ==
  ASSUME Inv, Does
  PROVE  DepInv'
<1>1. /\ \A c : Pending(agenda, c) \in Nat /\ Pending(agenda', c) \in Nat
      /\ deps \in [Outputs -> Seq(Signals)] /\ expr \in Expressions
  <2>1. Types'
    BY TypesStep
  <2> QED
    BY <2>1, PendingType DEF Inv, Types
<1>2. /\ expr' = expr /\ go \subseteq go' /\ Made \subseteq Made'
      /\ \A p \in Made : Operands(p)' = Operands(p) /\ Left(p)' = Left(p) /\ Right(p)' = Right(p)
      /\ \A p \in Made : refs[p] = 0 => refs'[p] = 0
      /\ \A p : IsOr(p)' = IsOr(p)
      /\ \A p \in Made' : p \in Made \/ \E l, r : MakesOr(p, l, r) \/ MakesAnd(p, l, r)
  BY Stable, SameTerms
<1>3. \A p \in Made : p \in Outputs /\ \A l, r : ~MakesOr(p, l, r) /\ ~MakesAnd(p, l, r)
  <2>1. \A p \in Made : p \in Outputs /\ value[p] # Null
    BY CombinatorsAssumption DEF Made, Signals
  <2> QED
    BY <2>1 DEF MakesOr, MakesAnd, Ready
<1>4. ASSUME NEW o \in Made
      PROVE  /\ deps'[o] # <<>> => /\ IsOr(o) /\ deps'[o] = <<Left(o), Right(o)>>
                                   /\ Left(o) = Right(o) => Left(o) \notin Outputs
             /\ IsOr(o) /\ deps'[o] = <<>> => /\ o \in go' \/ refs'[o] = 0
                                              /\ \A d \in Operands(o) : Pending(agenda', ThenOn(o, d)) = 0
  <2>1. deps'[o] = deps[o] \/ \E l, r : Cleans(o, l, r)
    BY Changes
  <2>2. \A l, r : Cleans(o, l, r) => deps'[o] = <<>>
    BY <1>1, <1>3 DEF Cleans
  <2>3. IsOr(o) /\ deps'[o] = <<>> => /\ o \in go \/ refs[o] = 0
                                      /\ \A d \in Operands(o) : Pending(agenda, ThenOn(o, d)) = 0
    <3>1. CASE deps'[o] = deps[o]
      BY <1>3, <3>1 DEF Inv, DepInv
    <3>2. ASSUME NEW l, NEW r, Cleans(o, l, r)
          PROVE  /\ o \in go \/ refs[o] = 0
                 /\ \A d \in Operands(o) : Pending(agenda, ThenOn(o, d)) = 0
      BY <1>3, <3>2 DEF Cleans, Inv, CallInv
    <3> QED
      BY <2>1, <3>1, <3>2
  <2>4. \A d \in Operands(o) : Pending(agenda, ThenOn(o, d)) = 0 => Pending(agenda', ThenOn(o, d)) = 0
    <3> TAKE d \in Operands(o)
    <3>1. d \in Signals
      BY DEF Inv, MadeInv
    <3>2. Fewer(ThenOn(o, d))
      BY <1>3, <3>1, Grows
    <3> QED
      BY <1>1, <3>2 DEF Fewer
  <2>5. deps'[o] # <<>> => /\ IsOr(o) /\ deps'[o] = <<Left(o), Right(o)>>
                           /\ Left(o) = Right(o) => Left(o) \notin Outputs
    BY <1>3, <2>1, <2>2 DEF Inv, DepInv
  <2> QED
    BY <1>2, <2>3, <2>4, <2>5
<1>5. ASSUME NEW o \in Outputs, NEW l, NEW r, MakesOr(o, l, r)
      PROVE  /\ o \in Made' /\ IsOr(o) /\ deps'[o] = <<l, r>> /\ Left(o)' = l /\ Right(o)' = r
             /\ l = r => l \notin Outputs
             /\ <<l, r>> # <<>>
  <2>1. Combines(o, o) /\ l = Left(o) /\ r = Right(o) /\ IsOr(o) /\ Ready(o)
    BY <1>5, CombineCounts DEF MakesOr
  <2>2. o \in Made' /\ Left(o)' = l /\ Right(o)' = r
    BY <2>1, CombineValue
  <2>3. ASSUME l = r, l \in Outputs PROVE FALSE
    BY <2>1, <2>3, TwoOperands
  <2>4. deps'[o] = <<l, r>>
    BY <1>1, <1>5 DEF MakesOr
  <2> QED
    BY <2>1, <2>2, <2>3, <2>4
<1>6. ASSUME NEW o \in Outputs, o \notin Made, deps'[o] # <<>>
      PROVE  \E l, r : MakesOr(o, l, r)
  BY <1>6, DepsNew
<1>7. ASSUME NEW o \in Outputs
      PROVE  /\ deps'[o] # <<>> => /\ o \in Made' /\ IsOr(o)' /\ deps'[o] = <<Left(o)', Right(o)'>>
                                   /\ Left(o)' = Right(o)' => Left(o)' \notin Outputs
             /\ o \in Made' /\ IsOr(o)' /\ deps'[o] = <<>> =>
                   /\ o \in go' \/ refs'[o] = 0
                   /\ \A d \in Operands(o)' : Pending(agenda', ThenOn(o, d)) = 0
  <2>1. CASE o \in Made
    BY <1>2, <1>4, <2>1
  <2>2. CASE o \notin Made
    <3>1. deps'[o] # <<>> => /\ o \in Made' /\ IsOr(o)' /\ deps'[o] = <<Left(o)', Right(o)'>>
                             /\ Left(o)' = Right(o)' => Left(o)' \notin Outputs
      BY <1>2, <1>5, <1>6, <2>2
    <3>2. ~(o \in Made' /\ IsOr(o)' /\ deps'[o] = <<>>)
      BY <1>2, <1>5, <2>2 DEF MakesAnd
    <3> QED
      BY <3>1, <3>2
  <2> QED
    BY <2>1, <2>2
<1> QED
  BY <1>7 DEF DepInv

\* The operands of a combination are held for it, and for nothing else.
LEMMA NoShare ==
  ASSUME Inv, NEW o \in Outputs, Ready(o), NEW x \in Operands(o), x \in Outputs
  PROVE  /\ \A c \in Outs : Held(c) /\ value[c] = x => c \in Terms(o)
         /\ \A p \in Outputs : ~DepOf(p, x)
         /\ x # o
<1>1. PICK w \in Terms(o) : w \in Outputs /\ value[w] = x /\ Held(w)
  BY OperandHeld
<1>2. w \in Outs
  BY <1>1 DEF Held
<1>3. \A c \in Outs : Held(c) /\ value[c] = x => c = w
  BY <1>1, <1>2 DEF Inv, UniqueInv
<1>4. \A p \in Outputs : ~DepOf(p, x)
  BY <1>1, <1>2 DEF Inv, UniqueInv
<1> QED
  BY <1>3, <1>4, OperandHeld

\* Which operands an OrSignal refers to after a step.
LEMMA DepsAfter ==
  ASSUME Inv, Does, NEW p \in Outputs, NEW s, DepOf(p, s)'
  PROVE  DepOf(p, s) \/ \E l, r : MakesOr(p, l, r) /\ s \in {l, r}
<1>1. deps'[p] # <<>> /\ s \in Operands(p)'
  BY DEF DepOf
<1>2. CASE p \in Made
  <2>1. deps \in [Outputs -> Seq(Signals)]
    BY DEF Inv, Types
  <2>2. deps'[p] = deps[p]
    BY <1>1, <1>2, <2>1, Changes DEF Cleans
  <2>3. Operands(p)' = Operands(p)
    BY <1>2, Stable
  <2> QED
    BY <1>1, <2>2, <2>3 DEF DepOf
<1>3. CASE p \notin Made
  <2>1. PICK l, r : MakesOr(p, l, r)
    BY <1>1, <1>3, DepsNew
  <2>2. Combines(p, p) /\ Operands(p) = {l, r}
    BY <2>1, CombineCounts DEF MakesOr, Operands
  <2>3. Operands(p)' = {l, r}
    BY <2>2, CombineValue
  <2> QED
    BY <1>1, <2>1, <2>3
<1> QED
  BY <1>2, <1>3

\* What the builder and the OrSignals refer to after a step: no more than
\* before, or what was made, and its operands.
Lets == /\ Outs' = Outs /\ value' = value
        /\ \A p \in Outs : Held(p)' => Held(p)
        /\ \A p \in Outputs : \A s : DepOf(p, s)' => DepOf(p, s)

Gets(o, v) == /\ Combines(o, v) /\ (v = o \/ v \in Operands(o) \/ v \notin Outputs)
              /\ \A p \in Outputs : \A s : DepOf(p, s)' => DepOf(p, s) \/ (p = o /\ v = o /\ s \in Operands(o))

\* There is nothing else.
LEMMA LetsOrGets ==
  ASSUME Inv, Does
  PROVE  /\ value' = value => Lets
         /\ \A o \in Outputs : \A v, l, r : Shortcuts(o, v, l, r) => Gets(o, v)
         /\ \A o \in Outputs : \A l, r : MakesOr(o, l, r) \/ MakesAnd(o, l, r) => Gets(o, o)
         /\ Lets \/ \E o \in Outputs : \E v : Gets(o, v)
<1>1. ASSUME value' = value PROVE Lets
  <2>1. \A o \in Outputs : \A v : ~Combines(o, v)
    <3> SUFFICES ASSUME NEW o \in Outputs, NEW v, Combines(o, v) PROVE FALSE
      OBVIOUS
    <3>1. v # Null /\ value[o] = Null
      BY DEF Combines, Ready
    <3>2. value'[o] = v
      BY CombineValue
    <3> QED
      BY <1>1, <3>1, <3>2
  <2>2. \A o \in Outputs : \A l, r : ~MakesOr(o, l, r)
    BY <2>1, CombineCounts
  <2>3. \A p \in Outputs : \A s : DepOf(p, s)' => DepOf(p, s)
    BY <2>2, DepsAfter
  <2>4. Outs' = Outs /\ \A p \in Outs : Held(p)' => Held(p)
    BY <2>1, PlanSteps, HeldSame, HeldForget
  <2> QED
    BY <1>1, <2>3, <2>4 DEF Lets
<1>2. ASSUME NEW o \in Outputs, NEW v, NEW l, NEW r, Shortcuts(o, v, l, r)
      PROVE  Gets(o, v)
  <2>1. Combines(o, v) /\ (v \in Operands(o) \/ v \notin Outputs)
    <3>1. v \in Operands(o) \/ v \in {Done, Never}
      BY <1>2 DEF Shortcuts, Operands
    <3> QED
      BY <1>2, <3>1, CombineCounts, CombinatorsAssumption
  <2>2. \A p \in Outputs : \A l1, r1 : ~MakesOr(p, l1, r1)
    <3> SUFFICES ASSUME NEW p \in Outputs, NEW l1, NEW r1, MakesOr(p, l1, r1) PROVE FALSE
      OBVIOUS
    <3>1. deps[p] = <<>> /\ deps' = [deps EXCEPT ![p] = <<l1, r1>>] /\ deps \in [Outputs -> Seq(Signals)]
      BY Fresh DEF MakesOr, Inv, Types
    <3>2. deps' = deps
      BY <1>2 DEF Shortcuts
    <3> QED
      BY <3>1, <3>2
  <2>3. \A p \in Outputs : \A s : DepOf(p, s)' => DepOf(p, s)
    BY <2>2, DepsAfter
  <2> QED
    BY <2>1, <2>3 DEF Gets
<1>3. ASSUME NEW o \in Outputs, NEW l, NEW r, MakesOr(o, l, r) \/ MakesAnd(o, l, r)
      PROVE  Gets(o, o)
  <2>1. Combines(o, o)
    BY <1>3, CombineCounts
  <2>2. \A p \in Outputs : \A l1, r1 : MakesOr(p, l1, r1) => p = o /\ l1 \in Operands(o) /\ r1 \in Operands(o)
    <3> TAKE p \in Outputs
    <3> TAKE l1, r1
    <3> HAVE MakesOr(p, l1, r1)
    <3>1. Combines(p, p)
      BY CombineCounts
    <3>2. value[p] = Null /\ p # Null
      BY <3>1 DEF Combines, Ready
    <3>3. value'[p] = p
      BY <3>1, CombineValue
    <3>4. \A q \in Outputs : q # o => value'[q] = value[q]
      BY <2>1, CombineValue
    <3> QED
      BY <3>2, <3>3, <3>4 DEF MakesOr, Operands
  <2>3. \A p \in Outputs : \A s : DepOf(p, s)' => DepOf(p, s) \/ (p = o /\ s \in Operands(o))
    BY <2>2, DepsAfter
  <2> QED
    BY <2>1, <2>3 DEF Gets
<1>4. value' = value \/ \/ \E o \in Outputs : \E v, l, r : Shortcuts(o, v, l, r)
                        \/ \E o \in Outputs : \E l, r : MakesOr(o, l, r) \/ MakesAnd(o, l, r)
  BY DEF Does, Queues, Runs, Activates, ActivatesAgain, Removes, Waits, FiresDead, Fires, CleansNothing, Cleans,
         Counts1, CountsLast, Unrefs, Frees, ForgetsIt, Reads, Assigns, Begin
<1> QED
  BY <1>1, <1>2, <1>3, <1>4

\* Nothing is referred to twice.
LEMMA UniqueStep ==
  ASSUME Inv, Does
  PROVE  UniqueInv'
<1>1. CASE Lets
  BY <1>1 DEF Lets, Inv, UniqueInv
<1>2. ASSUME NEW o \in Outputs, NEW v, Gets(o, v)
      PROVE  UniqueInv'
  <2>1. Combines(o, v) /\ Ready(o) /\ Outs \subseteq Outputs
    BY <1>2, ExprFacts DEF Gets, Combines, Inv, Types
  <2>2. /\ \A p \in Outputs : value'[p] = IF p = o THEN v ELSE value[p]
        /\ o \in Outs /\ Outs' = Outs
        /\ \A p \in Outs : p # o => (Held(p)' <=> Held(p) /\ p \notin Terms(o))
    BY <2>1, CombineValue, HeldCombine
  <2>3. /\ \A c \in Outputs : value[c] # o
        /\ \A p \in Outputs : ~DepOf(p, o)
        /\ o \notin Operands(o)
    <3>1. o \in Signals
      BY DEF Signals
    <3> QED
      BY <2>1, <3>1, Fresh, NoShare
  <2>4. \A x \in Operands(o) : x \in Outputs =>
           /\ \A c \in Outs : Held(c) /\ value[c] = x => c \in Terms(o)
           /\ \A p \in Outputs : ~DepOf(p, x)
    BY <2>1, NoShare
  <2>5. ASSUME NEW c \in Outs, NEW d \in Outs, Held(c)', Held(d)', value'[c] = value'[d], value'[c] \in Outputs
        PROVE  c = d
    <3>1. CASE c # o /\ d # o
      BY <2>1, <2>2, <2>5, <3>1 DEF Inv, UniqueInv
    <3>2. ASSUME NEW e \in Outs, e # o, Held(e)', value'[e] = v, v \in Outputs
          PROVE  FALSE
      <4>1. Held(e) /\ e \notin Terms(o) /\ value[e] = v
        BY <2>1, <2>2, <3>2
      <4> QED
        BY <1>2, <2>1, <2>3, <2>4, <3>2, <4>1 DEF Gets
    <3> QED
      BY <2>2, <2>5, <3>1, <3>2
  <2>6. ASSUME NEW p \in Outputs, NEW c \in Outs, Held(c)', value'[c] \in Outputs,
             NEW x, x = value'[c], DepOf(p, x)'
        PROVE  FALSE
    <3>1. DepOf(p, x) \/ (p = o /\ v = o /\ x \in Operands(o))
      BY <1>2, <2>6 DEF Gets
    <3>2. CASE c # o
      <4>1. Held(c) /\ c \notin Terms(o) /\ value'[c] = value[c]
        BY <2>1, <2>2, <2>6, <3>2
      <4> QED
        BY <2>4, <2>6, <3>1, <4>1 DEF Inv, UniqueInv
    <3>3. CASE c = o
      <4>1. value'[c] = v
        BY <2>2, <3>3
      <4> QED
        BY <1>2, <2>3, <2>4, <2>6, <3>1, <4>1 DEF Gets
    <3> QED
      BY <3>2, <3>3
  <2>7. ASSUME NEW p \in Outputs, NEW q \in Outputs, NEW s \in Outputs, DepOf(p, s)', DepOf(q, s)'
        PROVE  p = q
    <3>1. (DepOf(p, s) \/ (p = o /\ s \in Operands(o))) /\ (DepOf(q, s) \/ (q = o /\ s \in Operands(o)))
      BY <1>2, <2>7 DEF Gets
    <3> QED
      BY <2>4, <3>1 DEF Inv, UniqueInv
  <2>8. ASSUME NEW p \in Outputs, NEW c \in Outs, Held(c)', value'[c] \in Outputs
        PROVE  ~DepOf(p, value[c])'
    <3>1. PICK x : x = value'[c]
      OBVIOUS
    <3>2. DepOf(p, value[c])' => DepOf(p, x)'
      BY <3>1 DEF DepOf
    <3> QED
      BY <2>6, <2>8, <3>1, <3>2
  <2> QED
    BY <2>2, <2>5, <2>7, <2>8 DEF UniqueInv
<1> QED
  BY <1>1, <1>2, LetsOrGets

\* What is referred to after a step.
LEMMA KeptAfter ==
  ASSUME Inv, Does, NEW s \in Outputs
  PROVE  /\ Lets /\ Kept(s)' => Kept(s)
         /\ \A o \in Outputs : \A v : Gets(o, v) => /\ Kept(s)' => Kept(s) \/ (s = o /\ v = o)
                                                    /\ Kept(o)' \/ v # o
<1>1. Outs \subseteq Outputs
  BY ExprFacts DEF Inv, Types
<1>2. Lets /\ Kept(s)' => Kept(s)
  BY DEF Lets, Kept
<1>3. ASSUME NEW o \in Outputs, NEW v, Gets(o, v)
      PROVE  Kept(s)' => Kept(s) \/ (s = o /\ v = o)
  <2>1. /\ \A p \in Outputs : value'[p] = IF p = o THEN v ELSE value[p]
        /\ o \in Outs /\ Outs' = Outs
        /\ \A p \in Outs : p # o => (Held(p)' <=> Held(p) /\ p \notin Terms(o))
    BY <1>3, CombineValue, HeldCombine DEF Gets
  <2>2. s \in Operands(o) => Kept(s)
    BY <1>3, OperandHeld DEF Gets, Combines
  <2>3. ASSUME NEW c \in Outs, Held(c)', value'[c] = s
        PROVE  Kept(s) \/ (s = o /\ v = o)
    <3>1. CASE c = o
      BY <1>3, <2>1, <2>2, <2>3, <3>1 DEF Gets
    <3>2. CASE c # o
      BY <1>1, <2>1, <2>3, <3>2 DEF Kept
    <3> QED
      BY <3>1, <3>2
  <2>4. ASSUME NEW p \in Outputs, DepOf(p, s)'
        PROVE  Kept(s) \/ (s = o /\ v = o)
    BY <1>3, <2>2, <2>4 DEF Gets, Kept
  <2> QED
    BY <2>1, <2>3, <2>4 DEF Kept
<1>4. ASSUME NEW o \in Outputs, Gets(o, o)
      PROVE  Kept(o)'
  <2>1. value'[o] = o /\ Held(o)' /\ o \in Outs'
    <3>1. Combines(o, o)
      BY <1>4 DEF Gets
    <3>2. value'[o] = o
      BY <3>1, CombineValue
    <3> QED
      BY <3>1, <3>2, HeldCombine
  <2> QED
    BY <2>1 DEF Kept
<1> QED
  BY <1>2, <1>3, <1>4

\* An operand that is neither returned nor held by what was made is let go.
LEMMA LetsGo ==
  ASSUME Inv, Does, NEW o \in Outputs, NEW v, Combines(o, v), NEW s \in Operands(o), s \in Outputs, s # v,
         deps' = deps
  PROVE  Kept(s) /\ ~Kept(s)'
<1>1. Ready(o) /\ Outs \subseteq Outputs
  BY ExprFacts DEF Combines, Inv, Types
<1>2. Kept(s)
  BY <1>1, OperandHeld
<1>3. /\ \A q \in Outputs : value'[q] = IF q = o THEN v ELSE value[q]
      /\ o \in Outs /\ Outs' = Outs
      /\ \A q \in Outs : q # o => (Held(q)' <=> Held(q) /\ q \notin Terms(o))
  BY CombineValue, HeldCombine
<1>4. /\ \A c \in Outs : Held(c) /\ value[c] = s => c \in Terms(o)
      /\ \A q \in Outputs : ~DepOf(q, s)
  BY <1>1, NoShare
<1>5. ASSUME NEW c \in Outs, Held(c)', value'[c] = s
      PROVE  FALSE
  BY <1>1, <1>3, <1>4, <1>5
<1>6. ASSUME NEW q \in Outputs, DepOf(q, s)'
      PROVE  FALSE
  <2>1. PICK l, r : MakesOr(q, l, r)
    BY <1>4, <1>6, DepsAfter
  <2>2. Ready(q) /\ deps'[q] = <<l, r>>
    BY <2>1 DEF MakesOr, Inv, Types
  <2>3. deps[q] = <<>>
    BY <2>2, Fresh
  <2> QED
    BY <2>2, <2>3
<1> QED
  BY <1>2, <1>3, <1>5, <1>6 DEF Kept

\* The result is let go when it is forgotten, and the operands when an OrSignal
\* cleans up.
LEMMA LetsGoLater ==
  ASSUME Inv, Does, NEW o \in Outputs, NEW s \in Outputs
  PROVE  /\ ForgetsIt(o) /\ s = value[o] => Kept(s) /\ ~Kept(s)'
         /\ \A l, r : Cleans(o, l, r) /\ s \in {l, r} => Kept(s) /\ ~Kept(s)' /\ l # r
<1>1. Outs \subseteq Outputs
  BY ExprFacts DEF Inv, Types
<1>2. ASSUME ForgetsIt(o), s = value[o]
      PROVE  Kept(s) /\ ~Kept(s)'
  <2>1. /\ Held(o) /\ o \in Outs /\ Outs' = Outs /\ value' = value
        /\ \A p \in Outs : Held(p)' <=> Held(p) /\ p # o
    BY <1>2, HeldForget
  <2>2. Kept(s)
    BY <1>2, <2>1 DEF Kept
  <2>3. \A c \in Outs : Held(c) /\ value[c] = s => c = o
    BY <1>2, <2>1 DEF Inv, UniqueInv
  <2>4. \A p \in Outputs : ~DepOf(p, s)
    BY <1>2, <2>1 DEF Inv, UniqueInv
  <2>5. \A p \in Outputs : DepOf(p, s)' <=> DepOf(p, s)
    <3>1. expr' = expr /\ value' = value /\ deps' = deps
      BY <1>2 DEF ForgetsIt
    <3>2. \A p : Operands(p)' = Operands(p)
      BY <3>1, SameOperands
    <3> QED
      BY <3>1, <3>2 DEF DepOf
  <2> QED
    BY <2>1, <2>2, <2>3, <2>4, <2>5 DEF Kept
<1>3. ASSUME NEW l, NEW r, Cleans(o, l, r), s \in {l, r}
      PROVE  Kept(s) /\ ~Kept(s)' /\ l # r
  <2>1. expr' = expr /\ value' = value /\ deps' = [deps EXCEPT ![o] = <<>>] /\ deps[o] # <<>>
        /\ l = Left(o) /\ r = Right(o) /\ deps \in [Outputs -> Seq(Signals)]
    BY <1>3 DEF Cleans, Inv, Types
  <2>2. DepOf(o, s)
    BY <1>3, <2>1 DEF DepOf, Operands
  <2>3. Kept(s)
    BY <2>2 DEF Kept
  <2>4. l # r
    BY <1>3, <2>1 DEF Inv, DepInv
  <2>5. \A p \in Outputs : DepOf(p, s) => p = o
    BY <2>2 DEF Inv, UniqueInv
  <2>6. \A c \in Outs : ~(Held(c) /\ value[c] = s)
    BY <2>2 DEF Inv, UniqueInv
  <2>7. \A p \in Outputs : ~DepOf(p, s)'
    <3>1. \A p : Operands(p)' = Operands(p)
      BY <2>1, SameOperands
    <3>2. deps'[o] = <<>> /\ \A p \in Outputs : p # o => deps'[p] = deps[p]
      BY <2>1
    <3> QED
      BY <2>5, <3>1, <3>2 DEF DepOf
  <2>8. \A c \in Outs' : ~(Held(c)' /\ value'[c] = s)
    <3>1. Idle
      <4>1. deps' # deps
        BY <2>1
      <4>2. \A p \in Outputs : ~(Waits(p) \/ ForgetsIt(p) \/ Reads(p))
        BY <4>1 DEF Waits, ForgetsIt, Reads
      <4>3. ASSUME NEW p \in Outputs, NEW v, Combines(p, v) PROVE FALSE
        <5>1. v # Null /\ value[p] = Null
          BY <4>3 DEF Combines, Ready
        <5>2. value'[p] = v
          BY <4>3, CombineValue
        <5> QED
          BY <2>1, <5>1, <5>2
      <4> QED
        BY <4>2, <4>3, PlanSteps
    <3> QED
      BY <2>1, <2>6, <3>1, HeldSame
  <2> QED
    BY <2>3, <2>4, <2>7, <2>8 DEF Kept
<1> QED
  BY <1>2, <1>3

\* No reference is dropped that is not counted.
LEMMA RefStep ==
  ASSUME Inv, Does
  PROVE  RefInv'
<1>1. /\ \A c : Pending(agenda, c) \in Nat /\ Pending(agenda', c) \in Nat
      /\ refs \in [Outputs -> Nat] /\ remaining \in [Outputs -> 0..2]
  <2>1. Types'
    BY TypesStep
  <2> QED
    BY <2>1, PendingType DEF Inv, Types
<1> DEFINE R(s) == refs'[s] >= Pending(agenda', UnrefOf(s)) + Bit(Kept(s)') + Bit(remaining'[s] > 0)
<1>2. \A s \in Outputs : refs[s] >= Pending(agenda, UnrefOf(s)) + (IF Kept(s) THEN 1 ELSE 0)
                                      + (IF remaining[s] > 0 THEN 1 ELSE 0)
  BY DEF Inv, RefInv, Bit
<1>3. ASSUME NEW s \in Outputs, refs'[s] = refs[s], Pending(agenda', UnrefOf(s)) <= Pending(agenda, UnrefOf(s)),
             Kept(s)' => Kept(s), remaining'[s] > 0 => remaining[s] > 0
      PROVE  R(s)
  <2>1. refs[s] \in Nat /\ Pending(agenda, UnrefOf(s)) \in Nat /\ Pending(agenda', UnrefOf(s)) \in Nat
    BY <1>1
  <2> QED
    BY <1>2, <1>3, <2>1 DEF Bit
<1>31. ASSUME NEW s \in Outputs, refs'[s] = refs[s] + 1, Pending(agenda', UnrefOf(s)) = Pending(agenda, UnrefOf(s)) + 1,
             Kept(s)' => Kept(s), remaining'[s] > 0 => remaining[s] > 0
      PROVE  R(s)
  <2>1. refs[s] \in Nat /\ Pending(agenda, UnrefOf(s)) \in Nat /\ Pending(agenda', UnrefOf(s)) \in Nat
    BY <1>1
  <2> QED
    BY <1>2, <1>31, <2>1 DEF Bit
<1>4. ASSUME NEW s \in Outputs, refs'[s] = refs[s], Pending(agenda', UnrefOf(s)) = Pending(agenda, UnrefOf(s)) + 1,
             Kept(s), ~Kept(s)', remaining'[s] > 0 => remaining[s] > 0
      PROVE  R(s)
  <2>1. refs[s] \in Nat /\ Pending(agenda, UnrefOf(s)) \in Nat /\ Pending(agenda', UnrefOf(s)) \in Nat
    BY <1>1
  <2> QED
    BY <1>2, <1>4, <2>1 DEF Bit
<1> HIDE DEF R
<1>5. ASSUME NEW o \in Outputs, Ready(o)
      PROVE  /\ \A x \in Operands(o) : x \in Outputs => Kept(x) /\ x # o
             /\ Left(o) = Right(o) => Left(o) \notin Outputs
  BY <1>5, OperandHeld, TwoOperands
<1>6. ASSUME NEW o \in Outputs, NEW v, NEW l, NEW r, Shortcuts(o, v, l, r), NEW s \in Outputs
      PROVE  R(s)
  <2>1. /\ Ready(o) /\ l = Left(o) /\ r = Right(o) /\ refs' = refs /\ remaining' = remaining /\ deps' = deps
        /\ \/ v = l /\ r \in {Null, True, False}
           \/ v \in {Never, Done}
    BY <1>6 DEF Shortcuts
  <2>2. Gets(o, v) /\ Combines(o, v)
    BY <1>6, LetsOrGets DEF Gets
  <2>3. v # o
    BY <2>1, CombinatorsAssumption DEF Ready, Signals
  <2>4. Kept(s)' => Kept(s)
    BY <2>2, <2>3, KeptAfter
  <2>5. Pending(agenda', UnrefOf(s)) = Pending(agenda, UnrefOf(s))
             + (IF v # l /\ s = l THEN 1 ELSE 0) + (IF s = r THEN 1 ELSE 0)
    <3>1. \A c : Pending(agenda', c) + One(CombineOf(o), c)
                    = Pending(agenda, c) + (IF v = l THEN 0 ELSE Lost(l, c)) + Lost(r, c)
      BY <1>6 DEF Shortcuts
    <3> QED
      BY <1>1, <3>1, OneDo DEF Lost, CombineOf, UnrefOf
  <2>6. {Null, True, False, Never, Done} \cap Outputs = {}
    BY CombinatorsAssumption DEF Signals
  <2>7. CASE (s = l /\ v # l) \/ s = r
    <3>1. s # v /\ s \in Operands(o)
      BY <2>1, <2>6, <2>7 DEF Operands
    <3>2. l # r
      BY <1>5, <2>1, <2>7
    <3>3. Kept(s) /\ ~Kept(s)'
      BY <2>1, <2>2, <3>1, LetsGo
    <3>4. Pending(agenda', UnrefOf(s)) = Pending(agenda, UnrefOf(s)) + 1
      BY <1>1, <2>5, <2>7, <3>2
    <3> QED
      BY <1>4, <2>1, <3>3, <3>4
  <2>8. CASE ~((s = l /\ v # l) \/ s = r)
    <3>1. Pending(agenda', UnrefOf(s)) = Pending(agenda, UnrefOf(s))
      BY <1>1, <2>5, <2>8
    <3>2. Pending(agenda', UnrefOf(s)) <= Pending(agenda, UnrefOf(s))
      BY <1>1, <3>1
    <3>3. refs'[s] = refs[s] /\ (remaining'[s] > 0 => remaining[s] > 0)
      BY <2>1
    <3> QED
      BY <1>3, <2>4, <3>2, <3>3
  <2> QED
    BY <2>7, <2>8
<1>7. ASSUME NEW o \in Outputs, NEW l, NEW r, MakesOr(o, l, r), NEW s \in Outputs
      PROVE  R(s)
  <2>1. /\ Ready(o) /\ l = Left(o) /\ r = Right(o) /\ remaining' = remaining
        /\ refs' = [q \in Outputs |-> refs[q] + One(l, q) + One(r, q) + One(o, q)]
        /\ l \in Operands(o) /\ r \in Operands(o)
    BY <1>7 DEF MakesOr, Operands
  <2>2. Gets(o, o)
    BY <1>7, LetsOrGets
  <2>3. Pending(agenda', UnrefOf(s)) = Pending(agenda, UnrefOf(s)) + (IF s = l THEN 1 ELSE 0) + (IF s = r THEN 1 ELSE 0)
    <3>1. \A c : Pending(agenda', c) + One(CombineOf(o), c)
                = Pending(agenda, c) + One(ThenOn(o, l), c) + One(ThenOn(o, r), c) + One(ThenOn(o, o), c)
                    + Lost(l, c) + Lost(r, c)
      BY <1>7 DEF MakesOr
    <3> QED
      BY <1>1, <3>1, OneDo DEF Lost, CombineOf, UnrefOf, ThenOn
  <2>4. refs'[s] = refs[s] + (IF s = l THEN 1 ELSE 0) + (IF s = r THEN 1 ELSE 0) + (IF s = o THEN 1 ELSE 0)
    BY <2>1 DEF One
  <2>5. refs[s] \in Nat /\ Pending(agenda, UnrefOf(s)) \in Nat /\ Pending(agenda', UnrefOf(s)) \in Nat
    BY <1>1
  <2>6. CASE s = o
    <3>1. s # l /\ s # r
      BY <1>5, <2>1, <2>6
    <3>2. refs'[s] = refs[s] + 1 /\ Pending(agenda', UnrefOf(s)) = Pending(agenda, UnrefOf(s))
      BY <2>3, <2>4, <2>5, <2>6, <3>1
    <3> QED
      BY <1>2, <2>1, <2>5, <3>2 DEF R, Bit
  <2>7. CASE s # o
    <3>1. l = r => s # l
      BY <1>5, <2>1
    <3>2. Kept(s)' => Kept(s)
      BY <2>2, <2>7, KeptAfter
    <3>3. remaining'[s] > 0 => remaining[s] > 0
      BY <2>1
    <3>4. CASE s = l \/ s = r
      <4>1. refs'[s] = refs[s] + 1 /\ Pending(agenda', UnrefOf(s)) = Pending(agenda, UnrefOf(s)) + 1
        BY <2>3, <2>4, <2>5, <2>7, <3>1, <3>4
      <4> QED
        BY <1>31, <3>2, <3>3, <4>1
    <3>5. CASE s # l /\ s # r
      <4>1. refs'[s] = refs[s] /\ Pending(agenda', UnrefOf(s)) <= Pending(agenda, UnrefOf(s))
        BY <2>3, <2>4, <2>5, <2>7, <3>5
      <4> QED
        BY <1>3, <3>2, <3>3, <4>1
    <3> QED
      BY <3>4, <3>5
  <2> QED
    BY <2>6, <2>7
<1>8. ASSUME NEW o \in Outputs, NEW l, NEW r, MakesAnd(o, l, r), NEW s \in Outputs
      PROVE  R(s)
  <2>1. /\ Ready(o) /\ l = Left(o) /\ r = Right(o) /\ remaining' = [remaining EXCEPT ![o] = 2]
        /\ refs' = [refs EXCEPT ![o] = 2] /\ deps' = deps
        /\ l \in Operands(o) /\ r \in Operands(o)
    BY <1>8 DEF MakesAnd, Operands
  <2>2. Gets(o, o) /\ Combines(o, o)
    BY <1>8, LetsOrGets DEF Gets
  <2>3. Pending(agenda', UnrefOf(s)) = Pending(agenda, UnrefOf(s)) + (IF s = l THEN 1 ELSE 0) + (IF s = r THEN 1 ELSE 0)
    <3>1. \A c : Pending(agenda', c) + One(CombineOf(o), c)
                = Pending(agenda, c) + One(ThenOn(o, l), c) + One(ThenOn(o, r), c) + Lost(l, c) + Lost(r, c)
      BY <1>8 DEF MakesAnd
    <3> QED
      BY <1>1, <3>1, OneDo DEF Lost, CombineOf, UnrefOf, ThenOn
  <2>4. CASE s = o
    <3>1. s # l /\ s # r /\ Pending(agenda, UnrefOf(s)) = 0
      BY <1>5, <2>1, <2>4, Fresh
    <3>2. refs'[s] = 2 /\ Pending(agenda', UnrefOf(s)) = 0
      BY <1>1, <2>1, <2>3, <2>4, <3>1
    <3> QED
      BY <3>2 DEF R, Bit
  <2>5. CASE s # o /\ s \in {l, r}
    <3>1. l # r /\ Pending(agenda', UnrefOf(s)) = Pending(agenda, UnrefOf(s)) + 1
      <4>1. l # r
        BY <1>5, <2>1, <2>5
      <4> QED
        BY <1>1, <2>3, <2>5, <4>1
    <3>2. Kept(s) /\ ~Kept(s)'
      BY <2>1, <2>2, <2>5, LetsGo
    <3>3. refs'[s] = refs[s] /\ (remaining'[s] > 0 => remaining[s] > 0)
      BY <1>1, <2>1, <2>5
    <3> QED
      BY <1>4, <3>1, <3>2, <3>3
  <2>6. CASE s # o /\ s \notin {l, r}
    <3>1. Pending(agenda', UnrefOf(s)) <= Pending(agenda, UnrefOf(s))
      BY <1>1, <2>3, <2>6
    <3>2. refs'[s] = refs[s] /\ (remaining'[s] > 0 => remaining[s] > 0)
      BY <1>1, <2>1, <2>6
    <3>3. Kept(s)' => Kept(s)
      BY <2>2, <2>6, KeptAfter
    <3> QED
      BY <1>3, <3>1, <3>2, <3>3
  <2> QED
    BY <2>4, <2>5, <2>6
<1>9. ASSUME NEW o \in Outputs, Fires(o) \/ CountsLast(o), NEW s \in Outputs
      PROVE  R(s)
  <2>1. PICK h \in {FireOf(o), DoneOf(o)} :
           \A c : Pending(agenda', c) + One(h, c) = Pending(agenda, c) + One(GoOn(o), c) + One(UnrefOf(o), c)
    BY <1>9 DEF Fires, CountsLast
  <2>2. Pending(agenda', UnrefOf(s)) = Pending(agenda, UnrefOf(s)) + (IF s = o THEN 1 ELSE 0)
    BY <1>1, <2>1, OneDo DEF FireOf, DoneOf, GoOn, UnrefOf
  <2>3. Kept(s)' => Kept(s)
    <3>1. value' = value
      BY <1>9 DEF Fires, CountsLast
    <3> QED
      BY <3>1, LetsOrGets, KeptAfter
  <2>4. refs[s] \in Nat /\ Pending(agenda, UnrefOf(s)) \in Nat /\ Pending(agenda', UnrefOf(s)) \in Nat
    BY <1>1
  <2>5. CASE Fires(o)
    <3>1. refs'[s] = refs[s] + (IF s = o THEN 1 ELSE 0) /\ (remaining'[s] > 0 => remaining[s] > 0)
      BY <1>1, <2>4, <2>5 DEF Fires
    <3>2. CASE s = o
      <4>1. refs'[s] = refs[s] + 1 /\ Pending(agenda', UnrefOf(s)) = Pending(agenda, UnrefOf(s)) + 1
        BY <2>2, <3>1, <3>2
      <4> QED
        BY <1>31, <2>3, <3>1, <4>1
    <3>3. CASE s # o
      <4>1. refs'[s] = refs[s] /\ Pending(agenda', UnrefOf(s)) <= Pending(agenda, UnrefOf(s))
        BY <2>2, <2>4, <3>1, <3>3
      <4> QED
        BY <1>3, <2>3, <3>1, <4>1
    <3> QED
      BY <3>2, <3>3
  <2>6. CASE CountsLast(o) /\ s # o
    <3>1. refs'[s] = refs[s] /\ (remaining'[s] > 0 => remaining[s] > 0)
      BY <1>1, <2>6 DEF CountsLast
    <3>2. Pending(agenda', UnrefOf(s)) <= Pending(agenda, UnrefOf(s))
      BY <2>2, <2>4, <2>6
    <3> QED
      BY <1>3, <2>3, <3>1, <3>2
  <2>7. CASE CountsLast(o) /\ s = o
    <3>1. refs'[s] = refs[s] /\ remaining'[s] = 0 /\ remaining[s] = 1
      BY <1>1, <2>7 DEF CountsLast
    <3>2. refs[s] >= Pending(agenda, UnrefOf(s)) + (IF Kept(s) THEN 1 ELSE 0) + 1
      BY <1>2, <3>1
    <3> QED
      BY <2>2, <2>3, <2>4, <2>7, <3>1, <3>2 DEF R, Bit
  <2> QED
    BY <1>9, <2>5, <2>6, <2>7
<1>10. ASSUME NEW o \in Outputs, NEW l, NEW r, Cleans(o, l, r), NEW s \in Outputs
       PROVE  R(s)
  <2>1. Pending(agenda', UnrefOf(s)) = Pending(agenda, UnrefOf(s)) + (IF s = l THEN 1 ELSE 0) + (IF s = r THEN 1 ELSE 0)
    <3>1. \A c : Pending(agenda', c) + One(CleanupOf(o), c)
                = Pending(agenda, c) + One(RemoveOn(o, l), c) + One(RemoveOn(o, r), c) + Lost(l, c) + Lost(r, c)
      BY <1>10 DEF Cleans
    <3> QED
      BY <1>1, <3>1, OneDo DEF Lost, CleanupOf, UnrefOf, RemoveOn
  <2>2. refs' = refs /\ remaining' = remaining /\ value' = value
    BY <1>10 DEF Cleans
  <2>3. CASE s \in {l, r}
    <3>1. Kept(s) /\ ~Kept(s)' /\ l # r
      BY <1>10, <2>3, LetsGoLater
    <3>2. Pending(agenda', UnrefOf(s)) = Pending(agenda, UnrefOf(s)) + 1
      BY <1>1, <2>1, <2>3, <3>1
    <3>3. refs'[s] = refs[s] /\ (remaining'[s] > 0 => remaining[s] > 0)
      BY <2>2
    <3> QED
      BY <1>4, <3>1, <3>2, <3>3
  <2>4. CASE s \notin {l, r}
    <3>1. Pending(agenda', UnrefOf(s)) <= Pending(agenda, UnrefOf(s))
      BY <1>1, <2>1, <2>4
    <3>2. Kept(s)' => Kept(s)
      BY <2>2, LetsOrGets, KeptAfter
    <3>3. refs'[s] = refs[s] /\ (remaining'[s] > 0 => remaining[s] > 0)
      BY <2>2
    <3> QED
      BY <1>3, <3>1, <3>2, <3>3
  <2> QED
    BY <2>3, <2>4
<1>11. ASSUME NEW o \in Outputs, ForgetsIt(o), NEW s \in Outputs
       PROVE  R(s)
  <2>1. Pending(agenda', UnrefOf(s)) = Pending(agenda, UnrefOf(s)) + (IF s = value[o] THEN 1 ELSE 0)
    <3>1. \A c : Pending(agenda', c) + One(ForgetOf(o), c) = Pending(agenda, c) + Lost(value[o], c)
      BY <1>11 DEF ForgetsIt
    <3> QED
      BY <1>1, <3>1, OneDo DEF Lost, ForgetOf, UnrefOf
  <2>2. refs' = refs /\ remaining' = remaining /\ value' = value
    BY <1>11 DEF ForgetsIt
  <2>3. CASE s = value[o]
    <3>1. Kept(s) /\ ~Kept(s)'
      BY <1>11, <2>3, LetsGoLater
    <3>2. Pending(agenda', UnrefOf(s)) = Pending(agenda, UnrefOf(s)) + 1
      BY <1>1, <2>1, <2>3
    <3>3. refs'[s] = refs[s] /\ (remaining'[s] > 0 => remaining[s] > 0)
      BY <2>2
    <3> QED
      BY <1>4, <3>1, <3>2, <3>3
  <2>4. CASE s # value[o]
    <3>1. Pending(agenda', UnrefOf(s)) <= Pending(agenda, UnrefOf(s))
      BY <1>1, <2>1, <2>4
    <3>2. Kept(s)' => Kept(s)
      BY <2>2, LetsOrGets, KeptAfter
    <3>3. refs'[s] = refs[s] /\ (remaining'[s] > 0 => remaining[s] > 0)
      BY <2>2
    <3> QED
      BY <1>3, <3>1, <3>2, <3>3
  <2> QED
    BY <2>3, <2>4
<1>12. ASSUME NEW o \in Outputs, Unrefs(o) \/ Frees(o), NEW s \in Outputs
       PROVE  R(s)
  <2>1. value' = value /\ remaining' = remaining /\ refs' = [refs EXCEPT ![o] = @ - 1]
    BY <1>12 DEF Unrefs, Frees
  <2>2. Kept(s)' => Kept(s)
    BY <2>1, LetsOrGets, KeptAfter
  <2>3. refs[s] \in Nat /\ Pending(agenda, UnrefOf(s)) \in Nat /\ Pending(agenda', UnrefOf(s)) \in Nat
    BY <1>1
  <2>4. Pending(agenda', UnrefOf(s)) = Pending(agenda, UnrefOf(s)) - (IF s = o THEN 1 ELSE 0)
    <3>1. CASE Unrefs(o)
      <4>1. \A c : Pending(agenda', c) + One(UnrefOf(o), c) = Pending(agenda, c)
        BY <3>1 DEF Unrefs
      <4> QED
        BY <2>3, <4>1, OneDo DEF UnrefOf
    <3>2. CASE Frees(o)
      <4>1. \A c : Pending(agenda', c) + One(UnrefOf(o), c)
                = Pending(agenda, c) + (IF IsOr(o) THEN One(CleanupOf(o), c) ELSE 0)
        BY <3>2 DEF Frees
      <4> QED
        BY <2>3, <4>1, OneDo DEF UnrefOf, CleanupOf
    <3> QED
      BY <1>12, <3>1, <3>2
  <2>5. refs'[s] = refs[s] - (IF s = o THEN 1 ELSE 0)
    BY <1>1, <2>1, <2>3
  <2> QED
    BY <1>2, <2>1, <2>2, <2>3, <2>4, <2>5 DEF R, Bit
<1>13. ASSUME ~Drops, \A o \in Outputs : ~Unrefs(o) /\ ~Frees(o), NEW s \in Outputs
       PROVE  R(s)
  <2>1. Pending(agenda', UnrefOf(s)) <= Pending(agenda, UnrefOf(s))
    BY <1>13, UnrefsGrow DEF Fewer
  <2>2. value' = value /\ refs' = refs
    BY <1>13 DEF Drops, Does, Queues, Runs, Activates, ActivatesAgain, Removes, Waits, FiresDead, CleansNothing,
                 Counts1, Reads, Assigns, Begin
  <2>3. remaining' = remaining \/ \E o \in Outputs : Counts1(o)
    BY <1>13 DEF Drops, Does, Queues, Runs, Activates, ActivatesAgain, Removes, Waits, FiresDead, CleansNothing,
                 Reads, Assigns, Begin
  <2>4. remaining'[s] > 0 => remaining[s] > 0
    <3>1. ASSUME NEW o \in Outputs, Counts1(o), remaining'[s] > 0 PROVE remaining[s] > 0
      <4>1. remaining' = [remaining EXCEPT ![o] = @ - 1]
        BY <3>1 DEF Counts1
      <4>2. remaining'[s] = remaining[s] - (IF s = o THEN 1 ELSE 0)
        BY <1>1, <4>1
      <4> QED
        BY <1>1, <3>1, <4>2
    <3> QED
      BY <2>3, <3>1
  <2>5. Kept(s)' => Kept(s)
    BY <2>2, LetsOrGets, KeptAfter
  <2>6. refs'[s] = refs[s]
    BY <2>2
  <2> QED
    BY <1>3, <2>1, <2>4, <2>5, <2>6
<1>14. \A s \in Outputs : R(s)
  BY <1>6, <1>7, <1>8, <1>9, <1>10, <1>11, <1>12, <1>13 DEF Drops
<1> QED
  BY <1>14 DEF RefInv, R

\* What a step leaves as it is for the combination o.
Same(c) == Pending(agenda', c) = Pending(agenda, c)

Untouched(o) == /\ Same(GoOn(o)) /\ Same(FireOf(o)) /\ Same(DoneOf(o)) /\ Same(CleanupOf(o))
                /\ \A s \in Signals : Same(ThenOn(o, s)) /\ Same(RemoveOn(o, s))

Queued(o) == \A s \in Signals : \A j \in {FireOf(o), DoneOf(o), CleanupOf(o)} :
                /\ Occ(jobs'[s], j) <= Occ(jobs[s], j)
                /\ (s \in Outputs => refs'[s] > 0) => Occ(jobs'[s], j) = Occ(jobs[s], j)

Still(o) == /\ go' = go /\ remaining'[o] = remaining[o] /\ deps'[o] = deps[o]
            /\ refs'[o] > 0 <=> refs[o] > 0
            /\ Untouched(o) /\ Queued(o)

\* A step concerns o, or activates a signal, or leaves all that is known of o.
LEMMA Stays ==
  ASSUME Inv, Does, NEW o \in Made
  PROVE  \/ Still(o)
         \/ \E s \in Signals : \E j : Queues(o, s, j) \/ Runs(o, s, j)
         \/ \E s \in Signals : \E h : Activates(h, s)
         \/ \E s \in Signals : ActivatesAgain(GoOn(o), s)
         \/ \E s \in Signals : Removes(o, s)
         \/ \E l, r : Cleans(o, l, r)
         \/ FiresDead(o) \/ Fires(o) \/ CleansNothing(o) \/ Counts1(o) \/ CountsLast(o) \/ Frees(o)
<1> DEFINE G == \/ Still(o)
                \/ \E s \in Signals : \E j : Queues(o, s, j) \/ Runs(o, s, j)
                \/ \E s \in Signals : \E h : Activates(h, s)
                \/ \E s \in Signals : ActivatesAgain(GoOn(o), s)
                \/ \E s \in Signals : Removes(o, s)
                \/ \E l, r : Cleans(o, l, r)
                \/ FiresDead(o) \/ Fires(o) \/ CleansNothing(o) \/ Counts1(o) \/ CountsLast(o) \/ Frees(o)
<1>1. /\ o \in Outputs /\ refs \in [Outputs -> Nat] /\ remaining \in [Outputs -> 0..2]
      /\ deps \in [Outputs -> Seq(Signals)] /\ jobs \in [Signals -> Seq(JobCalls)]
      /\ refs' \in [Outputs -> Nat]
  BY TypesStep DEF Inv, Types, Made
<1>2. \A s \in Signals : \A c : Occ(jobs[s], c) \in Nat /\ Occ(<<>>, c) = 0
  BY <1>1, OccType, OccShort
<1>3. (refs[o] = 0 => refs'[o] = 0) /\ (refs[o] > 0 => refs'[o] > 0 \/ Frees(o))
  BY Stable, Changes
<1>4. ~Frees(o) => (refs'[o] > 0 <=> refs[o] > 0)
  BY <1>1, <1>3
<1>5. jobs' = jobs => Queued(o)
  BY <1>2 DEF Queued
<1>6. \A p \in Outputs : Ready(p) => p # o
  BY CombinatorsAssumption DEF Ready, Made, Signals
<1>7. ASSUME jobs' = jobs, go' = go, remaining' = remaining, deps' = deps, Untouched(o)
      PROVE  G
  BY <1>4, <1>5, <1>7 DEF Still
<1> HIDE DEF G
<1>8. ASSUME NEW p \in Outputs, NEW v, NEW l, NEW r, Shortcuts(p, v, l, r)
      PROVE  G
  <2>1. Untouched(o)
    <3>1. \A c : /\ Pending(agenda, c) \in Nat /\ Pending(agenda', c) \in Nat
                 /\ Pending(agenda', c) + One(CombineOf(p), c)
                      = Pending(agenda, c) + (IF v = l THEN 0 ELSE Lost(l, c)) + Lost(r, c)
      BY <1>8 DEF Shortcuts, Counted
    <3> QED
      BY <3>1, OneDo DEF CombineOf, Lost, UnrefOf, Untouched, Same,
                                     GoOn, FireOf, DoneOf, CleanupOf, ThenOn, RemoveOn
  <2> QED
    BY <1>7, <1>8, <2>1 DEF Shortcuts
<1>9. ASSUME NEW p \in Outputs, NEW l, NEW r, MakesOr(p, l, r)
      PROVE  G
  <2>1. p # o
    BY <1>6, <1>9 DEF MakesOr
  <2>2. Untouched(o)
    <3>1. \A c : /\ Pending(agenda, c) \in Nat /\ Pending(agenda', c) \in Nat
                 /\ Pending(agenda', c) + One(CombineOf(p), c)
                      = Pending(agenda, c) + One(ThenOn(p, l), c) + One(ThenOn(p, r), c) + One(ThenOn(p, p), c)
                        + Lost(l, c) + Lost(r, c)
      BY <1>9 DEF MakesOr, Counted
    <3> QED
      BY <2>1, <3>1, OneDo DEF CombineOf, Lost, UnrefOf, Untouched, Same,
                                     GoOn, FireOf, DoneOf, CleanupOf, ThenOn, RemoveOn
  <2>3. deps'[o] = deps[o] /\ jobs' = jobs /\ go' = go /\ remaining' = remaining
    BY <1>1, <1>9, <2>1 DEF MakesOr
  <2> QED
    BY <1>4, <1>5, <2>2, <2>3 DEF Still, G
<1>10. ASSUME NEW p \in Outputs, NEW l, NEW r, MakesAnd(p, l, r)
       PROVE  G
  <2>1. p # o
    BY <1>6, <1>10 DEF MakesAnd
  <2>2. Untouched(o)
    <3>1. \A c : /\ Pending(agenda, c) \in Nat /\ Pending(agenda', c) \in Nat
                 /\ Pending(agenda', c) + One(CombineOf(p), c)
                      = Pending(agenda, c) + One(ThenOn(p, l), c) + One(ThenOn(p, r), c) + Lost(l, c) + Lost(r, c)
      BY <1>10 DEF MakesAnd, Counted
    <3> QED
      BY <2>1, <3>1, OneDo DEF CombineOf, Lost, UnrefOf, Untouched, Same,
                                     GoOn, FireOf, DoneOf, CleanupOf, ThenOn, RemoveOn
  <2>3. deps' = deps /\ jobs' = jobs /\ go' = go /\ remaining'[o] = remaining[o]
    BY <1>1, <1>10, <2>1 DEF MakesAnd
  <2> QED
    BY <1>4, <1>5, <2>2, <2>3 DEF Still, G
<1>11. ASSUME NEW p \in Outputs, NEW l, NEW r, Cleans(p, l, r)
       PROVE  G
  <2>1. CASE p # o
    <3>1. \A c : /\ Pending(agenda, c) \in Nat /\ Pending(agenda', c) \in Nat
                 /\ Pending(agenda', c) + One(CleanupOf(p), c) = Pending(agenda, c)
                      + One(RemoveOn(p, l), c) + One(RemoveOn(p, r), c) + Lost(l, c) + Lost(r, c)
      BY <1>11 DEF Cleans, Counted
    <3>2. Untouched(o)
      BY <2>1, <3>1, OneDo DEF Lost, UnrefOf, Untouched, Same, GoOn, FireOf, DoneOf, CleanupOf, ThenOn, RemoveOn
    <3>3. deps'[o] = deps[o] /\ jobs' = jobs /\ go' = go /\ remaining' = remaining
      BY <1>1, <1>11, <2>1 DEF Cleans
    <3> QED
      BY <1>4, <1>5, <3>2, <3>3 DEF Still, G
  <2> QED
    BY <1>11, <2>1 DEF G
<1>12. ASSUME NEW p \in Outputs, NEW s \in Signals, NEW j, Queues(p, s, j)
       PROVE  G
  <2>1. CASE p # o
    <3>1. \A c : /\ Pending(agenda, c) \in Nat /\ Pending(agenda', c) \in Nat
                 /\ Pending(agenda', c) + One(ThenOn(p, s), c) = Pending(agenda, c)
      BY <1>12 DEF Queues, Counted
    <3>2. Untouched(o)
      BY <2>1, <3>1, OneDo DEF Untouched, Same, GoOn, FireOf, DoneOf, CleanupOf, ThenOn, RemoveOn
    <3>3. Queued(o)
      <4>1. /\ \A q \in Signals \ {s} : jobs'[q] = jobs[q]
            /\ \A c : Occ(jobs'[s], c) = Occ(jobs[s], c) + One(j, c)
            /\ j \in {CleanupOf(p), FireOf(p), DoneOf(p)}
        BY <1>12 DEF Queues, Registers
      <4>2. \A c \in {FireOf(o), DoneOf(o), CleanupOf(o)} : One(j, c) = 0
        BY <2>1, <4>1, OneDo DEF FireOf, DoneOf, CleanupOf
      <4>3. \A c \in {FireOf(o), DoneOf(o), CleanupOf(o)} : \A q \in Signals : Occ(jobs'[q], c) = Occ(jobs[q], c)
        <5> TAKE c \in {FireOf(o), DoneOf(o), CleanupOf(o)}
        <5>1. Occ(jobs'[s], c) = Occ(jobs[s], c) + One(j, c) /\ One(j, c) = 0 /\ Occ(jobs[s], c) \in Nat
          BY <1>2, <4>1, <4>2
        <5>2. Occ(jobs'[s], c) = Occ(jobs[s], c)
          BY <5>1
        <5> QED
          BY <4>1, <5>2
      <4> QED
        BY <1>2, <4>3 DEF Queued
    <3>4. deps' = deps /\ go' = go /\ remaining' = remaining
      BY <1>12 DEF Queues
    <3> QED
      BY <1>4, <3>2, <3>3, <3>4 DEF Still, G
  <2> QED
    BY <1>12, <2>1 DEF G
<1>13. ASSUME NEW p \in Outputs, NEW s \in Signals, NEW j, Runs(p, s, j)
       PROVE  G
  <2>1. CASE p # o
    <3>1. \A c : /\ Pending(agenda, c) \in Nat /\ Pending(agenda', c) \in Nat
                 /\ Pending(agenda', c) + One(ThenOn(p, s), c) = Pending(agenda, c) + One(j, c)
      BY <1>13 DEF Runs, Counted
    <3>2. j \in {CleanupOf(p), FireOf(p), DoneOf(p)}
      BY <1>13 DEF Runs, Registers
    <3>3. Untouched(o)
      BY <2>1, <3>1, <3>2, OneDo DEF Untouched, Same, GoOn, FireOf, DoneOf, CleanupOf, ThenOn, RemoveOn
    <3> QED
      BY <1>7, <1>13, <3>3 DEF Runs
  <2> QED
    BY <1>13, <2>1 DEF G
<1>14. ASSUME NEW s \in Signals, NEW h, ActivatesAgain(h, s)
       PROVE  G
  <2>1. CASE h # GoOn(o)
    <3>1. \A c : /\ Pending(agenda, c) \in Nat /\ Pending(agenda', c) \in Nat
                 /\ Pending(agenda', c) + One(h, c) = Pending(agenda, c)
      BY <1>14 DEF ActivatesAgain, Counted
    <3>2. h \in {GoOn(s), GoIn(s)}
      BY <1>14 DEF ActivatesAgain, Goes
    <3>3. s # o => h = GoOn(s) \/ h = GoIn(s)
      BY <3>2
    <3>4. \A c : One(h, c) = 0 => Same(c)
      BY <3>1 DEF Same
    <3>5. One(h, GoOn(o)) = 0
      BY <2>1 DEF One
    <3>6. /\ One(h, FireOf(o)) = 0 /\ One(h, DoneOf(o)) = 0 /\ One(h, CleanupOf(o)) = 0
          /\ \A q \in Signals : One(h, ThenOn(o, q)) = 0 /\ One(h, RemoveOn(o, q)) = 0
      BY <3>2, OneDo DEF GoOn, GoIn, FireOf, DoneOf, CleanupOf, ThenOn, RemoveOn
    <3>7. Untouched(o)
      BY <3>4, <3>5, <3>6 DEF Untouched
    <3> QED
      BY <1>7, <1>14, <3>7 DEF ActivatesAgain
  <2> QED
    BY <1>14, <2>1 DEF G
<1>15. ASSUME NEW p \in Outputs, NEW s \in Signals, Removes(p, s)
       PROVE  G
  <2>1. CASE p # o
    <3>1. \A c : /\ Pending(agenda, c) \in Nat /\ Pending(agenda', c) \in Nat
                 /\ Pending(agenda', c) + One(RemoveOn(p, s), c) = Pending(agenda, c)
      BY <1>15 DEF Removes, Counted
    <3>2. Untouched(o)
      BY <2>1, <3>1, OneDo DEF Untouched, Same, GoOn, FireOf, DoneOf, CleanupOf, ThenOn, RemoveOn
    <3>3. Queued(o)
      <4>1. /\ \A q \in Signals : q # s \/ q \in go => jobs'[q] = jobs[q]
            /\ s \notin go => \A c : Occ(jobs[s], c) =
                 Occ(jobs'[s], c) + (IF Occ(jobs[s], FireOf(p)) > 0 THEN One(FireOf(p), c) ELSE 0)
        BY <1>15 DEF Removes
      <4>2. \A c \in {FireOf(o), DoneOf(o), CleanupOf(o)} : One(FireOf(p), c) = 0
        BY <2>1, OneDo DEF FireOf, DoneOf, CleanupOf
      <4>3. \A c : Occ(jobs'[s], c) \in Nat
        <5>1. jobs'[s] \in Seq(JobCalls)
          BY <1>15 DEF Removes
        <5> QED
          BY <5>1, OccType
      <4>4. \A c \in {FireOf(o), DoneOf(o), CleanupOf(o)} : \A q \in Signals : Occ(jobs'[q], c) = Occ(jobs[q], c)
        BY <1>2, <4>1, <4>2, <4>3
      <4> QED
        BY <1>2, <4>4 DEF Queued
    <3>4. deps' = deps /\ go' = go /\ remaining' = remaining
      BY <1>15 DEF Removes
    <3> QED
      BY <1>4, <3>2, <3>3, <3>4 DEF Still, G
  <2> QED
    BY <1>15, <2>1 DEF G
<1>16. ASSUME NEW p \in Outputs, Waits(p) \/ FiresDead(p) \/ CleansNothing(p) \/ Unrefs(p) \/ ForgetsIt(p) \/ Reads(p)
       PROVE  G
  <2>1. CASE FiresDead(p) \/ CleansNothing(p)
    <3>1. CASE p # o
      <4>1. PICK h \in {FireOf(p), CleanupOf(p)} :
               \A c : /\ Pending(agenda, c) \in Nat /\ Pending(agenda', c) \in Nat
                      /\ Pending(agenda', c) + One(h, c) = Pending(agenda, c)
        BY <2>1 DEF FiresDead, CleansNothing, Counted
      <4>2. Untouched(o)
        BY <3>1, <4>1, OneDo DEF Untouched, Same, GoOn, FireOf, DoneOf, CleanupOf, ThenOn, RemoveOn
      <4> QED
        BY <1>7, <2>1, <4>2 DEF FiresDead, CleansNothing
    <3> QED
      BY <2>1, <3>1 DEF G
  <2>2. CASE Waits(p) \/ Unrefs(p) \/ Reads(p)
    <3>1. PICK h \in {WaitOf(p), UnrefOf(p), ReadOf(p)} :
             \A c : /\ Pending(agenda, c) \in Nat /\ Pending(agenda', c) \in Nat
                    /\ Pending(agenda', c) + One(h, c) = Pending(agenda, c)
      BY <2>2 DEF Waits, Unrefs, Reads, Counted
    <3>2. Untouched(o)
      BY <3>1, OneDo DEF Untouched, Same, GoOn, FireOf, DoneOf, CleanupOf, ThenOn, RemoveOn, WaitOf, UnrefOf, ReadOf
    <3> QED
      BY <1>7, <2>2, <3>2 DEF Waits, Unrefs, Reads
  <2>3. CASE ForgetsIt(p)
    <3>1. \A c : /\ Pending(agenda, c) \in Nat /\ Pending(agenda', c) \in Nat
                 /\ Pending(agenda', c) + One(ForgetOf(p), c) = Pending(agenda, c) + Lost(value[p], c)
      BY <2>3 DEF ForgetsIt, Counted
    <3>2. Untouched(o)
      BY <3>1, OneDo DEF Untouched, Same, GoOn, FireOf, DoneOf, CleanupOf, ThenOn, RemoveOn, ForgetOf, Lost, UnrefOf
    <3> QED
      BY <1>7, <2>3, <3>2 DEF ForgetsIt
  <2> QED
    BY <1>16, <2>1, <2>2, <2>3
<1>17. ASSUME NEW p \in Outputs, Fires(p) \/ CountsLast(p) \/ Counts1(p)
       PROVE  G
  <2>1. CASE p # o
    <3>1. \/ \A c : /\ Pending(agenda, c) \in Nat /\ Pending(agenda', c) \in Nat
                    /\ Pending(agenda', c) + One(DoneOf(p), c) = Pending(agenda, c)
          \/ \E h \in {FireOf(p), DoneOf(p)} :
             \A c : /\ Pending(agenda, c) \in Nat /\ Pending(agenda', c) \in Nat
                    /\ Pending(agenda', c) + One(h, c) = Pending(agenda, c) + One(GoOn(p), c) + One(UnrefOf(p), c)
      BY <1>17 DEF Fires, Counts1, CountsLast, Counted
    <3>2. Untouched(o)
      BY <2>1, <3>1, OneDo DEF Untouched, Same, GoOn, FireOf, DoneOf, CleanupOf, ThenOn, RemoveOn, UnrefOf
    <3>3. deps' = deps /\ go' = go /\ remaining'[o] = remaining[o] /\ jobs' = jobs
      BY <1>1, <1>17, <2>1 DEF Fires, Counts1, CountsLast
    <3> QED
      BY <1>4, <1>5, <3>2, <3>3 DEF Still, G
  <2> QED
    BY <1>17, <2>1 DEF G
<1>18. ASSUME NEW p \in Outputs, Frees(p)
       PROVE  G
  <2>1. CASE p # o
    <3>1. \A c : /\ Pending(agenda, c) \in Nat /\ Pending(agenda', c) \in Nat
                 /\ Pending(agenda', c) + One(UnrefOf(p), c)
                      = Pending(agenda, c) + (IF IsOr(p) THEN One(CleanupOf(p), c) ELSE 0)
      BY <1>18 DEF Frees, Counted
    <3>2. Untouched(o)
      BY <2>1, <3>1, OneDo DEF Untouched, Same, GoOn, FireOf, DoneOf, CleanupOf, ThenOn, RemoveOn, UnrefOf
    <3>3. Queued(o)
      <4>1. \A q \in Signals : q # p => jobs'[q] = jobs[q]
        BY <1>1, <1>18 DEF Frees
      <4>2. p \in Signals /\ jobs'[p] = <<>> /\ refs'[p] = 0
        BY <1>1, <1>18 DEF Frees, Signals
      <4> QED
        BY <1>2, <4>1, <4>2 DEF Queued
    <3>4. deps' = deps /\ go' = go /\ remaining' = remaining
      BY <1>18 DEF Frees
    <3> QED
      BY <1>4, <1>18, <2>1, <3>2, <3>3, <3>4 DEF Still, G
  <2> QED
    BY <1>18, <2>1 DEF G
<1>19. ASSUME Assigns
       PROVE  G
  <2>1. \A c : /\ Pending(agenda, c) \in Nat /\ Pending(agenda', c) \in Nat
               /\ Pending(agenda', c) + One(AssignIt, c) = Pending(agenda, c)
    BY <1>19 DEF Assigns, Counted
  <2>2. Untouched(o)
    BY <2>1, OneDo DEF Untouched, Same, GoOn, FireOf, DoneOf, CleanupOf, ThenOn, RemoveOn, AssignIt
  <2> QED
    BY <1>7, <1>19, <2>2 DEF Assigns
<1>20. ASSUME NEW d \in Inputs, Begin(d)
       PROVE  G
  <2>1. \A c : /\ Pending(agenda, c) \in Nat /\ Pending(agenda', c) \in Nat
               /\ Pending(agenda', c) = Pending(agenda, c) + (IF d = Future THEN One(AssignIt, c) ELSE 0) + One(GoIn(d), c)
    BY <1>20 DEF Begin, Counted
  <2>2. o # Null
    BY <1>1, CombinatorsAssumption DEF Signals
  <2>3. Untouched(o)
    BY <2>1, <2>2, OneDo DEF Untouched, Same, GoOn, FireOf, DoneOf, CleanupOf, ThenOn, RemoveOn, AssignIt, GoIn
  <2> QED
    BY <1>7, <1>20, <2>3 DEF Begin
<1>21. ASSUME NEW s \in Signals, NEW h, Activates(h, s)
       PROVE  G
  BY <1>21 DEF G
<1>22. G
  BY <1>8, <1>9, <1>10, <1>11, <1>12, <1>13, <1>14, <1>15, <1>16, <1>17, <1>18, <1>19, <1>20, <1>21 DEF Does
<1> QED
  BY <1>22 DEF G

\* What an AndSignals waits for is counted, whatever comes next.
LEMMA AndOld ==
  ASSUME Inv, Does, NEW o \in Made, ~IsOr(o), NEW l \in Signals, NEW r \in Signals, l = Left(o), r = Right(o)
  PROVE  /\ remaining'[o] = Pending(agenda', DoneOf(o))
               + (IF l \in go' THEN Pending(agenda', ThenOn(o, l)) ELSE Mult(o, l))
               + (IF r = l THEN 0 ELSE IF r \in go' THEN Pending(agenda', ThenOn(o, r)) ELSE Mult(o, r))
         /\ \A s \in {l, r} : s \notin go' /\ (s \in Outputs => refs'[s] > 0) =>
               Occ(jobs'[s], DoneOf(o)) + Pending(agenda', ThenOn(o, s)) = Mult(o, s)
         /\ remaining'[o] = 0 => o \in go' \/ Pending(agenda', GoOn(o)) > 0
<1> DEFINE J(s) == Occ(jobs[s], DoneOf(o))
           JN(s) == Occ(jobs'[s], DoneOf(o))
           T(s) == Pending(agenda, ThenOn(o, s))
           TN(s) == Pending(agenda', ThenOn(o, s))
           D == Pending(agenda, DoneOf(o))
           DN == Pending(agenda', DoneOf(o))
           A == /\ remaining'[o] = DN + (IF l \in go' THEN TN(l) ELSE Mult(o, l))
                                      + (IF r = l THEN 0 ELSE IF r \in go' THEN TN(r) ELSE Mult(o, r))
                /\ \A s \in {l, r} : s \notin go' /\ (s \in Outputs => refs'[s] > 0) => JN(s) + TN(s) = Mult(o, s)
                /\ remaining'[o] = 0 => o \in go' \/ Pending(agenda', GoOn(o)) > 0
<1> SUFFICES A
  OBVIOUS
<1>1. /\ o \in Outputs /\ o \in Signals /\ refs \in [Outputs -> Nat] /\ remaining \in [Outputs -> 0..2]
      /\ jobs \in [Signals -> Seq(JobCalls)] /\ refs' \in [Outputs -> Nat] /\ jobs' \in [Signals -> Seq(JobCalls)]
      /\ Operands(o) = {l, r} /\ o # l /\ o # r
  BY TypesStep DEF Inv, Types, Made, Signals, Operands, MadeInv
<1>2. \A s \in Signals : J(s) \in Nat /\ JN(s) \in Nat /\ Mult(o, s) \in Nat
  BY <1>1, OccType DEF Mult, One
<1>3. \A c : Pending(agenda, c) \in Nat /\ Pending(agenda', c) \in Nat
  <2>1. Types'
    BY TypesStep
  <2> QED
    BY <2>1, PendingType DEF Inv, Types
<1>4. /\ remaining[o] = D + (IF l \in go THEN T(l) ELSE Mult(o, l))
                          + (IF r = l THEN 0 ELSE IF r \in go THEN T(r) ELSE Mult(o, r))
      /\ \A s \in {l, r} : s \notin go /\ (s \in Outputs => refs[s] > 0) => J(s) + T(s) = Mult(o, s)
      /\ remaining[o] = 0 => o \in go \/ Pending(agenda, GoOn(o)) > 0
  BY <1>1 DEF Inv, AndInv, Slot
<1>5. \A s \in {l, r} : (s \in Outputs => refs'[s] > 0) => (s \in Outputs => refs[s] > 0)
  <2> TAKE s \in {l, r}
  <2>1. s \in Outputs => s \in Made
    BY <1>1, OperandMade
  <2>2. s \in Made => (refs[s] = 0 => refs'[s] = 0)
    BY Stable
  <2> QED
    BY <1>1, <2>1, <2>2
<1>6. ASSUME NEW s \in Signals, NEW j, Registers(o, s, j)
      PROVE  s \in {l, r} /\ j = DoneOf(o) /\ T(s) > 0
  BY <1>1, <1>6 DEF Registers, Inv, CallInv
<1>7. CASE Still(o)
  <2>1. /\ go' = go /\ remaining'[o] = remaining[o] /\ DN = D /\ TN(l) = T(l) /\ TN(r) = T(r)
        /\ Pending(agenda', GoOn(o)) = Pending(agenda, GoOn(o))
        /\ \A s \in {l, r} : (s \in Outputs => refs'[s] > 0) => JN(s) = J(s)
    BY <1>7 DEF Still, Untouched, Queued, Same
  <2> HIDE DEF J, JN, T, TN, D, DN
  <2> QED
    BY <1>4, <1>5, <2>1
<1>8. CASE \E s \in Signals : \E j : Queues(o, s, j)
  <2>1. PICK s \in Signals : \E j : Queues(o, s, j)
    BY <1>8
  <2>2. s \in {l, r} /\ s \notin go /\ Queues(o, s, DoneOf(o))
    BY <1>6, <2>1 DEF Queues
  <2>3. /\ \A c : Pending(agenda', c) + One(ThenOn(o, s), c) = Pending(agenda, c)
        /\ \A q \in Signals \ {s} : jobs'[q] = jobs[q]
        /\ \A c : Occ(jobs'[s], c) = Occ(jobs[s], c) + One(DoneOf(o), c)
        /\ go' = go /\ remaining' = remaining /\ refs' = refs
    BY <2>2 DEF Queues
  <2>4. /\ DN = D /\ Pending(agenda', GoOn(o)) = Pending(agenda, GoOn(o))
        /\ \A q : TN(q) + (IF q = s THEN 1 ELSE 0) = T(q)
    BY <1>3, <2>3, OneDo DEF DoneOf, GoOn, ThenOn
  <2>5. JN(s) = J(s) + 1 /\ \A q \in Signals : q # s => JN(q) = J(q)
    BY <2>3 DEF One
  <2> HIDE DEF J, JN, T, TN, D, DN
  <2>6. \A q \in {l, r} : q \notin go => JN(q) + TN(q) = J(q) + T(q)
    <3> TAKE q \in {l, r}
    <3>1. T(q) \in Nat /\ TN(q) \in Nat /\ J(q) \in Nat
      BY <1>2, <1>3 DEF T, TN
    <3> QED
      BY <2>4, <2>5, <3>1
  <2>7. \A q : q \in go => TN(q) = T(q)
    <3> TAKE q
    <3>1. T(q) \in Nat /\ TN(q) \in Nat
      BY <1>3 DEF T, TN
    <3> QED
      BY <2>2, <2>4, <3>1
  <2> QED
    BY <1>4, <2>3, <2>4, <2>6, <2>7
<1>9. CASE \E s \in Signals : \E j : Runs(o, s, j)
  <2>1. PICK s \in Signals : \E j : Runs(o, s, j)
    BY <1>9
  <2>2. s \in {l, r} /\ s \in go /\ Runs(o, s, DoneOf(o))
    BY <1>6, <2>1 DEF Runs
  <2>3. /\ \A c : Pending(agenda', c) + One(ThenOn(o, s), c) = Pending(agenda, c) + One(DoneOf(o), c)
        /\ go' = go /\ remaining' = remaining /\ refs' = refs /\ jobs' = jobs
    BY <2>2 DEF Runs
  <2>4. /\ DN = D + 1 /\ Pending(agenda', GoOn(o)) = Pending(agenda, GoOn(o))
        /\ \A q : TN(q) + (IF q = s THEN 1 ELSE 0) = T(q)
    BY <1>3, <2>3, OneDo DEF DoneOf, GoOn, ThenOn
  <2>5. D \in Nat /\ T(l) \in Nat /\ T(r) \in Nat /\ TN(l) \in Nat /\ TN(r) \in Nat
    BY <1>3
  <2> HIDE DEF J, T, TN, D, DN
  <2>6. \A q : q \notin go => TN(q) = T(q)
    <3> TAKE q
    <3>1. T(q) \in Nat /\ TN(q) \in Nat
      BY <1>3 DEF T, TN
    <3> QED
      BY <2>2, <2>4, <3>1
  <2>7. remaining'[o] = DN + (IF l \in go THEN TN(l) ELSE Mult(o, l))
                           + (IF r = l THEN 0 ELSE IF r \in go THEN TN(r) ELSE Mult(o, r))
    <3>1. TN(l) + (IF l = s THEN 1 ELSE 0) = T(l) /\ TN(r) + (IF r = s THEN 1 ELSE 0) = T(r)
      BY <2>4
    <3>2. Mult(o, l) \in Nat /\ Mult(o, r) \in Nat /\ remaining'[o] = remaining[o]
      BY <1>2, <2>3
    <3> QED
      BY <1>4, <2>2, <2>4, <2>5, <3>1, <3>2
  <2>8. \A q \in {l, r} : q \notin go /\ (q \in Outputs => refs'[q] > 0) => JN(q) + TN(q) = Mult(o, q)
    BY <1>4, <2>3, <2>6 DEF J
  <2> QED
    BY <1>4, <2>3, <2>4, <2>7, <2>8
<1>10. CASE \E s \in Signals : \E h : Activates(h, s)
  <2>0. PICK s \in Signals : \E h : Activates(h, s)
    BY <1>10
  <2>1. PICK h : Activates(h, s)
    BY <2>0
  <2>2. /\ \A c : Pending(agenda', c) + One(h, c) = Pending(agenda, c) + Occ(jobs[s], c)
        /\ s \notin go /\ go' = go \cup {s} /\ jobs' = [jobs EXCEPT ![s] = <<>>]
        /\ remaining' = remaining /\ refs' = refs
        /\ \/ h = GoOn(s) /\ s \in Outputs /\ Pending(agenda, UnrefOf(s)) > 0
           \/ h = GoIn(s) /\ s \in Inputs
    BY <2>1 DEF Activates, Goes
  <2>3. s \in Outputs => refs[s] > 0
    <3>1. ASSUME s \in Outputs PROVE refs[s] > 0
      <4>1. Pending(agenda, UnrefOf(s)) > 0
        BY <2>2, <3>1, CombinatorsAssumption
      <4>2. refs[s] >= Pending(agenda, UnrefOf(s)) + (IF Kept(s) THEN 1 ELSE 0) + (IF remaining[s] > 0 THEN 1 ELSE 0)
        BY <3>1 DEF Inv, RefInv, Bit
      <4> QED
        BY <1>1, <1>3, <3>1, <4>1, <4>2
    <3> QED
      BY <3>1
  <2>4. J(s) > 0 => s \in {l, r}
    BY <1>1 DEF Inv, JobInv
  <2>5. s \in {l, r} => J(s) + T(s) = Mult(o, s)
    BY <1>4, <2>2, <2>3
  <2>6. \A q : Occ(jobs[s], ThenOn(o, q)) = 0 /\ Occ(jobs[s], GoOn(o)) = 0
    <3>1. \A q : ThenOn(o, q) \notin JobCalls /\ GoOn(o) \notin JobCalls
      BY Fields DEF JobCalls, ThenOn, GoOn, FireOf, DoneOf, CleanupOf
    <3> QED
      BY <1>1, <3>1, NotAJob
  <2>7. /\ One(h, DoneOf(o)) = 0 /\ \A q : One(h, ThenOn(o, q)) = 0
        /\ s # o => One(h, GoOn(o)) = 0
    <3>1. Null # o
      BY <1>1, CombinatorsAssumption
    <3> QED
      BY <2>2, <3>1, OneDo DEF DoneOf, ThenOn, GoOn, GoIn
  <2>8. DN = D + J(s) /\ (s # o => Pending(agenda', GoOn(o)) = Pending(agenda, GoOn(o)))
    <3>1. J(s) \in Nat
      BY <1>2
    <3> QED
      BY <1>3, <2>2, <2>6, <2>7, <3>1
  <2>9. \A q : TN(q) = T(q)
    BY <1>3, <2>2, <2>6, <2>7
  <2>10. \A q \in Signals : q # s => jobs'[q] = jobs[q]
    BY <1>1, <2>2
  <2>11. \A q \in {l, r} : q \notin go' /\ (q \in Outputs => refs'[q] > 0) => JN(q) + TN(q) = Mult(o, q)
    BY <1>4, <2>2, <2>9, <2>10
  <2>12. D \in Nat /\ T(l) \in Nat /\ T(r) \in Nat /\ J(s) \in Nat /\ Mult(o, l) \in Nat /\ Mult(o, r) \in Nat
    BY <1>2, <1>3
  <2> HIDE DEF J, JN, T, TN, D, DN
  <2>13. remaining'[o] = DN + (IF l \in go' THEN TN(l) ELSE Mult(o, l))
                            + (IF r = l THEN 0 ELSE IF r \in go' THEN TN(r) ELSE Mult(o, r))
    <3>1. /\ l \in go' <=> l \in go \/ l = s
          /\ r \in go' <=> r \in go \/ r = s
          /\ TN(l) = T(l) /\ TN(r) = T(r) /\ remaining'[o] = remaining[o]
      BY <2>2, <2>9
    <3> QED
      BY <1>4, <2>2, <2>4, <2>5, <2>8, <2>12, <3>1
  <2> QED
    BY <1>4, <2>2, <2>8, <2>11, <2>13
<1>11. CASE \E s \in Signals : ActivatesAgain(GoOn(o), s)
  <2>1. PICK s \in Signals : ActivatesAgain(GoOn(o), s)
    BY <1>11
  <2>2. /\ \A c : Pending(agenda', c) + One(GoOn(o), c) = Pending(agenda, c)
        /\ s \in go /\ go' = go /\ jobs' = jobs /\ remaining' = remaining /\ refs' = refs
        /\ GoOn(o) = GoOn(s) \/ GoOn(o) = GoIn(s)
    BY <2>1 DEF ActivatesAgain, Goes
  <2>3. s = o
    <3>1. Null # o
      BY <1>1, CombinatorsAssumption
    <3> QED
      BY <2>2, <3>1, Fields DEF GoOn, GoIn
  <2>4. DN = D /\ \A q : TN(q) = T(q)
    BY <1>3, <2>2, OneDo DEF GoOn, DoneOf, ThenOn
  <2> HIDE DEF T, TN, D, DN
  <2> QED
    BY <1>4, <2>2, <2>3, <2>4
<1>12. CASE Counts1(o) \/ CountsLast(o)
  <2>1. /\ go' = go /\ jobs' = jobs /\ refs' = refs /\ remaining'[o] = remaining[o] - 1
        /\ D > 0
    BY <1>1, <1>12 DEF Counts1, CountsLast
  <2>2. DN = D - 1 /\ \A q : TN(q) = T(q)
    <3>1. CASE Counts1(o)
      <4>1. \A c : Pending(agenda', c) + One(DoneOf(o), c) = Pending(agenda, c)
        BY <3>1 DEF Counts1
      <4> QED
        BY <1>3, <4>1, OneDo DEF DoneOf, ThenOn
    <3>2. CASE CountsLast(o)
      <4>1. \A c : Pending(agenda', c) + One(DoneOf(o), c) = Pending(agenda, c) + One(GoOn(o), c) + One(UnrefOf(o), c)
        BY <3>2 DEF CountsLast
      <4> QED
        BY <1>3, <4>1, OneDo DEF DoneOf, ThenOn, GoOn, UnrefOf
    <3> QED
      BY <1>12, <3>1, <3>2
  <2>3. remaining'[o] = 0 => Pending(agenda', GoOn(o)) > 0
    <3>1. ASSUME remaining'[o] = 0 PROVE CountsLast(o)
      BY <1>1, <1>12, <2>1, <3>1 DEF Counts1
    <3>2. ASSUME CountsLast(o) PROVE Pending(agenda', GoOn(o)) > 0
      <4>1. \A c : Pending(agenda', c) + One(DoneOf(o), c) = Pending(agenda, c) + One(GoOn(o), c) + One(UnrefOf(o), c)
        BY <3>2 DEF CountsLast
      <4> QED
        BY <1>3, <4>1, OneDo DEF DoneOf, GoOn, UnrefOf
    <3> QED
      BY <3>1, <3>2
  <2>4. D \in Nat /\ T(l) \in Nat /\ T(r) \in Nat /\ Mult(o, l) \in Nat /\ Mult(o, r) \in Nat
    BY <1>2, <1>3
  <2> HIDE DEF J, T, TN, D, DN
  <2>5. \A s \in {l, r} : s \notin go' /\ (s \in Outputs => refs'[s] > 0) => JN(s) + TN(s) = Mult(o, s)
    BY <1>4, <2>1, <2>2 DEF J
  <2> QED
    BY <1>4, <2>1, <2>2, <2>3, <2>4, <2>5
<1>13. CASE Frees(o)
  <2>1. /\ \A c : Pending(agenda', c) + One(UnrefOf(o), c) = Pending(agenda, c)
        /\ go' = go /\ remaining' = remaining
        /\ \A q \in {l, r} : jobs'[q] = jobs[q]
    BY <1>1, <1>3, <1>13 DEF Frees
  <2>2. DN = D /\ Pending(agenda', GoOn(o)) = Pending(agenda, GoOn(o)) /\ \A q : TN(q) = T(q)
    BY <1>3, <2>1, OneDo DEF UnrefOf, DoneOf, GoOn, ThenOn
  <2>3. \A s \in {l, r} : s \notin go' /\ (s \in Outputs => refs'[s] > 0) => JN(s) + TN(s) = Mult(o, s)
    BY <1>4, <1>5, <2>1, <2>2
  <2> HIDE DEF J, JN, T, TN, D, DN
  <2> QED
    BY <1>4, <2>1, <2>2, <2>3
<1>14. /\ \A s \in Signals : ~Removes(o, s)
       /\ \A p, q : ~Cleans(o, p, q)
       /\ ~FiresDead(o) /\ ~Fires(o) /\ ~CleansNothing(o)
  BY <1>1 DEF Removes, Cleans, FiresDead, Fires, CleansNothing, Inv, CallInv
<1>15. A
  BY <1>7, <1>8, <1>9, <1>10, <1>11, <1>12, <1>13, <1>14, Stays
<1> QED
  BY <1>15

\* And it is counted from the start.
LEMMA AndNew ==
  ASSUME Inv, NEW o \in Outputs, NEW l, NEW r, MakesAnd(o, l, r)
  PROVE  /\ o \in Made' /\ ~IsOr(o)' /\ l = Left(o)' /\ r = Right(o)'
         /\ remaining'[o] = Pending(agenda', DoneOf(o))
               + (IF l \in go' THEN Pending(agenda', ThenOn(o, l)) ELSE Mult(o, l)')
               + (IF r = l THEN 0 ELSE IF r \in go' THEN Pending(agenda', ThenOn(o, r)) ELSE Mult(o, r)')
         /\ \A s \in {l, r} : Occ(jobs'[s], DoneOf(o)) + Pending(agenda', ThenOn(o, s)) = Mult(o, s)'
         /\ remaining'[o] = 2
<1>1. /\ Ready(o) /\ ~IsOr(o) /\ l = Left(o) /\ r = Right(o) /\ l \in Signals /\ r \in Signals
      /\ expr' = expr /\ go' = go /\ jobs' = jobs
      /\ value' = [value EXCEPT ![o] = o] /\ remaining' = [remaining EXCEPT ![o] = 2]
      /\ \A c : /\ Pending(agenda, c) \in Nat /\ Pending(agenda', c) \in Nat
                /\ Pending(agenda', c) + One(CombineOf(o), c)
                     = Pending(agenda, c) + One(ThenOn(o, l), c) + One(ThenOn(o, r), c) + Lost(l, c) + Lost(r, c)
  BY DEF MakesAnd, Counted
<1>2. o # Null
  BY CombinatorsAssumption DEF Signals
<1>3. o \in Made' /\ Left(o)' = Left(o) /\ Right(o)' = Right(o) /\ \A s : Mult(o, s)' = Mult(o, s)
  <2>1. Made' = Made \cup {o}
    BY <1>1, <1>2, NewValue
  <2> QED
    BY <1>1, <1>2, <2>1, NewValue
<1>4. IsOr(o)' = IsOr(o)
  BY <1>1, SameTerms
<1>5. remaining'[o] = 2
  BY <1>1 DEF Inv, Types
<1>6. /\ \A s \in Signals : Pending(agenda, ThenOn(o, s)) = 0 /\ Occ(jobs[s], DoneOf(o)) = 0
      /\ Pending(agenda, DoneOf(o)) = 0
  BY <1>1, Fresh
<1>7. \A s : Mult(o, s) = (IF l = s THEN 1 ELSE 0) + (IF r = s THEN 1 ELSE 0)
  BY <1>1 DEF Mult, One
<1>8. Pending(agenda', DoneOf(o)) = 0
  BY <1>1, <1>6, OneDo DEF CombineOf, ThenOn, Lost, UnrefOf, DoneOf
<1>9. \A s \in Signals : Pending(agenda', ThenOn(o, s)) = Mult(o, s)
  BY <1>1, <1>6, <1>7, OneDo DEF CombineOf, ThenOn, Lost, UnrefOf
<1> QED
  BY <1>1, <1>3, <1>4, <1>5, <1>6, <1>7, <1>8, <1>9

\* Every AndSignals counts what it waits for.
LEMMA AndStep ==
  ASSUME Inv, Does
  PROVE  AndInv'
<1>1. \A o \in Outputs : remaining'[o] > 0 => remaining[o] > 0 \/ \E l, r : MakesAnd(o, l, r)
  <2>1. remaining \in [Outputs -> 0..2]
    BY DEF Inv, Types
  <2>2. ASSUME NEW o \in Outputs, Counts1(o) \/ CountsLast(o), NEW p \in Outputs, remaining'[p] > 0
        PROVE  remaining[p] > 0
    BY <2>1, <2>2 DEF Counts1, CountsLast
  <2>3. ASSUME NEW o \in Outputs, NEW l, NEW r, MakesAnd(o, l, r), NEW p \in Outputs, remaining'[p] > 0
        PROVE  remaining[p] > 0 \/ p = o
    BY <2>1, <2>3 DEF MakesAnd
  <2>4. \/ remaining' = remaining
        \/ \E o \in Outputs : Counts1(o) \/ CountsLast(o) \/ \E l, r : MakesAnd(o, l, r)
    BY DEF Does, Shortcuts, MakesOr, Cleans, Queues, Runs, Activates, ActivatesAgain, Removes, Waits, FiresDead,
           Fires, CleansNothing, Unrefs, Frees, ForgetsIt, Reads, Assigns, Begin
  <2> QED
    BY <2>2, <2>3, <2>4
<1>2. /\ expr' = expr /\ Made \subseteq Made'
      /\ \A p \in Made : /\ Left(p)' = Left(p) /\ Right(p)' = Right(p) /\ Operands(p)' = Operands(p)
                         /\ \A s : Mult(p, s)' = Mult(p, s)
      /\ \A p \in Made' : p \in Made \/ \E l, r : MakesOr(p, l, r) \/ MakesAnd(p, l, r)
  BY Stable
<1>3. \A o : IsOr(o)' = IsOr(o)
  BY <1>2, SameTerms
<1>4. \A o \in Outputs : remaining'[o] > 0 => o \in Made' /\ ~IsOr(o)'
  <2>1. \A o \in Outputs : remaining[o] > 0 => o \in Made /\ ~IsOr(o)
    BY DEF Inv, AndInv
  <2>2. \A o \in Outputs : \A l, r : MakesAnd(o, l, r) => o \in Made' /\ ~IsOr(o)'
    BY AndNew
  <2> QED
    BY <1>1, <1>2, <1>3, <2>1, <2>2
<1>5. ASSUME NEW o \in Made', ~IsOr(o)', o \in Made
      PROVE  /\ \A l, r \in Signals : l = Left(o)' /\ r = Right(o)' =>
                   remaining'[o] = Pending(agenda', DoneOf(o)) + Slot(o, l)' + (IF r = l THEN 0 ELSE Slot(o, r)')
             /\ \A s \in Operands(o)' : s \notin go' /\ (s \in Outputs => refs'[s] > 0) =>
                   Occ(jobs'[s], DoneOf(o)) + Pending(agenda', ThenOn(o, s)) = Mult(o, s)'
             /\ remaining'[o] = 0 => o \in go' \/ Pending(agenda', GoOn(o)) > 0
  <2>1. /\ ~IsOr(o) /\ Left(o)' = Left(o) /\ Right(o)' = Right(o) /\ Operands(o)' = Operands(o)
        /\ \A s : Mult(o, s)' = Mult(o, s)
    BY <1>2, <1>3, <1>5
  <2>2. Left(o) \in Signals /\ Right(o) \in Signals /\ Operands(o) = {Left(o), Right(o)}
    BY <1>5 DEF Inv, MadeInv, Operands
  <2>3. /\ remaining'[o] = Pending(agenda', DoneOf(o))
               + (IF Left(o) \in go' THEN Pending(agenda', ThenOn(o, Left(o))) ELSE Mult(o, Left(o)))
               + (IF Right(o) = Left(o) THEN 0
                  ELSE IF Right(o) \in go' THEN Pending(agenda', ThenOn(o, Right(o))) ELSE Mult(o, Right(o)))
        /\ \A s \in {Left(o), Right(o)} : s \notin go' /\ (s \in Outputs => refs'[s] > 0) =>
               Occ(jobs'[s], DoneOf(o)) + Pending(agenda', ThenOn(o, s)) = Mult(o, s)
        /\ remaining'[o] = 0 => o \in go' \/ Pending(agenda', GoOn(o)) > 0
    BY <1>5, <2>1, <2>2, AndOld
  <2>4. \A s : Slot(o, s)' = IF s \in go' THEN Pending(agenda', ThenOn(o, s)) ELSE Mult(o, s)
    BY <2>1 DEF Slot
  <2> QED
    BY <2>1, <2>2, <2>3, <2>4
<1>6. ASSUME NEW o \in Made', ~IsOr(o)', o \notin Made
      PROVE  /\ \A l, r \in Signals : l = Left(o)' /\ r = Right(o)' =>
                   remaining'[o] = Pending(agenda', DoneOf(o)) + Slot(o, l)' + (IF r = l THEN 0 ELSE Slot(o, r)')
             /\ \A s \in Operands(o)' : s \notin go' /\ (s \in Outputs => refs'[s] > 0) =>
                   Occ(jobs'[s], DoneOf(o)) + Pending(agenda', ThenOn(o, s)) = Mult(o, s)'
             /\ remaining'[o] = 0 => o \in go' \/ Pending(agenda', GoOn(o)) > 0
  <2>1. ~IsOr(o) /\ o \in Outputs
    BY <1>3, <1>6 DEF Made
  <2>2. PICK l, r : MakesAnd(o, l, r)
    BY <1>2, <1>6, <2>1 DEF MakesOr
  <2>3. /\ l = Left(o)' /\ r = Right(o)'
        /\ remaining'[o] = Pending(agenda', DoneOf(o))
               + (IF l \in go' THEN Pending(agenda', ThenOn(o, l)) ELSE Mult(o, l)')
               + (IF r = l THEN 0 ELSE IF r \in go' THEN Pending(agenda', ThenOn(o, r)) ELSE Mult(o, r)')
        /\ \A s \in {l, r} : Occ(jobs'[s], DoneOf(o)) + Pending(agenda', ThenOn(o, s)) = Mult(o, s)'
        /\ remaining'[o] = 2
    BY <2>1, <2>2, AndNew
  <2>4. \A s : Slot(o, s)' = IF s \in go' THEN Pending(agenda', ThenOn(o, s)) ELSE Mult(o, s)'
    BY DEF Slot
  <2>5. Operands(o)' = {l, r}
    BY <2>3 DEF Operands
  <2> QED
    BY <2>3, <2>4, <2>5
<1> QED
  BY <1>4, <1>5, <1>6 DEF AndInv

\* An OrSignal that was made stays in the queues it has to be in, and leaves
\* those it need not be in, whatever comes next.
LEMMA OrOld ==
  ASSUME Inv, Does, NEW o \in Made, IsOr(o)
  PROVE  /\ \A d \in Operands(o) :
             /\ d \notin go' /\ deps'[o] # <<>> =>
                   Occ(jobs'[d], FireOf(o)) + Pending(agenda', ThenOn(o, d)) = Mult(o, d)
             /\ d \notin go' /\ deps'[o] = <<>> => Occ(jobs'[d], FireOf(o)) <= Pending(agenda', RemoveOn(o, d))
             /\ d \in go' => \/ o \in go' \/ refs'[o] = 0 \/ Pending(agenda', GoOn(o)) > 0
                             \/ Pending(agenda', FireOf(o)) > 0 \/ Pending(agenda', ThenOn(o, d)) > 0
         /\ Pending(agenda', ThenOn(o, o)) <= 1
         /\ deps'[o] # <<>> /\ (o \in go' \/ refs'[o] = 0) =>
               Pending(agenda', CleanupOf(o)) > 0 \/ Pending(agenda', ThenOn(o, o)) > 0
         /\ deps'[o] # <<>> /\ o \notin go' /\ refs'[o] > 0 =>
               Occ(jobs'[o], CleanupOf(o)) > 0 \/ Pending(agenda', ThenOn(o, o)) > 0
<1> DEFINE F(d) == Occ(jobs[d], FireOf(o))
           FN(d) == Occ(jobs'[d], FireOf(o))
           C == Occ(jobs[o], CleanupOf(o))
           CN == Occ(jobs'[o], CleanupOf(o))
           T(d) == Pending(agenda, ThenOn(o, d))
           TN(d) == Pending(agenda', ThenOn(o, d))
           R(d) == Pending(agenda, RemoveOn(o, d))
           RN(d) == Pending(agenda', RemoveOn(o, d))
           P(c) == Pending(agenda, c)
           PN(c) == Pending(agenda', c)
           A == \A d \in Operands(o) :
                   /\ d \notin go' /\ deps'[o] # <<>> => FN(d) + TN(d) = Mult(o, d)
                   /\ d \notin go' /\ deps'[o] = <<>> => FN(d) <= RN(d)
                   /\ d \in go' => o \in go' \/ refs'[o] = 0 \/ PN(GoOn(o)) > 0 \/ PN(FireOf(o)) > 0 \/ TN(d) > 0
           B == /\ TN(o) <= 1
                /\ deps'[o] # <<>> /\ (o \in go' \/ refs'[o] = 0) => PN(CleanupOf(o)) > 0 \/ TN(o) > 0
                /\ deps'[o] # <<>> /\ o \notin go' /\ refs'[o] > 0 => CN > 0 \/ TN(o) > 0
<1> SUFFICES A /\ B
  OBVIOUS
<1>1. /\ o \in Outputs /\ o \in Signals /\ refs \in [Outputs -> Nat] /\ refs' \in [Outputs -> Nat]
      /\ deps \in [Outputs -> Seq(Signals)]
      /\ jobs \in [Signals -> Seq(JobCalls)] /\ jobs' \in [Signals -> Seq(JobCalls)]
      /\ Operands(o) \subseteq Signals \ {o} /\ Operands(o) = {Left(o), Right(o)}
  BY TypesStep DEF Inv, Types, Made, Signals, Operands, MadeInv
<1>2. \A d \in Signals : \A c : Occ(jobs[d], c) \in Nat /\ Occ(jobs'[d], c) \in Nat
  BY <1>1, OccType
<1>3. \A c : Pending(agenda, c) \in Nat /\ Pending(agenda', c) \in Nat
  <2>1. Types'
    BY TypesStep
  <2> QED
    BY <2>1, PendingType DEF Inv, Types
<1>4. /\ \A d \in Operands(o) :
             /\ d \notin go /\ deps[o] # <<>> => F(d) + T(d) = Mult(o, d)
             /\ d \notin go /\ deps[o] = <<>> => F(d) <= R(d)
             /\ d \in go => o \in go \/ refs[o] = 0 \/ P(GoOn(o)) > 0 \/ P(FireOf(o)) > 0 \/ T(d) > 0
      /\ T(o) <= 1
      /\ deps[o] # <<>> /\ (o \in go \/ refs[o] = 0) => P(CleanupOf(o)) > 0 \/ T(o) > 0
      /\ deps[o] # <<>> /\ o \notin go /\ refs[o] > 0 => C > 0 \/ T(o) > 0
  BY DEF Inv, OrInv
<1>5. \A d \in Operands(o) : deps'[o] # <<>> /\ d \in Outputs => refs'[d] > 0
  <2> TAKE d \in Operands(o)
  <2>1. Operands(o)' = Operands(o)
    BY Stable
  <2>2. ASSUME deps'[o] # <<>>, d \in Outputs PROVE refs'[d] > 0
    <3>1. Kept(d)'
      BY <1>1, <2>1, <2>2 DEF Kept, DepOf
    <3>2. refs'[d] >= Pending(agenda', UnrefOf(d)) + (IF Kept(d)' THEN 1 ELSE 0) + (IF remaining'[d] > 0 THEN 1 ELSE 0)
      BY <2>2, RefStep DEF RefInv, Bit
    <3>3. refs'[d] \in Nat /\ Pending(agenda', UnrefOf(d)) \in Nat
      BY <1>1, <1>3, <2>2
    <3> QED
      BY <3>1, <3>2, <3>3
  <2> QED
    BY <2>2
<1>6. ASSUME NEW s \in Signals, NEW j, Registers(o, s, j)
      PROVE  /\ T(s) > 0 /\ refs[o] > 0
             /\ \/ s = o /\ j = CleanupOf(o)
                \/ s \in Operands(o) /\ s # o /\ j = FireOf(o) /\ deps[o] # <<>>
  <2>1. T(s) > 0 /\ Held(o) /\ (s = o \/ s \in Operands(o))
    BY <1>1, <1>6 DEF Registers, Inv, CallInv
  <2>2. refs[o] > 0
    BY <2>1, HeldRefs
  <2>3. s \in Operands(o) => s # o /\ j = FireOf(o)
    BY <1>1, <1>6 DEF Registers
  <2>4. s = o => j = CleanupOf(o)
    BY <1>6 DEF Registers
  <2>5. s \in Operands(o) => deps[o] # <<>>
    <3>1. deps[o] = <<>> => \A d \in Operands(o) : Pending(agenda, ThenOn(o, d)) = 0
      BY <1>1 DEF Inv, DepInv
    <3>2. Pending(agenda, ThenOn(o, s)) > 0
      BY <2>1
    <3> QED
      BY <3>1, <3>2
  <2> QED
    BY <2>1, <2>2, <2>3, <2>4, <2>5
<1>7. CASE Still(o)
  <2>1. /\ go' = go /\ deps'[o] = deps[o] /\ (refs'[o] > 0 <=> refs[o] > 0)
        /\ PN(GoOn(o)) = P(GoOn(o)) /\ PN(FireOf(o)) = P(FireOf(o)) /\ PN(CleanupOf(o)) = P(CleanupOf(o))
        /\ \A d \in Signals : TN(d) = T(d) /\ RN(d) = R(d)
    BY <1>7 DEF Still, Untouched, Same
  <2>2. /\ \A d \in Signals : FN(d) <= F(d) /\ ((d \in Outputs => refs'[d] > 0) => FN(d) = F(d))
        /\ refs'[o] > 0 => CN = C
    BY <1>1, <1>7 DEF Still, Queued
  <2>3. refs'[o] = 0 <=> refs[o] = 0
    BY <1>1, <2>1
  <2>4. \A d \in Operands(o) : F(d) \in Nat /\ FN(d) \in Nat /\ R(d) \in Nat
    BY <1>1, <1>2, <1>3
  <2> HIDE DEF F, FN, C, CN, T, TN, R, RN, P, PN
  <2>5. A
    <3> TAKE d \in Operands(o)
    <3>1. d \in Signals
      BY <1>1
    <3> QED
      BY <1>4, <1>5, <2>1, <2>2, <2>3, <2>4, <3>1
  <2>6. B
    BY <1>1, <1>4, <2>1, <2>2, <2>3
  <2> QED
    BY <2>5, <2>6
<1>8. ASSUME NEW s \in Signals, NEW j, Queues(o, s, j)
      PROVE  A /\ B
  <2>1. /\ \A c : Pending(agenda', c) + One(ThenOn(o, s), c) = Pending(agenda, c)
        /\ \A q \in Signals \ {s} : jobs'[q] = jobs[q]
        /\ \A c : Occ(jobs'[s], c) = Occ(jobs[s], c) + One(j, c)
        /\ go' = go /\ deps' = deps /\ refs' = refs /\ s \notin go /\ Registers(o, s, j)
    BY <1>8 DEF Queues
  <2>2. /\ PN(GoOn(o)) = P(GoOn(o)) /\ PN(FireOf(o)) = P(FireOf(o)) /\ PN(CleanupOf(o)) = P(CleanupOf(o))
        /\ \A d : TN(d) + (IF d = s THEN 1 ELSE 0) = T(d) /\ RN(d) = R(d)
    BY <1>3, <2>1, OneDo DEF FireOf, CleanupOf, GoOn, ThenOn, RemoveOn
  <2>3. \A d : T(d) \in Nat /\ TN(d) \in Nat /\ R(d) \in Nat
    BY <1>3
  <2>4. \A d \in Signals : F(d) \in Nat /\ FN(d) \in Nat
    BY <1>2
  <2>5. /\ \A q \in Signals \ {s} : FN(q) = F(q)
        /\ FN(s) = F(s) + One(j, FireOf(o))
        /\ s # o => CN = C
        /\ s = o => CN = C + One(j, CleanupOf(o))
        /\ C \in Nat /\ refs[o] \in Nat
    BY <1>1, <1>2, <2>1
  <2>6. CASE s = o
    <3>1. j = CleanupOf(o) /\ refs[o] > 0
      BY <1>1, <1>6, <2>1, <2>6
    <3>2. CN = C + 1
      BY <2>5, <2>6, <3>1 DEF One
    <3> HIDE DEF F, FN, C, CN, T, TN, R, RN, P, PN
    <3>3. A
      <4> TAKE d \in Operands(o)
      <4>1. d # s /\ d \in Signals /\ TN(d) = T(d)
        <5>1. d # s /\ d \in Signals
          BY <1>1, <2>6
        <5> QED
          BY <2>2, <2>3, <5>1
      <4> QED
        BY <1>4, <2>1, <2>2, <2>5, <4>1
    <3>4. B
      BY <1>4, <2>1, <2>2, <2>3, <2>5, <2>6, <3>1, <3>2
    <3> QED
      BY <3>3, <3>4
  <2>7. CASE s # o
    <3>1. s \in Operands(o) /\ j = FireOf(o) /\ deps[o] # <<>>
      BY <1>6, <2>1, <2>7
    <3>2. FN(s) = F(s) + 1
      BY <2>5, <3>1 DEF One
    <3> HIDE DEF F, FN, C, CN, T, TN, R, RN, P, PN
    <3>3. A
      <4> TAKE d \in Operands(o)
      <4>1. d \in Signals
        BY <1>1
      <4>2. FN(d) + TN(d) = F(d) + T(d) /\ (d # s => TN(d) = T(d))
        BY <2>2, <2>3, <2>4, <2>5, <3>2, <4>1
      <4> QED
        BY <1>4, <2>1, <2>2, <3>1, <4>1, <4>2
    <3>4. TN(o) = T(o)
      BY <2>2, <2>3, <2>7
    <3>5. B
      BY <1>4, <2>1, <2>2, <2>5, <2>7, <3>4
    <3> QED
      BY <3>3, <3>5
  <2> QED
    BY <2>6, <2>7
<1>9. ASSUME NEW s \in Signals, NEW j, Runs(o, s, j)
      PROVE  A /\ B
  <2>1. /\ \A c : Pending(agenda', c) + One(ThenOn(o, s), c) = Pending(agenda, c) + One(j, c)
        /\ go' = go /\ deps' = deps /\ refs' = refs /\ jobs' = jobs /\ s \in go /\ Registers(o, s, j)
    BY <1>9 DEF Runs
  <2>2. j = CleanupOf(o) \/ j = FireOf(o)
    BY <1>6, <2>1
  <2>3. /\ PN(GoOn(o)) = P(GoOn(o))
        /\ PN(FireOf(o)) = P(FireOf(o)) + One(j, FireOf(o)) /\ PN(CleanupOf(o)) = P(CleanupOf(o)) + One(j, CleanupOf(o))
        /\ \A d : TN(d) + (IF d = s THEN 1 ELSE 0) = T(d) /\ RN(d) = R(d)
    BY <1>3, <2>1, <2>2, OneDo DEF FireOf, CleanupOf, GoOn, ThenOn, RemoveOn
  <2>4. \A d : T(d) \in Nat /\ TN(d) \in Nat /\ R(d) \in Nat
    BY <1>3
  <2>5. /\ \A d \in Signals : FN(d) = F(d)
        /\ CN = C /\ P(FireOf(o)) \in Nat /\ P(CleanupOf(o)) \in Nat
    BY <1>1, <1>3, <2>1
  <2>6. CASE s = o
    <3>1. j = CleanupOf(o)
      BY <1>1, <1>6, <2>1, <2>6
    <3>2. One(j, CleanupOf(o)) = 1 /\ One(j, FireOf(o)) = 0
      BY <3>1, OneDo DEF CleanupOf, FireOf
    <3> HIDE DEF F, FN, C, CN, T, TN, R, RN, P, PN
    <3>3. A
      <4> TAKE d \in Operands(o)
      <4>1. d # s /\ d \in Signals
        BY <1>1, <2>6
      <4>2. TN(d) = T(d) /\ RN(d) = R(d) /\ FN(d) = F(d)
        BY <2>3, <2>4, <2>5, <4>1
      <4>3. PN(FireOf(o)) = P(FireOf(o))
        BY <2>3, <2>5, <3>2
      <4> QED
        BY <1>4, <2>1, <2>3, <4>2, <4>3
    <3>4. B
      BY <1>4, <2>1, <2>3, <2>4, <2>5, <2>6, <3>2
    <3> QED
      BY <3>3, <3>4
  <2>7. CASE s # o
    <3>1. s \in Operands(o) /\ j = FireOf(o)
      BY <1>6, <2>1, <2>7
    <3>2. One(j, CleanupOf(o)) = 0 /\ One(j, FireOf(o)) = 1
      BY <3>1, OneDo DEF CleanupOf, FireOf
    <3> HIDE DEF F, FN, C, CN, T, TN, R, RN, P, PN
    <3>3. PN(FireOf(o)) > 0 /\ PN(CleanupOf(o)) = P(CleanupOf(o))
      BY <2>3, <2>5, <3>2
    <3>4. A
      <4> TAKE d \in Operands(o)
      <4>1. d \in Signals
        BY <1>1
      <4>2. (d # s => TN(d) = T(d)) /\ RN(d) = R(d) /\ FN(d) = F(d)
        BY <2>3, <2>4, <2>5, <4>1
      <4> QED
        BY <1>4, <2>1, <3>3, <4>2
    <3>5. TN(o) = T(o)
      BY <2>3, <2>4, <2>7
    <3>6. B
      BY <1>4, <2>1, <2>5, <3>3, <3>5
    <3> QED
      BY <3>4, <3>6
  <2> QED
    BY <2>6, <2>7
<1>10. ASSUME NEW s \in Signals, NEW h, Activates(h, s)
       PROVE  A /\ B
  <2>1. /\ \A c : Pending(agenda', c) + One(h, c) = Pending(agenda, c) + Occ(jobs[s], c)
        /\ s \notin go /\ go' = go \cup {s} /\ jobs' = [jobs EXCEPT ![s] = <<>>]
        /\ deps' = deps /\ refs' = refs
        /\ \/ h = GoOn(s) /\ s \in Outputs
           \/ h = GoIn(s) /\ s \in Inputs
    BY <1>10 DEF Activates, Goes
  <2>2. \A q : Occ(jobs[s], ThenOn(o, q)) = 0 /\ Occ(jobs[s], RemoveOn(o, q)) = 0 /\ Occ(jobs[s], GoOn(o)) = 0
    <3>1. \A q : ThenOn(o, q) \notin JobCalls /\ RemoveOn(o, q) \notin JobCalls /\ GoOn(o) \notin JobCalls
      BY Fields DEF JobCalls, ThenOn, RemoveOn, GoOn, FireOf, DoneOf, CleanupOf
    <3> QED
      BY <1>1, <3>1, NotAJob
  <2>3. /\ One(h, FireOf(o)) = 0 /\ One(h, CleanupOf(o)) = 0
        /\ \A q : One(h, ThenOn(o, q)) = 0 /\ One(h, RemoveOn(o, q)) = 0
        /\ s # o => One(h, GoOn(o)) = 0
    <3>1. Null # o
      BY <1>1, CombinatorsAssumption
    <3> QED
      BY <2>1, <3>1, OneDo DEF FireOf, CleanupOf, ThenOn, RemoveOn, GoOn, GoIn
  <2>4. /\ PN(FireOf(o)) = P(FireOf(o)) + F(s) /\ PN(CleanupOf(o)) = P(CleanupOf(o)) + Occ(jobs[s], CleanupOf(o))
        /\ s # o => PN(GoOn(o)) = P(GoOn(o))
    <3>1. F(s) \in Nat /\ Occ(jobs[s], CleanupOf(o)) \in Nat
      BY <1>2
    <3> QED
      BY <1>3, <2>1, <2>2, <2>3, <3>1
  <2>5. \A q : TN(q) = T(q) /\ RN(q) = R(q)
    BY <1>3, <2>1, <2>2, <2>3
  <2>6. /\ \A q \in Signals : q # s => FN(q) = F(q)
        /\ s # o => CN = C
        /\ s = o => Occ(jobs[s], CleanupOf(o)) = C
    BY <1>1, <2>1
  <2>7. /\ P(FireOf(o)) \in Nat /\ P(CleanupOf(o)) \in Nat /\ C \in Nat /\ Occ(jobs[s], CleanupOf(o)) \in Nat
        /\ F(s) \in Nat /\ T(s) \in Nat /\ refs[o] \in Nat
    BY <1>1, <1>2, <1>3
  <2>8. /\ s \in Operands(o) => Mult(o, s) \in Nat /\ Mult(o, s) > 0
        /\ deps[o] = <<>> => o \in go \/ refs[o] = 0
    BY <1>1 DEF Mult, One, Inv, DepInv
  <2> HIDE DEF F, FN, C, CN, T, TN, R, RN, P, PN
  <2>9. A
    <3> TAKE d \in Operands(o)
    <3>1. d \in Signals
      BY <1>1
    <3>2. CASE d # s
      <4>1. FN(d) = F(d) /\ TN(d) = T(d) /\ RN(d) = R(d) /\ (d \in go' <=> d \in go)
        BY <2>1, <2>5, <2>6, <3>1, <3>2
      <4>2. P(FireOf(o)) > 0 => PN(FireOf(o)) > 0
        BY <2>4, <2>7
      <4>3. P(GoOn(o)) > 0 => o \in go' \/ PN(GoOn(o)) > 0
        BY <2>1, <2>4
      <4> QED
        BY <1>4, <2>1, <4>1, <4>2, <4>3
    <3>3. CASE d = s
      <4>1. d \in go' /\ (o \in go => o \in go') /\ refs' = refs /\ TN(d) = T(d)
        BY <2>1, <2>5, <3>3
      <4>2. CASE deps[o] = <<>>
        BY <2>8, <4>1, <4>2
      <4>3. CASE deps[o] # <<>>
        <5>1. F(s) + T(s) = Mult(o, s) /\ Mult(o, s) > 0 /\ Mult(o, s) \in Nat
          BY <1>4, <2>1, <2>8, <3>3, <4>3
        <5>2. F(s) > 0 \/ T(s) > 0
          BY <2>7, <5>1
        <5>3. PN(FireOf(o)) > 0 \/ T(s) > 0
          BY <2>4, <2>7, <5>2
        <5> QED
          BY <3>3, <4>1, <5>3
      <4> QED
        BY <4>2, <4>3
    <3> QED
      BY <3>2, <3>3
  <2>10. B
    <3>1. TN(o) = T(o) /\ deps' = deps /\ refs' = refs
      BY <2>1, <2>5
    <3>2. P(CleanupOf(o)) > 0 => PN(CleanupOf(o)) > 0
      BY <2>4, <2>7
    <3>3. CASE s # o
      <4>1. (o \in go' <=> o \in go) /\ CN = C
        BY <2>1, <2>6, <3>3
      <4> QED
        BY <1>4, <3>1, <3>2, <4>1
    <3>4. CASE s = o
      <4>1. C > 0 => PN(CleanupOf(o)) > 0
        BY <2>4, <2>6, <2>7, <3>4
      <4>2. o \in go'
        BY <2>1, <3>4
      <4> QED
        BY <1>4, <2>1, <2>7, <3>1, <3>2, <3>4, <4>1, <4>2
    <3> QED
      BY <3>3, <3>4
  <2> QED
    BY <2>9, <2>10
<1>11. ASSUME NEW s \in Signals, ActivatesAgain(GoOn(o), s)
       PROVE  A /\ B
  <2>1. /\ \A c : Pending(agenda', c) + One(GoOn(o), c) = Pending(agenda, c)
        /\ s \in go /\ go' = go /\ jobs' = jobs /\ deps' = deps /\ refs' = refs
        /\ GoOn(o) = GoOn(s) \/ GoOn(o) = GoIn(s)
    BY <1>11 DEF ActivatesAgain, Goes
  <2>2. s = o
    <3>1. Null # o
      BY <1>1, CombinatorsAssumption
    <3> QED
      BY <2>1, <3>1, Fields DEF GoOn, GoIn
  <2>3. PN(CleanupOf(o)) = P(CleanupOf(o)) /\ \A q : TN(q) = T(q) /\ RN(q) = R(q)
    BY <1>3, <2>1, OneDo DEF GoOn, CleanupOf, ThenOn, RemoveOn
  <2> QED
    BY <1>4, <2>1, <2>2, <2>3
<1>12. ASSUME NEW s \in Signals, Removes(o, s)
       PROVE  A /\ B
  <2>1. /\ \A c : Pending(agenda', c) + One(RemoveOn(o, s), c) = Pending(agenda, c)
        /\ Pending(agenda, RemoveOn(o, s)) > 0
        /\ \A q \in Signals : q # s \/ q \in go => jobs'[q] = jobs[q]
        /\ s \notin go => \A c : Occ(jobs[s], c) =
              Occ(jobs'[s], c) + (IF Occ(jobs[s], FireOf(o)) > 0 THEN One(FireOf(o), c) ELSE 0)
        /\ go' = go /\ deps' = deps /\ refs' = refs
    BY <1>12 DEF Removes
  <2>2. deps[o] = <<>> /\ s \in Operands(o)
    BY <1>1, <2>1 DEF Inv, CallInv
  <2>3. /\ PN(GoOn(o)) = P(GoOn(o)) /\ PN(FireOf(o)) = P(FireOf(o))
        /\ \A d : RN(d) + (IF d = s THEN 1 ELSE 0) = R(d) /\ TN(d) = T(d)
    BY <1>3, <2>1, OneDo DEF FireOf, GoOn, ThenOn, RemoveOn
  <2>4. One(FireOf(o), FireOf(o)) = 1
    BY DEF One
  <2>5. \A d \in Operands(o) : /\ d \in Signals /\ F(d) \in Nat /\ FN(d) \in Nat /\ R(d) \in Nat /\ RN(d) \in Nat
                               /\ R(s) > 0
    BY <1>1, <1>2, <1>3, <2>1
  <2>6. /\ \A d \in Operands(o) : d # s => FN(d) = F(d)
        /\ s \notin go => F(s) = FN(s) + (IF F(s) > 0 THEN 1 ELSE 0)
    BY <1>1, <2>1, <2>4
  <2> HIDE DEF F, FN, C, CN, T, TN, R, RN, P, PN
  <2>7. A
    <3> TAKE d \in Operands(o)
    <3>1. CASE d = s
      <4>1. d \notin go => FN(d) <= RN(d)
        BY <1>4, <2>2, <2>3, <2>5, <2>6, <3>1
      <4> QED
        BY <1>4, <2>1, <2>2, <2>3, <4>1
    <3>2. CASE d # s
      <4>1. FN(d) = F(d) /\ RN(d) = R(d)
        BY <2>3, <2>5, <2>6, <3>2
      <4> QED
        BY <1>4, <2>1, <2>2, <2>3, <4>1
    <3> QED
      BY <3>1, <3>2
  <2>8. B
    BY <1>4, <2>1, <2>2, <2>3
  <2> QED
    BY <2>7, <2>8
<1>13. ASSUME NEW l, NEW r, Cleans(o, l, r)
       PROVE  A /\ B
  <2>1. /\ \A c : Pending(agenda', c) + One(CleanupOf(o), c)
                = Pending(agenda, c) + One(RemoveOn(o, l), c) + One(RemoveOn(o, r), c) + Lost(l, c) + Lost(r, c)
        /\ l = Left(o) /\ r = Right(o) /\ Pending(agenda, CleanupOf(o)) > 0 /\ deps[o] # <<>>
        /\ deps' = [deps EXCEPT ![o] = <<>>] /\ go' = go /\ refs' = refs /\ jobs' = jobs
    BY <1>13 DEF Cleans
  <2>2. deps'[o] = <<>>
    BY <1>1, <2>1
  <2>3. \A d \in Operands(o) : T(d) = 0
    BY <1>1, <2>1 DEF Inv, CallInv
  <2>4. /\ PN(GoOn(o)) = P(GoOn(o)) /\ PN(FireOf(o)) = P(FireOf(o))
        /\ \A d : RN(d) = R(d) + (IF l = d THEN 1 ELSE 0) + (IF r = d THEN 1 ELSE 0) /\ TN(d) = T(d)
    <3>1. \A c : /\ Pending(agenda', c) \in Nat /\ Pending(agenda, c) \in Nat
                 /\ Pending(agenda', c) + One(CleanupOf(o), c)
                      = Pending(agenda, c) + One(RemoveOn(o, l), c) + One(RemoveOn(o, r), c) + Lost(l, c) + Lost(r, c)
      BY <1>3, <2>1
    <3>2. PN(GoOn(o)) = P(GoOn(o)) /\ PN(FireOf(o)) = P(FireOf(o))
      BY <3>1, OneDo DEF FireOf, GoOn, RemoveOn, CleanupOf, Lost, UnrefOf
    <3>3. \A d : TN(d) = T(d)
      BY <3>1, OneDo DEF ThenOn, RemoveOn, CleanupOf, Lost, UnrefOf
    <3>4. \A d : RN(d) = R(d) + (IF l = d THEN 1 ELSE 0) + (IF r = d THEN 1 ELSE 0)
      BY <3>1, OneDo DEF RemoveOn, CleanupOf, Lost, UnrefOf
    <3> QED
      BY <3>2, <3>3, <3>4
  <2>5. \A d : Mult(o, d) = (IF l = d THEN 1 ELSE 0) + (IF r = d THEN 1 ELSE 0)
    BY <2>1 DEF Mult, One
  <2>6. \A d \in Operands(o) : F(d) \in Nat /\ R(d) \in Nat /\ FN(d) = F(d)
    BY <1>1, <1>2, <1>3, <2>1
  <2> HIDE DEF F, FN, C, CN, T, TN, R, RN, P, PN
  <2>7. A
    <3> TAKE d \in Operands(o)
    <3>1. d \notin go => FN(d) <= RN(d)
      <4>1. d \notin go => F(d) = (IF l = d THEN 1 ELSE 0) + (IF r = d THEN 1 ELSE 0)
        BY <1>4, <2>1, <2>3, <2>5, <2>6
      <4> QED
        BY <2>4, <2>6, <4>1
    <3> QED
      BY <1>4, <2>1, <2>2, <2>4, <3>1
  <2>8. B
    BY <1>4, <2>2, <2>4
  <2> QED
    BY <2>7, <2>8
<1>14. CASE FiresDead(o) \/ CleansNothing(o)
  <2>1. PICK h \in {FireOf(o), CleanupOf(o)} :
           /\ \A c : Pending(agenda', c) + One(h, c) = Pending(agenda, c)
           /\ (h = FireOf(o) /\ refs[o] = 0) \/ (h = CleanupOf(o) /\ deps[o] = <<>>)
    <3>1. CASE FiresDead(o)
      <4>1. (\A c : Pending(agenda', c) + One(FireOf(o), c) = Pending(agenda, c)) /\ refs[o] = 0
        BY <3>1 DEF FiresDead
      <4> QED
        BY <4>1
    <3>2. CASE CleansNothing(o)
      <4>1. (\A c : Pending(agenda', c) + One(CleanupOf(o), c) = Pending(agenda, c)) /\ deps[o] = <<>>
        BY <3>2 DEF CleansNothing
      <4> QED
        BY <4>1
    <3> QED
      BY <1>14, <3>1, <3>2
  <2>2. go' = go /\ deps' = deps /\ refs' = refs /\ jobs' = jobs
    BY <1>14 DEF FiresDead, CleansNothing
  <2>3. /\ PN(GoOn(o)) = P(GoOn(o)) /\ \A d : RN(d) = R(d) /\ TN(d) = T(d)
        /\ h = FireOf(o) => PN(CleanupOf(o)) = P(CleanupOf(o))
        /\ h = CleanupOf(o) => PN(FireOf(o)) = P(FireOf(o))
    BY <1>3, <2>1, OneDo DEF FireOf, GoOn, ThenOn, RemoveOn, CleanupOf
  <2> QED
    BY <1>4, <2>1, <2>2, <2>3
<1>15. CASE Fires(o)
  <2>1. /\ \A c : Pending(agenda', c) + One(FireOf(o), c) = Pending(agenda, c) + One(GoOn(o), c) + One(UnrefOf(o), c)
        /\ refs[o] > 0 /\ refs'[o] > 0 /\ go' = go /\ deps' = deps /\ jobs' = jobs
    BY <1>1, <1>15 DEF Fires
  <2>2. /\ PN(GoOn(o)) > 0 /\ PN(CleanupOf(o)) = P(CleanupOf(o)) /\ \A d : RN(d) = R(d) /\ TN(d) = T(d)
    BY <1>3, <2>1, OneDo DEF FireOf, GoOn, ThenOn, RemoveOn, CleanupOf, UnrefOf
  <2>3. refs'[o] # 0
    BY <1>1, <2>1
  <2> QED
    BY <1>4, <2>1, <2>2, <2>3
<1>16. CASE Frees(o)
  <2>1. /\ \A c : Pending(agenda', c) + One(UnrefOf(o), c) = Pending(agenda, c) + One(CleanupOf(o), c)
        /\ refs'[o] = 0 /\ go' = go /\ deps' = deps
        /\ \A q \in Operands(o) : jobs'[q] = jobs[q]
    BY <1>1, <1>16 DEF Frees
  <2>2. PN(CleanupOf(o)) > 0 /\ \A d : RN(d) = R(d) /\ TN(d) = T(d)
    BY <1>3, <2>1, OneDo DEF ThenOn, RemoveOn, CleanupOf, UnrefOf
  <2> QED
    BY <1>4, <2>1, <2>2
<1>17. ~Counts1(o) /\ ~CountsLast(o)
  BY <1>1 DEF Counts1, CountsLast, Inv, CallInv
<1> QED
  BY <1>7, <1>8, <1>9, <1>10, <1>11, <1>12, <1>13, <1>14, <1>15, <1>16, <1>17, Stays

\* And when it is made it is about to be put in the queues it has to be in.
LEMMA OrNew ==
  ASSUME Inv, NEW o \in Outputs, NEW l, NEW r, MakesOr(o, l, r)
  PROVE  /\ Operands(o)' = {l, r} /\ l \notin go' /\ r \notin go' /\ deps'[o] # <<>>
         /\ \A d \in {l, r} : Occ(jobs'[d], FireOf(o)) + Pending(agenda', ThenOn(o, d)) = Mult(o, d)'
         /\ Pending(agenda', ThenOn(o, o)) = 1
<1>1. /\ Ready(o) /\ l = Left(o) /\ r = Right(o) /\ l \in Signals \ go /\ r \in Signals \ go
      /\ expr' = expr /\ go' = go /\ jobs' = jobs
      /\ value' = [value EXCEPT ![o] = o] /\ deps' = [deps EXCEPT ![o] = <<l, r>>]
      /\ \A c : /\ Pending(agenda, c) \in Nat /\ Pending(agenda', c) \in Nat
                /\ Pending(agenda', c) + One(CombineOf(o), c)
                     = Pending(agenda, c) + One(ThenOn(o, l), c) + One(ThenOn(o, r), c) + One(ThenOn(o, o), c)
                         + Lost(l, c) + Lost(r, c)
  BY DEF MakesOr, Counted
<1>2. o \notin {Null, True, False} /\ o \in Signals
  BY CombinatorsAssumption DEF Signals
<1>3. Left(o)' = Left(o) /\ Right(o)' = Right(o) /\ \A s : Mult(o, s)' = Mult(o, s)
  BY <1>1, <1>2, NewValue
<1>4. o # l /\ o # r
  BY <1>1, <1>2 DEF Ready
<1>5. \A s \in Signals : Pending(agenda, ThenOn(o, s)) = 0 /\ Occ(jobs[s], FireOf(o)) = 0
  BY <1>1, Fresh
<1>6. \A s : Mult(o, s) = (IF l = s THEN 1 ELSE 0) + (IF r = s THEN 1 ELSE 0)
  BY <1>1 DEF Mult, One
<1>7. \A s \in Signals : Pending(agenda', ThenOn(o, s)) = Mult(o, s) + (IF o = s THEN 1 ELSE 0)
  BY <1>1, <1>5, <1>6, OneDo DEF CombineOf, ThenOn, Lost, UnrefOf
<1>8. Pending(agenda', ThenOn(o, o)) = 1
  BY <1>2, <1>4, <1>6, <1>7
<1>9. \A d \in {l, r} : Occ(jobs'[d], FireOf(o)) + Pending(agenda', ThenOn(o, d)) = Mult(o, d)
  <2> TAKE d \in {l, r}
  <2>1. d \in Signals /\ d # o /\ Mult(o, d) \in Nat
    BY <1>1, <1>4, <1>6
  <2>2. Occ(jobs'[d], FireOf(o)) = 0 /\ Pending(agenda', ThenOn(o, d)) = Mult(o, d)
    BY <1>1, <1>5, <1>7, <2>1
  <2> QED
    BY <2>1, <2>2
<1>10. deps'[o] # <<>>
  BY <1>1 DEF Inv, Types
<1> QED
  BY <1>1, <1>3, <1>8, <1>9, <1>10 DEF Operands

\* Every OrSignal is where it has to be, and only there.
LEMMA OrStep ==
  ASSUME Inv, Does
  PROVE  OrInv'
<1>1. /\ expr' = expr /\ Made \subseteq Made'
      /\ \A p \in Made : Operands(p)' = Operands(p) /\ \A s : Mult(p, s)' = Mult(p, s)
      /\ \A p \in Made' : p \in Made \/ \E l, r : MakesOr(p, l, r) \/ MakesAnd(p, l, r)
  BY Stable
<1>2. \A o : IsOr(o)' = IsOr(o)
  BY <1>1, SameTerms
<1>3. ASSUME NEW o \in Made', IsOr(o)'
      PROVE  /\ \A d \in Operands(o)' :
                   /\ d \notin go' /\ deps'[o] # <<>> =>
                         Occ(jobs'[d], FireOf(o)) + Pending(agenda', ThenOn(o, d)) = Mult(o, d)'
                   /\ d \notin go' /\ deps'[o] = <<>> => Occ(jobs'[d], FireOf(o)) <= Pending(agenda', RemoveOn(o, d))
                   /\ d \in go' => \/ o \in go' \/ refs'[o] = 0 \/ Pending(agenda', GoOn(o)) > 0
                                   \/ Pending(agenda', FireOf(o)) > 0 \/ Pending(agenda', ThenOn(o, d)) > 0
             /\ Pending(agenda', ThenOn(o, o)) <= 1
             /\ deps'[o] # <<>> /\ (o \in go' \/ refs'[o] = 0) =>
                   Pending(agenda', CleanupOf(o)) > 0 \/ Pending(agenda', ThenOn(o, o)) > 0
             /\ deps'[o] # <<>> /\ o \notin go' /\ refs'[o] > 0 =>
                   Occ(jobs'[o], CleanupOf(o)) > 0 \/ Pending(agenda', ThenOn(o, o)) > 0
  <2>1. IsOr(o)
    BY <1>2, <1>3
  <2>2. CASE o \in Made
    <3>1. /\ \A d \in Operands(o) :
                /\ d \notin go' /\ deps'[o] # <<>> =>
                      Occ(jobs'[d], FireOf(o)) + Pending(agenda', ThenOn(o, d)) = Mult(o, d)
                /\ d \notin go' /\ deps'[o] = <<>> => Occ(jobs'[d], FireOf(o)) <= Pending(agenda', RemoveOn(o, d))
                /\ d \in go' => \/ o \in go' \/ refs'[o] = 0 \/ Pending(agenda', GoOn(o)) > 0
                                \/ Pending(agenda', FireOf(o)) > 0 \/ Pending(agenda', ThenOn(o, d)) > 0
          /\ Pending(agenda', ThenOn(o, o)) <= 1
          /\ deps'[o] # <<>> /\ (o \in go' \/ refs'[o] = 0) =>
                Pending(agenda', CleanupOf(o)) > 0 \/ Pending(agenda', ThenOn(o, o)) > 0
          /\ deps'[o] # <<>> /\ o \notin go' /\ refs'[o] > 0 =>
                Occ(jobs'[o], CleanupOf(o)) > 0 \/ Pending(agenda', ThenOn(o, o)) > 0
      BY <2>1, <2>2, OrOld
    <3>2. Operands(o)' = Operands(o) /\ \A s : Mult(o, s)' = Mult(o, s)
      BY <1>1, <2>2
    <3> QED
      BY <3>1, <3>2
  <2>3. CASE o \notin Made
    <3>1. PICK l, r : MakesOr(o, l, r)
      BY <1>1, <2>1, <2>3 DEF MakesAnd
    <3>2. o \in Outputs
      BY <1>3 DEF Made
    <3>3. /\ Operands(o)' = {l, r} /\ l \notin go' /\ r \notin go' /\ deps'[o] # <<>>
          /\ \A d \in {l, r} : Occ(jobs'[d], FireOf(o)) + Pending(agenda', ThenOn(o, d)) = Mult(o, d)'
          /\ Pending(agenda', ThenOn(o, o)) = 1
      BY <3>1, <3>2, OrNew
    <3> QED
      BY <3>3
  <2> QED
    BY <2>2, <2>3
<1> QED
  BY <1>3 DEF OrInv

\* The one combination of Future.wait() is of the Future and of something that
\* is no output.
LEMMA FutureTerm ==
  ASSUME expr \in Expressions, IsFutureWait(expr)
  PROVE  /\ Left(Result(expr)) = Future /\ IsOr(Result(expr))
         /\ expr' = expr => Right(Result(expr))' = Right(Result(expr))
<1>1. /\ DOMAIN expr = 1..Len(expr) /\ Len(expr) = 1 /\ expr[1].op = "or" /\ expr[1].left = Future
      /\ Result(expr) = expr[1].out /\ Term(expr[1].out) = expr[1] /\ Result(expr) \in Outs
  BY ExprFacts DEF IsFutureWait, Result
<1>2. Future \notin Outputs
  BY CombinatorsAssumption
<1>3. Outs = {Result(expr)}
  BY <1>1 DEF Outs
<1>4. Term(Result(expr)).right \notin Outputs
  BY <1>1, <1>3, ExprFacts DEF Terms
<1>5. Left(Result(expr)) = Future /\ IsOr(Result(expr))
  BY <1>1, <1>2 DEF Left, Operand, IsOr
<1>6. Right(Result(expr)) = Term(Result(expr)).right
  BY <1>4 DEF Right, Operand
<1>7. ASSUME expr' = expr
      PROVE  Right(Result(expr))' = Term(Result(expr)).right
  <2>1. /\ Result(expr)' = Result(expr) /\ \A o : Term(o)' = Term(o)
    BY <1>7, SameTerms
  <2>2. Right(Result(expr))' = Operand(Term(Result(expr)).right)'
    BY <2>1 DEF Right
  <2> QED
    BY <1>4, <2>1, <2>2 DEF Operand
<1> QED
  BY <1>5, <1>6, <1>7

\* The value of the Future is there before the Future is ready, and what its
\* wait() returns is what was there then.
LEMMA FutureStep ==
  ASSUME Inv, Does
  PROVE  FutureInv'
<1> DEFINE Res == Result(expr)
<1>1. /\ expr \in Expressions /\ expr' = expr /\ go \subseteq go' /\ go \subseteq Signals /\ Null \notin Signals
      /\ Res \in Outputs /\ Result(expr)' = Res /\ IsFutureWait(expr)' = IsFutureWait(expr)
      /\ \A p \in Outputs : value[p] # Null => value'[p] = value[p]
  <2>1. expr' = expr /\ go \subseteq go' /\ \A p \in Outputs : value[p] # Null => value'[p] = value[p]
    BY Stable
  <2>2. expr \in Expressions /\ go \subseteq Signals
    BY DEF Inv, Types
  <2>3. Res \in Outputs
    BY <2>2, ExprFacts
  <2>4. Null \notin Signals
    BY CombinatorsAssumption
  <2> QED
    BY <2>1, <2>2, <2>3, <2>4, SameTerms
<1>2. IsFutureWait(expr) => Left(Res) = Future /\ IsOr(Res) /\ Right(Res)' = Right(Res)
  BY <1>1, FutureTerm
<1>3. /\ Future \in go => answer # Null
      /\ IsFutureWait(expr) /\ value[Res] # Null =>
            value[Res] \in {Res, Future} \/ Right(Res) \in go \cup {True} \/ Future \in go
      /\ \A o \in Outputs : Pending(agenda, ReadOf(o)) > 0 => value[o] \in go \/ Pending(agenda, WaitOf(o)) > 0
      /\ Null \in returned => IsFutureWait(expr) /\ Right(Res) \in go \cup {True}
  BY DEF Inv, FutureInv
<1>4. Future \in go' => answer' # Null
  <2>1. answer' = answer \/ answer' # Null
    <3>1. Assigns => answer' # Null
      BY CombinatorsAssumption DEF Assigns
    <3> QED
      BY <3>1 DEF Does, Shortcuts, MakesOr, MakesAnd, Cleans, Queues, Runs, Activates, ActivatesAgain, Removes, Waits,
                  FiresDead, Fires, CleansNothing, Counts1, CountsLast, Unrefs, Frees, ForgetsIt, Reads, Begin
  <2>2. Future \in go' => Future \in go \/ \E h : Activates(h, Future)
    BY Changes, CombinatorsAssumption DEF Signals
  <2>3. ASSUME NEW h, Activates(h, Future) PROVE answer # Null
    BY <2>3, CombinatorsAssumption DEF Activates, Goes
  <2> QED
    BY <1>3, <2>1, <2>2, <2>3
<1>5. ASSUME IsFutureWait(expr), value'[Res] # Null
      PROVE  value'[Res] \in {Res, Future} \/ Right(Res) \in go' \cup {True} \/ Future \in go'
  <2>1. CASE value[Res] # Null
    BY <1>1, <1>3, <1>5, <2>1
  <2>2. CASE value[Res] = Null
    <3>1. value \in [Outputs -> Signals \cup {Null}]
      BY DEF Inv, Types
    <3>2. \/ value' = value
          \/ \E o \in Outputs : \E v, l, r : Shortcuts(o, v, l, r)
          \/ \E o \in Outputs : \E l, r : MakesOr(o, l, r) \/ MakesAnd(o, l, r)
      BY DEF Does, Cleans, Queues, Runs, Activates, ActivatesAgain, Removes, Waits, Assigns,
             FiresDead, Fires, CleansNothing, Counts1, CountsLast, Unrefs, Frees, ForgetsIt, Reads, Begin
    <3>3. ASSUME NEW o \in Outputs, NEW l, NEW r, MakesOr(o, l, r) \/ MakesAnd(o, l, r)
          PROVE  value'[Res] \in {Res, Future}
      <4>1. value' = [value EXCEPT ![o] = o]
        BY <3>3 DEF MakesOr, MakesAnd
      <4> QED
        BY <1>1, <1>5, <2>2, <3>1, <4>1
    <3>4. ASSUME NEW o \in Outputs, NEW v, NEW l, NEW r, Shortcuts(o, v, l, r)
          PROVE  value'[Res] \in {Res, Future} \/ Right(Res) \in go' \cup {True} \/ Future \in go'
      <4>1. /\ value' = [value EXCEPT ![o] = v] /\ l = Left(o) /\ r = Right(o)
            /\ \/ v = l
               \/ v = Never /\ ~IsOr(o)
               \/ v = Done /\ IsOr(o) /\ (r = True \/ l \in go \/ r \in go)
        BY <3>4 DEF Shortcuts
      <4>2. o = Res /\ value'[Res] = v
        BY <1>1, <1>5, <2>2, <3>1, <4>1
      <4> QED
        BY <1>1, <1>2, <1>5, <4>1, <4>2
    <3> QED
      BY <1>5, <2>2, <3>2, <3>3, <3>4
  <2> QED
    BY <2>1, <2>2
<1>6. ASSUME NEW o \in Outputs, Pending(agenda', ReadOf(o)) > 0
      PROVE  value'[o] \in go' \/ Pending(agenda', WaitOf(o)) > 0
  <2>1. \A c : Pending(agenda, c) \in Nat /\ Pending(agenda', c) \in Nat
    <3>1. Types'
      BY TypesStep
    <3> QED
      BY <3>1, PendingType DEF Inv, Types
  <2>2. ASSUME Pending(agenda', ReadOf(o)) <= Pending(agenda, ReadOf(o)),
               Pending(agenda', WaitOf(o)) = Pending(agenda, WaitOf(o))
        PROVE  value'[o] \in go' \/ Pending(agenda', WaitOf(o)) > 0
    <3>1. Pending(agenda, ReadOf(o)) > 0
      BY <1>6, <2>1, <2>2
    <3> QED
      BY <1>1, <1>3, <2>2, <3>1
  <2>3. CASE Idle
    <3>1. /\ Pending(agenda', ReadOf(o)) = Pending(agenda, ReadOf(o))
          /\ Pending(agenda', WaitOf(o)) = Pending(agenda, WaitOf(o))
      BY <2>3 DEF Idle
    <3> QED
      BY <2>1, <2>2, <3>1
  <2>4. ASSUME NEW p \in Outputs, NEW v, Combines(p, v)
        PROVE  value'[o] \in go' \/ Pending(agenda', WaitOf(o)) > 0
    <3>1. /\ Pending(agenda', ReadOf(o)) = Pending(agenda, ReadOf(o))
          /\ Pending(agenda', WaitOf(o)) = Pending(agenda, WaitOf(o))
      BY <2>4 DEF Combines
    <3> QED
      BY <2>1, <2>2, <3>1
  <2>5. ASSUME NEW p \in Outputs, Waits(p)
        PROVE  value'[o] \in go' \/ Pending(agenda', WaitOf(o)) > 0
    <3>1. /\ \A c : Pending(agenda', c) + One(WaitOf(p), c) = Pending(agenda, c)
          /\ value[p] \in go /\ Pending(agenda, WaitOf(p)) > 0
      BY <2>5 DEF Waits
    <3>2. Pending(agenda', ReadOf(o)) = Pending(agenda, ReadOf(o))
      BY <2>1, <3>1, OneDo DEF WaitOf, ReadOf
    <3>3. Pending(agenda, ReadOf(o)) > 0
      BY <1>6, <3>2
    <3>4. p = Res /\ o = Res
      BY <3>1, <3>3 DEF Inv, PlanInv
    <3> QED
      BY <1>1, <3>1, <3>4
  <2>6. ASSUME NEW p \in Outputs, ForgetsIt(p) \/ Reads(p)
        PROVE  value'[o] \in go' \/ Pending(agenda', WaitOf(o)) > 0
    <3>1. CASE ForgetsIt(p)
      <4>1. \A c : Pending(agenda', c) + One(ForgetOf(p), c) = Pending(agenda, c) + Lost(value[p], c)
        BY <3>1 DEF ForgetsIt
      <4>2. /\ Pending(agenda', ReadOf(o)) <= Pending(agenda, ReadOf(o))
            /\ Pending(agenda', WaitOf(o)) = Pending(agenda, WaitOf(o))
        BY <2>1, <4>1, OneDo DEF ForgetOf, ReadOf, WaitOf, Lost, UnrefOf
      <4> QED
        BY <2>2, <4>2
    <3>2. CASE Reads(p)
      <4>1. \A c : Pending(agenda', c) + One(ReadOf(p), c) = Pending(agenda, c)
        BY <3>2 DEF Reads
      <4>2. /\ Pending(agenda', ReadOf(o)) <= Pending(agenda, ReadOf(o))
            /\ Pending(agenda', WaitOf(o)) = Pending(agenda, WaitOf(o))
        BY <2>1, <4>1, OneDo DEF ReadOf, WaitOf
      <4> QED
        BY <2>2, <4>2
    <3> QED
      BY <2>6, <3>1, <3>2
  <2> QED
    BY <2>3, <2>4, <2>5, <2>6, PlanSteps
<1>7. ASSUME Null \in returned'
      PROVE  IsFutureWait(expr) /\ Right(Res) \in go' \cup {True}
  <2>1. \/ returned' = returned
        \/ \E o \in Outputs : Reads(o)
    BY DEF Does, Shortcuts, MakesOr, MakesAnd, Cleans, Queues, Runs, Activates, ActivatesAgain, Removes, Waits, Assigns,
           FiresDead, Fires, CleansNothing, Counts1, CountsLast, Unrefs, Frees, ForgetsIt, Begin
  <2>2. ASSUME NEW o \in Outputs, Reads(o)
        PROVE  IsFutureWait(expr) /\ Right(Res) \in go \cup {True}
    <3>1. Pending(agenda, ReadOf(o)) > 0 /\ Pending(agenda, WaitOf(o)) = 0 /\ returned' = {answer}
      BY <2>2 DEF Reads
    <3>2. o = Res /\ IsFutureWait(expr)
      BY <3>1 DEF Inv, PlanInv
    <3>3. answer = Null /\ Future \notin go
      BY <1>3, <1>7, <3>1
    <3>4. value[Res] \in go
      BY <1>3, <3>1, <3>2
    <3>5. value[Res] \in {Res, Future} \/ Right(Res) \in go \cup {True}
      BY <1>1, <1>3, <3>2, <3>3, <3>4
    <3>6. Res \in go => Right(Res) \in go
      <4>1. Res \in go => Asked(Res)
        BY <1>1 DEF Inv, GoInv
      <4> QED
        BY <1>2, <3>2, <3>3, <4>1 DEF Asked
    <3> QED
      BY <3>2, <3>3, <3>4, <3>5, <3>6
  <2> QED
    BY <1>1, <1>3, <1>7, <2>1, <2>2
<1> QED
  BY <1>1, <1>2, <1>4, <1>5, <1>6, <1>7 DEF FutureInv

-----------------------------------------------------------------------------
(***************************************************************************)
(* The order of the calls in an agenda.                                    *)
(***************************************************************************)
\* What a thread may be told to call next, in this order.
Orderly(t, calls) ==
    /\ calls \in Seq(AgendaCalls)
    /\ \A i \in 1..Len(calls) : ~IsPlan(calls[i]) /\ (calls[i].call = "then" => t = Builder)
    /\ \A i \in 1..Len(calls) : \A o \in Outputs, s \in Signals :
          calls[i] = ThenOn(o, s) /\ s # o /\ IsOr(o) => \E m \in (i + 1)..Len(calls) : calls[m] = ThenOn(o, o)
    /\ \A i \in 1..Len(calls) : \A o \in Outputs :
          calls[i] = GoOn(o) => i + 1 <= Len(calls) /\ calls[i + 1] = UnrefOf(o)
    /\ \A i \in 1..Len(calls) : calls[i] = GoIn(Future) => i > 1 /\ calls[i - 1] = AssignIt

\* Such calls on top leave the agendas in order.
LEMMA PutsStack ==
  ASSUME Types, StackInv, NEW t \in Threads, NEW k, NEW calls, Orderly(t, calls), Puts(AgendaCalls, t, k, calls),
         expr' = expr, answer' = answer \/ answer' # Null,
         \/ Len(agenda[t]) = k
         \/ Len(agenda[t]) = k + 1 /\ (Deep(agenda, t, k + 1) = AssignIt => answer' # Null)
  PROVE  StackInv'
<1> DEFINE n == Len(calls)
<1>1. /\ n \in Nat /\ k \in Nat /\ k <= Len(agenda[t]) /\ Len(agenda'[t]) = k + n
      /\ \A u \in Threads \ {t} : agenda'[u] = agenda[u]
      /\ \A j \in 1..k : Deep(agenda', t, j) = Deep(agenda, t, j)
      /\ \A i \in 1..n : Deep(agenda', t, k + n + 1 - i) = calls[i]
  BY DEF Puts
<1>2. \A u \in Threads : Len(agenda[u]) \in Nat
  BY DEF Types, Stacks
<1>3. \A o : IsOr(o)' = IsOr(o)
  BY SameTerms
<1>4. \A u \in Threads \ {t} : /\ Len(agenda'[u]) = Len(agenda[u])
                               /\ \A j : Deep(agenda', u, j) = Deep(agenda, u, j)
  BY <1>1 DEF Deep
<1> HIDE DEF n
<1>5. \A j \in 1..k : j \in 1..Len(agenda[t]) /\ j \in 1..Len(agenda'[t])
  BY <1>1, <1>2
<1>6. ASSUME NEW j \in 1..Len(agenda'[t]), j \notin 1..k
      PROVE  /\ k + n + 1 - j \in 1..n /\ j = k + n + 1 - (k + n + 1 - j)
             /\ Deep(agenda', t, j) = calls[k + n + 1 - j]
  <2>1. k + n + 1 - j \in 1..n /\ j = k + n + 1 - (k + n + 1 - j)
    BY <1>1, <1>6
  <2> QED
    BY <1>1, <2>1
<1>7. ASSUME NEW u \in Threads, NEW j \in 1..Len(agenda'[u]),
             IsPlan(Deep(agenda', u, j)) \/ Deep(agenda', u, j).call = "then"
      PROVE  u = Builder /\ (IsPlan(Deep(agenda', u, j)) /\ u = t => j \in 1..k)
  <2>1. CASE u # t
    BY <1>4, <1>7, <2>1 DEF StackInv
  <2>2. CASE u = t /\ j \in 1..k
    BY <1>1, <1>5, <1>7, <2>2 DEF StackInv
  <2>3. CASE u = t /\ j \notin 1..k
    BY <1>6, <1>7, <2>3 DEF Orderly, n
  <2> QED
    BY <2>1, <2>2, <2>3
<1>8. ASSUME NEW i \in 1..Len(agenda'[Builder]), NEW j \in 1..Len(agenda'[Builder]), i < j,
             IsPlan(Deep(agenda', Builder, j))
      PROVE  IsPlan(Deep(agenda', Builder, i)) /\ Before(Deep(agenda', Builder, j), Deep(agenda', Builder, i))
  <2>1. Builder \in Threads
    BY DEF Threads
  <2>2. CASE Builder # t
    BY <1>4, <1>8, <2>1, <2>2 DEF StackInv
  <2>3. CASE Builder = t
    <3>1. j \in 1..k /\ i \in 1..k
      <4>1. j \in 1..k
        BY <1>7, <1>8, <2>1, <2>3
      <4> QED
        BY <1>1, <1>2, <1>8, <2>1, <2>3, <4>1
    <3> QED
      BY <1>1, <1>5, <1>8, <2>3, <3>1 DEF StackInv
  <2> QED
    BY <2>2, <2>3
<1>9. ASSUME NEW u \in Threads, NEW j \in 1..Len(agenda'[u]), NEW o \in Outputs, NEW s \in Signals,
             Deep(agenda', u, j) = ThenOn(o, s), s # o, IsOr(o)'
      PROVE  \E i \in 1..(j - 1) : Deep(agenda', u, i) = ThenOn(o, o)
  <2>1. IsOr(o)
    BY <1>3, <1>9
  <2>2. CASE u # t
    BY <1>4, <1>9, <2>1, <2>2 DEF StackInv
  <2>3. CASE u = t /\ j \in 1..k
    <3>1. PICK i \in 1..(j - 1) : Deep(agenda, t, i) = ThenOn(o, o)
      BY <1>1, <1>5, <1>9, <2>1, <2>3 DEF StackInv
    <3>2. i \in 1..k
      BY <1>1, <2>3, <3>1
    <3> QED
      BY <1>1, <2>3, <3>1, <3>2
  <2>4. CASE u = t /\ j \notin 1..k
    <3>1. /\ k + n + 1 - j \in 1..n /\ j = k + n + 1 - (k + n + 1 - j)
          /\ calls[k + n + 1 - j] = ThenOn(o, s)
      BY <1>6, <1>9, <2>4
    <3>2. PICK m \in (k + n + 1 - j + 1)..n : calls[m] = ThenOn(o, o)
      BY <1>9, <2>1, <3>1 DEF Orderly, n
    <3>3. m \in 1..n /\ k + n + 1 - m \in 1..(j - 1)
      BY <1>1, <1>2, <1>9, <2>4, <3>1, <3>2
    <3> QED
      BY <1>1, <2>4, <3>2, <3>3
  <2> QED
    BY <2>2, <2>3, <2>4
<1>10. ASSUME NEW u \in Threads, NEW j \in 1..Len(agenda'[u]), NEW o \in Outputs,
              Deep(agenda', u, j) = GoOn(o)
       PROVE  j > 1 /\ Deep(agenda', u, j - 1) = UnrefOf(o)
  <2>1. CASE u # t
    BY <1>4, <1>10, <2>1 DEF StackInv
  <2>2. CASE u = t /\ j \in 1..k
    <3>1. j > 1 /\ Deep(agenda, t, j - 1) = UnrefOf(o)
      BY <1>1, <1>5, <1>10, <2>2 DEF StackInv
    <3>2. j - 1 \in 1..k
      BY <1>1, <2>2, <3>1
    <3> QED
      BY <1>1, <2>2, <3>1, <3>2
  <2>3. CASE u = t /\ j \notin 1..k
    <3>1. /\ k + n + 1 - j \in 1..n /\ j = k + n + 1 - (k + n + 1 - j)
          /\ calls[k + n + 1 - j] = GoOn(o)
      BY <1>6, <1>10, <2>3
    <3>2. k + n + 1 - j + 1 <= n /\ calls[k + n + 1 - j + 1] = UnrefOf(o)
      BY <1>10, <3>1 DEF Orderly, n
    <3>3. k + n + 1 - j + 1 \in 1..n /\ j - 1 = k + n + 1 - (k + n + 1 - j + 1) /\ j > 1
      BY <1>1, <1>10, <2>3, <3>1, <3>2
    <3> QED
      BY <1>1, <2>3, <3>2, <3>3
  <2> QED
    BY <2>1, <2>2, <2>3
<1>11. ASSUME NEW u \in Threads, NEW j \in 1..Len(agenda'[u]), Deep(agenda', u, j) = GoIn(Future), answer' = Null
       PROVE  j + 1 <= Len(agenda'[u]) /\ Deep(agenda', u, j + 1) = AssignIt
  <2>1. answer = Null
    BY <1>11
  <2>2. CASE u # t
    BY <1>4, <1>11, <2>1, <2>2 DEF StackInv
  <2>3. CASE u = t /\ j \in 1..k
    <3>1. j + 1 <= Len(agenda[t]) /\ Deep(agenda, t, j + 1) = AssignIt
      BY <1>1, <1>5, <1>11, <2>1, <2>3 DEF StackInv
    <3>2. j # k
      BY <1>1, <1>11, <3>1
    <3>3. j + 1 \in 1..k
      BY <1>1, <2>3, <3>2
    <3> QED
      BY <1>1, <1>5, <2>3, <3>1, <3>3
  <2>4. CASE u = t /\ j \notin 1..k
    <3>1. /\ k + n + 1 - j \in 1..n /\ j = k + n + 1 - (k + n + 1 - j)
          /\ calls[k + n + 1 - j] = GoIn(Future)
      BY <1>6, <1>11, <2>4
    <3>2. k + n + 1 - j > 1 /\ calls[k + n + 1 - j - 1] = AssignIt
      <4>1. \A i \in 1..n : calls[i] = GoIn(Future) => i > 1 /\ calls[i - 1] = AssignIt
        BY DEF Orderly, n
      <4>2. PICK i \in 1..n : i = k + n + 1 - j
        BY <3>1
      <4>3. calls[i] = GoIn(Future)
        BY <3>1, <4>2
      <4>4. i > 1 /\ calls[i - 1] = AssignIt
        BY <4>1, <4>3
      <4>5. k + n + 1 - j > 1 /\ k + n + 1 - j - 1 = i - 1
        BY <1>1, <4>2, <4>4
      <4> QED
        BY <4>4, <4>5
    <3>3. k + n + 1 - j - 1 \in 1..n /\ j + 1 = k + n + 1 - (k + n + 1 - j - 1) /\ j + 1 <= k + n
      BY <1>1, <1>11, <2>4, <3>1, <3>2
    <3> QED
      BY <1>1, <2>4, <3>2, <3>3
  <2> QED
    BY <2>2, <2>3, <2>4
<1>12. \A c, d : IF Before(c, d) THEN Before(c, d)' ELSE TRUE
  <2>1. \A o, p : Earlier(o, p) => Earlier(o, p)'
    BY DEF Earlier
  <2> QED
    BY <2>1 DEF Before
<1>13. \A i, j \in 1..Len(agenda'[Builder]) : i < j /\ IsPlan(Deep(agenda', Builder, j)) =>
          IsPlan(Deep(agenda', Builder, i)) /\ Before(Deep(agenda, Builder, j), Deep(agenda, Builder, i))'
  BY <1>8, <1>12
<1> QED
  BY <1>7, <1>8, <1>9, <1>10, <1>11, <1>13 DEF StackInv


\* The calls that need nothing around them.
Plain(calls) == /\ calls \in Seq(AgendaCalls)
                /\ \A i \in 1..Len(calls) : calls[i].call \in {"fire", "done", "cleanup", "unref", "remove_then"}

\* Plain calls are in order, after one another and after others.
LEMMA PlainOrder ==
  ASSUME NEW t \in Threads
  PROVE  /\ Plain(<<>>) /\ \A x : Plain(Drop(x))
         /\ \A p, q : Plain(p) /\ Plain(q) => Plain(p \o q)
         /\ \A p : Plain(p) => Orderly(t, p)
         /\ \A p, q : Orderly(t, p) /\ Plain(q) => Orderly(t, p \o q)
<1> DEFINE K == {"fire", "done", "cleanup", "unref", "remove_then"}
<1>1. Plain(<<>>)
  <2>1. <<>> \in Seq(AgendaCalls) /\ Len(<<>>) = 0
    OBVIOUS
  <2> QED
    BY <2>1 DEF Plain
<1>2. ASSUME NEW x PROVE Plain(Drop(x))
  <2>1. CASE x \notin Outputs
    BY <1>1, <2>1 DEF Drop
  <2>2. CASE x \in Outputs
    <3>1. Drop(x) = <<UnrefOf(x)>> /\ UnrefOf(x) \in AgendaCalls
      BY <2>2 DEF Drop, UnrefOf, AgendaCalls
    <3>2. UnrefOf(x).call \in K
      BY DEF UnrefOf, Do
    <3> QED
      BY <3>1, <3>2 DEF Plain
  <2> QED
    BY <2>1, <2>2
<1>3. ASSUME NEW p, NEW q, p \in Seq(AgendaCalls), q \in Seq(AgendaCalls)
      PROVE  /\ p \o q \in Seq(AgendaCalls) /\ Len(p \o q) = Len(p) + Len(q) /\ Len(p) \in Nat /\ Len(q) \in Nat
             /\ \A i \in 1..Len(p) : (p \o q)[i] = p[i]
             /\ \A i \in 1..Len(p \o q) : i \notin 1..Len(p) => i - Len(p) \in 1..Len(q) /\ (p \o q)[i] = q[i - Len(p)]
  BY <1>3
<1>4. ASSUME NEW p, NEW q, Plain(p), Plain(q) PROVE Plain(p \o q)
  <2>1. p \in Seq(AgendaCalls) /\ q \in Seq(AgendaCalls)
    BY <1>4 DEF Plain
  <2>2. ASSUME NEW i \in 1..Len(p \o q) PROVE (p \o q)[i].call \in K
    BY <1>3, <1>4, <2>1, <2>2 DEF Plain
  <2> QED
    BY <1>3, <2>1, <2>2 DEF Plain
<1>5. ASSUME NEW c, c.call \in K
      PROVE  /\ ~IsPlan(c) /\ c.call # "then" /\ c # AssignIt
             /\ \A o, s : c # ThenOn(o, s)
             /\ \A o : c # GoOn(o) /\ c # GoIn(o)
  <2>1. /\ \A o, s : ThenOn(o, s).call = "then"
        /\ \A o : GoOn(o).call = "go" /\ GoIn(o).call = "go"
        /\ AssignIt.call = "assign"
    BY Fields DEF ThenOn, GoOn, GoIn, AssignIt
  <2> QED
    BY <1>5, <2>1 DEF IsPlan
<1>6. ASSUME NEW p, Plain(p) PROVE Orderly(t, p)
  <2>1. ASSUME NEW i \in 1..Len(p)
        PROVE  /\ ~IsPlan(p[i]) /\ p[i].call # "then"
               /\ \A o, s : p[i] # ThenOn(o, s)
               /\ \A o : p[i] # GoOn(o) /\ p[i] # GoIn(o)
    <3>1. p[i].call \in K
      BY <1>6 DEF Plain
    <3> HIDE DEF K
    <3> QED
      BY <1>5, <3>1
  <2>2. p \in Seq(AgendaCalls)
    BY <1>6 DEF Plain
  <2> QED
    BY <2>1, <2>2 DEF Orderly
<1>7. ASSUME NEW p, NEW q, Orderly(t, p), Plain(q) PROVE Orderly(t, p \o q)
  <2> DEFINE b == p \o q
             m == Len(p)
  <2>1. p \in Seq(AgendaCalls) /\ q \in Seq(AgendaCalls)
    BY <1>7 DEF Plain, Orderly
  <2>2. /\ b \in Seq(AgendaCalls) /\ m \in Nat /\ Len(b) \in Nat /\ m <= Len(b)
        /\ \A i \in 1..m : b[i] = p[i]
        /\ \A i \in 1..Len(b) : i \notin 1..m => b[i].call \in K
    <3>1. \A i \in 1..Len(q) : q[i].call \in K
      BY <1>7 DEF Plain
    <3> HIDE DEF K
    <3>2. b \in Seq(AgendaCalls) /\ m \in Nat /\ Len(b) \in Nat /\ m <= Len(b)
      BY <1>3, <2>1
    <3>3. \A i \in 1..m : b[i] = p[i]
      BY <1>3, <2>1
    <3>4. ASSUME NEW i \in 1..Len(b), i \notin 1..m PROVE b[i].call \in K
      <4>1. i - m \in 1..Len(q) /\ b[i] = q[i - m]
        BY <1>3, <2>1, <3>4
      <4> QED
        BY <3>1, <4>1
    <3> QED
      BY <3>2, <3>3, <3>4
  <2> HIDE DEF b
  <2> HIDE DEF K
  <2>3. ASSUME NEW i \in 1..Len(b)
        PROVE  ~IsPlan(b[i]) /\ (b[i].call = "then" => t = Builder)
    <3>1. CASE i \in 1..m
      BY <1>7, <2>2, <3>1 DEF Orderly
    <3>2. CASE i \notin 1..m
      BY <1>5, <2>2, <3>2
    <3> QED
      BY <3>1, <3>2
  <2>4. ASSUME NEW i \in 1..Len(b), NEW o \in Outputs, NEW s \in Signals, b[i] = ThenOn(o, s), s # o, IsOr(o)
        PROVE  \E k \in (i + 1)..Len(b) : b[k] = ThenOn(o, o)
    <3>1. i \in 1..m
      BY <1>5, <2>2, <2>4
    <3>2. PICK k \in (i + 1)..m : p[k] = ThenOn(o, o)
      BY <1>7, <2>2, <2>4, <3>1 DEF Orderly
    <3> QED
      BY <2>2, <3>1, <3>2
  <2>5. ASSUME NEW i \in 1..Len(b), NEW o \in Outputs, b[i] = GoOn(o)
        PROVE  i + 1 <= Len(b) /\ b[i + 1] = UnrefOf(o)
    <3>1. i \in 1..m
      BY <1>5, <2>2, <2>5
    <3>2. i + 1 <= m /\ p[i + 1] = UnrefOf(o)
      BY <1>7, <2>2, <2>5, <3>1 DEF Orderly
    <3> QED
      BY <2>2, <3>1, <3>2
  <2>6. ASSUME NEW i \in 1..Len(b), b[i] = GoIn(Future)
        PROVE  i > 1 /\ b[i - 1] = AssignIt
    <3>1. i \in 1..m
      BY <1>5, <2>2, <2>6
    <3>2. i > 1 /\ p[i - 1] = AssignIt
      BY <1>7, <2>2, <2>6, <3>1 DEF Orderly
    <3> QED
      BY <2>2, <3>1, <3>2
  <2> QED
    BY <2>2, <2>3, <2>4, <2>5, <2>6 DEF Orderly, b
<1> QED
  BY <1>1, <1>2, <1>4, <1>6, <1>7

\* A call whose place is taken by such calls leaves the agendas in order.
LEMMA FollowStack ==
  ASSUME Inv, NEW t \in Threads, agenda[t] # <<>>, NEW calls, Orderly(t, calls), Follow(t, calls),
         expr' = expr, answer' = answer \/ answer' # Null, Head(agenda[t]) = AssignIt => answer' # Null
  PROVE  StackInv'
<1> DEFINE n == Len(agenda[t])
<1>1. Types /\ StackInv /\ Stacks(agenda, AgendaCalls) /\ calls \in Seq(AgendaCalls)
  BY DEF Inv, Types, Orderly
<1>2. Puts(AgendaCalls, t, n - 1, calls) /\ n \in Nat \ {0} /\ Deep(agenda, t, n) = Head(agenda[t])
  BY <1>1, Moves
<1>3. n = (n - 1) + 1
  <2> HIDE DEF n
  <2> QED
    BY <1>2
<1>4. Deep(agenda, t, (n - 1) + 1) = AssignIt => answer' # Null
  BY <1>2, <1>3
<1> QED
  BY <1>1, <1>2, <1>3, <1>4, PutsStack


\* So does a call whose place is taken by plain ones.
LEMMA PlainStack ==
  ASSUME Inv, NEW t \in Threads, agenda[t] # <<>>, Head(agenda[t]).call # "assign",
         NEW calls, Plain(calls), Follow(t, calls), expr' = expr, answer' = answer
  PROVE  StackInv'
<1>1. Head(agenda[t]) # AssignIt
  BY Fields DEF AssignIt
<1>2. Orderly(t, calls)
  BY PlainOrder
<1> QED
  BY <1>1, <1>2, FollowStack

\* What activates a signal for a combination holds it meanwhile.
LEMMA GoOnStack ==
  ASSUME Inv, NEW t \in Threads, agenda[t] # <<>>, Head(agenda[t]).call # "assign", NEW o \in Outputs,
         Follow(t, <<Do("go", o, o), Do("unref", o, Null)>>), expr' = expr, answer' = answer
  PROVE  StackInv'
<1> DEFINE q == <<GoOn(o), UnrefOf(o)>>
<1>1. Follow(t, q)
  BY DEF GoOn, UnrefOf
<1>2. q \in Seq(AgendaCalls) /\ Len(q) = 2 /\ q[1] = GoOn(o) /\ q[2] = UnrefOf(o)
  BY DEF AgendaCalls
<1> HIDE DEF q
<1>3. /\ ~IsPlan(GoOn(o)) /\ ~IsPlan(UnrefOf(o)) /\ GoOn(o).call # "then" /\ UnrefOf(o).call # "then"
      /\ \A p : UnrefOf(o) # GoOn(p) /\ (GoOn(o) = GoOn(p) => p = o)
      /\ \A p : UnrefOf(o) # GoIn(p) /\ GoOn(o) # GoIn(p)
      /\ \A p, s : UnrefOf(o) # ThenOn(p, s) /\ GoOn(o) # ThenOn(p, s)
  <2>1. o # Null
    BY CombinatorsAssumption DEF Signals
  <2> QED
    BY <2>1, Fields DEF IsPlan, GoOn, UnrefOf, GoIn, ThenOn
<1>4. \A i \in 1..Len(q) : i = 1 \/ i = 2
  BY <1>2
<1>5. Orderly(t, q)
  <2>1. \A i \in 1..Len(q) : ~IsPlan(q[i]) /\ q[i].call # "then"
    BY <1>2, <1>3, <1>4
  <2>2. \A i \in 1..Len(q) : \A p \in Outputs : q[i] = GoOn(p) => i + 1 <= Len(q) /\ q[i + 1] = UnrefOf(p)
    <3> SUFFICES ASSUME NEW i \in 1..Len(q), NEW p \in Outputs, q[i] = GoOn(p)
                 PROVE  i + 1 <= Len(q) /\ q[i + 1] = UnrefOf(p)
      OBVIOUS
    <3>1. i = 1 /\ p = o
      BY <1>2, <1>3, <1>4
    <3> QED
      BY <1>2, <3>1
  <2>3. \A i \in 1..Len(q) : \A p, s : q[i] # ThenOn(p, s)
    BY <1>2, <1>3, <1>4
  <2>4. \A i \in 1..Len(q) : \A s : q[i] # GoIn(s)
    BY <1>2, <1>3, <1>4
  <2> QED
    BY <1>2, <2>1, <2>2, <2>3, <2>4 DEF Orderly
<1>6. Head(agenda[t]) # AssignIt
  BY Fields DEF AssignIt
<1> QED
  BY <1>1, <1>5, <1>6, FollowStack

\* The functions of a combination are registered by the builder, the cleanup
\* of an OrSignal last.
LEMMA ThensOrder ==
  ASSUME NEW o \in Outputs, NEW l \in Signals, NEW r \in Signals
  PROVE  /\ Orderly(Builder, <<ThenOn(o, l), ThenOn(o, r), ThenOn(o, o)>>)
         /\ ~IsOr(o) => Orderly(Builder, <<ThenOn(o, l), ThenOn(o, r)>>)
<1>1. /\ ThenOn(o, l) \in AgendaCalls /\ ThenOn(o, r) \in AgendaCalls /\ ThenOn(o, o) \in AgendaCalls
  BY DEF AgendaCalls, Signals
<1>2. /\ \A s : ~IsPlan(ThenOn(o, s))
      /\ \A p, s, d : ThenOn(o, s) = ThenOn(p, d) => p = o /\ s = d
      /\ \A p, s : ThenOn(o, s) # GoOn(p) /\ ThenOn(o, s) # GoIn(p)
  BY Fields DEF IsPlan, ThenOn, GoOn, GoIn
<1>3. ASSUME NEW q, q \in Seq(AgendaCalls), Len(q) \in {2, 3}, \A i \in 1..Len(q) : \E s : q[i] = ThenOn(o, s),
             IsOr(o) => Len(q) = 3 /\ q[3] = ThenOn(o, o)
      PROVE  Orderly(Builder, q)
  <2>1. \A i \in 1..Len(q) : ~IsPlan(q[i])
    BY <1>2, <1>3
  <2>2. \A i \in 1..Len(q) : \A p : q[i] # GoOn(p) /\ q[i] # GoIn(p)
    BY <1>2, <1>3
  <2>3. ASSUME NEW i \in 1..Len(q), NEW p \in Outputs, NEW s \in Signals, q[i] = ThenOn(p, s), s # p, IsOr(p)
        PROVE  \E m \in (i + 1)..Len(q) : q[m] = ThenOn(p, p)
    <3>1. p = o
      BY <1>2, <1>3, <2>3
    <3>2. Len(q) = 3 /\ q[3] = ThenOn(p, p) /\ q[3] # q[i]
      BY <1>2, <1>3, <2>3, <3>1
    <3>3. i # 3 /\ 3 \in (i + 1)..Len(q)
      BY <3>2
    <3> QED
      BY <3>2, <3>3
  <2> QED
    BY <1>3, <2>1, <2>2, <2>3 DEF Orderly
<1>4. Orderly(Builder, <<ThenOn(o, l), ThenOn(o, r), ThenOn(o, o)>>)
  <2> DEFINE q == <<ThenOn(o, l), ThenOn(o, r), ThenOn(o, o)>>
  <2>1. q \in Seq(AgendaCalls) /\ Len(q) = 3 /\ q[1] = ThenOn(o, l) /\ q[2] = ThenOn(o, r) /\ q[3] = ThenOn(o, o)
    BY <1>1
  <2> HIDE DEF q
  <2>2. \A i \in 1..Len(q) : i = 1 \/ i = 2 \/ i = 3
    BY <2>1
  <2>3. \A i \in 1..Len(q) : \E s : q[i] = ThenOn(o, s)
    BY <2>1, <2>2
  <2>4. Orderly(Builder, q)
    BY <1>3, <2>1, <2>3
  <2> QED
    BY <2>4 DEF q
<1>5. ASSUME ~IsOr(o) PROVE Orderly(Builder, <<ThenOn(o, l), ThenOn(o, r)>>)
  <2> DEFINE q == <<ThenOn(o, l), ThenOn(o, r)>>
  <2>1. q \in Seq(AgendaCalls) /\ Len(q) = 2 /\ q[1] = ThenOn(o, l) /\ q[2] = ThenOn(o, r)
    BY <1>1
  <2> HIDE DEF q
  <2>2. \A i \in 1..Len(q) : i = 1 \/ i = 2
    BY <2>1
  <2>3. \A i \in 1..Len(q) : \E s : q[i] = ThenOn(o, s)
    BY <2>1, <2>2
  <2>4. Orderly(Builder, q)
    BY <1>3, <1>5, <2>1, <2>3
  <2> QED
    BY <2>4 DEF q
<1> QED
  BY <1>4, <1>5


\* A combination leaves the agendas in order,
LEMMA CombineStack ==
  ASSUME Inv, NEW t \in Threads, CombineShortcut(t) \/ CombineOr(t) \/ CombineAnd(t)
  PROVE  StackInv'
<1> DEFINE o == Out(t)
           l == Left(o)
           r == Right(o)
<1>1. At(t, "combine") /\ agenda[t] # <<>> /\ Head(agenda[t]).call = "combine"
  BY DEF CombineShortcut, CombineOr, CombineAnd, At
<1>2. Head(agenda[t]) = CombineOf(o) /\ o \in Outputs
  <2>1. Outs \subseteq Outputs
    BY ExprFacts DEF Inv, Types
  <2> QED
    BY <1>1, <2>1, CombineTop DEF Inv
<1>3. t = Builder
  <2>1. IsPlan(Head(agenda[t]))
    BY <1>1 DEF IsPlan
  <2> QED
    BY <1>1, <2>1, TopPlan DEF Inv
<1>4. "combine" # "assign" /\ Head(agenda[t]).call # "assign"
  BY <1>1
<1>5. Head(agenda[t]) # AssignIt
  BY <1>4, Fields DEF AssignIt
<1>6. CASE CombineShortcut(t)
  <2>1. PICK v : Shortcut(t, v)
    BY <1>6 DEF CombineShortcut
  <2> DEFINE d(x) == IF x = v THEN <<>> ELSE Drop(x)
  <2>2. Follow(t, d(l) \o d(r)) /\ expr' = expr /\ answer' = answer
    BY <2>1 DEF Shortcut
  <2>3. Plain(d(l)) /\ Plain(d(r))
    BY PlainOrder
  <2> HIDE DEF d
  <2>4. Plain(d(l) \o d(r))
    BY <2>3, PlainOrder
  <2> QED
    BY <1>1, <1>4, <2>2, <2>4, PlainStack
<1>7. CASE CombineOr(t)
  <2> DEFINE q == <<ThenOn(o, l), ThenOn(o, r), ThenOn(o, o)>>
  <2>1. /\ l \in Signals /\ r \in Signals /\ Follow(t, q \o Drop(l) \o Drop(r))
        /\ expr' = expr /\ answer' = answer
    BY <1>7 DEF CombineOr, ThenOn
  <2>2. Orderly(t, q)
    <3> HIDE DEF o, l, r
    <3> QED
      BY <1>2, <1>3, <2>1, ThensOrder
  <2> HIDE DEF q
  <2>3. Orderly(t, q \o Drop(l))
    BY <2>2, PlainOrder
  <2>4. Orderly(t, (q \o Drop(l)) \o Drop(r))
    BY <2>3, PlainOrder
  <2> QED
    BY <1>1, <1>5, <2>1, <2>4, FollowStack
<1>8. CASE CombineAnd(t)
  <2> DEFINE q == <<ThenOn(o, l), ThenOn(o, r)>>
  <2>1. /\ ~IsOr(o) /\ l \in Signals /\ r \in Signals /\ Follow(t, q \o Drop(l) \o Drop(r))
        /\ expr' = expr /\ answer' = answer
    BY <1>8 DEF CombineAnd, ThenOn, IsOr
  <2>2. Orderly(t, q)
    <3> HIDE DEF o, l, r
    <3> QED
      BY <1>2, <1>3, <2>1, ThensOrder
  <2> HIDE DEF q
  <2>3. Orderly(t, q \o Drop(l))
    BY <2>2, PlainOrder
  <2>4. Orderly(t, (q \o Drop(l)) \o Drop(r))
    BY <2>3, PlainOrder
  <2> QED
    BY <1>1, <1>5, <2>1, <2>4, FollowStack
<1> QED
  BY <1>6, <1>7, <1>8

\* so does a method of a signal,
LEMMA SignalStack ==
  ASSUME Inv, NEW t \in Threads,
         \/ ThenQueues(t) \/ ThenRuns(t) \/ GoFirst(t) \/ GoAgain(t) \/ RemoveThen(t) \/ Waited(t)
  PROVE  StackInv'
<1> DEFINE h == Head(agenda[t])
<1>1. /\ agenda[t] # <<>> /\ expr' = expr /\ answer' = answer
      /\ h.call \in {"then", "go", "remove_then", "wait"}
  BY DEF ThenQueues, ThenRuns, GoFirst, GoAgain, RemoveThen, Waited, At
<1>2. h.call # "assign" /\ h \in AgendaCalls /\ Pending(agenda, h) > 0
  BY <1>1, Top DEF Inv
<1>3. ASSUME NEW c \in JobCalls PROVE c.call \in {"fire", "done", "cleanup"}
  BY Fields DEF JobCalls, FireOf, DoneOf, CleanupOf
<1>4. ASSUME NEW q \in Seq(JobCalls) PROVE Plain(q)
  <2>1. q \in Seq(AgendaCalls)
    BY AgendaCallsAreCalls
  <2>2. \A i \in 1..Len(q) : q[i] \in JobCalls
    OBVIOUS
  <2> QED
    BY <1>3, <2>1, <2>2 DEF Plain
<1>5. CASE ThenQueues(t) \/ GoAgain(t) \/ RemoveThen(t) \/ Waited(t)
  <2>1. Follow(t, <<>>)
    BY <1>5 DEF ThenQueues, GoAgain, RemoveThen, Waited
  <2>2. Plain(<<>>)
    BY PlainOrder
  <2> QED
    BY <1>1, <1>2, <2>1, <2>2, PlainStack
<1>6. CASE ThenRuns(t)
  <2> DEFINE o == Out(t)
             s == On(t)
  <2>1. h.call = "then" /\ Follow(t, <<JobOf(o, s)>>)
    BY <1>6 DEF ThenRuns, At
  <2>2. o \in Outputs /\ s \in Signals /\ h = ThenOn(o, s)
    BY <1>2, <2>1, Kinds DEF Out, On
  <2> HIDE DEF o, s, h
  <2>3. JobOf(o, s) \in JobCalls
    BY <1>2, <2>2, JobsAre
  <2>4. <<JobOf(o, s)>> \in Seq(JobCalls)
    BY <2>3
  <2>5. Plain(<<JobOf(o, s)>>)
    BY <1>4, <2>4
  <2> QED
    BY <1>1, <1>2, <2>1, <2>5, PlainStack DEF h
<1>7. CASE GoFirst(t)
  <2> DEFINE s == On(t)
  <2>1. At(t, "go") /\ Follow(t, jobs[s])
    BY <1>7 DEF GoFirst
  <2>2. s \in Signals
    <3>1. Goes(h, s)
      BY <2>1, GoTop
    <3> QED
      BY <3>1 DEF Goes
  <2> HIDE DEF s
  <2>3. jobs[s] \in Seq(JobCalls)
    BY <2>2 DEF Inv, Types
  <2>4. Plain(jobs[s])
    BY <1>4, <2>3
  <2> QED
    BY <1>1, <1>2, <2>1, <2>4, PlainStack
<1> QED
  BY <1>5, <1>6, <1>7

\* and a method of a combination, or of the Future.
LEMMA MethodStack ==
  ASSUME Inv, NEW t \in Threads,
         \/ Fire(t) \/ Cleanup(t) \/ AndDone(t) \/ Unref(t) \/ Forget(t) \/ Assign(t) \/ Read(t)
  PROVE  StackInv'
<1> DEFINE h == Head(agenda[t])
           o == Out(t)
<1>1. agenda[t] # <<>> /\ h \in AgendaCalls /\ expr' = expr
  BY Top DEF Fire, Cleanup, AndDone, Unref, Forget, Assign, Read, At, Inv
<1>2. Plain(<<>>)
  BY PlainOrder
<1>3. CASE Fire(t)
  <2>1. h.call = "fire" /\ h.call # "assign" /\ answer' = answer
    BY <1>3 DEF Fire, At
  <2>2. o \in Outputs
    BY <1>1, <2>1, Kinds DEF Out
  <2>3. Follow(t, <<>>) \/ Follow(t, <<Do("go", o, o), Do("unref", o, Null)>>)
    BY <1>3 DEF Fire
  <2> HIDE DEF o
  <2> QED
    BY <1>1, <1>2, <2>1, <2>2, <2>3, PlainStack, GoOnStack
<1>4. CASE AndDone(t)
  <2>1. h.call = "done" /\ h.call # "assign" /\ answer' = answer
    BY <1>4 DEF AndDone, At
  <2>2. o \in Outputs
    BY <1>1, <2>1, Kinds DEF Out
  <2>3. Follow(t, <<>>) \/ Follow(t, <<Do("go", o, o), Do("unref", o, Null)>>)
    BY <1>4 DEF AndDone
  <2> HIDE DEF o
  <2> QED
    BY <1>1, <1>2, <2>1, <2>2, <2>3, PlainStack, GoOnStack
<1>5. CASE Cleanup(t)
  <2>1. h.call = "cleanup" /\ h.call # "assign" /\ answer' = answer
    BY <1>5 DEF Cleanup, At
  <2>2. o \in Outputs
    BY <1>1, <2>1, Kinds DEF Out
  <2>3. CASE deps[o] = <<>>
    <3>1. Follow(t, <<>>)
      BY <1>5, <2>3 DEF Cleanup
    <3> QED
      BY <1>1, <1>2, <2>1, <3>1, PlainStack
  <2>4. CASE deps[o] # <<>>
    <3> DEFINE l == Left(o)
               r == Right(o)
               q == <<RemoveOn(o, l), RemoveOn(o, r)>>
    <3>1. deps[o] = <<l, r>> /\ l \in Signals /\ r \in Signals
      <4>1. deps[o] = <<l, r>> /\ o \in Made
        BY <2>2, <2>4 DEF Inv, DepInv
      <4> QED
        BY <4>1 DEF Inv, MadeInv, Operands
    <3>2. Follow(t, q \o Drop(l) \o Drop(r))
      BY <1>5, <2>4, <3>1 DEF Cleanup, RemoveOn
    <3> HIDE DEF o, l, r
    <3>3. Plain(q)
      <4>1. RemoveOn(o, l) \in AgendaCalls /\ RemoveOn(o, r) \in AgendaCalls
        BY <2>2, <3>1 DEF AgendaCalls
      <4>2. RemoveOn(o, l).call = "remove_then" /\ RemoveOn(o, r).call = "remove_then"
        BY Fields DEF RemoveOn
      <4> QED
        BY <4>1, <4>2 DEF Plain
    <3> HIDE DEF q
    <3>4. Plain(q \o Drop(l))
      BY <3>3, PlainOrder
    <3>5. Plain((q \o Drop(l)) \o Drop(r))
      BY <3>4, PlainOrder
    <3> QED
      BY <1>1, <2>1, <3>2, <3>5, PlainStack
  <2> QED
    BY <2>3, <2>4
<1>6. CASE Unref(t)
  <2>1. h.call = "unref" /\ h.call # "assign" /\ answer' = answer
    BY <1>6 DEF Unref, At
  <2>2. o \in Outputs
    BY <1>1, <2>1, Kinds DEF Out
  <2>3. Follow(t, <<>>) \/ Follow(t, <<CleanupOf(o)>>)
    BY <1>6 DEF Unref, CleanupOf
  <2>4. Plain(<<CleanupOf(o)>>)
    <3>1. CleanupOf(o) \in AgendaCalls /\ CleanupOf(o).call = "cleanup"
      BY <2>2, Fields DEF AgendaCalls, JobCalls, CleanupOf
    <3> QED
      BY <3>1 DEF Plain
  <2> HIDE DEF o
  <2> QED
    BY <1>1, <1>2, <2>1, <2>3, <2>4, PlainStack
<1>7. CASE Forget(t)
  <2>1. h.call # "assign" /\ answer' = answer /\ Follow(t, Drop(value[o]))
    BY <1>7 DEF Forget, At
  <2>2. Plain(Drop(value[o]))
    BY PlainOrder
  <2> QED
    BY <1>1, <2>1, <2>2, PlainStack
<1>8. CASE Read(t)
  <2>1. h.call # "assign" /\ answer' = answer /\ Follow(t, <<>>)
    BY <1>8 DEF Read, At
  <2> QED
    BY <1>1, <1>2, <2>1, PlainStack
<1>9. CASE Assign(t)
  <2>1. Follow(t, <<>>) /\ answer' = "assigned"
    BY <1>9 DEF Assign
  <2>2. answer' # Null
    BY <2>1, CombinatorsAssumption
  <2>3. Orderly(t, <<>>)
    BY <1>2, PlainOrder
  <2> QED
    BY <1>1, <2>1, <2>2, <2>3, FollowStack
<1> QED
  BY <1>3, <1>4, <1>5, <1>6, <1>7, <1>8, <1>9

\* The Future is given its value before it is ready.
LEMMA TriggerStack ==
  ASSUME Inv, NEW t \in Triggers, NEW s \in Inputs, Trigger(t, s)
  PROVE  StackInv'
<1> DEFINE q == (IF s = Future THEN <<AssignIt>> ELSE <<>>) \o <<GoIn(s)>>
<1>1. /\ t \in Threads /\ agenda[t] = <<>> /\ agenda' = [agenda EXCEPT ![t] = q]
      /\ expr' = expr /\ answer' = answer
  BY DEF Trigger, Threads, AssignIt, GoIn
<1>2. /\ q \in Seq(AgendaCalls)
      /\ \A i \in 1..Len(q) : q[i] = GoIn(s) \/ q[i] = AssignIt
      /\ \A i \in 1..Len(q) : s = Future /\ q[i] = GoIn(s) => i > 1 /\ q[i - 1] = AssignIt
  <2>1. AssignIt \in AgendaCalls /\ GoIn(s) \in AgendaCalls
    BY DEF AgendaCalls
  <2>2. AssignIt # GoIn(s)
    BY Fields DEF AssignIt, GoIn
  <2>3. CASE s = Future
    <3>1. /\ q \in Seq(AgendaCalls) /\ Len(q) = 2 /\ q[1] = AssignIt /\ q[2] = GoIn(s)
      BY <2>1, <2>3
    <3> HIDE DEF q
    <3>2. \A i \in 1..Len(q) : i = 1 \/ i = 2
      BY <3>1
    <3> QED
      BY <2>2, <3>1, <3>2
  <2>4. CASE s # Future
    <3>1. /\ q \in Seq(AgendaCalls) /\ Len(q) = 1 /\ q[1] = GoIn(s)
      BY <2>1, <2>4
    <3> HIDE DEF q
    <3>2. \A i \in 1..Len(q) : i = 1
      BY <3>1
    <3> QED
      BY <2>4, <3>1, <3>2
  <2> QED
    BY <2>3, <2>4
<1> HIDE DEF q
<1>3. /\ ~IsPlan(AssignIt) /\ ~IsPlan(GoIn(s)) /\ AssignIt.call # "then" /\ GoIn(s).call # "then"
      /\ \A o \in Outputs : AssignIt # GoOn(o) /\ GoIn(s) # GoOn(o)
      /\ \A o, d : AssignIt # ThenOn(o, d) /\ GoIn(s) # ThenOn(o, d)
      /\ AssignIt # GoIn(Future) /\ (GoIn(s) = GoIn(Future) => s = Future)
  <2>1. Null \notin Outputs
    BY CombinatorsAssumption DEF Signals
  <2> QED
    BY <2>1, Fields DEF IsPlan, AssignIt, GoIn, GoOn, ThenOn
<1>4. \A i \in 1..Len(q) : ~IsPlan(q[i]) /\ q[i].call # "then" /\ \A o, d : q[i] # ThenOn(o, d)
  BY <1>2, <1>3
<1>5. \A i \in 1..Len(q) : \A o \in Outputs : q[i] # GoOn(o)
  BY <1>2, <1>3
<1>6. \A i \in 1..Len(q) : q[i] = GoIn(Future) => i > 1 /\ q[i - 1] = AssignIt
  BY <1>2, <1>3
<1>7. Orderly(t, q)
  BY <1>2, <1>4, <1>5, <1>6 DEF Orderly
<1>8. Types /\ StackInv /\ Stacks(agenda, AgendaCalls)
  BY DEF Inv, Types
<1>9. Puts(AgendaCalls, t, 0, q) /\ Len(agenda[t]) = 0
  BY <1>1, <1>2, <1>8, Begins
<1> QED
  BY <1>1, <1>7, <1>8, <1>9, PutsStack

\* The agendas stay in order.
LEMMA StackStep ==
  ASSUME Inv, Next
  PROVE  StackInv'
BY CombineStack, SignalStack, MethodStack, TriggerStack DEF Next, Step


-----------------------------------------------------------------------------
(***************************************************************************)
(* The initial states.                                                     *)
(***************************************************************************)
\* What the builder plans: to evaluate the combinations in turn, to wait, to
\* forget the result, and to read the value of a Future it waited for.
Planned(q, e) ==
    /\ q \in Seq(PlanCalls) /\ Len(q) \in Nat
    /\ \A i \in 1..Len(q) : i <= Len(e) => q[i] = CombineOf(e[i].out)
    /\ \A i \in 1..Len(q) : i > Len(e) => q[i] \in {WaitOf(Result(e)), ForgetOf(Result(e)), ReadOf(Result(e))}
    /\ \A i, k \in 1..Len(q) : i < k /\ k > Len(e) =>
          \/ i <= Len(e)
          \/ q[i] = WaitOf(Result(e)) /\ q[k] \in {ForgetOf(Result(e)), ReadOf(Result(e))}
          \/ q[i] = ForgetOf(Result(e)) /\ q[k] = ReadOf(Result(e))
    /\ Len(e) < Len(q) /\ \E i \in 1..Len(q) : q[i] = ForgetOf(Result(e))
    /\ \A i \in 1..Len(q) : q[i] = ReadOf(Result(e)) =>
          IsFutureWait(e) /\ \E k \in 1..Len(q) : q[k] = WaitOf(Result(e))

\* There is nothing else in the plan.
LEMMA PlanShape ==
  ASSUME NEW e \in Expressions, NEW waits \in BOOLEAN
  PROVE  Planned(Plan(e, waits), e)
<1> DEFINE m == Len(e)
           R == Result(e)
           c == [i \in DOMAIN e |-> CombineOf(e[i].out)]
           w == IF waits THEN <<WaitOf(R)>> ELSE <<>>
           f == <<ForgetOf(R)>>
           r == IF waits /\ IsFutureWait(e) THEN <<ReadOf(R)>> ELSE <<>>
           q1 == c \o w
           q2 == q1 \o f
           q3 == q2 \o r
<1>1. Plan(e, waits) = q3
  BY DEF Plan, CombineOf, WaitOf, ForgetOf, ReadOf
<1>2. e \in Seq(Combination) /\ e # <<>>
  BY CombinatorsAssumption
<1>3. m \in Nat \ {0} /\ DOMAIN e = 1..m /\ \A i \in 1..m : e[i].out \in Outputs
  <2>1. m \in Nat \ {0} /\ DOMAIN e = 1..m /\ \A i \in 1..m : e[i] \in Combination
    BY <1>2, EmptySeq, LenProperties
  <2> QED
    BY <2>1 DEF Combination
<1>4. R \in Outputs
  BY <1>3 DEF Result
<1>5. c \in Seq(PlanCalls) /\ Len(c) = m /\ \A i \in 1..m : c[i] = CombineOf(e[i].out)
  <2> HIDE DEF m
  <2> QED
    BY <1>3 DEF PlanCalls
<1>6. WaitOf(R) \in PlanCalls /\ ForgetOf(R) \in PlanCalls /\ ReadOf(R) \in PlanCalls
  BY <1>4 DEF PlanCalls
<1>7. /\ w \in Seq(PlanCalls) /\ Len(w) = (IF waits THEN 1 ELSE 0) /\ (waits => w[1] = WaitOf(R))
      /\ f \in Seq(PlanCalls) /\ Len(f) = 1 /\ f[1] = ForgetOf(R)
      /\ r \in Seq(PlanCalls) /\ Len(r) = (IF waits /\ IsFutureWait(e) THEN 1 ELSE 0)
      /\ (waits /\ IsFutureWait(e) => r[1] = ReadOf(R))
  <2> HIDE DEF R
  <2> QED
    BY <1>6
<1> HIDE DEF m, R, c, w, f, r
<1> DEFINE Joins(p, q, b) ==
             /\ b \in Seq(PlanCalls) /\ Len(b) = Len(p) + Len(q) /\ Len(p) \in Nat /\ Len(q) \in Nat
             /\ \A i \in 1..Len(p) : b[i] = p[i]
             /\ Len(q) > 0 => b[Len(p) + 1] = q[1]
<1>16. ASSUME NEW p \in Seq(PlanCalls), NEW q \in Seq(PlanCalls) PROVE Joins(p, q, p \o q)
  OBVIOUS
<1>17. Joins(c, w, q1)
  BY <1>5, <1>7, <1>16
<1>8. /\ q1 \in Seq(PlanCalls) /\ Len(q1) = m + Len(w)
      /\ \A i \in 1..m : q1[i] = CombineOf(e[i].out)
      /\ waits => q1[m + 1] = WaitOf(R)
  <2> HIDE DEF q1
  <2> QED
    BY <1>3, <1>5, <1>7, <1>17
<1> HIDE DEF q1
<1>9. /\ q2 \in Seq(PlanCalls) /\ Len(q2) = m + Len(w) + 1
      /\ \A i \in 1..m : q2[i] = CombineOf(e[i].out)
      /\ waits => q2[m + 1] = WaitOf(R)
      /\ q2[m + Len(w) + 1] = ForgetOf(R)
  <2>1. Joins(q1, f, q2)
    BY <1>7, <1>8, <1>16
  <2> HIDE DEF q2
  <2>2. \A i \in 1..Len(q1) : q2[i] = q1[i]
    BY <2>1
  <2>3. \A i \in 1..(m + 1) : i <= m \/ waits => i \in 1..Len(q1)
    BY <1>3, <1>7, <1>8
  <2>4. waits => q2[m + 1] = WaitOf(R)
    BY <1>3, <1>8, <2>2, <2>3
  <2> QED
    BY <1>3, <1>7, <1>8, <2>1, <2>2, <2>3, <2>4
<1> HIDE DEF q2
<1>10. /\ q3 \in Seq(PlanCalls) /\ Len(q3) = m + Len(w) + 1 + Len(r)
       /\ \A i \in 1..m : q3[i] = CombineOf(e[i].out)
       /\ waits => q3[m + 1] = WaitOf(R)
       /\ q3[m + Len(w) + 1] = ForgetOf(R)
       /\ waits /\ IsFutureWait(e) => q3[m + 3] = ReadOf(R)
  <2>1. Joins(q2, r, q3)
    BY <1>7, <1>9, <1>16
  <2> HIDE DEF q3
  <2>2. \A i \in 1..Len(q2) : q3[i] = q2[i]
    BY <2>1
  <2>3. /\ \A i \in 1..(m + 1) : i \in 1..Len(q2)
        /\ m + Len(w) + 1 \in 1..Len(q2)
    BY <1>3, <1>7, <1>9
  <2>4. waits => q3[m + 1] = WaitOf(R)
    BY <1>3, <1>9, <2>2, <2>3
  <2>5. ASSUME waits, IsFutureWait(e) PROVE q3[m + 3] = ReadOf(R)
    <3>1. Len(q2) + 1 = m + 3 /\ Len(r) = 1 /\ r[1] = ReadOf(R)
      BY <1>3, <1>7, <1>9, <2>5
    <3> QED
      BY <2>1, <3>1
  <2> QED
    BY <1>3, <1>7, <1>9, <2>1, <2>2, <2>3, <2>4, <2>5
<1> HIDE DEF q3
<1>11. R = Result(e) /\ m = Len(e)
  BY DEF R, m
<1>12. ForgetOf(R) # WaitOf(R) /\ ForgetOf(R) # ReadOf(R) /\ WaitOf(R) # ReadOf(R)
       /\ \A o : CombineOf(o) # ReadOf(R)
  BY Fields DEF ForgetOf, WaitOf, ReadOf, CombineOf
<1>13. CASE ~waits
  <2>1. Len(q3) = m + 1 /\ q3[m + 1] = ForgetOf(R)
    BY <1>3, <1>7, <1>10, <1>13
  <2>2. \A i \in 1..Len(q3) : i <= m \/ i = m + 1
    BY <1>3, <2>1
  <2>3. m + 1 \in 1..Len(q3)
    BY <1>3, <2>1
  <2> QED
    BY <1>1, <1>3, <1>10, <1>11, <1>12, <2>1, <2>2, <2>3 DEF Planned
<1>14. CASE waits /\ ~IsFutureWait(e)
  <2>1. Len(q3) = m + 2 /\ q3[m + 1] = WaitOf(R) /\ q3[m + 2] = ForgetOf(R)
    BY <1>3, <1>7, <1>10, <1>14
  <2>2. \A i \in 1..Len(q3) : i <= m \/ i = m + 1 \/ i = m + 2
    BY <1>3, <2>1
  <2>3. m + 2 \in 1..Len(q3)
    BY <1>3, <2>1
  <2> QED
    BY <1>1, <1>3, <1>10, <1>11, <1>12, <2>1, <2>2, <2>3 DEF Planned
<1>15. CASE waits /\ IsFutureWait(e)
  <2>1. Len(q3) = m + 3 /\ q3[m + 1] = WaitOf(R) /\ q3[m + 2] = ForgetOf(R) /\ q3[m + 3] = ReadOf(R)
    BY <1>3, <1>7, <1>10, <1>15
  <2>2. \A i \in 1..Len(q3) : i <= m \/ i = m + 1 \/ i = m + 2 \/ i = m + 3
    BY <1>3, <2>1
  <2>3. m + 1 \in 1..Len(q3) /\ m + 2 \in 1..Len(q3)
    BY <1>3, <2>1
  <2> QED
    BY <1>1, <1>3, <1>10, <1>11, <1>12, <1>15, <2>1, <2>2, <2>3 DEF Planned
<1> QED
  BY <1>13, <1>14, <1>15


\* At first the builder has its plan, and nobody has anything else to do.
Begun(q) == /\ Planned(q, expr) /\ expr \in Expressions
            /\ agenda = [t \in Threads |-> IF t = Builder THEN q ELSE <<>>]

\* What is pending is what is planned.
LEMMA BegunCounts ==
  ASSUME NEW q, Begun(q)
  PROVE  /\ Stacks(agenda, AgendaCalls)
         /\ \A c : /\ Pending(agenda, c) \in Nat
                   /\ Pending(agenda, c) > 0 <=> \E i \in 1..Len(q) : q[i] = c
                   /\ ~IsPlan(c) => Pending(agenda, c) = 0
<1> DEFINE n == Len(q)
<1>1. q \in Seq(PlanCalls) /\ n \in Nat /\ Builder \in Threads
  BY DEF Begun, Planned, Threads
<1>2. \A c \in PlanCalls : IsPlan(c) /\ c \in AgendaCalls
  BY Fields DEF PlanCalls, CombineOf, WaitOf, ForgetOf, ReadOf, IsPlan, AgendaCalls
<1>3. \A i \in 1..n : q[i] \in PlanCalls
  BY <1>1
<1>4. /\ agenda[Builder] = q
      /\ \A t \in Threads \ {Builder} : agenda[t] = <<>> /\ Len(agenda[t]) = 0
  BY <1>1 DEF Begun
<1>5. agenda \in [Threads -> Seq(AgendaCalls)]
  <2>1. PlanCalls \subseteq AgendaCalls
    BY <1>2
  <2>2. q \in Seq(AgendaCalls) /\ <<>> \in Seq(AgendaCalls)
    BY <1>1, <2>1
  <2> QED
    BY <2>2 DEF Begun
<1> HIDE DEF n
<1>6. Places(agenda) \subseteq {Builder} \X (1..n)
  <2> SUFFICES ASSUME NEW p \in Places(agenda) PROVE p \in {Builder} \X (1..n)
    OBVIOUS
  <2>1. p = <<p[1], p[2]>> /\ p[1] \in Threads /\ p[2] \in 1..Len(agenda[p[1]])
    BY DEF Places
  <2>2. p[1] = Builder
    BY <1>4, <2>1
  <2>3. p[2] \in 1..n
    BY <1>4, <2>1, <2>2 DEF n
  <2> QED
    BY <2>1, <2>2, <2>3
<1>7. IsFiniteSet(Places(agenda))
  <2>1. IsFiniteSet({Builder} \X (1..n))
    BY <1>1, ColumnFinite
  <2> QED
    BY <1>6, <2>1, FS_Subset
<1>8. Stacks(agenda, AgendaCalls)
  BY <1>5, <1>7 DEF Stacks
<1>9. ASSUME NEW c
      PROVE  /\ Pending(agenda, c) \in Nat
             /\ Pending(agenda, c) > 0 <=> \E i \in 1..n : q[i] = c
             /\ ~IsPlan(c) => Pending(agenda, c) = 0
  <2>1. /\ Pending(agenda, c) \in Nat
        /\ Pending(agenda, c) > 0 <=> \E t \in Threads : \E j \in 1..Len(agenda[t]) : Deep(agenda, t, j) = c
    BY <1>8, PendingType
  <2>2. ASSUME NEW t \in Threads, NEW j \in 1..Len(agenda[t]), Deep(agenda, t, j) = c
        PROVE  \E i \in 1..n : q[i] = c
    <3>1. t = Builder
      BY <1>4, <2>2
    <3>2. n + 1 - j \in 1..n /\ q[n + 1 - j] = c
      BY <1>1, <1>4, <2>2, <3>1 DEF Deep, n
    <3> QED
      BY <3>2
  <2>3. ASSUME NEW i \in 1..n, q[i] = c
        PROVE  \E t \in Threads : \E j \in 1..Len(agenda[t]) : Deep(agenda, t, j) = c
    <3>1. n + 1 - i \in 1..n /\ n + 1 - (n + 1 - i) = i
      BY <1>1
    <3>2. Deep(agenda, Builder, n + 1 - i) = c /\ n + 1 - i \in 1..Len(agenda[Builder])
      BY <1>4, <2>3, <3>1 DEF Deep, n
    <3> QED
      BY <1>1, <3>2
  <2>4. Pending(agenda, c) > 0 => IsPlan(c)
    BY <1>2, <1>3, <2>1, <2>2
  <2> QED
    BY <2>1, <2>2, <2>3, <2>4
<1> QED
  BY <1>8, <1>9 DEF n

\* The plan is in its order.
LEMMA BegunStack ==
  ASSUME NEW q, Begun(q)
  PROVE  StackInv
<1> DEFINE n == Len(q)
<1>1. /\ q \in Seq(PlanCalls) /\ n \in Nat /\ Builder \in Threads /\ agenda[Builder] = q
      /\ \A t \in Threads \ {Builder} : agenda[t] = <<>> /\ Len(agenda[t]) = 0
  BY DEF Begun, Planned, Threads
<1>2. \A c \in PlanCalls : /\ IsPlan(c) /\ c.call # "then"
                           /\ \A o, s : c # ThenOn(o, s)
                           /\ \A o : c # GoOn(o) /\ c # GoIn(o)
  BY Fields DEF PlanCalls, CombineOf, WaitOf, ForgetOf, ReadOf, IsPlan, ThenOn, GoOn, GoIn
<1>3. \A i \in 1..n : q[i] \in PlanCalls
  BY <1>1
<1> HIDE DEF n
<1>4. ASSUME NEW j \in 1..n PROVE n + 1 - j \in 1..n /\ Deep(agenda, Builder, j) = q[n + 1 - j]
  BY <1>1 DEF Deep, n
<1>5. ASSUME NEW t \in Threads, NEW j \in 1..Len(agenda[t])
      PROVE  t = Builder /\ j \in 1..n /\ Deep(agenda, t, j) \in PlanCalls
  <2>1. t = Builder
    BY <1>1
  <2>2. j \in 1..n
    BY <1>1, <2>1 DEF n
  <2> QED
    BY <1>3, <1>4, <2>1, <2>2
<1>6. ASSUME NEW i \in 1..n, NEW k \in 1..n, i < k PROVE Before(q[i], q[k])
  <2> DEFINE m == Len(expr)
             R == Result(expr)
  <2>1. DOMAIN expr = 1..m /\ m \in Nat
    BY ExprFacts DEF Begun
  <2>2. CASE k <= m
    <3>1. q[i] = CombineOf(expr[i].out) /\ q[k] = CombineOf(expr[k].out) /\ i \in DOMAIN expr /\ k \in DOMAIN expr
      BY <1>1, <1>6, <2>1, <2>2 DEF Begun, Planned, n
    <3>2. Earlier(expr[i].out, expr[k].out)
      BY <1>6, <3>1 DEF Earlier
    <3> QED
      BY <3>1, <3>2, Fields DEF Before, CombineOf
  <2>3. CASE k > m /\ i <= m
    <3>1. q[i] = CombineOf(expr[i].out) /\ q[k] \in {WaitOf(R), ForgetOf(R), ReadOf(R)}
      BY <1>1, <2>1, <2>3 DEF Begun, Planned, n
    <3> QED
      BY <3>1, Fields DEF Before, CombineOf, WaitOf, ForgetOf, ReadOf
  <2>4. CASE k > m /\ i > m
    <3>1. \/ q[i] = WaitOf(R) /\ q[k] \in {ForgetOf(R), ReadOf(R)}
          \/ q[i] = ForgetOf(R) /\ q[k] = ReadOf(R)
      <4>1. ~(i <= m)
        BY <2>1, <2>4
      <4> QED
        BY <1>6, <2>4, <4>1 DEF Begun, Planned, n
    <3> QED
      BY <3>1, Fields DEF Before, WaitOf, ForgetOf, ReadOf
  <2> QED
    BY <2>1, <2>2, <2>3, <2>4
<1>7. ASSUME NEW i \in 1..Len(agenda[Builder]), NEW j \in 1..Len(agenda[Builder]), i < j
      PROVE  Before(Deep(agenda, Builder, j), Deep(agenda, Builder, i))
  <2>1. i \in 1..n /\ j \in 1..n
    BY <1>1 DEF n
  <2>2. n + 1 - j \in 1..n /\ n + 1 - i \in 1..n /\ n + 1 - j < n + 1 - i
    BY <1>1, <1>7, <2>1
  <2>3. Before(q[n + 1 - j], q[n + 1 - i])
    BY <1>6, <2>2
  <2> QED
    BY <1>4, <2>1, <2>3
<1> QED
  BY <1>1, <1>2, <1>5, <1>7 DEF StackInv


\* Nothing is made yet, and nobody refers to anything.
LEMMA InitInv ==
  ASSUME Init
  PROVE  Inv
<1>1. PICK waits \in BOOLEAN :
         agenda = [t \in Threads |-> IF t = Builder THEN Plan(expr, waits) ELSE <<>>]
  BY DEF Init
<1> DEFINE q == Plan(expr, waits)
           R == Result(expr)
<1>2. expr \in Expressions
  BY DEF Init
<1>3. Begun(q)
  BY <1>1, <1>2, PlanShape DEF Begun
<1> HIDE DEF q
<1>4. /\ go = {Done} /\ jobs = [s \in Signals |-> <<>>] /\ value = [o \in Outputs |-> Null]
      /\ deps = [o \in Outputs |-> <<>>] /\ remaining = [o \in Outputs |-> 0]
      /\ refs = [o \in Outputs |-> 0] /\ answer = Null /\ returned = {}
  BY DEF Init
<1>5. /\ Null \notin Outputs /\ Done \notin Outputs /\ Done # Future /\ Done \in Signals /\ Outputs \subseteq Signals
  BY CombinatorsAssumption DEF Signals
<1>6. /\ Outs \subseteq Outputs /\ R \in Outs
      /\ Len(expr) \in Nat /\ DOMAIN expr = 1..Len(expr)
  BY <1>2, ExprFacts
<1>7. /\ \A o \in Outputs : value[o] = Null /\ deps[o] = <<>> /\ remaining[o] = 0 /\ refs[o] = 0
      /\ Made = {}
  BY <1>4, <1>5 DEF Made
<1>8. \A o : ~Held(o) /\ ~Kept(o) /\ \A s : o \in Outputs => ~DepOf(o, s)
  BY <1>6, <1>7 DEF Held, Kept, DepOf
<1>9. /\ Stacks(agenda, AgendaCalls)
      /\ \A c : /\ Pending(agenda, c) \in Nat
                /\ Pending(agenda, c) > 0 <=> \E i \in 1..Len(q) : q[i] = c
                /\ ~IsPlan(c) => Pending(agenda, c) = 0
  BY <1>3, BegunCounts
<1>10. \A o, s : /\ Pending(agenda, ThenOn(o, s)) = 0 /\ Pending(agenda, RemoveOn(o, s)) = 0
  <2>1. \A o, s : ~IsPlan(ThenOn(o, s)) /\ ~IsPlan(RemoveOn(o, s))
    BY Fields DEF IsPlan, ThenOn, RemoveOn
  <2> QED
    BY <1>9, <2>1
<1>11. \A o : /\ Pending(agenda, GoOn(o)) = 0 /\ Pending(agenda, FireOf(o)) = 0 /\ Pending(agenda, DoneOf(o)) = 0
              /\ Pending(agenda, CleanupOf(o)) = 0 /\ Pending(agenda, UnrefOf(o)) = 0
  <2>1. \A o : ~IsPlan(GoOn(o)) /\ ~IsPlan(FireOf(o)) /\ ~IsPlan(DoneOf(o)) /\ ~IsPlan(CleanupOf(o)) /\ ~IsPlan(UnrefOf(o))
    BY Fields DEF IsPlan, GoOn, FireOf, DoneOf, CleanupOf, UnrefOf
  <2> QED
    BY <1>9, <2>1
<1>12. \A s \in Signals : jobs[s] = <<>> /\ \A c : Occ(jobs[s], c) = 0
  BY <1>4, OccShort
<1>13. \A o : (Pending(agenda, CombineOf(o)) > 0 <=> o \in Outs)
  <2> SUFFICES ASSUME NEW o PROVE (\E i \in 1..Len(q) : q[i] = CombineOf(o)) <=> o \in Outs
    BY <1>9
  <2>1. \A p : CombineOf(o) # WaitOf(p) /\ CombineOf(o) # ForgetOf(p) /\ CombineOf(o) # ReadOf(p)
        /\ (CombineOf(p) = CombineOf(o) => p = o)
    BY Fields DEF CombineOf, WaitOf, ForgetOf, ReadOf
  <2>2. ASSUME NEW i \in 1..Len(q), q[i] = CombineOf(o) PROVE o \in Outs
    <3>1. i <= Len(expr)
      BY <1>3, <1>6, <2>1, <2>2 DEF Begun, Planned
    <3>2. q[i] = CombineOf(expr[i].out) /\ i \in DOMAIN expr
      BY <1>3, <1>6, <3>1 DEF Begun, Planned
    <3> QED
      BY <2>1, <2>2, <3>2 DEF Outs
  <2>3. ASSUME o \in Outs PROVE \E i \in 1..Len(q) : q[i] = CombineOf(o)
    <3>1. PICK i \in DOMAIN expr : o = expr[i].out
      BY <2>3 DEF Outs
    <3>2. i \in 1..Len(q) /\ i <= Len(expr)
      BY <1>3, <1>6 DEF Begun, Planned
    <3> QED
      BY <1>3, <3>1, <3>2 DEF Begun, Planned
  <2> QED
    BY <2>2, <2>3
<1>14. /\ Pending(agenda, ForgetOf(R)) > 0
       /\ \A o : Pending(agenda, WaitOf(o)) > 0 \/ Pending(agenda, ForgetOf(o)) > 0
                    \/ Pending(agenda, ReadOf(o)) > 0 => o = R
       /\ \A o : Pending(agenda, ReadOf(o)) > 0 => IsFutureWait(expr) /\ Pending(agenda, WaitOf(o)) > 0
  <2>1. \A o, p : /\ CombineOf(o) # WaitOf(p) /\ CombineOf(o) # ForgetOf(p) /\ CombineOf(o) # ReadOf(p)
                  /\ WaitOf(o) # ForgetOf(p) /\ WaitOf(o) # ReadOf(p) /\ ForgetOf(o) # ReadOf(p)
                  /\ (WaitOf(o) = WaitOf(p) => o = p) /\ (ForgetOf(o) = ForgetOf(p) => o = p)
                  /\ (ReadOf(o) = ReadOf(p) => o = p)
    BY Fields DEF CombineOf, WaitOf, ForgetOf, ReadOf
  <2>2. \A i \in 1..Len(q) : \/ q[i] \in {WaitOf(R), ForgetOf(R), ReadOf(R)}
                             \/ \E p : q[i] = CombineOf(p)
    <3> SUFFICES ASSUME NEW i \in 1..Len(q) PROVE q[i] \in {WaitOf(R), ForgetOf(R), ReadOf(R)} \/ \E p : q[i] = CombineOf(p)
      OBVIOUS
    <3>1. i <= Len(expr) \/ i > Len(expr)
      BY <1>3, <1>6 DEF Begun, Planned
    <3> QED
      BY <1>3, <3>1 DEF Begun, Planned
  <2>3. ASSUME NEW o, NEW c \in {WaitOf(o), ForgetOf(o), ReadOf(o)}, Pending(agenda, c) > 0
        PROVE  o = R
    <3>1. PICK i \in 1..Len(q) : q[i] = c
      BY <1>9, <2>3
    <3>2. \A p : c # CombineOf(p)
      BY <2>1
    <3>3. c \in {WaitOf(R), ForgetOf(R), ReadOf(R)}
      BY <2>2, <3>1, <3>2
    <3> QED
      BY <2>1, <3>3
  <2>4. Pending(agenda, ForgetOf(R)) > 0
    <3>1. \E i \in 1..Len(q) : q[i] = ForgetOf(R)
      BY <1>3 DEF Begun, Planned
    <3> QED
      BY <1>9, <3>1
  <2>5. Pending(agenda, ReadOf(R)) > 0 => IsFutureWait(expr) /\ Pending(agenda, WaitOf(R)) > 0
    <3>1. \A i \in 1..Len(q) : q[i] = ReadOf(R) => IsFutureWait(expr) /\ \E k \in 1..Len(q) : q[k] = WaitOf(R)
      BY <1>3 DEF Begun, Planned
    <3> QED
      BY <1>9, <3>1
  <2> QED
    BY <2>3, <2>4, <2>5
<1>15. Types
  <2>1. <<>> \in Seq(JobCalls) /\ <<>> \in Seq(Signals)
    OBVIOUS
  <2> QED
    BY <1>2, <1>4, <1>5, <1>9, <2>1 DEF Types
<1>16. StackInv
  BY <1>3, BegunStack
<1>17. PlanInv
  <2>1. Forgets
    BY <1>6, <1>14 DEF Forgets
  <2> QED
    BY <1>7, <1>13, <1>14, <2>1 DEF PlanInv
<1>18. MadeInv /\ CallInv /\ JobInv
  <2>1. MadeInv
    BY <1>5, <1>7 DEF MadeInv
  <2>2. CallInv
    BY <1>10, <1>11 DEF CallInv
  <2>3. JobInv
    BY <1>4, <1>5, <1>12 DEF JobInv
  <2> QED
    BY <2>1, <2>2, <2>3
<1>19. GoInv /\ DepInv /\ UniqueInv
  <2>1. GoInv
    BY <1>4, <1>5 DEF GoInv
  <2>2. DepInv
    BY <1>7 DEF DepInv
  <2>3. UniqueInv
    BY <1>6, <1>8 DEF UniqueInv
  <2> QED
    BY <2>1, <2>2, <2>3
<1>20. RefInv
  BY <1>7, <1>8, <1>11 DEF RefInv, Bit
<1>21. AndInv /\ OrInv
  BY <1>7 DEF AndInv, OrInv
<1>22. FutureInv
  BY <1>4, <1>5, <1>6, <1>7, <1>14 DEF FutureInv
<1> QED
  BY <1>15, <1>16, <1>17, <1>18, <1>19, <1>20, <1>21, <1>22 DEF Inv

\* Every step keeps the invariant.
LEMMA NextInv ==
  ASSUME Inv, [Next]_vars
  PROVE  Inv'
<1>1. CASE Next
  <2>1. Does
    BY <1>1, NextDoes
  <2> QED
    BY <1>1, <2>1, TypesStep, StackStep, PlanStep, MadeStep, CallStep, JobStep, GoStep, DepStep, UniqueStep,
       RefStep, AndStep, OrStep, FutureStep DEF Inv
<1>2. CASE UNCHANGED vars
  <2>1. /\ expr' = expr /\ go' = go /\ jobs' = jobs /\ value' = value /\ deps' = deps /\ remaining' = remaining
        /\ refs' = refs /\ agenda' = agenda /\ answer' = answer /\ returned' = returned
    BY <1>2 DEF vars
  <2>2. /\ Made' = Made /\ Outs' = Outs /\ (Forgets' <=> Forgets) /\ Result(expr)' = Result(expr)
        /\ \A o : Term(o)' = Term(o) /\ IsOr(o)' = IsOr(o) /\ Terms(o)' = Terms(o)
        /\ \A o : Left(o)' = Left(o) /\ Right(o)' = Right(o) /\ Operands(o)' = Operands(o)
        /\ \A o, s : Mult(o, s)' = Mult(o, s)
        /\ (IsFutureWait(expr))' = IsFutureWait(expr)
    BY <2>1, SameTerms, SameOperands DEF Forgets
  <2>3. /\ \A o : (Held(o)' <=> Held(o)) /\ (Kept(o)' <=> Kept(o)) /\ (Asked(o)' <=> Asked(o))
        /\ \A o, s : (DepOf(o, s)' <=> DepOf(o, s)) /\ Slot(o, s)' = Slot(o, s)
    <3>1. \A o : (Held(o)' <=> Held(o)) /\ (Asked(o)' <=> Asked(o))
      BY <2>1, <2>2 DEF Held, Asked
    <3>2. \A o, s : (DepOf(o, s)' <=> DepOf(o, s)) /\ Slot(o, s)' = Slot(o, s)
      BY <2>1, <2>2 DEF DepOf, Slot
    <3> QED
      BY <2>1, <2>2, <3>1, <3>2 DEF Kept
  <2>4. Types'
    BY <2>1 DEF Inv, Types
  <2>5. StackInv'
    BY <1>2 DEF Inv, StackInv, Before, Earlier, IsOr, Term, vars
  <2>6. PlanInv'
    BY <2>1, <2>2 DEF Inv, PlanInv
  <2>7. MadeInv'
    BY <2>1, <2>2 DEF Inv, MadeInv
  <2>8. CallInv'
    BY <2>1, <2>2, <2>3 DEF Inv, CallInv
  <2>9. JobInv'
    BY <2>1, <2>2 DEF Inv, JobInv
  <2>10. GoInv'
    BY <2>1, <2>2, <2>3 DEF Inv, GoInv
  <2>11. DepInv'
    BY <2>1, <2>2 DEF Inv, DepInv
  <2>12. UniqueInv'
    BY <2>1, <2>2, <2>3 DEF Inv, UniqueInv
  <2>13. RefInv'
    BY <2>1, <2>3 DEF Inv, RefInv, Bit
  <2>14. AndInv'
    BY <2>1, <2>2, <2>3 DEF Inv, AndInv
  <2>15. OrInv'
    BY <2>1, <2>2 DEF Inv, OrInv
  <2>16. FutureInv'
    BY <2>1, <2>2 DEF Inv, FutureInv
  <2> QED
    BY <2>4, <2>5, <2>6, <2>7, <2>8, <2>9, <2>10, <2>11, <2>12, <2>13, <2>14, <2>15, <2>16 DEF Inv
<1> QED
  BY <1>1, <1>2


-----------------------------------------------------------------------------
(***************************************************************************)
(* What follows from it.                                                   *)
(***************************************************************************)
\* When all is quiet, only the builder has something left to do.
LEMMA QuietPlan ==
  ASSUME Inv, Quiet, NEW c, ~IsPlan(c)
  PROVE  Pending(agenda, c) = 0
<1>1. Stacks(agenda, AgendaCalls) /\ StackInv /\ Types
  BY DEF Inv, Types
<1>2. Pending(agenda, c) \in Nat
  BY <1>1, PendingType
<1>3. ASSUME NEW t \in Threads, NEW j \in 1..Len(agenda[t]), Deep(agenda, t, j) = c
      PROVE  FALSE
  <2> DEFINE n == Len(agenda[t])
  <2>1. agenda[t] # <<>>
    BY <1>3
  <2>2. n \in Nat \ {0} /\ Deep(agenda, t, n) = Head(agenda[t])
    BY <1>1, <2>1, Top
  <2>3. IsPlan(Deep(agenda, t, n))
    BY <2>1, <2>2 DEF Quiet, At, IsPlan
  <2>4. n \in 1..n /\ (j = n \/ j < n)
    <3>1. j \in 1..n
      OBVIOUS
    <3> HIDE DEF n
    <3> QED
      BY <2>2, <3>1
  <2>5. t = Builder
    BY <1>1, <2>3, <2>4 DEF StackInv
  <2>6. IsPlan(Deep(agenda, t, j))
    BY <1>1, <2>3, <2>4, <2>5 DEF StackInv
  <2> QED
    BY <1>3, <2>6
<1> QED
  BY <1>1, <1>2, <1>3, PendingType

\* Nothing is under way for a combination.
LEMMA QuietCalls ==
  ASSUME Inv, Quiet
  PROVE  /\ \A o, s : Pending(agenda, ThenOn(o, s)) = 0 /\ Pending(agenda, RemoveOn(o, s)) = 0
         /\ \A o : /\ Pending(agenda, GoOn(o)) = 0 /\ Pending(agenda, FireOf(o)) = 0
                   /\ Pending(agenda, DoneOf(o)) = 0 /\ Pending(agenda, CleanupOf(o)) = 0
<1>1. /\ \A o, s : ~IsPlan(ThenOn(o, s)) /\ ~IsPlan(RemoveOn(o, s))
      /\ \A o : ~IsPlan(GoOn(o)) /\ ~IsPlan(FireOf(o)) /\ ~IsPlan(DoneOf(o)) /\ ~IsPlan(CleanupOf(o))
  BY Fields DEF IsPlan, ThenOn, RemoveOn, GoOn, FireOf, DoneOf, CleanupOf
<1> QED
  BY <1>1, QuietPlan

\* An output is activated when its operands ask for it, and only then.
LEMMA InvExact ==
  ASSUME Inv
  PROVE  OutputExact
<1> SUFFICES ASSUME NEW o \in Made
             PROVE  /\ o \in go => Asked(o)
                    /\ Quiet /\ refs[o] > 0 /\ Asked(o) => o \in go
  BY DEF OutputExact
<1>1. o \in Outputs
  BY DEF Made
<1>2. o \in go => Asked(o)
  BY <1>1 DEF Inv, GoInv
<1>3. ASSUME Quiet, refs[o] > 0, Asked(o) PROVE o \in go
  <2>1. /\ \A s : Pending(agenda, ThenOn(o, s)) = 0
        /\ Pending(agenda, GoOn(o)) = 0 /\ Pending(agenda, FireOf(o)) = 0 /\ Pending(agenda, DoneOf(o)) = 0
    BY <1>3, QuietCalls
  <2>2. CASE IsOr(o)
    <3>1. PICK d \in Operands(o) : d \in go
      BY <1>3, <2>2 DEF Asked, Operands
    <3>2. \/ o \in go \/ refs[o] = 0 \/ Pending(agenda, GoOn(o)) > 0
          \/ Pending(agenda, FireOf(o)) > 0 \/ Pending(agenda, ThenOn(o, d)) > 0
      BY <2>2, <3>1 DEF Inv, OrInv
    <3> QED
      BY <1>3, <2>1, <3>2
  <2>3. CASE ~IsOr(o)
    <3> DEFINE l == Left(o)
               r == Right(o)
    <3>1. l \in go /\ r \in go
      BY <1>3, <2>3 DEF Asked
    <3>2. l \in Signals /\ r \in Signals
      BY DEF Inv, MadeInv, Operands
    <3>3. /\ remaining[o] = Pending(agenda, DoneOf(o)) + Slot(o, l) + (IF r = l THEN 0 ELSE Slot(o, r))
          /\ remaining[o] = 0 => o \in go \/ Pending(agenda, GoOn(o)) > 0
      BY <2>3, <3>2 DEF Inv, AndInv
    <3>4. Slot(o, l) = 0 /\ Slot(o, r) = 0
      BY <2>1, <3>1 DEF Slot
    <3> HIDE DEF l, r
    <3> QED
      BY <2>1, <3>3, <3>4
  <2> QED
    BY <2>2, <2>3
<1> QED
  BY <1>2, <1>3

\* An OrSignal that is done with is in no queue.
LEMMA InvNothing ==
  ASSUME Inv
  PROVE  NothingLeft
<1> SUFFICES ASSUME Quiet, NEW o \in Made, NEW s \in Signals, IsOr(o), o \in go \/ refs[o] = 0,
                    NEW i \in DOMAIN jobs[s], jobs[s][i].out = o
             PROVE  FALSE
  BY DEF NothingLeft
<1>1. o \in Outputs
  BY DEF Made
<1>2. jobs[s] \in Seq(JobCalls) /\ s \notin go
  <2>1. jobs[s] \in Seq(JobCalls)
    BY DEF Inv, Types
  <2>2. s \in go => jobs[s] = <<>>
    BY DEF Inv, JobInv
  <2> QED
    BY <2>1, <2>2
<1>3. jobs[s][i] \in {FireOf(o), DoneOf(o), CleanupOf(o)}
  <2>1. jobs[s][i] \in JobCalls
    BY <1>2
  <2> QED
    BY <2>1, Fields DEF JobCalls, FireOf, DoneOf, CleanupOf
<1>4. Occ(jobs[s], jobs[s][i]) > 0
  BY <1>2, OccType
<1>5. /\ Pending(agenda, RemoveOn(o, s)) = 0 /\ Pending(agenda, CleanupOf(o)) = 0
      /\ Pending(agenda, ThenOn(o, o)) = 0
  BY QuietCalls
<1>6. CASE jobs[s][i] = FireOf(o)
  <2>1. s \in Operands(o)
    BY <1>1, <1>4, <1>6 DEF Inv, JobInv
  <2>2. deps[o] = <<>>
    BY <1>5 DEF Inv, OrInv
  <2>3. Occ(jobs[s], FireOf(o)) <= Pending(agenda, RemoveOn(o, s))
    BY <1>2, <2>1, <2>2 DEF Inv, OrInv
  <2>4. Occ(jobs[s], FireOf(o)) \in Nat
    BY <1>2, OccType
  <2> QED
    BY <1>4, <1>5, <1>6, <2>3, <2>4
<1>7. CASE jobs[s][i] = DoneOf(o)
  BY <1>1, <1>4, <1>7 DEF Inv, JobInv
<1>8. CASE jobs[s][i] = CleanupOf(o)
  <2>1. s = o /\ refs[o] > 0
    BY <1>1, <1>4, <1>8 DEF Inv, JobInv
  <2> QED
    BY <1>2, <2>1
<1> QED
  BY <1>3, <1>6, <1>7, <1>8

\* The invariant of the combinations holds in every behaviour.
THEOREM CombinatorsInvariant == Spec => []Inv
<1>1. Init => Inv
  BY InitInv
<1>2. Inv /\ [Next]_vars => Inv'
  BY NextInv
<1> QED
  BY <1>1, <1>2, PTL DEF Spec

\* The variables of the combinations keep their types: the counter of an
\* AndSignals stays within 0..2 and no reference count falls below zero
\* (signals.py:254-259).
THEOREM CombinatorsTypes == Spec => []TypeOK
<1>1. Inv => TypeOK
  <2> SUFFICES ASSUME Inv PROVE TypeOK
    OBVIOUS
  <2>1. Types /\ Stacks(agenda, AgendaCalls)
    BY DEF Inv, Types
  <2>2. AgendaCalls \subseteq Calls /\ JobCalls \subseteq Calls
    BY AgendaCallsAreCalls
  <2>3. jobs \in [Signals -> Seq(Calls)]
    <3>1. \A q \in Seq(JobCalls) : q \in Seq(Calls)
      BY <2>2
    <3> QED
      BY <2>1, <3>1 DEF Types
  <2>4. agenda \in [Threads -> Seq(Calls)]
    <3>1. \A q \in Seq(AgendaCalls) : q \in Seq(Calls)
      BY <2>2
    <3> QED
      BY <2>1, <3>1 DEF Stacks
  <2> QED
    BY <2>1, <2>3, <2>4 DEF Types, TypeOK
<1> QED
  BY <1>1, CombinatorsInvariant, PTL

\* However many combinations an expression has and however many threads
\* activate its inputs, an output is activated when, and only when, its
\* operands ask for it.
THEOREM CombinatorsExact == Spec => []OutputExact
<1>1. Inv => OutputExact
  BY InvExact
<1> QED
  BY <1>1, CombinatorsInvariant, PTL

\* And an OrSignal that was activated or freed leaves nothing in the queues of
\* its operands, however long these live.
THEOREM CombinatorsNothingLeft == Spec => []NothingLeft
<1>1. Inv => NothingLeft
  BY InvNothing
<1> QED
  BY <1>1, CombinatorsInvariant, PTL

\* Future.wait(till) gets the value unless the till was activated, or is True.
THEOREM CombinatorsFuture == Spec => []FutureAnswers
<1>1. Inv => FutureAnswers
  BY DEF Inv, FutureInv, FutureAnswers
<1> QED
  BY <1>1, CombinatorsInvariant, PTL

-----------------------------------------------------------------------------
(***************************************************************************)
(* Till, for any timers, delays and bounds on the time: the daemon has     *)
(* every Till that was entered in one of its hands, and while its loop     *)
(* runs it activates none before its time, and none later than one         *)
(* INTERVAL after it.                                                      *)
(***************************************************************************)
Ending == {"disable", "drain", "flush", "ended"}

\* The lists hold nothing but Tills that were entered, and the values the
\* daemon goes by are where it looks for them.
Entered == /\ state \in [Timers -> {"none", "made", "entering", "live", "done"}]
           /\ DOMAIN deadline = Timers
           /\ newTimers \cup sorted \cup work \cup fired \cup collected \cup lost \subseteq Live
           /\ pc \in DaemonPCs

\* `work` is used up before it is computed again, and a go() that raises ends
\* the loop.
WorkDone == /\ pc \notin {"lower", "fire", "flush"} => work = {}
            /\ lost # {} => pc \in Ending

\* What is about to be activated in the loop is due.
WorkDue == pc \in {"lower", "fire"} => \A x \in work : Due(x)

TillInv == Entered /\ WorkDone /\ WorkDue /\ Tracked

\* Nothing is entered at first.
LEMMA InitTillInv == TillInit => TillInv
  BY DEF TillInit, TillInv, Entered, WorkDone, WorkDue, Tracked, Live, DaemonPCs

\* Every step of a creator, of the daemon and of time keeps the invariant.
LEMMA NextTillInv == TillInv /\ [TillNext]_tillVars => TillInv'
<1> SUFFICES ASSUME TillInv, [TillNext]_tillVars
             PROVE  TillInv'
  OBVIOUS
<1> USE DEF TillInv, Entered, WorkDone, WorkDue, Tracked, Live, DaemonPCs, Ending, Due, creation
<1>1. ASSUME NEW x \in Timers, NEW d \in Delays, New(x, d)
      PROVE  TillInv'
  <2>1. Live' = Live
    <3>1. state[x] = "none" /\ state' \in {[state EXCEPT ![x] = "done"], [state EXCEPT ![x] = "made"]}
      BY <1>1 DEF New
    <3> QED
      BY <3>1
  <2>2. \A y \in Live : deadline'[y] = deadline[y]
    <3>1. \A y \in Live : y \in DOMAIN deadline /\ y # x
      BY <1>1 DEF New
    <3>2. deadline' \in {deadline, [deadline EXCEPT ![x] = now + d]}
      BY <1>1 DEF New
    <3> QED
      BY <3>1, <3>2
  <2>3. Entered'
    BY <1>1, <2>1 DEF New
  <2>4. WorkDone' /\ Tracked'
    BY <1>1, <2>1 DEF New
  <2>5. WorkDue'
    BY <1>1, <2>2 DEF New
  <2> QED
    BY <2>3, <2>4, <2>5
<1>14. ASSUME NEW x \in Timers, Enter(x)
      PROVE  TillInv'
  <2>1. Live' = Live /\ state' \in [Timers -> {"none", "made", "entering", "live", "done"}]
    BY <1>14 DEF Enter
  <2>2. UNCHANGED <<now, newTimers, deadline, fired, collected, pc, sorted, work, lost>>
    BY <1>14 DEF Enter
  <2> QED
    BY <2>1, <2>2
<1>2. ASSUME NEW x \in Timers, Register(x)
      PROVE  TillInv'
  <2>1. Live' = Live \cup {x} /\ x \notin Live
    BY <1>2 DEF Register
  <2>2. Entered'
    BY <1>2, <2>1 DEF Register
  <2>3. WorkDone' /\ WorkDue'
    BY <1>2 DEF Register
  <2>4. Tracked'
    BY <1>2, <2>1 DEF Register
  <2> QED
    BY <2>2, <2>3, <2>4
<1>3. ASSUME NEW x \in Timers, Collect(x)
      PROVE  TillInv'
  BY <1>3 DEF Collect
<1>4. CASE AskToStop
  BY <1>4 DEF AskToStop
<1>5. CASE Start \/ Loop \/ WakeUp
  BY <1>5 DEF Start, Loop, WakeUp
<1>6. CASE TakeNew
  BY <1>6 DEF TakeNew
<1>7. CASE Split
  <2>1. /\ work = {} /\ lost = {}
        /\ work' \cup sorted' = sorted /\ work' \cap sorted' = {}
        /\ \A x \in work' : Due(x)
        /\ pc' \in {"lower", "fire"}
    BY <1>7 DEF Split
  <2>2. UNCHANGED <<now, newTimers, creation, fired, collected, lost>>
    BY <1>7 DEF Split
  <2>3. Entered' /\ WorkDone'
    BY <2>1, <2>2
  <2>4. WorkDue'
    BY <2>1, <2>2
  <2>5. Tracked'
    BY <2>1, <2>2
  <2> QED
    BY <2>3, <2>4, <2>5
<1>8. CASE LowerPing \/ FireDone
  BY <1>8 DEF LowerPing, FireDone
<1>9. CASE FireOne
  <2>1. PICK x \in work :
           /\ fired' = IF x \in collected THEN fired ELSE fired \cup {x}
           /\ \/ /\ x \in Faulty \ collected
                 /\ lost' = work \ {x}
                 /\ work' = {}
                 /\ pc' = "disable"
              \/ /\ x \notin Faulty \ collected
                 /\ work' = work \ {x}
                 /\ UNCHANGED <<pc, lost>>
    BY <1>9 DEF FireOne
  <2>2. pc = "fire" /\ lost = {} /\ UNCHANGED <<now, newTimers, creation, collected, sorted>>
    BY <1>9 DEF FireOne
  <2>3. CASE x \in Faulty \ collected
    BY <2>1, <2>2, <2>3
  <2>4. CASE x \notin Faulty \ collected
    BY <2>1, <2>2, <2>4
  <2> QED
    BY <2>3, <2>4
<1>10. CASE Disable \/ Drain
  BY <1>10 DEF Disable, Drain
<1>11. CASE FlushOne
  <2>1. PICK x \in work :
           /\ fired' = IF x \in collected THEN fired ELSE fired \cup {x}
           /\ \/ /\ x \in Faulty \ collected
                 /\ lost' = lost \cup (work \ {x})
                 /\ work' = {}
              \/ /\ x \notin Faulty \ collected
                 /\ work' = work \ {x}
                 /\ UNCHANGED lost
    BY <1>11 DEF FlushOne
  <2>2. pc = "flush" /\ UNCHANGED <<pc, now, newTimers, creation, collected, sorted>>
    BY <1>11 DEF FlushOne
  <2>3. CASE x \in Faulty \ collected
    BY <2>1, <2>2, <2>3
  <2>4. CASE x \notin Faulty \ collected
    BY <2>1, <2>2, <2>4
  <2> QED
    BY <2>3, <2>4
<1>12. CASE End \/ Tick
  BY <1>12 DEF End, Tick
<1>13. CASE UNCHANGED tillVars
  BY <1>13 DEF tillVars
<1> QED
  BY <1>1, <1>2, <1>3, <1>4, <1>5, <1>6, <1>7, <1>8, <1>9, <1>10, <1>11, <1>12, <1>13, <1>14
     DEF TillNext, Daemon

\* A Till that was entered is in exactly one list of the daemon until it is
\* activated or collected, or dropped by a go() that raised, whatever is
\* created meanwhile (till.py:80-83, 107-128, 147-150).
THEOREM TillsTracked == TillSpec => []Tracked
<1>1. TillInv => Tracked
  BY DEF TillInv
<1> QED
  BY <1>1, InitTillInv, NextTillInv, PTL DEF TillSpec

\* The loop activates no Till before its deadline (till.py:119-128, 137-139),
\* the deadline being that of the Till when it is activated.
THEOREM NoneFiresEarly == TillSpec => NeverEarly
<1>1. TillInv /\ [TillNext]_tillVars => [\A x \in fired' \ fired : pc = "fire" => deadline[x] <= now]_tillVars
  <2> SUFFICES ASSUME TillInv, TillNext, pc = "fire", NEW x \in fired' \ fired
               PROVE  deadline[x] <= now
    BY DEF tillVars
  <2>1. FireOne
    BY DEF TillNext, Daemon, New, Enter, Register, Collect, AskToStop, Start, Loop, WakeUp, TakeNew, Split,
           LowerPing, FireDone, Disable, Drain, FlushOne, End, Tick
  <2>2. x \in work /\ x \notin collected
    BY <2>1 DEF FireOne
  <2> QED
    BY <2>2 DEF TillInv, WorkDue, Due
<1> QED
  BY <1>1, InitTillInv, NextTillInv, PTL DEF TillSpec, NeverEarly
-----------------------------------------------------------------------------
(***************************************************************************)
(* NeverLate: how long the daemon may sleep.                               *)
(***************************************************************************)
\* The latest moment a Till may still be waiting.
Latest(x) == MaxOf(deadline[x], appended[x]) + INTERVAL

Waiting == Live \ (fired \cup collected)

\* The time p is early enough for whatever is in the lists when the daemon
\* goes by it.  While it separates what is due, only the Tills entered in
\* between are, and these were entered just now.
Covers(p) ==
    /\ pc \in {"loop", "sleep", "take", "fire"} =>
          \A x \in newTimers \cup sorted : p <= Latest(x)
    /\ pc \in {"split", "lower"} => p <= now + INTERVAL

\* So is next_ping, before and after the unlocked update that lowers it.
PingInv ==
    /\ Covers(nextPing)
    /\ pc \in {"split", "lower"} => \A x \in newTimers : appended[x] = now
    /\ pc = "lower" => /\ seen <= now + INTERVAL
                       /\ \A x \in sorted : seen <= deadline[x] /\ now <= deadline[x]

\* And what the one creator who holds the locker is about to write into it.
EnterInv ==
    \A x \in Timers : state[x] = "entering" =>
        /\ lowered <= deadline[x]
        /\ Covers(lowered)
        /\ \A y \in Timers : state[y] = "entering" => y = x

\* No sleep is longer than one INTERVAL, or than a Till can wait.
SleepInv == pc = "sleep" => /\ wakeAt <= now + INTERVAL
                            /\ \A x \in Waiting : wakeAt <= Latest(x)

\* No Till is entered before the daemon has enabled the timers.
StartInv == pc = "start" => /\ ~enabled
                            /\ newTimers = {} /\ sorted = {}
                            /\ \A x \in Timers : state[x] \notin {"made", "entering"}

LateInv == TillTypeOK /\ StartInv /\ PingInv /\ EnterInv /\ SleepInv /\ NeverLate

\* A set of natural numbers that is not empty has a first element.
LEMMA MinNat ==
  ASSUME NEW S, S \subseteq Nat, S # {}
  PROVE  Min(S) \in S /\ \A y \in S : Min(S) <= y
<1>1. \E x \in S : \A y \in S : ~(<<y, x>> \in OpToRel(<, Nat))
  BY NatLessThanWellFounded, WFMin
<1>2. PICK x \in S : \A y \in S : ~(<<y, x>> \in OpToRel(<, Nat))
  BY <1>1
<1>3. ASSUME NEW y \in S
      PROVE  x <= y
  <2>1. <<y, x>> \in Nat \X Nat /\ x \in Nat /\ y \in Nat
    BY <1>2
  <2>2. ~(y < x)
    BY <1>2, <2>1 DEF OpToRel
  <2> QED
    BY <2>1, <2>2
<1> QED
  BY <1>2, <1>3 DEF Min

\* Where the Tills that still wait are when the daemon has no work in hand.
LEMMA WaitingListed ==
  ASSUME TillInv, pc \notin {"lower", "fire"} \cup Ending
  PROVE  Waiting \subseteq newTimers \cup sorted
  BY DEF TillInv, WorkDone, Tracked, Waiting, Ending

\* The latest moments are numbers.
LEMMA LatestType ==
  ASSUME TillTypeOK, NEW x \in Timers
  PROVE  /\ deadline[x] \in Nat /\ appended[x] \in Nat /\ Latest(x) \in Nat
         /\ deadline[x] + INTERVAL <= Latest(x)
         /\ appended[x] + INTERVAL <= Latest(x)
  BY TillAssumption DEF TillTypeOK, Latest, MaxOf, TillAssumption

\* No time has passed, and no sleep has begun.
LEMMA InitLateInv == TillInit => LateInv
<1> SUFFICES ASSUME TillInit PROVE LateInv
  OBVIOUS
<1> USE TillAssumption DEF TillAssumption, TillInit
<1>0. enabled \in BOOLEAN /\ stop \in BOOLEAN
  OBVIOUS
<1>1. TillTypeOK
  BY <1>0 DEF TillTypeOK, DaemonPCs
<1>2. StartInv /\ PingInv /\ EnterInv /\ SleepInv
  BY DEF StartInv, PingInv, EnterInv, SleepInv, Covers
<1>3. NeverLate
  BY DEF NeverLate, Live
<1> QED
  BY <1>1, <1>2, <1>3 DEF LateInv

\* Every step keeps the types.
LEMMA NextType == TillTypeOK /\ [TillNext]_tillVars => TillTypeOK'
<1> SUFFICES ASSUME TillTypeOK, [TillNext]_tillVars
             PROVE  TillTypeOK'
  OBVIOUS
<1> USE TillAssumption DEF TillAssumption, TillTypeOK, DaemonPCs, creation
<1>1. ASSUME NEW x \in Timers, NEW d \in Delays, New(x, d)
      PROVE  TillTypeOK'
  BY <1>1 DEF New
<1>2. ASSUME NEW x \in Timers, Enter(x) \/ Register(x)
      PROVE  TillTypeOK'
  BY <1>2 DEF Enter, Register, MinOf
<1>3. ASSUME NEW x \in Timers, Collect(x)
      PROVE  TillTypeOK'
  BY <1>3 DEF Collect
<1>4. CASE AskToStop
  BY <1>4 DEF AskToStop
<1>13. CASE Start
  <2>1. enabled' \in BOOLEAN
    BY <1>13 DEF Start
  <2> QED
    BY <1>13, <2>1 DEF Start
<1>5. CASE WakeUp \/ LowerPing \/ FireDone
  BY <1>5 DEF WakeUp, LowerPing, FireDone
<1>6. CASE Loop
  BY <1>6 DEF Loop, MinOf
<1>7. CASE TakeNew
  BY <1>7 DEF TakeNew
<1>8. CASE Split
  <2>1. work' \subseteq Timers /\ sorted' \subseteq Timers /\ pc' \in {"fire", "lower"}
    BY <1>8 DEF Split
  <2>2. seen' \in Int
    <3>1. CASE sorted' = {}
      BY <1>8, <3>1 DEF Split
    <3>2. CASE sorted' # {}
      <4>1. seen' = MinOf(nextPing, Min({deadline[x] : x \in sorted'}))
        BY <1>8, <3>2 DEF Split
      <4>2. Min({deadline[x] : x \in sorted'}) \in Nat
        <5>1. {deadline[x] : x \in sorted'} \subseteq Nat /\ {deadline[x] : x \in sorted'} # {}
          BY <2>1, <3>2
        <5> QED
          BY <5>1, MinNat
      <4> QED
        BY <4>1, <4>2 DEF MinOf
    <3> QED
      BY <3>1, <3>2
  <2> QED
    BY <1>8, <2>1, <2>2 DEF Split
<1>9. CASE FireOne \/ FlushOne
  BY <1>9 DEF FireOne, FlushOne
<1>10. CASE Disable \/ Drain \/ End
  BY <1>10 DEF Disable, Drain, End
<1>11. CASE Tick
  BY <1>11 DEF Tick
<1>12. CASE UNCHANGED tillVars
  BY <1>12 DEF tillVars
<1> QED
  BY <1>1, <1>2, <1>3, <1>4, <1>5, <1>6, <1>7, <1>8, <1>9, <1>10, <1>11, <1>12, <1>13
     DEF TillNext, Daemon

\* Nothing is entered before the daemon has enabled the timers.
LEMMA NextStart == TillTypeOK /\ StartInv /\ [TillNext]_tillVars => StartInv'
<1> SUFFICES ASSUME TillTypeOK, StartInv, [TillNext]_tillVars, pc' = "start"
             PROVE  StartInv'
  BY DEF StartInv
<1>1. pc = "start"
  BY DEF TillNext, Daemon, New, Enter, Register, Collect, AskToStop, Start, Loop, WakeUp, TakeNew, Split,
         LowerPing, FireOne, FireDone, Disable, Drain, FlushOne, End, Tick, tillVars
<1>2. ~enabled /\ newTimers = {} /\ sorted = {}
      /\ \A x \in Timers : state[x] \notin {"made", "entering"}
  BY <1>1 DEF StartInv
<1>3. ASSUME NEW x \in Timers, NEW d \in Delays, New(x, d)
      PROVE  StartInv'
  <2>1. UNCHANGED <<enabled, newTimers, sorted>> /\ state' = [state EXCEPT ![x] = "done"]
    BY <1>2, <1>3 DEF New
  <2> QED
    BY <1>2, <2>1 DEF StartInv, TillTypeOK
<1>4. ASSUME NEW x \in Timers, Enter(x) \/ Register(x)
      PROVE  StartInv'
  BY <1>2, <1>4 DEF Enter, Register
<1>5. UNCHANGED <<enabled, newTimers, sorted, state>> => StartInv'
  BY <1>2 DEF StartInv
<1> QED
  BY <1>1, <1>3, <1>4, <1>5
     DEF TillNext, Daemon, Collect, AskToStop, Start, Loop, WakeUp, TakeNew, Split, LowerPing,
         FireOne, FireDone, Disable, Drain, FlushOne, End, Tick, tillVars, creation

\* Every step keeps to the times.
LEMMA NextLateInv == TillInv /\ LateInv /\ [TillNext]_tillVars => LateInv'
<1> SUFFICES ASSUME TillInv, LateInv, [TillNext]_tillVars
             PROVE  PingInv' /\ EnterInv' /\ SleepInv' /\ NeverLate'
  BY NextType, NextStart DEF LateInv
<1> USE TillAssumption DEF TillAssumption
<1>t. TillTypeOK /\ TillTypeOK' /\ now \in Nat /\ now' \in Nat /\ nextPing \in Int
  BY NextType DEF LateInv, TillTypeOK
<1>w. newTimers \cup sorted \cup work \subseteq Live
  BY DEF TillInv, Entered
<1>i. PingInv /\ EnterInv /\ SleepInv /\ NeverLate
  BY DEF LateInv
<1>l. NeverLate <=> (pc \notin Ending => \A x \in Waiting : now <= Latest(x))
  BY DEF NeverLate, Ending, Waiting, Latest
<1>m. NeverLate' <=> (pc' \notin Ending => \A x \in Waiting' : now' <= Latest(x)')
  BY DEF NeverLate, Ending, Waiting, Latest
\* A step that enters no Till and leaves the times alone.
<1>s. ASSUME UNCHANGED <<now, state, deadline, appended>>,
             fired \subseteq fired', collected \subseteq collected',
             pc' \notin Ending => pc \notin Ending
      PROVE  NeverLate' /\ (\A x : Latest(x)' = Latest(x)) /\ Waiting' \subseteq Waiting
  <2>1. \A x : Latest(x)' = Latest(x)
    BY <1>s DEF Latest
  <2>2. Waiting' \subseteq Waiting
    BY <1>s DEF Waiting, Live
  <2> QED
    BY <1>s, <1>i, <1>l, <1>m, <2>1, <2>2
\* A step that leaves the lists as well.
<1>e. ASSUME UNCHANGED <<now, state, deadline, appended, lowered, newTimers, sorted>>,
             pc' \notin Ending => pc \notin Ending,
             pc' \in {"loop", "sleep", "take", "fire"} => pc \in {"loop", "sleep", "take", "fire"},
             pc' \in {"split", "lower"} => pc \in {"split", "lower"}
      PROVE  EnterInv'
  <2>1. Covers(lowered) => Covers(lowered)'
    BY <1>e DEF Covers, Latest
  <2> QED
    BY <1>e, <1>i, <2>1 DEF EnterInv
<1>1. ASSUME NEW x \in Timers, NEW d \in Delays, New(x, d)
      PROVE  PingInv' /\ EnterInv' /\ SleepInv' /\ NeverLate'
  <2>1. /\ UNCHANGED <<now, nextPing, newTimers, lowered, appended, fired, collected, pc, wakeAt, seen, sorted>>
        /\ state[x] = "none"
        /\ state' \in {[state EXCEPT ![x] = "done"], [state EXCEPT ![x] = "made"]}
        /\ deadline' \in {deadline, [deadline EXCEPT ![x] = now + d]}
    BY <1>1 DEF New
  <2>2. \A y \in Live : y # x /\ y \in Timers
    BY <2>1 DEF Live
  <2>3. Live' = Live
    BY <1>t, <2>1 DEF Live, TillTypeOK
  <2>4. \A y \in Live : deadline'[y] = deadline[y]
    BY <1>t, <2>1, <2>2 DEF TillTypeOK
  <2>5. \A y \in Live : Latest(y)' = Latest(y)
    BY <2>1, <2>4 DEF Latest
  <2>6. Waiting' = Waiting /\ Waiting \subseteq Live
    BY <2>1, <2>3 DEF Waiting
  <2>7. PingInv'
    BY <1>i, <1>w, <2>1, <2>4, <2>5 DEF PingInv, Covers
  <2>8. SleepInv'
    BY <1>i, <2>1, <2>5, <2>6 DEF SleepInv
  <2>9. NeverLate'
    BY <1>i, <1>l, <1>m, <2>1, <2>5, <2>6
  <2>10. EnterInv'
    <3> SUFFICES ASSUME NEW y \in Timers, state'[y] = "entering"
                 PROVE  /\ lowered' <= deadline'[y]
                        /\ Covers(lowered)'
                        /\ \A z \in Timers : state'[z] = "entering" => z = y
      BY DEF EnterInv
    <3>1. y # x /\ state[y] = "entering" /\ \A z \in Timers : state'[z] = "entering" => state[z] = "entering"
      BY <1>t, <2>1 DEF TillTypeOK
    <3>2. deadline'[y] = deadline[y]
      BY <1>t, <2>1, <3>1 DEF TillTypeOK
    <3>3. lowered <= deadline[y] /\ Covers(lowered) /\ \A z \in Timers : state[z] = "entering" => z = y
      BY <1>i, <3>1 DEF EnterInv
    <3>4. Covers(lowered)'
      BY <1>w, <2>1, <2>5, <3>3 DEF Covers
    <3> QED
      BY <2>1, <3>1, <3>2, <3>3, <3>4
  <2> QED
    BY <2>7, <2>8, <2>9, <2>10
<1>15. ASSUME NEW x \in Timers, Enter(x)
      PROVE  PingInv' /\ EnterInv' /\ SleepInv' /\ NeverLate'
  <2>1. /\ UNCHANGED <<now, nextPing, newTimers, deadline, appended, fired, collected, pc, wakeAt, seen, sorted>>
        /\ state[x] = "made" /\ state' = [state EXCEPT ![x] = "entering"]
        /\ \A y \in Timers : state[y] # "entering"
        /\ lowered' = MinOf(nextPing, deadline[x])
    BY <1>15 DEF Enter, Free
  <2>2. Live' = Live /\ Waiting' = Waiting
    BY <1>t, <2>1 DEF Live, Waiting, TillTypeOK
  <2>3. \A y : Latest(y)' = Latest(y)
    BY <2>1 DEF Latest
  <2>4. PingInv' /\ SleepInv' /\ NeverLate'
    BY <1>i, <1>l, <1>m, <2>1, <2>2, <2>3 DEF PingInv, Covers, SleepInv
  <2>5. deadline[x] \in Nat /\ lowered' \in Int /\ lowered' <= nextPing /\ lowered' <= deadline[x]
    BY <1>t, <2>1 DEF MinOf, TillTypeOK
  <2>6. \A y \in newTimers \cup sorted : Latest(y) \in Nat
    BY <1>t, <1>w, LatestType DEF Live
  <2>7. Covers(nextPing)
    BY <1>i DEF PingInv
  <2>8. Covers(lowered)'
    <3>1. CASE pc \in {"loop", "sleep", "take", "fire"}
      <4>1. \A y \in newTimers \cup sorted : lowered' <= Latest(y)
        BY <1>t, <2>5, <2>6, <2>7, <3>1 DEF Covers
      <4> QED
        BY <2>1, <2>3, <3>1, <4>1 DEF Covers
    <3>2. CASE pc \in {"split", "lower"}
      <4>1. lowered' <= now + INTERVAL
        BY <1>t, <2>5, <2>7, <3>2 DEF Covers
      <4> QED
        BY <2>1, <3>2, <4>1 DEF Covers
    <3>3. CASE pc \notin {"loop", "sleep", "take", "fire", "split", "lower"}
      BY <2>1, <3>3 DEF Covers
    <3> QED
      BY <3>1, <3>2, <3>3
  <2>9. \A y \in Timers : state'[y] = "entering" => y = x
    BY <1>t, <2>1 DEF TillTypeOK
  <2>10. EnterInv'
    BY <2>1, <2>5, <2>8, <2>9 DEF EnterInv
  <2> QED
    BY <2>4, <2>10
<1>2. ASSUME NEW x \in Timers, Register(x)
      PROVE  PingInv' /\ EnterInv' /\ SleepInv' /\ NeverLate'
  <2>1. /\ UNCHANGED <<now, deadline, fired, collected, pc, wakeAt, seen, sorted, work>>
        /\ state[x] = "entering" /\ state' = [state EXCEPT ![x] = "live"]
        /\ nextPing' = lowered
        /\ newTimers' = newTimers \cup {x}
        /\ appended' = [appended EXCEPT ![x] = now]
    BY <1>2 DEF Register
  <2>2. x \notin Live /\ Live' = Live \cup {x}
    BY <1>t, <2>1 DEF Live, TillTypeOK
  <2>3. appended'[x] = now /\ \A y \in Timers \ {x} : appended'[y] = appended[y]
    BY <1>t, <2>1 DEF TillTypeOK
  <2>4. \A y \in Live : Latest(y)' = Latest(y) /\ appended'[y] = appended[y]
    BY <2>1, <2>2, <2>3 DEF Latest, Live
  <2>5. /\ deadline[x] \in Nat /\ Latest(x)' \in Nat
        /\ deadline[x] + INTERVAL <= Latest(x)' /\ now + INTERVAL <= Latest(x)'
    <3>1. /\ deadline'[x] \in Nat /\ Latest(x)' \in Nat
          /\ deadline'[x] + INTERVAL <= Latest(x)' /\ appended'[x] + INTERVAL <= Latest(x)'
      BY <1>t DEF TillTypeOK, Latest, MaxOf
    <3> QED
      BY <2>1, <2>3, <3>1
  <2>6. nextPing' \in Int /\ nextPing' <= deadline[x]
    BY <1>i, <1>t, <2>1 DEF EnterInv, TillTypeOK
  <2>7. \A y \in Live : Latest(y) \in Nat
    BY <1>t, LatestType DEF Live
  <2>8. Waiting' \subseteq Waiting \cup {x} /\ Waiting \subseteq Live
    BY <2>1, <2>2 DEF Waiting
  <2>9. INTERVAL \in Nat /\ now' = now
    BY <2>1
  <2>10. PingInv'
    <3>0. Covers(lowered)
      BY <1>i, <2>1 DEF EnterInv
    <3>1. CASE pc \in {"loop", "sleep", "take", "fire"}
      <4>1. \A y \in newTimers \cup sorted : lowered <= Latest(y)
        BY <3>0, <3>1 DEF Covers
      <4>2. \A y \in newTimers \cup sorted : nextPing' <= Latest(y)'
        BY <1>w, <2>1, <2>4, <4>1
      <4>3. nextPing' <= Latest(x)'
        BY <2>5, <2>6, <2>9
      <4> QED
        BY <2>1, <3>1, <4>2, <4>3 DEF PingInv, Covers
    <3>2. CASE pc \in {"split", "lower"}
      <4>1. lowered <= now + INTERVAL
        BY <3>0, <3>2 DEF Covers
      <4>2. \A y \in newTimers' : appended'[y] = now
        BY <1>i, <1>w, <2>1, <2>3, <2>4, <3>2 DEF PingInv
      <4>3. pc = "lower" => /\ seen <= now + INTERVAL
                            /\ \A y \in sorted : seen <= deadline[y] /\ now <= deadline[y]
        BY <1>i DEF PingInv
      <4> QED
        BY <2>1, <3>2, <4>1, <4>2, <4>3 DEF PingInv, Covers
    <3>4. CASE pc \notin {"loop", "sleep", "take", "fire", "split", "lower"}
      BY <2>1, <3>4 DEF PingInv, Covers
    <3> QED
      BY <3>1, <3>2, <3>4
  <2>11. SleepInv'
    <3>1. SUFFICES ASSUME pc = "sleep"
                   PROVE  wakeAt <= now + INTERVAL /\ \A y \in Waiting' : wakeAt <= Latest(y)'
      BY <2>1 DEF SleepInv
    <3>2. wakeAt <= now + INTERVAL /\ wakeAt \in Int /\ \A y \in Waiting : wakeAt <= Latest(y)
      BY <1>i, <1>t, <3>1 DEF SleepInv, TillTypeOK
    <3>3. wakeAt <= Latest(x)'
      BY <1>t, <2>5, <2>9, <3>2
    <3> QED
      BY <2>4, <2>8, <3>2, <3>3
  <2>12. NeverLate'
    <3>1. now <= Latest(x)'
      BY <1>t, <2>5, <2>9
    <3> QED
      BY <1>i, <1>l, <1>m, <2>1, <2>4, <2>8, <3>1
  <2>13. EnterInv'
    <3>1. \A y \in Timers : state'[y] # "entering"
      BY <1>i, <1>t, <2>1 DEF EnterInv, TillTypeOK
    <3> QED
      BY <3>1 DEF EnterInv
  <2> QED
    BY <2>10, <2>11, <2>12, <2>13
<1>3. ASSUME NEW x \in Timers, Collect(x)
      PROVE  PingInv' /\ EnterInv' /\ SleepInv' /\ NeverLate'
  <2>1. /\ UNCHANGED <<now, state, deadline, appended, lowered, nextPing, newTimers, fired, pc, wakeAt, seen, sorted>>
        /\ collected \subseteq collected'
    BY <1>3 DEF Collect, creation
  <2> QED
    BY <1>e, <1>i, <1>s, <2>1 DEF PingInv, Covers, SleepInv
<1>4. CASE AskToStop
  BY <1>4, <1>e, <1>i, <1>s DEF AskToStop, creation, PingInv, Covers, SleepInv
<1>5. CASE Start
  <2>1. /\ UNCHANGED <<now, state, deadline, appended, newTimers, fired, collected, sorted>>
        /\ pc = "start" /\ pc' = "loop"
    BY <1>5 DEF Start, creation
  <2>2. newTimers = {} /\ sorted = {} /\ \A x \in Timers : state[x] # "entering"
    BY <2>1 DEF LateInv, StartInv
  <2>3. NeverLate'
    BY <1>s, <2>1 DEF Ending
  <2>4. EnterInv'
    BY <2>1, <2>2 DEF EnterInv
  <2> QED
    BY <2>1, <2>2, <2>3, <2>4 DEF PingInv, Covers, SleepInv
<1>6. CASE Loop
  <2>1. UNCHANGED <<now, state, deadline, appended, lowered, nextPing, newTimers, fired, collected, seen, sorted>> /\ pc = "loop"
    BY <1>6 DEF Loop, creation
  <2>5. EnterInv'
    <3>1. Covers(lowered) => Covers(lowered)'
      BY <1>6, <2>1 DEF Loop, Covers, Latest
    <3> QED
      BY <1>i, <2>1, <3>1 DEF EnterInv
  <2>2. CASE pc' = "disable"
    BY <1>m, <2>2, <2>5 DEF PingInv, Covers, SleepInv, Ending
  <2>3. CASE pc' = "take"
    <3>1. NeverLate'
      BY <1>s, <2>1, <2>3 DEF Ending
    <3>2. \A x : Latest(x)' = Latest(x)
      BY <1>s, <2>1, <2>3 DEF Ending
    <3> QED
      BY <1>i, <2>1, <2>3, <2>5, <3>1, <3>2 DEF PingInv, Covers, SleepInv
  <2>4. CASE pc' = "sleep"
    <3>1. wakeAt' = now + MinOf(nextPing - now, INTERVAL)
      BY <1>6, <2>4 DEF Loop
    <3>2. wakeAt' \in Int /\ wakeAt' <= now + INTERVAL /\ wakeAt' <= nextPing
      BY <1>t, <3>1 DEF MinOf
    <3>3. NeverLate' /\ Waiting' \subseteq Waiting /\ \A x : Latest(x)' = Latest(x)
      BY <1>s, <2>1, <2>4 DEF Ending
    <3>4. Waiting \subseteq newTimers \cup sorted
      BY <2>1, WaitingListed DEF Ending
    <3>5. \A x \in newTimers \cup sorted : nextPing <= Latest(x) /\ Latest(x) \in Nat
      BY <1>i, <1>t, <1>w, <2>1, LatestType DEF PingInv, Covers, Live
    <3>6. \A x \in Waiting' : wakeAt' <= Latest(x)'
      BY <1>t, <3>2, <3>3, <3>4, <3>5
    <3> QED
      BY <2>1, <2>4, <2>5, <3>2, <3>3, <3>5, <3>6 DEF PingInv, Covers, SleepInv
  <2> QED
    BY <1>6, <2>2, <2>3, <2>4 DEF Loop
<1>7. CASE WakeUp \/ FireDone
  <2>1. /\ UNCHANGED <<now, state, deadline, appended, lowered, nextPing, newTimers, fired, collected, seen, sorted>>
        /\ pc \in {"sleep", "fire"} /\ pc' = "loop"
    BY <1>7 DEF WakeUp, FireDone, creation
  <2>2. NeverLate' /\ \A x : Latest(x)' = Latest(x)
    BY <1>s, <2>1 DEF Ending
  <2>3. EnterInv'
    BY <1>e, <2>1 DEF Ending
  <2> QED
    BY <1>i, <2>1, <2>2, <2>3 DEF PingInv, Covers, SleepInv
<1>8. CASE TakeNew
  <2>1. /\ UNCHANGED <<now, state, deadline, appended, fired, collected>>
        /\ nextPing' = now + INTERVAL /\ newTimers' = {} /\ pc = "take" /\ pc' = "split"
        /\ \A x \in Timers : state[x] # "entering"
    BY <1>8 DEF TakeNew, creation, Free
  <2>2. NeverLate'
    BY <1>s, <2>1 DEF Ending
  <2>3. EnterInv'
    BY <2>1 DEF EnterInv
  <2> QED
    BY <1>t, <2>1, <2>2, <2>3 DEF PingInv, Covers, SleepInv
<1>9. CASE Split
  <2>1. /\ UNCHANGED <<now, state, deadline, appended, lowered, nextPing, newTimers, fired, collected>>
        /\ pc = "split" /\ sorted' \subseteq sorted /\ \A x \in sorted' : ~Due(x)
    BY <1>9 DEF Split, creation
  <2>2. /\ nextPing <= now + INTERVAL
        /\ \A x \in newTimers : appended[x] = now
    BY <1>i, <2>1 DEF PingInv, Covers
  <2>5. \A p \in Int : p <= now + INTERVAL => \A x \in newTimers : p <= Latest(x)
    <3> SUFFICES ASSUME NEW p \in Int, p <= now + INTERVAL, NEW x \in newTimers
                 PROVE  p <= Latest(x)
      OBVIOUS
    <3>1. Latest(x) \in Nat /\ appended[x] + INTERVAL <= Latest(x) /\ appended[x] = now
      BY <1>t, <1>w, <2>2, LatestType DEF Live
    <3> QED
      BY <1>t, <3>1
  <2>3. CASE sorted' = {}
    <3>1. pc' = "fire"
      BY <1>9, <2>3 DEF Split
    <3>2. NeverLate' /\ \A x : Latest(x)' = Latest(x)
      BY <1>s, <2>1, <3>1 DEF Ending
    <3>3. PingInv'
      BY <1>t, <2>1, <2>2, <2>3, <2>5, <3>1, <3>2 DEF PingInv, Covers
    <3>4. Covers(lowered) => Covers(lowered)'
      BY <1>t, <2>1, <2>3, <2>5, <3>1, <3>2 DEF Covers, TillTypeOK
    <3>5. EnterInv'
      BY <1>i, <2>1, <3>4 DEF EnterInv
    <3> QED
      BY <3>1, <3>2, <3>3, <3>5 DEF SleepInv
  <2>4. CASE sorted' # {}
    <3>1. pc' = "lower" /\ seen' = MinOf(nextPing, Min({deadline[x] : x \in sorted'}))
      BY <1>9, <2>4 DEF Split
    <3>2. NeverLate'
      BY <1>s, <2>1, <3>1 DEF Ending
    <3> DEFINE times == {deadline[x] : x \in sorted'}
    <3>3. times \subseteq Nat /\ times # {}
      BY <1>t, <2>1, <2>4 DEF TillTypeOK
    <3> HIDE DEF times
    <3>4. Min(times) \in Nat /\ \A k \in times : Min(times) <= k
      BY <3>3, MinNat
    <3>5. \A x \in sorted' : deadline[x] \in times /\ deadline[x] \in Nat
      BY <3>3 DEF times
    <3>6. seen' \in Int /\ seen' <= nextPing /\ seen' <= Min(times)
      BY <1>t, <3>1, <3>4 DEF MinOf, times
    <3>7. \A x \in sorted' : seen' <= deadline[x]
      BY <3>4, <3>5, <3>6
    <3>8. seen' <= now + INTERVAL
      BY <1>t, <2>2, <3>6
    <3>9. \A x \in sorted' : now <= deadline[x]
      BY <1>t, <2>1, <3>5 DEF Due
    <3>10. PingInv'
      BY <2>1, <2>2, <3>1, <3>7, <3>8, <3>9 DEF PingInv, Covers
    <3>11. Covers(lowered) => Covers(lowered)'
      BY <2>1, <3>1 DEF Covers
    <3>12. EnterInv'
      BY <1>i, <2>1, <3>11 DEF EnterInv
    <3> QED
      BY <3>1, <3>2, <3>10, <3>12 DEF SleepInv
  <2> QED
    BY <2>3, <2>4
<1>10. CASE LowerPing
  <2>1. /\ UNCHANGED <<now, state, deadline, appended, lowered, newTimers, fired, collected, sorted>>
        /\ nextPing' = seen /\ pc = "lower" /\ pc' = "fire"
    BY <1>10 DEF LowerPing, creation
  <2>2. NeverLate' /\ \A x : Latest(x)' = Latest(x)
    BY <1>s, <2>1 DEF Ending
  <2>3. /\ seen <= now + INTERVAL /\ seen \in Int
        /\ \A x \in newTimers : appended[x] = now
        /\ \A x \in sorted : seen <= deadline[x] /\ now <= deadline[x]
    BY <1>i, <1>t, <2>1 DEF PingInv, Covers, TillTypeOK
  <2>4. ASSUME NEW x \in newTimers \cup sorted
        PROVE  seen <= Latest(x)
    <3>1. /\ deadline[x] \in Nat /\ Latest(x) \in Nat
          /\ deadline[x] + INTERVAL <= Latest(x) /\ appended[x] + INTERVAL <= Latest(x)
      BY <1>t, <1>w, LatestType DEF Live
    <3> QED
      BY <1>t, <2>3, <3>1
  <2>5. ASSUME NEW p \in Int, p <= now + INTERVAL, NEW x \in newTimers \cup sorted
        PROVE  p <= Latest(x)
    <3>1. /\ deadline[x] \in Nat /\ appended[x] \in Nat /\ Latest(x) \in Nat
          /\ deadline[x] + INTERVAL <= Latest(x) /\ appended[x] + INTERVAL <= Latest(x)
      BY <1>t, <1>w, LatestType DEF Live
    <3>2. now <= deadline[x] \/ now <= appended[x]
      BY <1>t, <2>3
    <3> QED
      BY <1>t, <2>5, <3>1, <3>2
  <2>6. lowered \in Int /\ (Covers(lowered) => lowered <= now + INTERVAL)
    BY <1>t, <2>1 DEF Covers, TillTypeOK
  <2>7. Covers(lowered) => \A x \in newTimers \cup sorted : lowered <= Latest(x)
    BY <2>5, <2>6
  <2>8. Covers(lowered) => Covers(lowered)'
    BY <2>1, <2>2, <2>7 DEF Covers
  <2>9. EnterInv'
    BY <1>i, <2>1, <2>8 DEF EnterInv
  <2> QED
    BY <2>1, <2>2, <2>4, <2>9 DEF PingInv, Covers, SleepInv
<1>11. CASE FireOne
  <2>1. /\ UNCHANGED <<now, state, deadline, appended, lowered, nextPing, newTimers, collected, sorted>>
        /\ pc = "fire" /\ pc' \in {"fire", "disable"} /\ fired \subseteq fired'
    BY <1>11 DEF FireOne, creation
  <2>2. NeverLate' /\ \A x : Latest(x)' = Latest(x)
    BY <1>s, <2>1 DEF Ending
  <2>3. EnterInv'
    BY <1>e, <2>1 DEF Ending
  <2> QED
    BY <1>i, <2>1, <2>2, <2>3 DEF PingInv, Covers, SleepInv
<1>12. CASE Disable \/ Drain \/ FlushOne \/ End
  <2>1. pc' \in {"drain", "flush", "ended"} /\ UNCHANGED <<state, deadline, lowered>>
    BY <1>12, <1>t DEF Disable, Drain, FlushOne, End, creation
  <2>2. EnterInv'
    BY <1>i, <2>1 DEF EnterInv, Covers
  <2> QED
    BY <1>m, <2>1, <2>2 DEF PingInv, Covers, SleepInv, Ending
<1>13. CASE Tick
  <2>1. /\ UNCHANGED <<state, deadline, appended, lowered, nextPing, newTimers, fired, collected, pc, wakeAt, seen, sorted>>
        /\ now' = now + 1
        /\ pc = "ended" \/ (pc = "sleep" /\ now < wakeAt)
    BY <1>13 DEF Tick, creation
  <2>2. Waiting' = Waiting /\ \A x : Latest(x)' = Latest(x)
    BY <2>1 DEF Waiting, Live, Latest
  <2>5. EnterInv'
    <3>1. Covers(lowered) => Covers(lowered)'
      BY <2>1, <2>2 DEF Covers
    <3> QED
      BY <1>i, <2>1, <3>1 DEF EnterInv
  <2>3. CASE pc = "ended"
    BY <1>m, <2>1, <2>3, <2>5 DEF PingInv, Covers, SleepInv, Ending
  <2>4. CASE pc = "sleep" /\ now < wakeAt
    <3>1. wakeAt <= now + INTERVAL /\ wakeAt \in Int /\ \A x \in Waiting : wakeAt <= Latest(x)
      BY <1>i, <1>t, <2>4 DEF SleepInv, TillTypeOK
    <3>2. \A x \in Waiting : Latest(x) \in Nat
      BY <1>t, LatestType DEF Waiting, Live
    <3>3. now' <= wakeAt /\ wakeAt <= now' + INTERVAL
      BY <1>t, <2>1, <2>4, <3>1
    <3>4. \A x \in Waiting : now' <= Latest(x)
      BY <1>t, <3>1, <3>2, <3>3
    <3> QED
      BY <1>i, <1>m, <2>1, <2>2, <2>4, <2>5, <3>1, <3>3, <3>4 DEF PingInv, Covers, SleepInv
  <2> QED
    BY <2>1, <2>3, <2>4
<1>14. CASE UNCHANGED tillVars
  BY <1>14, <1>e, <1>i, <1>s DEF tillVars, PingInv, Covers, SleepInv
<1> QED
  BY <1>1, <1>2, <1>3, <1>4, <1>5, <1>6, <1>7, <1>8, <1>9, <1>10, <1>11, <1>12, <1>13, <1>14, <1>15
     DEF TillNext, Daemon

\* While the daemon is at work, no Till is late by more than one INTERVAL,
\* counted from its deadline or from when it was entered, although the daemon
\* writes next_ping without the locker (till.py:125): it may undo what a
\* creator wrote, and a creator who has read next_ping may undo what it wrote
\* (till.py:82).
THEOREM NoneFiresLate == TillSpec => []NeverLate
<1>1. LateInv => NeverLate
  BY DEF LateInv
<1> QED
  BY <1>1, InitTillInv, NextTillInv, InitLateInv, NextLateInv, PTL DEF TillSpec

\* Type correctness of the Tills and the daemon.
THEOREM TillTypes == TillSpec => []TillTypeOK
<1>1. LateInv => TillTypeOK
  BY DEF LateInv
<1> QED
  BY <1>1, InitTillInv, NextTillInv, InitLateInv, NextLateInv, PTL DEF TillSpec
=============================================================================
