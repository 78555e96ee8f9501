----------------------------- MODULE ThreadsProofs -----------------------------
(***************************************************************************)
(* The tree of threads, however large and however it grows: parents stop   *)
(* last, unless failures cut their joins short, and the main thread hears  *)
(* of what failed below it.                                                *)
(***************************************************************************)
EXTENDS Threads, SequenceTheorems, FiniteSetTheorems, TLAPS

-----------------------------------------------------------------------------
(***************************************************************************)
(* The operators on sequences.                                             *)
(***************************************************************************)

\* A frame put on a stack is its first one.
LEMMA Stacked ==
  ASSUME NEW F, NEW f \in F, NEW s \in Seq(F)
  PROVE  /\ <<f>> \o s \in Seq(F)
         /\ <<f>> \o s # <<>>
         /\ Len(<<f>> \o s) = Len(s) + 1
         /\ (<<f>> \o s)[1] = f
         /\ \A i \in 1..Len(s) : (<<f>> \o s)[i + 1] = s[i]
<1>1. <<f>> \in Seq(F) /\ Len(<<f>>) = 1 /\ <<f>>[1] = f
  OBVIOUS
<1>2. <<f>> \o s \in Seq(F) /\ Len(<<f>> \o s) = Len(s) + 1 /\ Len(s) \in Nat
  BY <1>1
<1>3. \A i \in 1..Len(<<f>>) + Len(s) :
         (<<f>> \o s)[i] = IF i <= Len(<<f>>) THEN <<f>>[i] ELSE s[i - Len(<<f>>)]
  BY <1>1
<1>4. (<<f>> \o s)[1] = f
  BY <1>1, <1>2, <1>3
<1>5. \A i \in 1..Len(s) : (<<f>> \o s)[i + 1] = s[i]
  BY <1>1, <1>2, <1>3
<1> QED
  BY <1>2, <1>4, <1>5

\* Two frames put on a stack are its first ones.
LEMMA StackedTwo ==
  ASSUME NEW F, NEW f \in F, NEW g \in F, NEW s \in Seq(F)
  PROVE  /\ <<f, g>> \o s \in Seq(F)
         /\ <<f, g>> \o s # <<>>
         /\ Len(<<f, g>> \o s) = Len(s) + 2
         /\ (<<f, g>> \o s)[1] = f
         /\ (<<f, g>> \o s)[2] = g
         /\ \A i \in 1..Len(s) : (<<f, g>> \o s)[i + 2] = s[i]
<1>1. <<f, g>> \in Seq(F) /\ Len(<<f, g>>) = 2 /\ <<f, g>>[1] = f /\ <<f, g>>[2] = g
  OBVIOUS
<1>2. <<f, g>> \o s \in Seq(F) /\ Len(<<f, g>> \o s) = Len(s) + 2 /\ Len(s) \in Nat
  BY <1>1
<1>3. \A i \in 1..Len(<<f, g>>) + Len(s) :
         (<<f, g>> \o s)[i] = IF i <= Len(<<f, g>>) THEN <<f, g>>[i] ELSE s[i - Len(<<f, g>>)]
  BY <1>1
<1>4. (<<f, g>> \o s)[1] = f /\ (<<f, g>> \o s)[2] = g
  BY <1>1, <1>2, <1>3
<1>5. \A i \in 1..Len(s) : (<<f, g>> \o s)[i + 2] = s[i]
  BY <1>1, <1>2, <1>3
<1> QED
  BY <1>2, <1>4, <1>5

\* The first element of a list, and the others.
LEMMA FirstAndRest ==
  ASSUME NEW F, NEW s \in Seq(F), s # <<>>
  PROVE  /\ Head(s) \in F
         /\ Head(s) = s[1]
         /\ Len(s) \in Nat \ {0}
         /\ Tail(s) \in Seq(F)
         /\ Len(Tail(s)) = Len(s) - 1
         /\ \A i \in 1..(Len(s) - 1) : Tail(s)[i] = s[i + 1]
<1>1. Len(s) \in Nat \ {0}
  BY EmptySeq
<1>2. Head(s) = s[1] /\ Tail(s) \in Seq(F) /\ Len(Tail(s)) = Len(s) - 1
  BY <1>1
<1>3. s[1] \in F
  BY <1>1
<1>4. \A i \in 1..(Len(s) - 1) : Tail(s)[i] = s[i + 1]
  BY <1>1
<1> QED
  BY <1>1, <1>2, <1>3, <1>4

\* A list without one of its elements, each of which it has once.
LEMMA WithoutOne ==
  ASSUME NEW S, NEW s \in Seq(S), NEW i \in DOMAIN s,
         \A j, k \in DOMAIN s : s[j] = s[k] => j = k
  PROVE  /\ RemoveAt(s, i) \in Seq(S)
         /\ ToSet(RemoveAt(s, i)) = ToSet(s) \ {s[i]}
         /\ \A j, k \in DOMAIN RemoveAt(s, i) : RemoveAt(s, i)[j] = RemoveAt(s, i)[k] => j = k
<1> DEFINE r == RemoveAt(s, i)
<1>1. Len(s) \in Nat /\ i \in 1..Len(s) /\ DOMAIN s = 1..Len(s)
  OBVIOUS
<1>2. r \in Seq(S) /\ Len(r) = Len(s) - 1
  BY <1>1, SMTT(30) DEF RemoveAt
<1>3. \A j \in 1..(Len(s) - 1) : r[j] = IF j < i THEN s[j] ELSE s[j + 1]
  <2> DEFINE a == SubSeq(s, 1, i - 1)
             b == SubSeq(s, i + 1, Len(s))
  <2>1. a \in Seq(S) /\ Len(a) = i - 1 /\ \A j \in 1..(i - 1) : a[j] = s[j]
    BY <1>1
  <2>2. b \in Seq(S) /\ Len(b) = Len(s) - i /\ \A j \in 1..(Len(s) - i) : b[j] = s[j + i]
    BY <1>1, SMTT(30)
  <2>3. r = a \o b
    BY DEF RemoveAt
  <2> HIDE DEF a, b, r
  <2>4. \A j \in 1..(Len(s) - 1) : r[j] = IF j <= i - 1 THEN a[j] ELSE b[j - (i - 1)]
    BY <1>1, <2>1, <2>2, <2>3, SMTT(30)
  <2> SUFFICES ASSUME NEW j \in 1..(Len(s) - 1)
               PROVE  r[j] = IF j < i THEN s[j] ELSE s[j + 1]
    OBVIOUS
  <2>5. CASE j < i
    BY <1>1, <2>1, <2>4, <2>5
  <2>6. CASE ~(j < i)
    <3>1. j - (i - 1) \in 1..(Len(s) - i) /\ (j - (i - 1)) + i = j + 1 /\ ~(j <= i - 1)
      BY <1>1, <2>6
    <3> QED
      BY <2>2, <2>4, <3>1, <2>6
  <2> QED
    BY <2>5, <2>6
<1>4. DOMAIN r = 1..(Len(s) - 1)
  BY <1>1, <1>2
<1> HIDE DEF r
<1>5. ToSet(r) \subseteq ToSet(s) \ {s[i]}
  <2> SUFFICES ASSUME NEW j \in DOMAIN r
               PROVE  r[j] \in ToSet(s) /\ r[j] # s[i]
    BY DEF ToSet
  <2>1. CASE j < i
    BY <1>1, <1>3, <1>4, <2>1 DEF ToSet
  <2>2. CASE ~(j < i)
    BY <1>1, <1>3, <1>4, <2>2 DEF ToSet
  <2> QED
    BY <2>1, <2>2
<1>6. ToSet(s) \ {s[i]} \subseteq ToSet(r)
  <2> SUFFICES ASSUME NEW j \in DOMAIN s, s[j] # s[i]
               PROVE  s[j] \in ToSet(r)
    BY DEF ToSet
  <2>1. CASE j < i
    <3>1. j \in DOMAIN r /\ r[j] = s[j]
      BY <1>1, <1>3, <1>4, <2>1
    <3> QED
      BY <3>1 DEF ToSet
  <2>2. CASE ~(j < i)
    <3>1. j - 1 \in DOMAIN r /\ r[j - 1] = s[j]
      BY <1>1, <1>3, <1>4, <2>2
    <3> QED
      BY <3>1 DEF ToSet
  <2> QED
    BY <2>1, <2>2
<1>7. ASSUME NEW j \in DOMAIN r, NEW k \in DOMAIN r, r[j] = r[k]
      PROVE  j = k
  BY <1>1, <1>3, <1>4, <1>7, SMTT(30)
<1> QED
  BY <1>2, <1>5, <1>6, <1>7 DEF r

\* The elements of a list, and what is left when the first is taken.
LEMMA Elements ==
  ASSUME NEW S, NEW s \in Seq(S)
  PROVE  /\ ToSet(s) \subseteq S
         /\ s # <<>> => ToSet(s) = {Head(s)} \cup ToSet(Tail(s))
         /\ s = <<>> => ToSet(s) = {}
         /\ \A i \in DOMAIN s : s[i] \in ToSet(s)
<1>1. DOMAIN s = 1..Len(s) /\ Len(s) \in Nat
  OBVIOUS
<1>2. ASSUME s # <<>>
      PROVE  ToSet(s) = {Head(s)} \cup ToSet(Tail(s))
  <2>1. /\ Head(s) = s[1]
        /\ Len(s) \in Nat \ {0}
        /\ DOMAIN Tail(s) = 1..(Len(s) - 1)
        /\ \A i \in 1..(Len(s) - 1) : Tail(s)[i] = s[i + 1]
    <3>1. Tail(s) \in Seq(S) /\ Len(Tail(s)) = Len(s) - 1 /\ Len(s) \in Nat \ {0}
      BY <1>2, FirstAndRest
    <3> QED
      BY <1>2, <3>1, FirstAndRest
  <2>2. ASSUME NEW i \in DOMAIN s
        PROVE  s[i] \in {Head(s)} \cup ToSet(Tail(s))
    <3>1. CASE i = 1
      BY <2>1, <3>1
    <3>2. CASE i # 1
      <4>1. i - 1 \in 1..(Len(s) - 1) /\ Tail(s)[i - 1] = s[i]
        BY <1>1, <2>1, <3>2
      <4> QED
        BY <2>1, <4>1 DEF ToSet
    <3> QED
      BY <3>1, <3>2
  <2>3. Head(s) \in ToSet(s)
    BY <1>1, <2>1 DEF ToSet
  <2>4. ASSUME NEW i \in DOMAIN Tail(s)
        PROVE  Tail(s)[i] \in ToSet(s)
    <3>1. i + 1 \in DOMAIN s /\ Tail(s)[i] = s[i + 1]
      BY <1>1, <2>1
    <3> QED
      BY <3>1 DEF ToSet
  <2> QED
    BY <2>2, <2>3, <2>4 DEF ToSet
<1> QED
  BY <1>1, <1>2 DEF ToSet

\* A list and one more element.
LEMMA OneMore ==
  ASSUME NEW S, NEW s \in Seq(S), NEW x \in S
  PROVE  /\ Append(s, x) \in Seq(S)
         /\ ToSet(Append(s, x)) = ToSet(s) \cup {x}
         /\ \A i \in 1..Len(s) : Append(s, x)[i] = s[i]
         /\ Append(s, x)[Len(s) + 1] = x
         /\ DOMAIN Append(s, x) = 1..(Len(s) + 1)
<1>1. DOMAIN s = 1..Len(s) /\ Len(s) \in Nat
  OBVIOUS
<1>2. /\ Append(s, x) \in Seq(S)
      /\ DOMAIN Append(s, x) = 1..(Len(s) + 1)
      /\ \A i \in 1..Len(s) : Append(s, x)[i] = s[i]
      /\ Append(s, x)[Len(s) + 1] = x
  BY <1>1, AppendProperties
<1>3. ToSet(Append(s, x)) = ToSet(s) \cup {x}
  <2>1. \A i \in DOMAIN Append(s, x) : Append(s, x)[i] \in ToSet(s) \cup {x}
    BY <1>1, <1>2 DEF ToSet
  <2>2. \A i \in DOMAIN s : i \in DOMAIN Append(s, x) /\ s[i] = Append(s, x)[i]
    BY <1>1, <1>2
  <2>3. Len(s) + 1 \in DOMAIN Append(s, x)
    BY <1>1, <1>2
  <2> QED
    BY <1>2, <2>1, <2>2, <2>3 DEF ToSet
<1> QED
  BY <1>2, <1>3

\* A list turned round.
LEMMA TurnedRound ==
  ASSUME NEW S, NEW s \in Seq(S)
  PROVE  Reverse(s) \in Seq(S) /\ ToSet(Reverse(s)) = ToSet(s)
<1>1. DOMAIN s = 1..Len(s) /\ Len(s) \in Nat
  OBVIOUS
<1>2. Reverse(s) = [i \in 1..Len(s) |-> s[(Len(s) - i) + 1]]
  BY DEF Reverse
<1>5. Reverse(s) \in Seq(S) /\ DOMAIN Reverse(s) = 1..Len(s)
  BY <1>1, <1>2
<1>6. ToSet(Reverse(s)) = ToSet(s)
  <2>1. ASSUME NEW i \in DOMAIN s
        PROVE  s[i] \in ToSet(Reverse(s)) /\ Reverse(s)[i] \in ToSet(s)
    <3>1. (Len(s) - i) + 1 \in 1..Len(s) /\ (Len(s) - ((Len(s) - i) + 1)) + 1 = i
      BY <1>1
    <3>2. Reverse(s)[(Len(s) - i) + 1] = s[i] /\ Reverse(s)[i] = s[(Len(s) - i) + 1]
      BY <1>1, <1>2, <3>1
    <3> QED
      BY <1>1, <1>5, <3>1, <3>2 DEF ToSet
  <2> QED
    BY <1>1, <1>5, <2>1 DEF ToSet
<1> QED
  BY <1>5, <1>6

\* A set written as a list.
LEMMA Listing ==
  ASSUME NEW S, IsFiniteSet(S), NEW s \in SetToSeqs(S)
  PROVE  s \in Seq(S) /\ ToSet(s) = S
<1> DEFINE n == Cardinality(S)
<1>1. n \in Nat
  BY FS_CardinalityType
<1>2. s \in [1..n -> S] /\ \A i, j \in 1..n : i # j => s[i] # s[j]
  BY DEF SetToSeqs
<1>3. s \in Seq(S)
  BY <1>1, <1>2
<1>4. s \in Injection(1..n, S)
  BY <1>2 DEF Injection, IsInjective
<1>5. Cardinality(1..n) = n
  BY <1>1, FS_Interval
<1>6. s \in Surjection(1..n, S)
  BY <1>4, <1>5, FS_Injection
<1>7. DOMAIN s = 1..n
  BY <1>2
<1> QED
  BY <1>3, <1>6, <1>7 DEF Surjection, ToSet

-----------------------------------------------------------------------------
(***************************************************************************)
(* Types, and what the operations on a stack do.                           *)
(***************************************************************************)

\* A new call is a frame.
LEMMA NewFrame ==
  ASSUME NEW op \in {"stop", "join"}, NEW of \in Threads \cup {Nobody},
         NEW todo \in Seq(Threads), NEW till \in BOOLEAN
  PROVE  /\ Frame(op, of, todo, till) \in Frames
         /\ Frame(op, of, todo, till).op = op
         /\ Frame(op, of, todo, till).of = of
         /\ Frame(op, of, todo, till).todo = todo
         /\ Frame(op, of, todo, till).till = till
         /\ Frame(op, of, todo, till).causes = {}
         /\ <<Frame(op, of, todo, till)>> \in Seq(Frames)
<1> DEFINE f == Frame(op, of, todo, till)
<1>1. f \in Frames /\ f.op = op /\ f.of = of /\ f.todo = todo /\ f.till = till /\ f.causes = {}
  BY DEF Frame, Frames
<1> HIDE DEF f
<1>2. <<f>> \in Seq(Frames)
  BY <1>1
<1> QED
  BY <1>1, <1>2 DEF f

\* The innermost call, and those around it.
LEMMA TopOfStack ==
  ASSUME NEW t \in Everyone, stack[t] \in Seq(Frames), stack[t] # <<>>
  PROVE  /\ Top(t) \in Frames
         /\ Top(t) = stack[t][1]
         /\ Len(stack[t]) \in Nat \ {0}
         /\ Below(t) \in Seq(Frames)
         /\ Len(Below(t)) = Len(stack[t]) - 1
         /\ \A i \in 1..(Len(stack[t]) - 1) : Below(t)[i] = stack[t][i + 1]
  BY FirstAndRest DEF Top, Below

\* The next child is taken up: two frames in place of the first one.
LEMMA Descends ==
  ASSUME TypeOK, NEW t \in Everyone, Descend(t)
  PROVE  \E c \in Threads :
           /\ c = Head(Top(t).todo)
           /\ stack' = [stack EXCEPT ![t] = stack'[t]]
           /\ stack'[t] \in Seq(Frames)
           /\ Len(stack'[t]) = Len(stack[t]) + 1
           /\ stack'[t][1] = Frame(Top(t).op, c, children[c], Top(t).till)
           /\ stack'[t][2] = [Top(t) EXCEPT !.todo = Tail(@)]
           /\ \A i \in 2..Len(stack[t]) : stack'[t][i + 1] = stack[t][i]
<1> DEFINE c == Head(Top(t).todo)
           f == Frame(Top(t).op, c, children[c], Top(t).till)
           g == [Top(t) EXCEPT !.todo = Tail(@)]
<1>1. stack \in [Everyone -> Seq(Frames)] /\ stack[t] # <<>> /\ stack' = [stack EXCEPT ![t] = <<f, g>> \o Below(t)]
  BY DEF TypeOK, Descend, SetStack
<1>2. Top(t) \in Frames /\ Below(t) \in Seq(Frames) /\ Len(stack[t]) \in Nat \ {0}
      /\ Len(Below(t)) = Len(stack[t]) - 1
      /\ \A i \in 1..(Len(stack[t]) - 1) : Below(t)[i] = stack[t][i + 1]
  BY <1>1, TopOfStack
<1>3. Top(t).todo \in Seq(Threads) /\ Top(t).todo # <<>> /\ Top(t).op \in {"stop", "join"} /\ Top(t).till \in BOOLEAN
  BY <1>2 DEF Frames, Descend
<1>4. c \in Threads /\ Tail(Top(t).todo) \in Seq(Threads)
  BY <1>3, FirstAndRest
<1>5. f \in Frames
  BY <1>3, <1>4, NewFrame, SMTT(30) DEF TypeOK, Everyone
<1>6. g \in Frames
  BY <1>2, <1>4 DEF Frames
<1>7. stack'[t] = <<f, g>> \o Below(t)
  BY <1>1
<1> HIDE DEF f, g
<1>8. /\ stack'[t] \in Seq(Frames)
      /\ Len(stack'[t]) = Len(Below(t)) + 2
      /\ stack'[t][1] = f
      /\ stack'[t][2] = g
      /\ \A i \in 1..Len(Below(t)) : stack'[t][i + 2] = Below(t)[i]
  <2> DEFINE b == Below(t)
             n == stack'[t]
  <2>1. b \in Seq(Frames) /\ n = <<f, g>> \o b
    BY <1>2, <1>7
  <2> HIDE DEF b, n
  <2>2. /\ n \in Seq(Frames)
        /\ Len(n) = Len(b) + 2
        /\ n[1] = f
        /\ n[2] = g
        /\ \A i \in 1..Len(b) : n[i + 2] = b[i]
    BY <1>5, <1>6, <2>1, StackedTwo
  <2> QED
    BY <2>2 DEF b, n
<1>9. Len(stack'[t]) = Len(stack[t]) + 1
  BY <1>2, <1>8
<1>10. ASSUME NEW i \in 2..Len(stack[t])
       PROVE  stack'[t][i + 1] = stack[t][i]
  <2>1. i - 1 \in 1..(Len(stack[t]) - 1) /\ (i - 1) + 2 = i + 1 /\ (i - 1) + 1 = i
    BY <1>2
  <2>2. stack'[t][(i - 1) + 2] = Below(t)[i - 1] /\ Below(t)[i - 1] = stack[t][(i - 1) + 1]
    BY <1>2, <1>8, <2>1
  <2> QED
    BY <2>1, <2>2
<1>11. stack' = [stack EXCEPT ![t] = stack'[t]]
  BY <1>1, <1>7
<1> QED
  BY <1>4, <1>8, <1>9, <1>10, <1>11 DEF f, g

\* stop() of the innermost call ends.
LEMMA StopPops ==
  ASSUME TypeOK, NEW t \in Everyone, StopSelf(t)
  PROVE  /\ stack' = [stack EXCEPT ![t] = stack'[t]]
         /\ stack'[t] \in Seq(Frames)
         /\ Len(stack'[t]) = Len(stack[t]) - 1
         /\ \A i \in 1..(Len(stack[t]) - 1) : stack'[t][i] = stack[t][i + 1]
<1>1. stack \in [Everyone -> Seq(Frames)] /\ stack[t] # <<>> /\ stack' = [stack EXCEPT ![t] = Below(t)]
  BY DEF TypeOK, StopSelf, SetStack
<1>2. Below(t) \in Seq(Frames) /\ Len(Below(t)) = Len(stack[t]) - 1
      /\ \A i \in 1..(Len(stack[t]) - 1) : Below(t)[i] = stack[t][i + 1]
  BY <1>1, TopOfStack
<1> QED
  BY <1>1, <1>2

\* join() of the innermost call ends, and the call around it, if there is one,
\* has the exceptions.
LEMMA JoinPops ==
  ASSUME TypeOK, NEW t \in Everyone, stack[t] # <<>>,
         NEW causes \in SUBSET (Threads \cup {Timeout}), Return(t, causes)
  PROVE  /\ stack' = [stack EXCEPT ![t] = stack'[t]]
         /\ stack'[t] \in Seq(Frames)
         /\ Len(stack'[t]) = Len(stack[t]) - 1
         /\ Len(stack[t]) > 1 => stack'[t][1] = [stack[t][2] EXCEPT !.causes = @ \cup causes]
         /\ \A i \in 2..(Len(stack[t]) - 1) : stack'[t][i] = stack[t][i + 1]
         /\ Len(stack[t]) = 1 => heard' = heard \cup (causes \cap Threads)
         /\ Len(stack[t]) > 1 => heard' = heard
<1>1. stack \in [Everyone -> Seq(Frames)]
  BY DEF TypeOK
<1>2. Below(t) \in Seq(Frames) /\ Len(stack[t]) \in Nat \ {0} /\ Len(Below(t)) = Len(stack[t]) - 1
      /\ \A i \in 1..(Len(stack[t]) - 1) : Below(t)[i] = stack[t][i + 1]
  BY <1>1, TopOfStack
<1>3. CASE Below(t) = <<>>
  <2>1. Len(stack[t]) = 1
    BY <1>2, <1>3
  <2>2. stack' = [stack EXCEPT ![t] = <<>>] /\ heard' = heard \cup (causes \cap Threads)
    BY <1>3 DEF Return, SetStack
  <2>3. stack'[t] = <<>>
    BY <1>1, <2>2
  <2>4. stack'[t] \in Seq(Frames) /\ Len(stack'[t]) = Len(stack[t]) - 1
    BY <2>1, <2>3
  <2>5. 2..(Len(stack[t]) - 1) = {}
    BY <2>1
  <2>6. stack' = [stack EXCEPT ![t] = stack'[t]]
    BY <2>2, <2>3
  <2>7. ~(Len(stack[t]) > 1)
    BY <2>1
  <2>8. \A i \in 2..(Len(stack[t]) - 1) : stack'[t][i] = stack[t][i + 1]
    BY <2>5
  <2> QED
    BY <2>1, <2>2, <2>4, <2>6, <2>7, <2>8
<1>4. CASE Below(t) # <<>>
  <2> DEFINE g == [Head(Below(t)) EXCEPT !.causes = @ \cup causes]
  <2>1. /\ Head(Below(t)) \in Frames
        /\ Head(Below(t)) = Below(t)[1]
        /\ Len(Below(t)) \in Nat \ {0}
        /\ Tail(Below(t)) \in Seq(Frames)
        /\ Len(Tail(Below(t))) = Len(Below(t)) - 1
        /\ \A i \in 1..(Len(Below(t)) - 1) : Tail(Below(t))[i] = Below(t)[i + 1]
    BY <1>2, <1>4, FirstAndRest
  <2>2. g \in Frames
    BY <2>1 DEF Frames
  <2>3. stack' = [stack EXCEPT ![t] = <<g>> \o Tail(Below(t))] /\ heard' = heard
    BY <1>4 DEF Return, SetStack
  <2>4. stack'[t] = <<g>> \o Tail(Below(t))
    BY <1>1, <2>3
  <2>5. Len(stack[t]) > 1 /\ Head(Below(t)) = stack[t][2]
    BY <1>2, <2>1
  <2>6. g = [stack[t][2] EXCEPT !.causes = @ \cup causes]
    BY <2>5
  <2> HIDE DEF g
  <2>7. /\ stack'[t] \in Seq(Frames)
        /\ Len(stack'[t]) = Len(Tail(Below(t))) + 1
        /\ stack'[t][1] = g
        /\ \A i \in 1..Len(Tail(Below(t))) : stack'[t][i + 1] = Tail(Below(t))[i]
    BY <2>1, <2>2, <2>4, Stacked
  <2>8. ASSUME NEW i \in 2..(Len(stack[t]) - 1)
        PROVE  stack'[t][i] = stack[t][i + 1]
    <3>1. /\ i - 1 \in 1..Len(Tail(Below(t)))
          /\ i - 1 \in 1..(Len(Below(t)) - 1)
          /\ i \in 1..(Len(stack[t]) - 1)
          /\ (i - 1) + 1 = i
      BY <1>2, <2>1
    <3>2. stack'[t][i] = Tail(Below(t))[i - 1]
      BY <2>7, <3>1
    <3>3. Tail(Below(t))[i - 1] = Below(t)[i]
      BY <2>1, <3>1
    <3> QED
      BY <1>2, <3>1, <3>2, <3>3
  <2>9. Len(stack'[t]) = Len(stack[t]) - 1
    BY <1>2, <2>1, <2>7
  <2>10. stack' = [stack EXCEPT ![t] = stack'[t]]
    BY <2>3, <2>4
  <2> QED
    BY <2>3, <2>5, <2>6, <2>7, <2>8, <2>9, <2>10
<1> QED
  BY <1>3, <1>4

\* join() of the innermost call tells its thread that somebody waits.
LEMMA JoinMarks ==
  ASSUME TypeOK, NEW t \in Everyone, JoinSignals(t)
  PROVE  /\ stack' = [stack EXCEPT ![t] = stack'[t]]
         /\ stack'[t] \in Seq(Frames)
         /\ Len(stack'[t]) = Len(stack[t])
         /\ stack'[t][1] = [stack[t][1] EXCEPT !.waits = TRUE]
         /\ \A i \in 2..Len(stack[t]) : stack'[t][i] = stack[t][i]
<1> DEFINE g == [Top(t) EXCEPT !.waits = TRUE]
<1>1. stack \in [Everyone -> Seq(Frames)] /\ stack[t] # <<>> /\ stack' = [stack EXCEPT ![t] = <<g>> \o Below(t)]
  BY DEF TypeOK, JoinSignals, Joining, SetStack
<1>2. Top(t) \in Frames /\ Top(t) = stack[t][1] /\ Below(t) \in Seq(Frames) /\ Len(stack[t]) \in Nat \ {0}
      /\ Len(Below(t)) = Len(stack[t]) - 1
      /\ \A i \in 1..(Len(stack[t]) - 1) : Below(t)[i] = stack[t][i + 1]
  BY <1>1, TopOfStack
<1>3. g \in Frames
  BY <1>2 DEF Frames
<1>4. stack'[t] = <<g>> \o Below(t)
  BY <1>1
<1>5. g = [stack[t][1] EXCEPT !.waits = TRUE]
  BY <1>2
<1> HIDE DEF g
<1>6. /\ stack'[t] \in Seq(Frames)
      /\ Len(stack'[t]) = Len(Below(t)) + 1
      /\ stack'[t][1] = g
      /\ \A i \in 1..Len(Below(t)) : stack'[t][i + 1] = Below(t)[i]
  BY <1>2, <1>3, <1>4, Stacked
<1>7. ASSUME NEW i \in 2..Len(stack[t])
      PROVE  stack'[t][i] = stack[t][i]
  <2>1. i - 1 \in 1..(Len(stack[t]) - 1) /\ i - 1 \in 1..Len(Below(t)) /\ (i - 1) + 1 = i
    BY <1>2
  <2>2. stack'[t][(i - 1) + 1] = Below(t)[i - 1] /\ Below(t)[i - 1] = stack[t][(i - 1) + 1]
    BY <1>2, <1>6, <2>1
  <2> QED
    BY <2>1, <2>2
<1>8. Len(stack'[t]) = Len(stack[t]) /\ stack' = [stack EXCEPT ![t] = stack'[t]]
  BY <1>1, <1>2, <1>4, <1>6
<1> QED
  BY <1>5, <1>6, <1>7, <1>8

\* A thread is taken off its parent's list, or was not on it.
LEMMA ChildGone ==
  ASSUME TypeOK, NEW c \in Threads, RemoveChild(c)
  PROVE  /\ children' \in [Everyone -> Seq(Threads)]
         /\ \A p \in Everyone : p # ParentOf[c] => children'[p] = children[p]
<1> USE ThreadsAssumption DEF ThreadsAssumption
<1>1. ParentOf[c] \in Everyone /\ children \in [Everyone -> Seq(Threads)]
  BY DEF TypeOK
<1>2. ASSUME NEW i \in DOMAIN children[ParentOf[c]],
             children' = [children EXCEPT ![ParentOf[c]] = RemoveAt(@, i)]
      PROVE  /\ children' \in [Everyone -> Seq(Threads)]
             /\ \A p \in Everyone : p # ParentOf[c] => children'[p] = children[p]
  <2>1. RemoveAt(children[ParentOf[c]], i) \in Seq(Threads)
    <3>1. children[ParentOf[c]] \in Seq(Threads) /\ i \in 1..Len(children[ParentOf[c]])
      BY <1>1
    <3> QED
      BY <3>1 DEF RemoveAt
  <2> QED
    BY <1>1, <1>2, <2>1
<1> QED
  BY <1>1, <1>2 DEF RemoveChild

\* The first state fits the types.
LEMMA InitType == Init => TypeOK
<1> SUFFICES ASSUME Init
             PROVE  TypeOK
  OBVIOUS
<1>1. PICK program \in Programs :
         /\ stage = [t \in Everyone |-> CASE t = Main -> "target"
                                          [] t \in program.creates -> "unborn"
                                          [] OTHER -> "never"]
         /\ calls = program.calls
  BY DEF Init
<1>2. program.calls \in [Everyone -> Nat]
  BY ThreadsAssumption DEF ThreadsAssumption
<1>3. stage \in [Everyone -> Stages]
  BY <1>1 DEF Stages
<1>4. <<>> \in Seq(Threads) /\ <<>> \in Seq(Frames)
  OBVIOUS
<1> QED
  BY <1>1, <1>2, <1>3, <1>4 DEF Init, TypeOK

\* Every step stays within the types.
LEMMA NextType == TypeOK /\ IsFiniteSet(all) /\ [Next]_vars => TypeOK'
<1> SUFFICES ASSUME TypeOK, IsFiniteSet(all), [Next]_vars
             PROVE  TypeOK'
  OBVIOUS
<1> USE ThreadsAssumption DEF ThreadsAssumption
<1>1. \A t \in Threads : t \in Everyone /\ ParentOf[t] \in Everyone
  BY DEF Everyone
<1>2. Main \in Everyone
  BY DEF Everyone
<1>3. \A t \in Everyone : stack[t] # <<>> => /\ Top(t) \in Frames /\ Below(t) \in Seq(Frames)
                                           /\ Top(t).of \in Threads \cup {Nobody}
                                           /\ Top(t).todo \in Seq(Threads)
                                           /\ Top(t).causes \in SUBSET (Threads \cup {Timeout})
  BY TopOfStack DEF TypeOK, Frames
<1>4. ASSUME NEW t \in Everyone, NEW c \in Threads, Create(t, c)
      PROVE  TypeOK'
  <2>1. Append(children[t], c) \in Seq(Threads)
    BY OneMore DEF TypeOK
  <2> QED
    BY <1>1, <1>4, <2>1 DEF TypeOK, Create, Goto, Stages
<1>5. ASSUME NEW t \in Everyone, NEW c \in Threads, StartThread(t, c)
      PROVE  TypeOK'
  BY <1>1, <1>5 DEF TypeOK, StartThread, Goto, Stages
<1>6. ASSUME NEW t \in Everyone, NEW c \in Threads,
             StopThread(t, c) \/ \E till \in BOOLEAN : Join(t, c, till)
      PROVE  TypeOK'
  <2>1. PICK f \in Frames : stack' = [stack EXCEPT ![t] = <<f>>]
    <3>1. \A op \in {"stop", "join"}, till \in BOOLEAN : Frame(op, c, children[c], till) \in Frames
      BY <1>1, NewFrame DEF TypeOK
    <3> QED
      BY <1>6, <3>1 DEF StopThread, Join, SetStack
  <2>2. <<f>> \in Seq(Frames)
    OBVIOUS
  <2>3. calls' = [calls EXCEPT ![t] = calls[t] - 1] /\ calls[t] \in Nat /\ calls[t] > 0
    BY <1>6 DEF StopThread, Join, CallOn, TypeOK
  <2>4. calls' \in [Everyone -> Nat]
    BY <2>3 DEF TypeOK
  <2>5. UNCHANGED <<stage, children, kids, pleaseStop, joiner, stopped, outcome, all, heard>>
    BY <1>6 DEF StopThread, Join
  <2>6. stack' \in [Everyone -> Seq(Frames)]
    BY <2>1, <2>2 DEF TypeOK
  <2> QED
    BY <2>4, <2>5, <2>6 DEF TypeOK
<1>7. ASSUME NEW t \in Everyone, NEW c \in Threads, Release(t, c)
      PROVE  TypeOK'
  <2>1. calls' = [calls EXCEPT ![t] = calls[t] - 1] /\ calls[t] \in Nat /\ calls[t] > 0
    BY <1>7 DEF Release, CallOn, TypeOK
  <2>2. calls' \in [Everyone -> Nat]
    BY <2>1 DEF TypeOK
  <2> QED
    BY <1>7, <2>2 DEF TypeOK, Release
<1>8. ASSUME NEW t \in Threads, NEW o \in {"ok", "failed"}, Finish(t, o)
      PROVE  TypeOK'
  BY <1>1, <1>8 DEF TypeOK, Finish, Goto, Stages
<1>9. ASSUME NEW t \in Everyone, Descend(t)
      PROVE  TypeOK'
  <2>1. stack' = [stack EXCEPT ![t] = stack'[t]] /\ stack'[t] \in Seq(Frames)
    BY <1>9, Descends
  <2>2. stack' \in [Everyone -> Seq(Frames)]
    BY <2>1 DEF TypeOK
  <2> QED
    BY <1>9, <2>2 DEF TypeOK, Descend
<1>10. ASSUME NEW t \in Everyone, StopSelf(t)
       PROVE  TypeOK'
  <2>1. Top(t).of \in Threads
    BY <1>3, <1>10 DEF StopSelf
  <2> QED
    BY <1>10, <2>1, StopPops DEF TypeOK, StopSelf
<1>11. ASSUME NEW t \in Everyone, AllTold(t)
       PROVE  TypeOK'
  <2>1. kids[t] \in Seq(Threads)
    BY DEF TypeOK
  <2>2. <<Frame("join", Nobody, kids[t], FALSE)>> \in Seq(Frames)
    BY <2>1, NewFrame
  <2> QED
    BY <1>11, <2>2 DEF TypeOK, AllTold, SetStack, Goto, Stages
<1>12. ASSUME NEW t \in Everyone, JoinSignals(t)
       PROVE  TypeOK'
  <2>1. Top(t).of \in Threads
    BY <1>3, <1>12 DEF JoinSignals, Joining
  <2> QED
    BY <1>12, <2>1, JoinMarks DEF TypeOK, JoinSignals
<1>13. ASSUME NEW t \in Everyone, JoinRaises(t) \/ JoinTimesOut(t) \/ JoinEnds(t)
       PROVE  TypeOK'
  <2>1. stack[t] # <<>> /\ Top(t).of \in Threads
    BY <1>3, <1>13 DEF JoinRaises, JoinTimesOut, JoinEnds, Joining
  <2>2. PICK causes \in SUBSET (Threads \cup {Timeout}) : Return(t, causes)
    BY <1>3, <1>13, <2>1 DEF JoinRaises, JoinTimesOut, JoinEnds
  <2>3. stack' \in [Everyone -> Seq(Frames)] /\ heard' \subseteq Threads
    BY <2>1, <2>2, JoinPops, ZenonT(60) DEF TypeOK, Return
  <2>4. children' \in [Everyone -> Seq(Threads)]
    BY <1>13, <2>1, ChildGone DEF JoinRaises, JoinTimesOut, JoinEnds, TypeOK
  <2>5. UNCHANGED <<stage, kids, pleaseStop, joiner, stopped, outcome, all, calls>>
    BY <1>13 DEF JoinRaises, JoinTimesOut, JoinEnds
  <2> QED
    BY <2>3, <2>4, <2>5 DEF TypeOK
<1>14. ASSUME NEW t \in Threads, Register(t) \/ ReportFailure(t)
       PROVE  TypeOK'
  BY <1>1, <1>14, ZenonT(60) DEF TypeOK, Register, ReportFailure, Goto, Stages
<1>15. ASSUME NEW t \in Threads, TakeChildren(t)
       PROVE  TypeOK'
  <2>1. children[t] \in Seq(Threads) /\ <<>> \in Seq(Threads)
    BY <1>1 DEF TypeOK
  <2>2. <<Frame("stop", Nobody, children[t], FALSE)>> \in Seq(Frames)
    BY <2>1, NewFrame
  <2> QED
    BY <1>1, <1>15, <2>1, <2>2 DEF TypeOK, TakeChildren, SetStack, Goto, Stages
<1>16. ASSUME NEW t \in Threads, Unregister(t)
       PROVE  TypeOK'
  <2>1. <<>> \in Seq(Threads) /\ <<>> \in Seq(Frames)
    OBVIOUS
  <2> QED
    BY <1>1, <1>16, <2>1 DEF TypeOK, Unregister, AllJoined, SetStack, Goto, Stages
<1>17. ASSUME NEW t \in Threads, Stopped(t) \/ MetJoiner(t)
       PROVE  TypeOK'
  BY <1>1, <1>17 DEF TypeOK, Stopped, MetJoiner, Goto, Stages
<1>18. ASSUME NEW t \in Threads, Forgotten(t)
       PROVE  TypeOK'
  <2>1. children' \in [Everyone -> Seq(Threads)]
    BY <1>18, ChildGone DEF Forgotten, TypeOK
  <2> QED
    BY <1>1, <1>18, <2>1 DEF TypeOK, Forgotten, Goto, Stages
<1>19. CASE MainStop
  <2>1. children[Main] \in Seq(Threads) /\ Reverse(children[Main]) \in Seq(Threads)
    <3>1. children[Main] \in Seq(Threads)
      BY <1>2 DEF TypeOK
    <3>2. Reverse(children[Main]) = [i \in 1..Len(children[Main]) |-> children[Main][(Len(children[Main]) - i) + 1]]
      BY DEF Reverse
    <3> QED
      BY <3>1, <3>2
  <2>2. <<Frame("stop", Nobody, Reverse(children[Main]), FALSE)>> \in Seq(Frames)
    BY <2>1, NewFrame
  <2> QED
    BY <1>2, <1>19, <2>1, <2>2 DEF TypeOK, MainStop, SetStack, Goto, Stages
<1>20. CASE MainJoined
  <2>1. <<>> \in Seq(Threads) /\ <<>> \in Seq(Frames)
    OBVIOUS
  <2> QED
    BY <1>2, <1>20, <2>1 DEF TypeOK, MainJoined, AllJoined, SetStack, Goto, Stages
<1>21. CASE Residue
  <2>1. PICK rest \in SetToSeqs(all) :
           /\ kids' = [kids EXCEPT ![Main] = rest]
           /\ stack' = [stack EXCEPT ![Main] = <<Frame("stop", Nobody, rest, FALSE)>>]
    BY <1>21 DEF Residue, SetStack
  <2>2. rest \in Seq(Threads)
    <3>1. rest \in Seq(all)
      BY Listing
    <3> QED
      BY <3>1 DEF TypeOK
  <2>3. <<Frame("stop", Nobody, rest, FALSE)>> \in Seq(Frames)
    BY <2>2, NewFrame
  <2> QED
    BY <1>2, <1>21, <2>1, <2>2, <2>3 DEF TypeOK, Residue, Goto, Stages
<1>22. CASE UNCHANGED vars
  BY <1>22 DEF vars, TypeOK
<1> QED
  BY <1>4, <1>5, <1>6, <1>7, <1>8, <1>9, <1>10, <1>11, <1>12, <1>13, <1>14, <1>15, <1>16, <1>17, <1>18,
     <1>19, <1>20, <1>21, <1>22 DEF Next, Target, Walk, Run

-----------------------------------------------------------------------------
(***************************************************************************)
(* The inductive invariant.                                                *)
(***************************************************************************)
Unmade == {"never", "unborn"}
Unrun == Unmade \cup {"created", "starting"}
Telling == {"stop_kids", "stop_residue"}
JoiningAll == {"join_kids", "join_residue"}

\* The children have been joined.
Over == {"unregistered", "linger", "gone", "residue", "stop_residue", "join_residue"}

Bottom(s) == s[Len(s)]

\* Who has failed and is gone for good: no list has it from which a join would
\* take it.
Casualties == {d \in Threads : /\ Failed(d)
                               /\ d \in stopped
                               /\ d \notin ToSet(children[ParentOf[d]])}

\* A join of c may have ended early.
Short(c) == Descendants(c) \cap Casualties # {}

\* What the thread raised has reached the main thread, or is on its way in the
\* loop of MainThread.stop().
Passed(c) == \/ ParentOf[c] # Main
             \/ ~Failed(c)
             \/ c \in heard
             \/ /\ stack[Main] # <<>>
                /\ Bottom(stack[Main]).of = Nobody
                /\ c \in Bottom(stack[Main]).causes

Settled(c) == Short(c) \/ (c \in stopped /\ Passed(c))

\* The loop at the bottom of the stack s has c still to come, or is at it.
Pending(s, c) == \/ c \in ToSet(Bottom(s).todo)
                 \/ Len(s) > 1 /\ s[Len(s) - 1].of = c

\* How far a thread is, and what goes with it.
StageInv == /\ stage[Main] \in {"target", "residue", "gone"} \cup Telling \cup JoiningAll
            /\ \A t \in Threads :
                  /\ stage[t] \notin {"residue", "stop_residue", "join_residue"}
                  /\ stage[t] \notin Unmade => /\ stage[ParentOf[t]] \notin Unrun
                                               /\ t \in Descendants(Main)
                  /\ stage[t] = "created" => stage[ParentOf[t]] = "target"
                  /\ outcome[t] # "none" => stage[t] \notin Unrun \cup {"target"}
                  /\ t \in stopped <=> stage[t] \in {"linger", "gone"}
                  /\ t \in all <=> stage[t] \notin Unrun \cup {"unregistered", "linger", "gone"}

\* Who may be in a call.
CallInv == \A t \in Everyone : /\ stage[t] \in Telling \cup JoiningAll => stack[t] # <<>>
                               /\ stage[t] \notin Telling \cup JoiningAll \cup {"target"} => stack[t] = <<>>

\* The lists of children hold children, each once.
ListInv == \A p \in Everyone :
              /\ \A c \in ToSet(children[p]) : ParentOf[c] = p /\ stage[c] \notin Unmade
              /\ \A i, k \in DOMAIN children[p] : children[p][i] = children[p][k] => i = k
              /\ stage[p] \in {"stop_kids", "join_kids"} => \A c \in ToSet(kids[p]) : ParentOf[c] = p

\* A child is listed until it has stopped, or its parent took the list.
ListedInv == \A c \in Threads : stage[c] \notin Unmade =>
                LET p == ParentOf[c]
                IN \/ stage[p] \notin {"stop_kids", "join_kids"} \cup Over /\ c \in ToSet(children[p])
                   \/ stage[p] \in {"stop_kids", "join_kids"} /\ c \in ToSet(kids[p])
                   \/ stage[p] \in Over
                   \/ c \in stopped /\ Passed(c)

\* The calls on a stack go down the tree, from the loop over the children if
\* they are not calls of a target.
Shape(label, s) == \A i \in DOMAIN s :
                      /\ s[i].of = Nobody <=> i = Len(s) /\ label # "target"
                      /\ s[i].op = s[1].op
                      /\ s[i].till = s[1].till
                      /\ i < Len(s) /\ s[i + 1].of # Nobody => ParentOf[s[i].of] = s[i + 1].of

\* What a call goes through are children, and what it has collected are
\* exceptions of threads below it.
Fits(label, list, f) == /\ label \in Telling => f.op = "stop"
                        /\ label \in JoiningAll => f.op = "join"
                        /\ f.op = "stop" => f.causes = {}
                        /\ label # "target" => ~f.till
                        /\ Timeout \in f.causes => f.till
                        /\ f.of # Nobody => /\ \A c \in ToSet(f.todo) : ParentOf[c] = f.of
                                            /\ f.causes \cap Threads \subseteq Descendants(f.of)
                        /\ f.of = Nobody => ToSet(f.todo) \subseteq ToSet(list)

StackInv == \A t \in Everyone :
               /\ Shape(stage[t], stack[t])
               /\ \A i \in DOMAIN stack[t] : /\ Fits(stage[t], kids[t], stack[t][i])
                                             /\ stack[t][i].causes \cap Threads \subseteq Casualties

\* A loop goes through the children that were taken.
LoopInv == \A t \in Everyone : stage[t] \in Telling \cup JoiningAll =>
              \A c \in Threads : Pending(stack[t], c) => c \in ToSet(kids[t])

\* Whose loop has gone past a child has told it to stop.
ToldInv == \A c \in Threads :
              LET p == ParentOf[c]
              IN /\ stage[p] = "stop_kids" /\ c \in ToSet(kids[p]) => c \in pleaseStop \/ Pending(stack[p], c)
                 /\ stage[p] = "join_kids" /\ c \in ToSet(kids[p]) => c \in pleaseStop
                 /\ stage[p] \in Over /\ stage[c] \notin Unmade => c \in pleaseStop \cup stopped

\* Whose loop has gone past a child has joined it, or met a failure below it.
JoinedInv == \A c \in Threads :
                LET p == ParentOf[c]
                IN /\ stage[p] = "join_kids" /\ c \in ToSet(kids[p]) => Settled(c) \/ Pending(stack[p], c)
                   /\ stage[p] \in Over /\ stage[c] \notin Unmade => Settled(c)

\* The second round of MainThread.stop(), over the threads R that were in ALL;
\* those in U had failed and been joined by then.
ResidueInv(U, R) ==
    stage[Main] \in {"stop_residue", "join_residue", "gone"} =>
       /\ U \cap R = {}
       /\ U \subseteq Casualties
       /\ \A i \in DOMAIN stack[Main] : U \cap (stack[Main][i].causes \cup {stack[Main][i].of}
                                                \cup ToSet(stack[Main][i].todo)) = {}
       /\ stage[Main] # "gone" => ToSet(kids[Main]) = R
       /\ \A t \in Threads : stage[t] \notin Unmade /\ t \notin Finished =>
             \E k \in R : (t = k \/ t \in Descendants(k)) /\ U \cap Descendants(k) # {}
       /\ \A t \in Threads : stage[t] \notin Unmade /\ t \notin Finished /\ U \cap Descendants(t) # {}
             => t \in R
       /\ stage[Main] # "stop_residue" =>
             \A k \in R : \/ k \in stopped
                          \/ \E e \in Descendants(k) \ U : Failed(e)
                          \/ stage[Main] = "join_residue" /\ Pending(stack[Main], k)

SecondRound == \E U, R \in SUBSET Threads : ResidueInv(U, R)

-----------------------------------------------------------------------------
(***************************************************************************)
(* The tree.                                                               *)
(***************************************************************************)

\* A child is below its parent.
LEMMA ChildIsBelow ==
  ASSUME NEW c \in Threads
  PROVE  c \in Descendants(ParentOf[c])
  BY DEF Descendants, ChildrenOf

\* What is below a thread below t is below t.
LEMMA BelowBelow ==
  ASSUME NEW t, NEW c \in Descendants(t)
  PROVE  Descendants(c) \subseteq Descendants(t)
<1> SUFFICES ASSUME NEW d \in Descendants(c), NEW S \in SUBSET Threads,
                    ChildrenOf(t) \subseteq S, ClosedDown(S)
             PROVE  d \in S
  BY DEF Descendants
<1>1. c \in S
  BY DEF Descendants
<1>2. ChildrenOf(c) \subseteq S
  BY <1>1 DEF ChildrenOf, ClosedDown
<1> QED
  BY <1>2 DEF Descendants

\* So are its children.
LEMMA ChildOfBelow ==
  ASSUME NEW t, NEW c \in Threads, ParentOf[c] \in Descendants(t)
  PROVE  c \in Descendants(t)
  BY ChildIsBelow, BelowBelow

\* Who is below t is a child of t or of a thread below t.
LEMMA ParentOfBelow ==
  ASSUME NEW t, NEW d \in Descendants(t)
  PROVE  ParentOf[d] = t \/ ParentOf[d] \in Descendants(t)
<1> DEFINE S == {x \in Threads : ParentOf[x] = t \/ ParentOf[x] \in Descendants(t)}
<1>1. ChildrenOf(t) \subseteq S
  BY DEF ChildrenOf
<1>2. ASSUME NEW c \in Threads, ParentOf[c] \in S
      PROVE  c \in S
  <2>1. ParentOf[c] \in Descendants(t)
    BY <1>2, ChildIsBelow, ChildOfBelow
  <2> QED
    BY <2>1
<1>3. ClosedDown(S)
  BY <1>2 DEF ClosedDown
<1> HIDE DEF S
<1>4. d \in S
  <2>1. S \subseteq Threads
    BY DEF S
  <2> QED
    BY <1>1, <1>3, <2>1 DEF Descendants
<1> QED
  BY <1>4 DEF S

\* Nothing is below a thread that has not run.
LEMMA NothingBelow ==
  ASSUME StageInv, NEW t \in Threads, stage[t] \in Unrun, NEW d \in Descendants(t)
  PROVE  stage[d] \in Unmade
<1> DEFINE S == {x \in Threads : stage[x] \in Unmade}
<1>1. ChildrenOf(t) \subseteq S
  BY DEF ChildrenOf, StageInv
<1>2. ClosedDown(S)
  BY DEF ClosedDown, StageInv, Unrun
<1> HIDE DEF S
<1>3. d \in S
  <2>1. S \subseteq Threads
    BY DEF S
  <2> QED
    BY <1>1, <1>2, <2>1 DEF Descendants
<1> QED
  BY <1>3 DEF S

-----------------------------------------------------------------------------
(***************************************************************************)
(* What no step undoes.                                                    *)
(***************************************************************************)

\* A stack is changed by its own thread, and the stage and the list of
\* children of a thread in a call too.
LEMMA OwnStack ==
  ASSUME TypeOK, CallInv, [Next]_vars, NEW t \in Everyone
  PROVE  \/ stack'[t] = stack[t] /\ (stack[t] # <<>> => stage'[t] = stage[t] /\ kids'[t] = kids[t])
         \/ \E c \in Threads : StopThread(t, c) \/ \E till \in BOOLEAN : Join(t, c, till)
         \/ Descend(t) \/ StopSelf(t) \/ AllTold(t)
         \/ JoinRaises(t) \/ JoinSignals(t) \/ JoinEnds(t) \/ JoinTimesOut(t)
         \/ t \in Threads /\ (TakeChildren(t) \/ Unregister(t))
         \/ t = Main /\ (MainStop \/ MainJoined \/ Residue)
<1> USE ThreadsAssumption DEF ThreadsAssumption
<1> DEFINE Same == stack'[t] = stack[t] /\ (stack[t] # <<>> => stage'[t] = stage[t] /\ kids'[t] = kids[t])
<1>0. (\A c \in Threads : c \in Everyone) /\ Main \in Everyone
  BY DEF Everyone
<1>1. ASSUME NEW r \in Everyone, NEW c \in Threads, Create(r, c) \/ StartThread(r, c)
      PROVE  Same
  BY <1>0, <1>1 DEF Create, StartThread, Goto, TypeOK, CallInv, Telling, JoiningAll
<1>2. ASSUME NEW r \in Everyone, NEW c \in Threads, Release(r, c)
      PROVE  Same
  BY <1>2 DEF Release
<1>3. ASSUME NEW r \in Everyone, r # t, NEW c \in Threads,
             StopThread(r, c) \/ \E till \in BOOLEAN : Join(r, c, till)
      PROVE  Same
  BY <1>3 DEF StopThread, Join, SetStack, TypeOK
<1>4. ASSUME NEW r \in Threads, NEW o \in {"ok", "failed"}, Finish(r, o)
      PROVE  Same
  BY <1>0, <1>4 DEF Finish, RunsTarget, Goto, TypeOK
<1>5. ASSUME NEW r \in Everyone, r # t,
             \/ Descend(r) \/ StopSelf(r) \/ AllTold(r)
             \/ JoinRaises(r) \/ JoinSignals(r) \/ JoinEnds(r) \/ JoinTimesOut(r)
      PROVE  Same
  <2>1. \A s : stack' = [stack EXCEPT ![r] = s] => stack'[t] = stack[t]
    BY <1>5 DEF TypeOK
  <2>2. stack'[t] = stack[t]
    BY <1>5, <2>1 DEF Descend, StopSelf, AllTold, JoinRaises, JoinSignals, JoinEnds, JoinTimesOut, Return, SetStack
  <2>3. stage'[t] = stage[t] /\ kids'[t] = kids[t]
    BY <1>5 DEF Descend, StopSelf, AllTold, JoinRaises, JoinSignals, JoinEnds, JoinTimesOut, Goto, TypeOK
  <2> QED
    BY <2>2, <2>3
<1>6. ASSUME NEW r \in Threads, \/ Register(r) \/ ReportFailure(r) \/ Stopped(r) \/ MetJoiner(r) \/ Forgotten(r)
      PROVE  Same
  BY <1>0, <1>6 DEF Register, ReportFailure, Stopped, MetJoiner, Forgotten, Goto, TypeOK, CallInv, Telling, JoiningAll
<1>7. ASSUME NEW r \in Threads, r # t, TakeChildren(r) \/ Unregister(r)
      PROVE  Same
  BY <1>0, <1>7, ZenonT(60) DEF TakeChildren, Unregister, AllJoined, SetStack, Goto, TypeOK
<1>8. ASSUME Main # t, MainStop \/ MainJoined \/ Residue
      PROVE  Same
  BY <1>0, <1>8, ZenonT(60) DEF MainStop, MainJoined, Residue, AllJoined, SetStack, Goto, TypeOK
<1>9. CASE UNCHANGED vars
  BY <1>9 DEF vars
<1> HIDE DEF Same
<1>10. Same \/ ~Same
  OBVIOUS
<1>11. ASSUME ~Same, Next
       PROVE  \/ \E c \in Threads : StopThread(t, c) \/ \E till \in BOOLEAN : Join(t, c, till)
              \/ Descend(t) \/ StopSelf(t) \/ AllTold(t)
              \/ JoinRaises(t) \/ JoinSignals(t) \/ JoinEnds(t) \/ JoinTimesOut(t)
              \/ t \in Threads /\ (TakeChildren(t) \/ Unregister(t))
              \/ t = Main /\ (MainStop \/ MainJoined \/ Residue)
  <2>1. CASE \E r \in Everyone : Target(r)
    BY <1>1, <1>2, <1>3, <1>4, <1>11, <2>1 DEF Target
  <2>2. CASE \E r \in Everyone : Walk(r)
    BY <1>5, <1>11, <2>2 DEF Walk
  <2>3. CASE \E r \in Threads : Run(r)
    BY <1>6, <1>7, <1>11, <2>3 DEF Run
  <2>4. CASE MainStop \/ MainJoined \/ Residue
    BY <1>8, <1>11, <2>4
  <2> QED
    BY <1>11, <2>1, <2>2, <2>3, <2>4 DEF Next
<1> QED
  BY <1>9, <1>10, <1>11 DEF Same

\* Threads get further, and what has happened to them stays.
LEMMA Onward ==
  ASSUME TypeOK, StageInv, [Next]_vars
  PROVE  /\ \A t \in Everyone : /\ stage[t] \notin Unmade => stage'[t] \notin Unmade
                                /\ stage[t] \notin Unrun => stage'[t] \notin Unrun
                                /\ stage[t] \in Over => stage'[t] \in Over
                                /\ stage'[t] = "target" => stage[t] \in {"starting", "target"}
         /\ \A t \in Threads : /\ stage[t] \notin Unrun \cup {"target"} => outcome'[t] = outcome[t]
                               /\ outcome[t] # "none" => outcome'[t] = outcome[t]
         /\ pleaseStop \subseteq pleaseStop' /\ stopped \subseteq stopped' /\ heard \subseteq heard'
<1> USE ThreadsAssumption DEF ThreadsAssumption, Unmade, Unrun, Over
<1>0. (\A c \in Threads : c \in Everyone) /\ Main \in Everyone
  BY DEF Everyone
<1> DEFINE Further == \A t \in Everyone : /\ stage[t] \notin Unmade => stage'[t] \notin Unmade
                                          /\ stage[t] \notin Unrun => stage'[t] \notin Unrun
                                          /\ stage[t] \in Over => stage'[t] \in Over
                                          /\ stage'[t] = "target" => stage[t] \in {"starting", "target"}
           Ended == \A t \in Threads : /\ stage[t] \notin Unrun \cup {"target"} => outcome'[t] = outcome[t]
                                       /\ outcome[t] # "none" => outcome'[t] = outcome[t]
           More == pleaseStop \subseteq pleaseStop' /\ stopped \subseteq stopped' /\ heard \subseteq heard'
<1>1. ASSUME NEW t \in Everyone, NEW c \in Threads, Create(t, c) \/ StartThread(t, c)
      PROVE  Further /\ Ended /\ More
  BY <1>0, <1>1, ZenonT(60) DEF Create, StartThread, Goto, TypeOK
<1>2. ASSUME NEW t \in Everyone, NEW c \in Threads,
             Release(t, c) \/ StopThread(t, c) \/ \E till \in BOOLEAN : Join(t, c, till)
      PROVE  Further /\ Ended /\ More
  BY <1>2 DEF Release, StopThread, Join
<1>3. ASSUME NEW t \in Threads, NEW o \in {"ok", "failed"}, Finish(t, o)
      PROVE  Further /\ Ended /\ More
  BY <1>0, <1>3 DEF Finish, RunsTarget, Goto, TypeOK, StageInv
<1>4. ASSUME NEW t \in Everyone, Descend(t) \/ StopSelf(t) \/ JoinSignals(t)
      PROVE  Further /\ Ended /\ More
  BY <1>4 DEF Descend, StopSelf, JoinSignals
<1>5. ASSUME NEW t \in Everyone, JoinRaises(t) \/ JoinEnds(t) \/ JoinTimesOut(t)
      PROVE  Further /\ Ended /\ More
  BY <1>5 DEF JoinRaises, JoinEnds, JoinTimesOut, Return
<1>6. ASSUME NEW t \in Everyone, AllTold(t)
      PROVE  Further /\ Ended /\ More
  BY <1>6 DEF AllTold, Goto, TypeOK
<1>7. ASSUME NEW t \in Threads, \/ Register(t) \/ ReportFailure(t) \/ TakeChildren(t) \/ Unregister(t)
                                \/ Stopped(t) \/ MetJoiner(t) \/ Forgotten(t)
      PROVE  Further /\ Ended /\ More
  <2>1. CASE Register(t) \/ ReportFailure(t) \/ TakeChildren(t)
    BY <1>0, <2>1 DEF Register, ReportFailure, TakeChildren, Goto, TypeOK
  <2>2. CASE Unregister(t) \/ Stopped(t)
    BY <1>0, <2>2 DEF Unregister, Stopped, Goto, TypeOK
  <2>3. CASE MetJoiner(t) \/ Forgotten(t)
    BY <1>0, <2>3 DEF MetJoiner, Forgotten, Goto, TypeOK
  <2> QED
    BY <1>7, <2>1, <2>2, <2>3
<1>8. ASSUME MainStop \/ MainJoined \/ Residue
      PROVE  Further /\ Ended /\ More
  BY <1>0, <1>8, ZenonT(60) DEF MainStop, RunsTarget, MainJoined, Residue, Goto, TypeOK
<1>9. ASSUME UNCHANGED vars
      PROVE  Further /\ Ended /\ More
  BY <1>9 DEF vars
<1> HIDE DEF Further, Ended, More
<1>10. ASSUME Next
       PROVE  Further /\ Ended /\ More
  BY <1>1, <1>2, <1>3, <1>4, <1>5, <1>6, <1>7, <1>8, <1>10 DEF Next, Target, Walk, Run
<1>11. Further /\ Ended /\ More
  BY <1>9, <1>10
<1> QED
  BY <1>11 DEF Further, Ended, More

\* Who has been made and is on no list is on none later.
LEMMA NotListedAgain ==
  ASSUME TypeOK, ListInv, [Next]_vars, NEW d \in Threads, stage[d] \notin Unmade,
         d \notin ToSet(children[ParentOf[d]])
  PROVE  d \notin ToSet(children'[ParentOf[d]])
<1> USE ThreadsAssumption DEF ThreadsAssumption, Unmade
<1> SUFFICES ASSUME NEW p, p = ParentOf[d]
             PROVE  d \notin ToSet(children'[p])
  OBVIOUS
<1>0. p \in Everyone /\ d \notin ToSet(children[p]) /\ (\A t \in Threads : t \in Everyone) /\ Main \in Everyone
  BY DEF Everyone
<1>1. ASSUME NEW t \in Everyone, NEW c \in Threads, Create(t, c)
      PROVE  d \notin ToSet(children'[p])
  <2>1. c # d /\ children' = [children EXCEPT ![t] = Append(children[t], c)]
    BY <1>1 DEF Create
  <2>2. ToSet(Append(children[t], c)) = ToSet(children[t]) \cup {c}
    <3>1. children[t] \in Seq(Threads)
      BY DEF TypeOK
    <3> QED
      BY <3>1, OneMore
  <2>3. children'[p] = IF p = t THEN Append(children[t], c) ELSE children[p]
    BY <1>0, <2>1 DEF TypeOK
  <2> QED
    BY <1>0, <2>1, <2>2, <2>3
<1>2. ASSUME NEW c \in Threads, RemoveChild(c)
      PROVE  d \notin ToSet(children'[p])
  <2>1. CASE p # ParentOf[c]
    BY <1>0, <1>2, <2>1, ChildGone
  <2>2. ASSUME p = ParentOf[c], NEW i \in DOMAIN children[p],
               children' = [children EXCEPT ![p] = RemoveAt(children[p], i)]
        PROVE  d \notin ToSet(children'[p])
    <3>1. ToSet(RemoveAt(children[p], i)) = ToSet(children[p]) \ {children[p][i]}
      <4>1. children[p] \in Seq(Threads) /\ \A j, k \in DOMAIN children[p] : children[p][j] = children[p][k] => j = k
        BY <1>0, ZenonT(60) DEF TypeOK, ListInv
      <4> QED
        BY <2>2, <4>1, WithoutOne
    <3> QED
      BY <1>0, <2>2, <3>1 DEF TypeOK
  <2> QED
    BY <1>2, <2>1, <2>2 DEF RemoveChild
<1>3. ASSUME NEW t \in Everyone, children' = [children EXCEPT ![t] = <<>>]
      PROVE  d \notin ToSet(children'[p])
  <2>1. ToSet(<<>>) = {}
    BY DEF ToSet
  <2> QED
    BY <1>0, <1>3, <2>1 DEF TypeOK
<1>4. CASE UNCHANGED children
  BY <1>0, <1>4
<1>5. CASE \E t \in Everyone : Target(t)
  BY <1>1, <1>4, <1>5 DEF Target, StartThread, StopThread, Join, Release, Finish
<1>6. ASSUME NEW t \in Everyone, Walk(t)
      PROVE  d \notin ToSet(children'[p])
  <2>1. CASE JoinEnds(t)
    <3>1. stack[t] # <<>> /\ Top(t).of # Nobody /\ RemoveChild(Top(t).of)
      BY <2>1 DEF JoinEnds, Joining
    <3>2. Top(t).of \in Threads
      BY <3>1, TopOfStack DEF TypeOK, Frames
    <3> QED
      BY <1>2, <3>1, <3>2
  <2>2. CASE ~JoinEnds(t)
    BY <1>4, <1>6, <2>2 DEF Walk, Descend, StopSelf, AllTold, JoinRaises, JoinSignals, JoinTimesOut
  <2> QED
    BY <2>1, <2>2
<1>7. ASSUME NEW t \in Threads, Run(t)
      PROVE  d \notin ToSet(children'[p])
  <2>1. CASE Forgotten(t)
    BY <1>2, <1>4, <2>1 DEF Forgotten
  <2>2. CASE TakeChildren(t)
    BY <1>0, <1>3, <2>2 DEF TakeChildren
  <2>3. CASE ~Forgotten(t) /\ ~TakeChildren(t)
    BY <1>4, <1>7, <2>3 DEF Run, Register, ReportFailure, Unregister, Stopped, MetJoiner
  <2> QED
    BY <2>1, <2>2, <2>3
<1>8. CASE MainStop \/ MainJoined \/ Residue \/ UNCHANGED vars
  BY <1>4, <1>8 DEF MainStop, MainJoined, Residue, vars
<1> QED
  BY <1>5, <1>6, <1>7, <1>8 DEF Next

\* So a failure that was joined stays one, and what it cut short too.
LEMMA CasualtiesStay ==
  ASSUME TypeOK, StageInv, ListInv, [Next]_vars
  PROVE  /\ Casualties \subseteq Casualties'
         /\ \A c : Short(c) => Short(c)'
<1>1. ASSUME NEW d \in Threads, d \in Casualties
      PROVE  d \in Casualties'
  <2>1. Failed(d) /\ d \in stopped /\ d \notin ToSet(children[ParentOf[d]])
    BY <1>1 DEF Casualties
  <2>2. stage[d] \notin Unmade
    BY <2>1 DEF StageInv, Unmade
  <2>3. d \notin ToSet(children'[ParentOf[d]])
    BY <2>1, <2>2, NotListedAgain
  <2>4. d \in stopped' /\ Failed(d)'
    BY <2>1, Onward DEF Failed
  <2> QED
    BY <2>3, <2>4 DEF Casualties
<1>2. Casualties \subseteq Casualties'
  BY <1>1 DEF Casualties
<1> QED
  BY <1>2 DEF Short

-----------------------------------------------------------------------------
(***************************************************************************)
(* The stages of the threads.                                              *)
(***************************************************************************)

\* Where the frames of a stack are.
LEMMA TopFacts ==
  ASSUME TypeOK, CallInv, StackInv, NEW t \in Everyone, stack[t] # <<>>
  PROVE  /\ Top(t) = stack[t][1]
         /\ Top(t) \in Frames
         /\ Len(stack[t]) \in Nat \ {0}
         /\ DOMAIN stack[t] = 1..Len(stack[t])
         /\ stage[t] \in Telling \cup JoiningAll \cup {"target"}
         /\ Fits(stage[t], kids[t], Top(t))
         /\ Top(t).causes \cap Threads \subseteq Casualties
         /\ Top(t).of = Nobody <=> Len(stack[t]) = 1 /\ stage[t] # "target"
<1>1. stack[t] \in Seq(Frames)
  BY DEF TypeOK
<1>2. Top(t) = stack[t][1] /\ Top(t) \in Frames /\ Len(stack[t]) \in Nat \ {0}
  BY <1>1, TopOfStack
<1>3. DOMAIN stack[t] = 1..Len(stack[t])
  BY <1>1
<1>4. 1 \in DOMAIN stack[t]
  BY <1>2, <1>3
<1>5. /\ Fits(stage[t], kids[t], Top(t))
      /\ Top(t).causes \cap Threads \subseteq Casualties
      /\ Top(t).of = Nobody <=> Len(stack[t]) = 1 /\ stage[t] # "target"
  <2>1. /\ Fits(stage[t], kids[t], stack[t][1])
        /\ stack[t][1].causes \cap Threads \subseteq Casualties
        /\ Shape(stage[t], stack[t])
    BY <1>4 DEF StackInv
  <2>2. stack[t][1].of = Nobody <=> 1 = Len(stack[t]) /\ stage[t] # "target"
    BY <1>4, <2>1 DEF Shape
  <2> QED
    BY <1>2, <2>1, <2>2
<1> QED
  BY <1>2, <1>3, <1>5 DEF CallInv

\* The loop that tells the children to stop ends in its own stages.
LEMMA ToldStage ==
  ASSUME TypeOK, CallInv, StackInv, NEW t \in Everyone, AllTold(t)
  PROVE  stage[t] \in Telling /\ Len(stack[t]) = 1
  BY TopFacts DEF AllTold, Fits

\* Every step keeps what goes with the stages.
LEMMA NextStage ==
  ASSUME TypeOK, StageInv, CallInv, StackInv, IsFiniteSet(all), [Next]_vars
  PROVE  StageInv' /\ IsFiniteSet(all)'
<1> USE ThreadsAssumption DEF ThreadsAssumption, Unmade, Unrun, Telling, JoiningAll
<1>0. (\A t \in Threads : t \in Everyone /\ ParentOf[t] \in Everyone /\ t # Main) /\ Main \in Everyone
  BY DEF Everyone
<1> DEFINE Good == StageInv' /\ IsFiniteSet(all')
<1>1. ASSUME NEW t \in Everyone, NEW c \in Threads, Create(t, c)
      PROVE  Good
  <2>1. stage[t] = "target" /\ ParentOf[c] = t /\ stage[c] = "unborn"
    BY <1>1 DEF Create, RunsTarget
  <2>2. c \in Descendants(Main)
    <3>1. CASE t = Main
      BY <2>1, <3>1, ChildIsBelow
    <3>2. CASE t # Main
      <4>1. t \in Descendants(Main)
        BY <2>1, <3>2 DEF Everyone, StageInv
      <4> QED
        BY <2>1, <4>1, ChildOfBelow
    <3> QED
      BY <3>1, <3>2
  <2>3. /\ \A x \in Everyone : stage'[x] = IF x = c THEN "created" ELSE stage[x]
        /\ UNCHANGED <<outcome, stopped, all>>
    BY <1>0, <1>1 DEF Create, Goto, TypeOK
  <2> QED
    BY <1>0, <2>1, <2>2, <2>3 DEF StageInv
<1>2. ASSUME NEW t \in Everyone, NEW c \in Threads, StartThread(t, c)
      PROVE  Good
  <2>1. stage[c] = "created"
    BY <1>2 DEF StartThread
  <2>2. /\ \A x \in Everyone : stage'[x] = IF x = c THEN "starting" ELSE stage[x]
        /\ UNCHANGED <<outcome, stopped, all>>
    BY <1>0, <1>2 DEF StartThread, Goto, TypeOK
  <2> QED
    BY <1>0, <2>1, <2>2 DEF StageInv
<1>3. ASSUME NEW t \in Everyone, NEW c \in Threads,
             Release(t, c) \/ StopThread(t, c) \/ \E till \in BOOLEAN : Join(t, c, till)
      PROVE  Good
  BY <1>3 DEF Release, StopThread, Join, StageInv
<1>4. ASSUME NEW t \in Threads, NEW o \in {"ok", "failed"}, Finish(t, o)
      PROVE  Good
  <2>1. stage[t] = "target" /\ \A c \in Threads : ParentOf[c] = t => stage[c] # "created"
    BY <1>4 DEF Finish, RunsTarget
  <2>2. /\ \A x \in Everyone : x # t => stage'[x] = stage[x]
        /\ stage'[t] \in {"failed", "closing"}
        /\ \A x \in Threads : x # t => outcome'[x] = outcome[x]
        /\ UNCHANGED <<stopped, all>>
    BY <1>0, <1>4 DEF Finish, Goto, TypeOK
  <2> QED
    BY <1>0, <2>1, <2>2 DEF StageInv
<1>5. ASSUME NEW t \in Everyone,
             \/ Descend(t) \/ StopSelf(t) \/ JoinSignals(t)
             \/ JoinRaises(t) \/ JoinEnds(t) \/ JoinTimesOut(t)
      PROVE  Good
  BY <1>5 DEF Descend, StopSelf, JoinSignals, JoinRaises, JoinEnds, JoinTimesOut, StageInv
<1>6. ASSUME NEW t \in Everyone, AllTold(t)
      PROVE  Good
  <2>1. stage[t] \in Telling
    BY <1>6, ToldStage
  <2>2. /\ \A x \in Everyone : x # t => stage'[x] = stage[x]
        /\ stage'[t] = IF stage[t] = "stop_kids" THEN "join_kids" ELSE "join_residue"
        /\ UNCHANGED <<outcome, stopped, all>>
    BY <1>6 DEF AllTold, Goto, TypeOK
  <2> QED
    BY <1>0, <2>1, <2>2 DEF StageInv
<1>7. ASSUME NEW t \in Threads, Register(t)
      PROVE  Good
  <2>1. stage[t] = "starting" /\ all' = all \cup {t}
    BY <1>7 DEF Register
  <2>2. /\ \A x \in Everyone : stage'[x] = IF x = t THEN "target" ELSE stage[x]
        /\ UNCHANGED <<outcome, stopped>>
    BY <1>0, <1>7 DEF Register, Goto, TypeOK
  <2>3. IsFiniteSet(all')
    BY <2>1, FS_AddElement
  <2> QED
    BY <1>0, <2>1, <2>2, <2>3 DEF StageInv
<1>8. ASSUME NEW t \in Threads, ReportFailure(t) \/ TakeChildren(t)
      PROVE  Good
  <2>1. /\ stage[t] \in {"failed", "closing"}
        /\ \A x \in Everyone : x # t => stage'[x] = stage[x]
        /\ stage'[t] \in {"closing", "stop_kids"}
        /\ UNCHANGED <<outcome, stopped, all>>
    BY <1>0, <1>8 DEF ReportFailure, TakeChildren, Goto, TypeOK
  <2> QED
    BY <1>0, <2>1 DEF StageInv
<1>9. ASSUME NEW t \in Threads, Unregister(t)
      PROVE  Good
  <2>1. stage[t] = "join_kids" /\ all' = all \ {t}
    BY <1>9 DEF Unregister
  <2>2. /\ \A x \in Everyone : stage'[x] = IF x = t THEN "unregistered" ELSE stage[x]
        /\ UNCHANGED <<outcome, stopped>>
    BY <1>0, <1>9 DEF Unregister, Goto, TypeOK
  <2>3. IsFiniteSet(all')
    BY <2>1, FS_RemoveElement
  <2> QED
    BY <1>0, <2>1, <2>2, <2>3 DEF StageInv
<1>10. ASSUME NEW t \in Threads, Stopped(t)
       PROVE  Good
  <2>1. stage[t] = "unregistered" /\ stopped' = stopped \cup {t}
    BY <1>10 DEF Stopped
  <2>2. /\ \A x \in Everyone : stage'[x] = IF x = t THEN "linger" ELSE stage[x]
        /\ UNCHANGED <<outcome, all>>
    BY <1>0, <1>10 DEF Stopped, Goto, TypeOK
  <2> QED
    BY <1>0, <2>1, <2>2 DEF StageInv
<1>11. ASSUME NEW t \in Threads, MetJoiner(t) \/ Forgotten(t)
       PROVE  Good
  <2>1. /\ stage[t] = "linger"
        /\ \A x \in Everyone : stage'[x] = IF x = t THEN "gone" ELSE stage[x]
        /\ UNCHANGED <<outcome, stopped, all>>
    BY <1>0, <1>11 DEF MetJoiner, Forgotten, Goto, TypeOK
  <2> QED
    BY <1>0, <2>1 DEF StageInv
<1>12. ASSUME MainStop
       PROVE  Good
  <2>1. /\ stage[Main] = "target"
        /\ \A c \in Threads : ParentOf[c] = Main => stage[c] # "created"
        /\ \A x \in Everyone : stage'[x] = IF x = Main THEN "stop_kids" ELSE stage[x]
        /\ UNCHANGED <<outcome, stopped, all>>
    BY <1>0, <1>12 DEF MainStop, RunsTarget, Goto, TypeOK
  <2> QED
    BY <1>0, <2>1 DEF StageInv
<1>13. ASSUME MainJoined \/ Residue
       PROVE  Good
  <2>1. /\ stage[Main] \in {"residue", "join_kids", "join_residue"}
        /\ \A x \in Everyone : x # Main => stage'[x] = stage[x]
        /\ stage'[Main] \in {"residue", "stop_residue", "gone"}
        /\ UNCHANGED <<outcome, stopped, all>>
    BY <1>0, <1>13, ZenonT(60) DEF MainJoined, Residue, Goto, TypeOK
  <2> QED
    BY <1>0, <2>1 DEF StageInv
<1>14. ASSUME UNCHANGED vars
       PROVE  Good
  BY <1>14 DEF vars, StageInv, Descendants
<1> HIDE DEF Good
<1>15. ASSUME Next
       PROVE  Good
  <2>1. CASE \E t \in Everyone : Target(t)
    BY <1>1, <1>2, <1>3, <1>4, <2>1 DEF Target
  <2>2. CASE \E t \in Everyone : Walk(t)
    BY <1>5, <1>6, <2>2 DEF Walk
  <2>3. CASE \E t \in Threads : Run(t)
    BY <1>7, <1>8, <1>9, <1>10, <1>11, <2>3 DEF Run
  <2>4. CASE MainStop \/ MainJoined \/ Residue
    BY <1>12, <1>13, <2>4
  <2> QED
    BY <1>15, <2>1, <2>2, <2>3, <2>4 DEF Next
<1>16. Good
  BY <1>14, <1>15
<1> QED
  BY <1>16 DEF Good

\* A call of the loops returns to them, and the others to a target.
LEMMA NextCall ==
  ASSUME TypeOK, StageInv, CallInv, StackInv, [Next]_vars
  PROVE  CallInv'
<1> USE ThreadsAssumption DEF ThreadsAssumption, Telling, JoiningAll
<1>0. (\A t \in Threads : t \in Everyone /\ ParentOf[t] \in Everyone /\ t # Main) /\ Main \in Everyone
  BY DEF Everyone
<1>1. ASSUME NEW t \in Everyone, NEW c \in Threads, Create(t, c) \/ StartThread(t, c)
      PROVE  CallInv'
  <2>1. CASE Create(t, c)
    BY <1>0, <2>1 DEF Create, Goto, TypeOK, CallInv
  <2>2. CASE StartThread(t, c)
    BY <1>0, <2>2 DEF StartThread, Goto, TypeOK, CallInv
  <2> QED
    BY <1>1, <2>1, <2>2
<1>2. ASSUME NEW t \in Everyone, NEW c \in Threads, Release(t, c)
      PROVE  CallInv'
  BY <1>2 DEF Release, CallInv
<1>3. ASSUME NEW t \in Everyone, NEW c \in Threads,
             StopThread(t, c) \/ \E till \in BOOLEAN : Join(t, c, till)
      PROVE  CallInv'
  <2>1. stage[t] = "target" /\ stage' = stage
    BY <1>3 DEF StopThread, Join, CallOn, RunsTarget
  <2>2. PICK s : stack' = [stack EXCEPT ![t] = s]
    BY <1>3 DEF StopThread, Join, SetStack
  <2>3. \A r \in Everyone : r # t => stack'[r] = stack[r]
    BY <2>2 DEF TypeOK
  <2> QED
    BY <2>1, <2>3 DEF CallInv
<1>4. ASSUME NEW t \in Threads, NEW o \in {"ok", "failed"}, Finish(t, o)
      PROVE  CallInv'
  BY <1>0, <1>4 DEF Finish, RunsTarget, Goto, TypeOK, CallInv
<1>5. ASSUME NEW t \in Everyone, Descend(t) \/ JoinSignals(t)
      PROVE  CallInv'
  <2>1. stack[t] # <<>> /\ UNCHANGED stage
    BY <1>5 DEF Descend, JoinSignals, Joining
  <2>2. Len(stack[t]) \in Nat \ {0}
    BY <2>1, TopFacts
  <2>3. stack' = [stack EXCEPT ![t] = stack'[t]] /\ Len(stack'[t]) \in {Len(stack[t]), Len(stack[t]) + 1}
    BY <1>5, Descends, JoinMarks
  <2>4. stack'[t] # <<>>
    <3>1. Len(stack'[t]) # 0
      BY <2>2, <2>3
    <3> QED
      BY <3>1
  <2> QED
    BY <2>1, <2>3, <2>4 DEF CallInv, TypeOK
<1>6. ASSUME NEW t \in Everyone, StopSelf(t) \/ JoinRaises(t) \/ JoinEnds(t) \/ JoinTimesOut(t)
      PROVE  CallInv'
  <2>1. stack[t] # <<>> /\ Top(t).of # Nobody /\ UNCHANGED stage
    BY <1>6 DEF StopSelf, JoinRaises, JoinEnds, JoinTimesOut, Joining
  <2>2. /\ Len(stack[t]) \in Nat \ {0}
        /\ Len(stack[t]) # 1 \/ stage[t] = "target"
        /\ stage[t] \in Telling \cup JoiningAll \cup {"target"}
    BY <2>1, TopFacts
  <2>3. stack' = [stack EXCEPT ![t] = stack'[t]] /\ Len(stack'[t]) = Len(stack[t]) - 1
    <3>1. CASE StopSelf(t)
      BY <3>1, StopPops
    <3>2. CASE ~StopSelf(t)
      <4>1. \E causes \in SUBSET (Threads \cup {Timeout}) : Return(t, causes)
        <5>1. Top(t).causes \in SUBSET (Threads \cup {Timeout}) /\ (Top(t).of # Nobody => Top(t).of \in Threads)
          BY <2>1, TopFacts DEF Frames
        <5> QED
          BY <1>6, <2>1, <3>2, <5>1 DEF JoinRaises, JoinEnds, JoinTimesOut
      <4> QED
        BY <2>1, <4>1, JoinPops
    <3> QED
      BY <3>1, <3>2
  <2>4. stack'[t] = <<>> => stage[t] = "target"
    <3>1. stack'[t] = <<>> => Len(stack'[t]) = 0
      OBVIOUS
    <3> QED
      BY <2>2, <2>3, <3>1
  <2> QED
    BY <2>1, <2>2, <2>3, <2>4 DEF CallInv, TypeOK
<1>7. ASSUME NEW t \in Everyone, AllTold(t)
      PROVE  CallInv'
  BY <1>7 DEF AllTold, SetStack, Goto, TypeOK, CallInv
<1>8. ASSUME NEW t \in Threads, \/ Register(t) \/ ReportFailure(t) \/ Stopped(t) \/ MetJoiner(t) \/ Forgotten(t)
      PROVE  CallInv'
  <2>1. /\ stage' = [stage EXCEPT ![t] = stage'[t]]
        /\ stage'[t] \in {"target", "closing", "linger", "gone"}
        /\ stage[t] \in {"starting", "failed", "unregistered", "linger"}
        /\ UNCHANGED stack
    BY <1>0, <1>8 DEF Register, ReportFailure, Stopped, MetJoiner, Forgotten, Goto, TypeOK
  <2>2. stack[t] = <<>>
    BY <1>0, <2>1 DEF CallInv
  <2> QED
    BY <2>1, <2>2 DEF CallInv, TypeOK
<1>9. ASSUME NEW t \in Threads, TakeChildren(t) \/ Unregister(t)
      PROVE  CallInv'
  <2>1. CASE TakeChildren(t)
    BY <1>0, <2>1 DEF TakeChildren, SetStack, Goto, TypeOK, CallInv
  <2>2. CASE Unregister(t)
    <3>1. /\ stage' = [stage EXCEPT ![t] = "unregistered"]
          /\ stack' = [stack EXCEPT ![t] = <<>>]
      BY <2>2 DEF Unregister, AllJoined, SetStack, Goto
    <3> QED
      BY <1>0, <3>1 DEF TypeOK, CallInv
  <2> QED
    BY <1>9, <2>1, <2>2
<1>10. CASE MainStop \/ MainJoined
  <2>1. CASE MainStop
    BY <1>0, <2>1 DEF MainStop, SetStack, Goto, TypeOK, CallInv
  <2>2. CASE MainJoined
    <3>1. /\ stage' = [stage EXCEPT ![Main] = stage'[Main]]
          /\ stage'[Main] \in {"residue", "gone"}
          /\ stack' = [stack EXCEPT ![Main] = <<>>]
      BY <1>0, <2>2 DEF MainJoined, AllJoined, SetStack, Goto, TypeOK
    <3> QED
      BY <1>0, <3>1 DEF TypeOK, CallInv
  <2> QED
    BY <1>10, <2>1, <2>2
<1>11. CASE Residue
  BY <1>0, <1>11 DEF Residue, SetStack, Goto, TypeOK, CallInv
<1>12. CASE UNCHANGED vars
  BY <1>12 DEF vars, CallInv
<1>13. CASE \E t \in Everyone : Target(t)
  BY <1>1, <1>2, <1>3, <1>4, <1>13 DEF Target
<1>14. CASE \E t \in Everyone : Walk(t)
  BY <1>5, <1>6, <1>7, <1>14 DEF Walk
<1>15. CASE \E t \in Threads : Run(t)
  BY <1>8, <1>9, <1>15 DEF Run
<1> QED
  BY <1>10, <1>11, <1>12, <1>13, <1>14, <1>15 DEF Next

\* The list of children that is gone through stays until the loops are over.
LEMMA KidsStay ==
  ASSUME TypeOK, StageInv, CallInv, StackInv, [Next]_vars, NEW p \in Everyone,
         stage'[p] \in {"stop_kids", "join_kids"}
  PROVE  \/ stage[p] \in {"stop_kids", "join_kids"} /\ kids'[p] = kids[p]
         \/ kids'[p] = children[p] /\ stage'[p] = "stop_kids" /\ (TakeChildren(p) \/ (p = Main /\ MainStop))
<1> USE DEF Telling, JoiningAll
<1>1. CASE stack'[p] = stack[p] /\ (stack[p] # <<>> => stage'[p] = stage[p] /\ kids'[p] = kids[p])
  <2>1. stack'[p] # <<>>
    BY NextCall DEF CallInv
  <2> QED
    BY <1>1, <2>1
<1>2. CASE \E c \in Threads : StopThread(p, c) \/ \E till \in BOOLEAN : Join(p, c, till)
  BY <1>2 DEF StopThread, Join
<1>3. CASE Descend(p) \/ StopSelf(p) \/ JoinRaises(p) \/ JoinSignals(p) \/ JoinEnds(p) \/ JoinTimesOut(p)
  BY <1>3 DEF Descend, StopSelf, JoinRaises, JoinSignals, JoinEnds, JoinTimesOut
<1>4. CASE AllTold(p)
  BY <1>4, ToldStage DEF AllTold, Goto, TypeOK
<1>5. CASE p \in Threads /\ TakeChildren(p)
  BY <1>5 DEF TakeChildren, Goto, TypeOK
<1>6. CASE p \in Threads /\ Unregister(p)
  BY <1>6 DEF Unregister, Goto, TypeOK
<1>7. CASE p = Main /\ (MainStop \/ MainJoined \/ Residue)
  BY <1>7 DEF MainStop, MainJoined, Residue, Goto, TypeOK
<1> QED
  BY <1>1, <1>2, <1>3, <1>4, <1>5, <1>6, <1>7, OwnStack

-----------------------------------------------------------------------------
(***************************************************************************)
(* The lists of children.                                                  *)
(***************************************************************************)

\* Without the thread that is taken off, a list is what it was.
LEMMA ChildRemoved ==
  ASSUME TypeOK, ListInv, NEW c \in Threads, RemoveChild(c)
  PROVE  /\ \A p \in Everyone : ToSet(children'[p]) = ToSet(children[p]) \ {c}
         /\ \A p \in Everyone : \A i, k \in DOMAIN children'[p] :
               children'[p][i] = children'[p][k] => i = k
<1> USE ThreadsAssumption DEF ThreadsAssumption
<1>0. ParentOf[c] \in Everyone
  OBVIOUS
<1>1. ASSUME NEW p \in Everyone, p # ParentOf[c]
      PROVE  children'[p] = children[p] /\ c \notin ToSet(children[p])
  BY <1>1, ChildGone DEF ListInv
<1>2. ASSUME NEW p \in Everyone, p = ParentOf[c]
      PROVE  /\ ToSet(children'[p]) = ToSet(children[p]) \ {c}
             /\ \A i, k \in DOMAIN children'[p] : children'[p][i] = children'[p][k] => i = k
  <2>1. CASE c \notin ToSet(children[p]) /\ UNCHANGED children
    BY <2>1 DEF ListInv
  <2>2. ASSUME NEW i \in DOMAIN children[p], children[p][i] = c,
               children' = [children EXCEPT ![p] = RemoveAt(children[p], i)]
        PROVE  /\ ToSet(children'[p]) = ToSet(children[p]) \ {c}
               /\ \A j, k \in DOMAIN children'[p] : children'[p][j] = children'[p][k] => j = k
    <3>1. children'[p] = RemoveAt(children[p], i)
      BY <2>2 DEF TypeOK
    <3>2. children[p] \in Seq(Threads) /\ \A j, k \in DOMAIN children[p] : children[p][j] = children[p][k] => j = k
      BY DEF TypeOK, ListInv
    <3> QED
      BY <2>2, <3>1, <3>2, WithoutOne
  <2> QED
    BY <1>2, <2>1, <2>2 DEF RemoveChild
<1> QED
  BY <1>1, <1>2 DEF ListInv

\* Every step keeps what is in the lists.
LEMMA NextList ==
  ASSUME TypeOK, StageInv, CallInv, StackInv, ListInv, [Next]_vars
  PROVE  ListInv'
<1> USE ThreadsAssumption DEF ThreadsAssumption, Unmade
<1>0. (\A t \in Threads : t \in Everyone /\ ParentOf[t] \in Everyone /\ t # Main) /\ Main \in Everyone
  BY DEF Everyone
<1> DEFINE Kept(p) == /\ \A c \in ToSet(children'[p]) : ParentOf[c] = p /\ stage'[c] \notin Unmade
                      /\ \A i, k \in DOMAIN children'[p] : children'[p][i] = children'[p][k] => i = k
           Taken(p) == stage'[p] \in {"stop_kids", "join_kids"} => \A c \in ToSet(kids'[p]) : ParentOf[c] = p
<1>1. \A p \in Everyone : children[p] \in Seq(Threads) /\ ToSet(children[p]) \subseteq Threads
  BY Elements DEF TypeOK
<1>2. \A p \in Everyone : children'[p] = children[p] => Kept(p)
  <2>1. \A c \in Threads : stage[c] \notin Unmade => stage'[c] \notin Unmade
    BY <1>0, Onward
  <2> QED
    BY <1>1, <2>1 DEF ListInv
<1>3. \A p \in Everyone : children'[p] = <<>> => Kept(p)
  BY DEF ToSet
<1>4. ASSUME NEW c \in Threads, RemoveChild(c), NEW p \in Everyone
      PROVE  Kept(p)
  <2>1. \A x \in Threads : stage[x] \notin Unmade => stage'[x] \notin Unmade
    BY <1>0, Onward
  <2>2. ToSet(children'[p]) = ToSet(children[p]) \ {c}
    BY <1>4, ChildRemoved
  <2>3. \A i, k \in DOMAIN children'[p] : children'[p][i] = children'[p][k] => i = k
    BY <1>4, ChildRemoved
  <2>4. \A x \in ToSet(children[p]) : x \in Threads /\ ParentOf[x] = p /\ stage[x] \notin Unmade
    BY <1>1 DEF ListInv
  <2>5. \A x \in ToSet(children'[p]) : ParentOf[x] = p /\ stage'[x] \notin Unmade
    BY <2>1, <2>2, <2>4
  <2> QED
    BY <2>3, <2>5
<1>5. ASSUME NEW t \in Everyone, NEW c \in Threads, Create(t, c), NEW p \in Everyone
      PROVE  Kept(p)
  <2>1. children' = [children EXCEPT ![t] = Append(children[t], c)] /\ ParentOf[c] = t /\ stage[c] = "unborn"
    BY <1>5 DEF Create
  <2>2. CASE p # t
    <3>1. children'[p] = children[p]
      BY <2>1, <2>2 DEF TypeOK
    <3> QED
      BY <1>2, <3>1
  <2>3. CASE p = t
    <3>1. children'[p] = Append(children[p], c)
      BY <2>1, <2>3 DEF TypeOK
    <3>2. c \notin ToSet(children[p])
      BY <2>1 DEF ListInv
    <3>3. stage'[c] = "created"
      BY <1>0, <1>5 DEF Create, Goto, TypeOK
    <3>4. \A x \in Threads : stage[x] \notin Unmade => stage'[x] \notin Unmade
      BY <1>0, Onward
    <3>5. /\ ToSet(children'[p]) = ToSet(children[p]) \cup {c}
          /\ \A i \in 1..Len(children[p]) : children'[p][i] = children[p][i]
          /\ children'[p][Len(children[p]) + 1] = c
          /\ DOMAIN children'[p] = 1..(Len(children[p]) + 1)
      BY <1>1, <3>1, OneMore
    <3>6. \A x \in ToSet(children'[p]) : ParentOf[x] = p /\ stage'[x] \notin Unmade
      BY <1>1, <2>1, <2>3, <3>3, <3>4, <3>5 DEF ListInv
    <3>7. \A i, k \in DOMAIN children'[p] : children'[p][i] = children'[p][k] => i = k
      <4>1. \A i, k \in 1..Len(children[p]) : children[p][i] = children[p][k] => i = k
        BY <1>1 DEF ListInv
      <4>2. \A i \in 1..Len(children[p]) : children[p][i] # c
        BY <1>1, <3>2 DEF ToSet
      <4>3. Len(children[p]) \in Nat
        BY <1>1
      <4> QED
        BY <3>5, <4>1, <4>2, <4>3, SMTT(30)
    <3> QED
      BY <3>6, <3>7
  <2> QED
    BY <2>2, <2>3
<1>6. ASSUME NEW t \in Everyone, JoinEnds(t), NEW p \in Everyone
      PROVE  Kept(p)
  <2>1. RemoveChild(Top(t).of) /\ Top(t).of \in Threads
    BY <1>6, TopFacts DEF JoinEnds, Joining, Frames
  <2> QED
    BY <1>4, <2>1
<1>7. ASSUME NEW p \in Everyone
      PROVE  Kept(p)
  <2> HIDE DEF Kept
  <2>1. CASE \E t \in Everyone : Target(t)
    BY <1>2, <1>5, <1>7, <2>1 DEF Target, StartThread, StopThread, Join, Release, Finish
  <2>2. CASE \E t \in Everyone : Walk(t)
    BY <1>2, <1>6, <1>7, <2>2 DEF Walk, Descend, StopSelf, AllTold, JoinRaises, JoinSignals, JoinTimesOut
  <2>3. ASSUME NEW t \in Threads, Run(t)
        PROVE  Kept(p)
    <3>1. CASE Forgotten(t)
      BY <1>2, <1>4, <1>7, <3>1 DEF Forgotten
    <3>2. CASE TakeChildren(t)
      BY <1>2, <1>3, <1>7, <3>2 DEF TakeChildren, TypeOK
    <3>3. CASE ~Forgotten(t) /\ ~TakeChildren(t)
      BY <1>2, <1>7, <2>3, <3>3 DEF Run, Register, ReportFailure, Unregister, Stopped, MetJoiner
    <3> QED
      BY <3>1, <3>2, <3>3
  <2>4. CASE MainStop \/ MainJoined \/ Residue \/ UNCHANGED vars
    BY <1>2, <1>7, <2>4 DEF MainStop, MainJoined, Residue, vars
  <2> QED
    BY <2>1, <2>2, <2>3, <2>4 DEF Next
<1>8. ASSUME NEW p \in Everyone, stage'[p] \in {"stop_kids", "join_kids"}
      PROVE  \A c \in ToSet(kids'[p]) : ParentOf[c] = p
  BY <1>8, KidsStay DEF ListInv
<1> QED
  BY <1>7, <1>8 DEF ListInv


-----------------------------------------------------------------------------
(***************************************************************************)
(* The calls.                                                              *)
(***************************************************************************)

\* A call that ends leaves the calls around it as they were.
LEMMA ShapeEnds ==
  ASSUME NEW label, NEW s \in Seq(Frames), NEW n \in Seq(Frames),
         Len(s) \in Nat \ {0}, Len(n) = Len(s) - 1, Shape(label, s),
         \A i \in 1..Len(n) : n[i].of = s[i + 1].of /\ n[i].op = s[i + 1].op /\ n[i].till = s[i + 1].till
  PROVE  Shape(label, n)
<1>1. DOMAIN s = 1..Len(s) /\ DOMAIN n = 1..Len(n)
  OBVIOUS
<1> SUFFICES ASSUME NEW i \in 1..Len(n)
             PROVE  /\ n[i].of = Nobody <=> i = Len(n) /\ label # "target"
                    /\ n[i].op = n[1].op
                    /\ n[i].till = n[1].till
                    /\ i < Len(n) /\ n[i + 1].of # Nobody => ParentOf[n[i].of] = n[i + 1].of
  BY <1>1 DEF Shape
<1>2. /\ i + 1 \in DOMAIN s /\ 2 \in DOMAIN s /\ 1 \in 1..Len(n)
      /\ i = Len(n) <=> i + 1 = Len(s)
      /\ i < Len(n) => i + 1 < Len(s) /\ i + 1 \in 1..Len(n)
  BY <1>1
<1>3. /\ s[i + 1].of = Nobody <=> i + 1 = Len(s) /\ label # "target"
      /\ s[i + 1].op = s[1].op /\ s[2].op = s[1].op
      /\ s[i + 1].till = s[1].till /\ s[2].till = s[1].till
      /\ i + 1 < Len(s) /\ s[(i + 1) + 1].of # Nobody => ParentOf[s[i + 1].of] = s[(i + 1) + 1].of
  BY <1>2 DEF Shape
<1>4. /\ n[i].of = s[i + 1].of /\ n[i].op = s[i + 1].op /\ n[i].till = s[i + 1].till
      /\ n[1].op = s[2].op /\ n[1].till = s[2].till
      /\ i < Len(n) => n[i + 1].of = s[(i + 1) + 1].of
  BY <1>2
<1> QED
  BY <1>2, <1>3, <1>4

\* A call within the innermost one goes on in the same way.
LEMMA ShapeGrows ==
  ASSUME NEW label, NEW s \in Seq(Frames), NEW n \in Seq(Frames),
         Len(s) \in Nat \ {0}, Len(n) = Len(s) + 1, Shape(label, s),
         \A i \in 1..Len(s) : n[i + 1].of = s[i].of /\ n[i + 1].op = s[i].op /\ n[i + 1].till = s[i].till,
         n[1].op = s[1].op, n[1].till = s[1].till, n[1].of # Nobody,
         s[1].of # Nobody => ParentOf[n[1].of] = s[1].of
  PROVE  Shape(label, n)
<1>1. DOMAIN s = 1..Len(s) /\ DOMAIN n = 1..Len(n)
  OBVIOUS
<1> SUFFICES ASSUME NEW i \in 1..Len(n)
             PROVE  /\ n[i].of = Nobody <=> i = Len(n) /\ label # "target"
                    /\ n[i].op = n[1].op
                    /\ n[i].till = n[1].till
                    /\ i < Len(n) /\ n[i + 1].of # Nobody => ParentOf[n[i].of] = n[i + 1].of
  BY <1>1 DEF Shape
<1>2. CASE i = 1
  <2>1. 1 \in 1..Len(s) /\ n[1 + 1].of = s[1].of
    OBVIOUS
  <2> QED
    BY <1>2, <2>1
<1>3. CASE i # 1
  <2> DEFINE k == i - 1
  <2>1. k \in 1..Len(s) /\ i = k + 1 /\ (i = Len(n) <=> k = Len(s)) /\ (i < Len(n) => k < Len(s) /\ k + 1 \in 1..Len(s))
    BY <1>3, SMTT(30)
  <2> HIDE DEF k
  <2>2. /\ s[k].of = Nobody <=> k = Len(s) /\ label # "target"
        /\ s[k].op = s[1].op
        /\ s[k].till = s[1].till
        /\ k < Len(s) /\ s[k + 1].of # Nobody => ParentOf[s[k].of] = s[k + 1].of
    BY <1>1, <2>1 DEF Shape
  <2>3. /\ n[i].of = s[k].of /\ n[i].op = s[k].op /\ n[i].till = s[k].till
        /\ i < Len(n) => n[i + 1].of = s[k + 1].of
    BY <2>1
  <2> QED
    BY <2>1, <2>2, <2>3
<1> QED
  BY <1>2, <1>3

\* A stack with one call, of a target or of the loop over the children.
LEMMA ShapeOne ==
  ASSUME NEW label, NEW f \in Frames, f.of = Nobody <=> label # "target"
  PROVE  Shape(label, <<f>>)
<1>1. DOMAIN <<f>> = {1} /\ Len(<<f>>) = 1 /\ <<f>>[1] = f
  OBVIOUS
<1> QED
  BY <1>1 DEF Shape

\* Who is on a stack and where: the facts that the invariant gives.
LEMMA StackFacts ==
  ASSUME TypeOK, StackInv, NEW t \in Everyone
  PROVE  /\ stack[t] \in Seq(Frames)
         /\ kids[t] \in Seq(Threads)
         /\ Shape(stage[t], stack[t])
         /\ \A i \in 1..Len(stack[t]) : /\ stack[t][i] \in Frames
                                        /\ Fits(stage[t], kids[t], stack[t][i])
                                        /\ stack[t][i].causes \cap Threads \subseteq Casualties
<1>1. stack[t] \in Seq(Frames) /\ kids[t] \in Seq(Threads) /\ DOMAIN stack[t] = 1..Len(stack[t])
  BY DEF TypeOK
<1> QED
  BY <1>1 DEF StackInv

\* The stack of a target that calls stop() or join().
LEMMA TargetCalls ==
  ASSUME NEW f \in Frames, f.of # Nobody, f.causes = {}, \A c \in ToSet(f.todo) : ParentOf[c] = f.of, NEW list
  PROVE  /\ Shape("target", <<f>>)
         /\ \A i \in DOMAIN <<f>> : Fits("target", list, <<f>>[i]) /\ <<f>>[i].causes = {}
<1>1. Shape("target", <<f>>)
  BY ShapeOne
<1>2. Fits("target", list, f)
  BY DEF Fits, Telling, JoiningAll
<1>3. DOMAIN <<f>> = {1} /\ <<f>>[1] = f
  OBVIOUS
<1> QED
  BY <1>1, <1>2, <1>3

\* The stack of a loop over the children.
LEMMA LoopStarts ==
  ASSUME NEW f \in Frames, f.of = Nobody, f.causes = {}, ~f.till,
         NEW list, ToSet(f.todo) \subseteq ToSet(list),
         NEW label \in IF f.op = "stop" THEN Telling ELSE JoiningAll
  PROVE  /\ Shape(label, <<f>>)
         /\ \A i \in DOMAIN <<f>> : Fits(label, list, <<f>>[i]) /\ <<f>>[i].causes = {}
<1>1. label # "target" /\ (label \in Telling => f.op = "stop") /\ (label \in JoiningAll => f.op = "join")
  BY DEF Telling, JoiningAll, Frames
<1>2. Shape(label, <<f>>)
  BY <1>1, ShapeOne
<1>3. Fits(label, list, f)
  BY <1>1 DEF Fits
<1>4. DOMAIN <<f>> = {1} /\ <<f>>[1] = f
  OBVIOUS
<1> QED
  BY <1>2, <1>3, <1>4

\* A join that ends hands what it has to the call around it.
LEMMA JoinHandsOver ==
  ASSUME TypeOK, CallInv, StackInv, NEW t \in Everyone, stack[t] # <<>>, Top(t).op = "join",
         NEW causes \in SUBSET (Threads \cup {Timeout}), Return(t, causes),
         NEW casualties, Casualties \subseteq casualties,
         causes \cap Threads \subseteq casualties,
         Timeout \in causes => Top(t).till,
         Len(stack[t]) > 1 /\ stack[t][2].of # Nobody => causes \cap Threads \subseteq Descendants(stack[t][2].of)
  PROVE  /\ Shape(stage[t], stack'[t])
         /\ \A i \in DOMAIN stack'[t] : /\ Fits(stage[t], kids[t], stack'[t][i])
                                        /\ stack'[t][i].causes \cap Threads \subseteq casualties
<1> DEFINE s == stack[t]
           n == stack'[t]
<1>1. s \in Seq(Frames) /\ Shape(stage[t], s)
      /\ \A i \in 1..Len(s) : /\ s[i] \in Frames
                              /\ Fits(stage[t], kids[t], s[i])
                              /\ s[i].causes \cap Threads \subseteq Casualties
  BY StackFacts
<1>2. /\ n \in Seq(Frames)
      /\ Len(n) = Len(s) - 1
      /\ Len(s) > 1 => n[1] = [s[2] EXCEPT !.causes = @ \cup causes]
      /\ \A i \in 2..(Len(s) - 1) : n[i] = s[i + 1]
  BY JoinPops
<1>3. Len(s) \in Nat \ {0} /\ s[1] = Top(t)
  BY TopFacts
<1> HIDE DEF s, n
<1>4. ASSUME NEW i \in 1..Len(n)
      PROVE  /\ n[i].of = s[i + 1].of /\ n[i].op = s[i + 1].op /\ n[i].till = s[i + 1].till
             /\ n[i].todo = s[i + 1].todo
             /\ n[i].causes = s[i + 1].causes \/ (i = 1 /\ Len(s) > 1 /\ n[i].causes = s[2].causes \cup causes)
  <2>1. CASE i = 1
    <3>1. Len(s) > 1 /\ s[2] \in Frames /\ i + 1 = 2
      BY <1>1, <1>2, <1>3, <2>1
    <3>2. n[1] = [s[2] EXCEPT !.causes = s[2].causes \cup causes]
      BY <1>2, <3>1
    <3>3. /\ n[1].of = s[2].of /\ n[1].op = s[2].op /\ n[1].till = s[2].till /\ n[1].todo = s[2].todo
          /\ n[1].causes = s[2].causes \cup causes
      BY <3>1, <3>2 DEF Frames
    <3> QED
      BY <2>1, <3>1, <3>3
  <2>2. CASE i # 1
    BY <1>2, <1>3, <2>2, SMTT(30)
  <2> QED
    BY <2>1, <2>2
<1>5. Shape(stage[t], n)
  BY <1>1, <1>2, <1>3, <1>4, ShapeEnds
<1>6. ASSUME NEW i \in 1..Len(n)
      PROVE  Fits(stage[t], kids[t], n[i]) /\ n[i].causes \cap Threads \subseteq casualties
  <2>1. i + 1 \in 1..Len(s) /\ s[i + 1] \in Frames /\ Fits(stage[t], kids[t], s[i + 1]) /\ s[i + 1].causes \cap Threads \subseteq Casualties
    BY <1>1, <1>2, <1>3
  <2>2. CASE n[i].causes = s[i + 1].causes
    BY <1>4, <2>1, <2>2 DEF Fits
  <2>3. CASE i = 1 /\ Len(s) > 1 /\ n[i].causes = s[2].causes \cup causes
    <3>1. s[2].op = "join" /\ s[2].till = Top(t).till
      BY <1>1, <1>3, <2>3 DEF Shape
    <3>2. Fits(stage[t], kids[t], s[2]) /\ s[2].causes \cap Threads \subseteq Casualties
      BY <2>1, <2>3
    <3>3. /\ n[i].of = s[2].of /\ n[i].op = s[2].op /\ n[i].till = s[2].till /\ n[i].todo = s[2].todo
          /\ n[i].causes = s[2].causes \cup causes
      BY <1>4, <2>3
    <3>4. s[2].of # Nobody => causes \cap Threads \subseteq Descendants(s[2].of)
      BY <2>3 DEF s
    <3> QED
      BY <3>1, <3>2, <3>3, <3>4 DEF Fits
  <2> QED
    BY <1>4, <2>2, <2>3
<1>7. DOMAIN n = 1..Len(n)
  BY <1>2
<1> QED
  BY <1>5, <1>6, <1>7 DEF n

\* Every step keeps the calls in order.
LEMMA NextStack ==
  ASSUME TypeOK, StageInv, CallInv, StackInv, ListInv, IsFiniteSet(all), [Next]_vars
  PROVE  StackInv'
<1> USE ThreadsAssumption DEF ThreadsAssumption
<1>0. (\A t \in Threads : t \in Everyone /\ ParentOf[t] \in Everyone /\ t # Main /\ t # Nobody) /\ Main \in Everyone
  BY DEF Everyone
<1> SUFFICES ASSUME NEW t \in Everyone
             PROVE  /\ Shape(stage'[t], stack'[t])
                    /\ \A i \in DOMAIN stack'[t] : /\ Fits(stage'[t], kids'[t], stack'[t][i])
                                                   /\ stack'[t][i].causes \cap Threads \subseteq Casualties'
  BY DEF StackInv, Shape, Fits, Descendants, ChildrenOf, ClosedDown
<1> DEFINE Good == /\ Shape(stage'[t], stack'[t])
                   /\ \A i \in DOMAIN stack'[t] : /\ Fits(stage'[t], kids'[t], stack'[t][i])
                                                  /\ stack'[t][i].causes \cap Threads \subseteq Casualties'
<1>1. /\ stack[t] \in Seq(Frames) /\ kids[t] \in Seq(Threads) /\ children[t] \in Seq(Threads)
      /\ Shape(stage[t], stack[t])
      /\ \A i \in 1..Len(stack[t]) : /\ stack[t][i] \in Frames
                                     /\ Fits(stage[t], kids[t], stack[t][i])
                                     /\ stack[t][i].causes \cap Threads \subseteq Casualties
  BY StackFacts DEF TypeOK
<1>2. Casualties \subseteq Casualties'
  BY CasualtiesStay
<1>3. DOMAIN stack[t] = 1..Len(stack[t])
  BY <1>1
<1>4. \A c \in Threads : children[c] \in Seq(Threads) /\ \A k \in ToSet(children[c]) : ParentOf[k] = c
  BY <1>0 DEF TypeOK, ListInv
<1>5. ASSUME stack'[t] = <<>>
      PROVE  Good
  <2>1. DOMAIN <<>> = {}
    OBVIOUS
  <2> QED
    BY <1>5, <2>1 DEF Shape
<1>6. ASSUME stack'[t] = stack[t], stack[t] # <<>> => stage'[t] = stage[t] /\ kids'[t] = kids[t]
      PROVE  Good
  <2>1. CASE stack[t] = <<>>
    BY <1>5, <1>6, <2>1
  <2>2. CASE stack[t] # <<>>
    BY <1>1, <1>2, <1>3, <1>6, <2>2
  <2> QED
    BY <2>1, <2>2
<1>7. ASSUME NEW c \in Threads, StopThread(t, c) \/ \E till \in BOOLEAN : Join(t, c, till)
      PROVE  Good
  <2>1. stage'[t] = "target"
    BY <1>7 DEF StopThread, Join, CallOn, RunsTarget
  <2>2. PICK op \in {"stop", "join"}, till \in BOOLEAN : stack'[t] = <<Frame(op, c, children[c], till)>>
    BY <1>7 DEF StopThread, Join, SetStack, TypeOK
  <2>3. /\ Shape("target", stack'[t])
        /\ \A i \in DOMAIN stack'[t] : Fits("target", kids'[t], stack'[t][i]) /\ stack'[t][i].causes = {}
    <3>1. PICK f \in Frames : stack'[t] = <<f>> /\ f.of = c /\ f.todo = children[c] /\ f.causes = {}
      BY <1>4, <2>2, NewFrame
    <3> QED
      BY <1>0, <1>4, <3>1, TargetCalls
  <2> QED
    BY <2>1, <2>3
<1>8. ASSUME Descend(t)
      PROVE  Good
  <2>1. stack[t] # <<>> /\ Top(t).todo # <<>> /\ UNCHANGED <<stage, kids>>
    BY <1>8 DEF Descend
  <2>2. /\ Top(t) = stack[t][1] /\ Top(t) \in Frames /\ Len(stack[t]) \in Nat \ {0}
        /\ Fits(stage[t], kids[t], Top(t)) /\ Top(t).causes \cap Threads \subseteq Casualties
    BY <2>1, TopFacts
  <2>3. PICK c \in Threads :
           /\ c = Head(Top(t).todo)
           /\ stack'[t] \in Seq(Frames)
           /\ Len(stack'[t]) = Len(stack[t]) + 1
           /\ stack'[t][1] = Frame(Top(t).op, c, children[c], Top(t).till)
           /\ stack'[t][2] = [Top(t) EXCEPT !.todo = Tail(@)]
           /\ \A i \in 2..Len(stack[t]) : stack'[t][i + 1] = stack[t][i]
    BY <1>8, Descends
  <2> DEFINE n == stack'[t]
             s == stack[t]
  <2>4. Top(t).todo \in Seq(Threads) /\ Top(t).op \in {"stop", "join"} /\ Top(t).till \in BOOLEAN
    BY <2>2 DEF Frames
  <2>5. ToSet(Top(t).todo) = {c} \cup ToSet(Tail(Top(t).todo))
    BY <2>1, <2>3, <2>4, Elements
  <2>6. /\ n[1].op = Top(t).op /\ n[1].of = c /\ n[1].todo = children[c] /\ n[1].till = Top(t).till /\ n[1].causes = {}
    BY <1>4, <2>3, <2>4, NewFrame
  <2>7. /\ n[2].op = Top(t).op /\ n[2].of = Top(t).of /\ n[2].todo = Tail(Top(t).todo)
        /\ n[2].till = Top(t).till /\ n[2].causes = Top(t).causes
    BY <2>2, <2>3 DEF Frames
  <2>8. Top(t).of # Nobody => ParentOf[c] = Top(t).of
    BY <2>2, <2>5 DEF Fits
  <2>9. \A i \in 1..Len(s) : n[i + 1].of = s[i].of /\ n[i + 1].op = s[i].op /\ n[i + 1].till = s[i].till
    <3> SUFFICES ASSUME NEW i \in 1..Len(s)
                 PROVE  n[i + 1].of = s[i].of /\ n[i + 1].op = s[i].op /\ n[i + 1].till = s[i].till
      OBVIOUS
    <3>1. CASE i = 1
      BY <2>2, <2>7, <3>1
    <3>2. CASE i # 1
      BY <2>2, <2>3, <3>2, SMTT(30)
    <3> QED
      BY <3>1, <3>2
  <2>10. Shape(stage[t], n)
    <3> HIDE DEF n, s
    <3>1. s \in Seq(Frames) /\ n \in Seq(Frames) /\ Len(s) \in Nat \ {0} /\ Len(n) = Len(s) + 1 /\ Shape(stage[t], s)
      BY <1>1, <2>2, <2>3 DEF n, s
    <3>2. n[1].op = s[1].op /\ n[1].till = s[1].till /\ n[1].of # Nobody /\ (s[1].of # Nobody => ParentOf[n[1].of] = s[1].of)
      BY <1>0, <2>2, <2>6, <2>8 DEF n, s
    <3> QED
      BY <2>9, <3>1, <3>2, ShapeGrows
  <2>11. ASSUME NEW i \in 1..Len(n)
         PROVE  Fits(stage[t], kids[t], n[i]) /\ n[i].causes \cap Threads \subseteq Casualties'
    <3>1. CASE i = 1
      BY <1>0, <1>4, <2>2, <2>6, <3>1 DEF Fits
    <3>2. CASE i = 2
      BY <1>2, <2>2, <2>5, <2>7, <3>2 DEF Fits
    <3>3. CASE i # 1 /\ i # 2
      <4>1. i - 1 \in 2..Len(s) /\ i - 1 \in 1..Len(s) /\ (i - 1) + 1 = i
        BY <2>2, <2>3, <3>3
      <4>2. n[i] = s[i - 1]
        BY <2>3, <4>1
      <4> QED
        BY <1>1, <1>2, <4>1, <4>2
    <3> QED
      BY <3>1, <3>2, <3>3
  <2>12. DOMAIN n = 1..Len(n)
    BY <2>3
  <2> QED
    BY <2>1, <2>10, <2>11, <2>12
<1>9. ASSUME StopSelf(t)
      PROVE  Good
  <2>1. stack[t] # <<>> /\ UNCHANGED <<stage, kids>>
    BY <1>9 DEF StopSelf
  <2>2. /\ stack'[t] \in Seq(Frames)
        /\ Len(stack'[t]) = Len(stack[t]) - 1
        /\ \A i \in 1..(Len(stack[t]) - 1) : stack'[t][i] = stack[t][i + 1]
    BY <1>9, StopPops
  <2>3. Len(stack[t]) \in Nat \ {0}
    BY <2>1, TopFacts
  <2>4. Shape(stage[t], stack'[t])
    <3> DEFINE n == stack'[t]
               s == stack[t]
    <3>1. /\ s \in Seq(Frames) /\ n \in Seq(Frames) /\ Len(s) \in Nat \ {0} /\ Len(n) = Len(s) - 1 /\ Shape(stage[t], s)
          /\ \A i \in 1..(Len(s) - 1) : n[i] = s[i + 1]
      BY <1>1, <2>2, <2>3
    <3> HIDE DEF n, s
    <3>2. Shape(stage[t], n)
      BY <3>1, ShapeEnds
    <3> QED
      BY <3>2 DEF n
  <2>5. ASSUME NEW i \in 1..Len(stack'[t])
        PROVE  Fits(stage[t], kids[t], stack'[t][i]) /\ stack'[t][i].causes \cap Threads \subseteq Casualties'
    BY <1>1, <1>2, <2>2, <2>3, SMTT(30)
  <2>6. DOMAIN stack'[t] = 1..Len(stack'[t])
    BY <2>2
  <2> QED
    BY <2>1, <2>4, <2>5, <2>6
<1>10. ASSUME JoinSignals(t)
       PROVE  Good
  <2>1. stack[t] # <<>> /\ UNCHANGED <<stage, kids>>
    BY <1>10 DEF JoinSignals, Joining
  <2>2. /\ stack'[t] \in Seq(Frames)
        /\ Len(stack'[t]) = Len(stack[t])
        /\ stack'[t][1] = [stack[t][1] EXCEPT !.waits = TRUE]
        /\ \A i \in 2..Len(stack[t]) : stack'[t][i] = stack[t][i]
    BY <1>10, JoinMarks
  <2>3. ASSUME NEW i \in 1..Len(stack[t])
        PROVE  /\ stack'[t][i].op = stack[t][i].op /\ stack'[t][i].of = stack[t][i].of
               /\ stack'[t][i].todo = stack[t][i].todo /\ stack'[t][i].till = stack[t][i].till
               /\ stack'[t][i].causes = stack[t][i].causes
    <3>1. CASE i = 1
      BY <1>1, <2>2, <3>1 DEF Frames
    <3>2. CASE i # 1
      <4>1. i \in 2..Len(stack[t])
        BY <3>2
      <4> QED
        BY <2>2, <4>1
    <3> QED
      BY <3>1, <3>2
  <2>4. DOMAIN stack'[t] = 1..Len(stack[t]) /\ DOMAIN stack[t] = 1..Len(stack[t])
    BY <1>1, <2>2
  <2>5. Shape(stage[t], stack'[t])
    <3>1. \A i \in DOMAIN stack'[t] : /\ 1 \in DOMAIN stack[t]
                                      /\ i < Len(stack[t]) => i + 1 \in DOMAIN stack[t]
      BY <2>4
    <3> QED
      BY <1>1, <2>2, <2>3, <2>4, <3>1, SMTT(30) DEF Shape
  <2>6. ASSUME NEW i \in 1..Len(stack[t])
        PROVE  Fits(stage[t], kids[t], stack'[t][i]) /\ stack'[t][i].causes \cap Threads \subseteq Casualties'
    BY <1>1, <1>2, <2>3 DEF Fits
  <2> QED
    BY <2>1, <2>4, <2>5, <2>6
<1>11. ASSUME JoinRaises(t) \/ JoinEnds(t) \/ JoinTimesOut(t)
       PROVE  Good
  <2>1. /\ stack[t] # <<>> /\ Top(t).op = "join" /\ Top(t).of # Nobody
        /\ UNCHANGED <<stage, kids>>
    BY <1>11 DEF JoinRaises, JoinEnds, JoinTimesOut, Joining
  <2>2. /\ Top(t) = stack[t][1] /\ Top(t) \in Frames /\ Len(stack[t]) \in Nat \ {0}
        /\ Fits(stage[t], kids[t], Top(t)) /\ Top(t).causes \cap Threads \subseteq Casualties
    BY <2>1, TopFacts
  <2>3. Top(t).of \in Threads /\ Top(t).causes \in SUBSET (Threads \cup {Timeout})
    BY <2>1, <2>2 DEF Frames
  <2>4. Len(stack[t]) > 1 /\ stack[t][2].of # Nobody => ParentOf[Top(t).of] = stack[t][2].of
    <3>1. Len(stack[t]) > 1 => 1 \in DOMAIN stack[t] /\ 1 < Len(stack[t])
      BY <1>3, <2>2
    <3> QED
      BY <1>1, <2>2, <3>1 DEF Shape
  <2>5. PICK causes \in SUBSET (Threads \cup {Timeout}) :
           /\ Return(t, causes)
           /\ causes \cap Threads \subseteq Casualties'
           /\ Timeout \in causes => Top(t).till
           /\ Len(stack[t]) > 1 /\ stack[t][2].of # Nobody => causes \cap Threads \subseteq Descendants(stack[t][2].of)
    <3>1. CASE JoinRaises(t)
      <4>1. Return(t, Top(t).causes)
        BY <3>1 DEF JoinRaises
      <4>2. Top(t).causes \cap Threads \subseteq Descendants(Top(t).of) /\ (Timeout \in Top(t).causes => Top(t).till)
        BY <2>1, <2>2 DEF Fits
      <4>3. ASSUME Len(stack[t]) > 1, stack[t][2].of # Nobody
            PROVE  Descendants(Top(t).of) \subseteq Descendants(stack[t][2].of)
        <5>1. Top(t).of \in Descendants(stack[t][2].of)
          BY <2>3, <2>4, <4>3, ChildIsBelow
        <5> QED
          BY <5>1, BelowBelow
      <4> QED
        BY <1>2, <2>2, <2>3, <4>1, <4>2, <4>3
    <3>2. CASE JoinEnds(t)
      <4> DEFINE c == Top(t).of
                 causes == IF outcome[c] = "failed" THEN {c} ELSE {}
      <4>1. c \in stopped /\ RemoveChild(c) /\ Return(t, causes) /\ UNCHANGED <<stopped, outcome>>
        BY <3>2 DEF JoinEnds
      <4>2. c \notin ToSet(children'[ParentOf[c]])
        <5>1. \A p \in Everyone : ToSet(children'[p]) = ToSet(children[p]) \ {c}
          BY <2>3, <4>1, ChildRemoved
        <5> QED
          BY <1>0, <2>3, <5>1
      <4>3. outcome[c] = "failed" => c \in Casualties'
        BY <2>3, <4>1, <4>2 DEF Casualties, Failed
      <4>4. Len(stack[t]) > 1 /\ stack[t][2].of # Nobody => c \in Descendants(stack[t][2].of)
        BY <2>3, <2>4, ChildIsBelow
      <4>5. c # Timeout
        BY <1>0, <2>3
      <4> QED
        BY <2>3, <4>1, <4>3, <4>4, <4>5
    <3>3. CASE JoinTimesOut(t)
      <4>1. Return(t, {Timeout}) /\ Top(t).till
        BY <3>3 DEF JoinTimesOut
      <4>2. {Timeout} \cap Threads = {}
        BY <1>0 DEF Everyone
      <4> QED
        BY <4>1, <4>2
    <3> QED
      BY <1>11, <3>1, <3>2, <3>3
  <2>6. /\ Shape(stage[t], stack'[t])
        /\ \A i \in DOMAIN stack'[t] : /\ Fits(stage[t], kids[t], stack'[t][i])
                                       /\ stack'[t][i].causes \cap Threads \subseteq Casualties'
    BY <1>2, <2>1, <2>5, JoinHandsOver
  <2> QED
    BY <2>1, <2>6
<1>12. ASSUME AllTold(t)
       PROVE  Good
  <2>1. stage'[t] \in JoiningAll /\ kids'[t] = kids[t] /\ stack'[t] = <<Frame("join", Nobody, kids[t], FALSE)>>
    BY <1>12 DEF AllTold, Goto, SetStack, TypeOK, JoiningAll
  <2>2. /\ Shape(stage'[t], stack'[t])
        /\ \A i \in DOMAIN stack'[t] : Fits(stage'[t], kids'[t], stack'[t][i]) /\ stack'[t][i].causes = {}
    <3> DEFINE f == Frame("join", Nobody, kids[t], FALSE)
    <3>1. f \in Frames /\ f.op = "join" /\ f.of = Nobody /\ f.todo = kids[t] /\ f.causes = {} /\ ~f.till
      BY <1>1, <2>1 DEF Frame, Frames
    <3>0. stack'[t] = <<f>>
      BY <1>1, <2>1
    <3> HIDE DEF f
    <3> QED
      BY <1>1, <2>1, <3>0, <3>1, LoopStarts, ZenonT(60)
  <2> QED
    BY <2>2
<1>13. ASSUME t \in Threads, TakeChildren(t)
       PROVE  Good
  <2>1. stage'[t] = "stop_kids" /\ kids'[t] = children[t] /\ stack'[t] = <<Frame("stop", Nobody, children[t], FALSE)>>
    BY <1>13 DEF TakeChildren, Goto, SetStack, TypeOK
  <2>2. /\ Shape(stage'[t], stack'[t])
        /\ \A i \in DOMAIN stack'[t] : Fits(stage'[t], kids'[t], stack'[t][i]) /\ stack'[t][i].causes = {}
    <3> DEFINE f == Frame("stop", Nobody, children[t], FALSE)
    <3>1. f \in Frames /\ f.op = "stop" /\ f.of = Nobody /\ f.todo = children[t] /\ f.causes = {} /\ ~f.till
      BY <1>1, <2>1 DEF Frame, Frames
    <3>0. stack'[t] = <<f>>
      BY <1>1, <2>1
    <3> HIDE DEF f
    <3>2. stage'[t] \in Telling
      BY <1>1, <2>1 DEF Telling
    <3> QED
      BY <1>1, <2>1, <3>0, <3>1, <3>2, LoopStarts, ZenonT(60)
  <2> QED
    BY <2>2
<1>14. ASSUME t = Main, MainStop
       PROVE  Good
  <2>1. stage'[t] = "stop_kids" /\ kids'[t] = children[t] /\ stack'[t] = <<Frame("stop", Nobody, Reverse(children[t]), FALSE)>>
    BY <1>14 DEF MainStop, Goto, SetStack, TypeOK
  <2>2. Reverse(children[t]) \in Seq(Threads) /\ ToSet(Reverse(children[t])) = ToSet(children[t])
    BY <1>1, TurnedRound
  <2>3. /\ Shape(stage'[t], stack'[t])
        /\ \A i \in DOMAIN stack'[t] : Fits(stage'[t], kids'[t], stack'[t][i]) /\ stack'[t][i].causes = {}
    <3> DEFINE f == Frame("stop", Nobody, Reverse(children[t]), FALSE)
    <3>1. f \in Frames /\ f.op = "stop" /\ f.of = Nobody /\ f.todo = Reverse(children[t]) /\ f.causes = {} /\ ~f.till
      BY <2>1, <2>2 DEF Frame, Frames
    <3>0. stack'[t] = <<f>>
      BY <2>1, <2>2
    <3> HIDE DEF f
    <3>2. stage'[t] \in Telling
      BY <2>1, <2>2 DEF Telling
    <3> QED
      BY <2>1, <2>2, <3>0, <3>1, <3>2, LoopStarts, ZenonT(60)
  <2> QED
    BY <2>3
<1>15. ASSUME t = Main, Residue
       PROVE  Good
  <2>1. PICK rest \in SetToSeqs(all) :
           /\ kids' = [kids EXCEPT ![Main] = rest]
           /\ SetStack(Main, <<Frame("stop", Nobody, rest, FALSE)>>)
    BY <1>15 DEF Residue
  <2>2. stage'[t] = "stop_residue" /\ kids'[t] = rest /\ stack'[t] = <<Frame("stop", Nobody, rest, FALSE)>>
    BY <1>15, <2>1 DEF Residue, Goto, SetStack, TypeOK
  <2>3. rest \in Seq(Threads)
    <3>1. rest \in Seq(all)
      BY Listing
    <3> QED
      BY <3>1 DEF TypeOK
  <2>4. /\ Shape(stage'[t], stack'[t])
        /\ \A i \in DOMAIN stack'[t] : Fits(stage'[t], kids'[t], stack'[t][i]) /\ stack'[t][i].causes = {}
    <3> DEFINE f == Frame("stop", Nobody, rest, FALSE)
    <3>1. f \in Frames /\ f.op = "stop" /\ f.of = Nobody /\ f.todo = rest /\ f.causes = {} /\ ~f.till
      BY <2>2, <2>3 DEF Frame, Frames
    <3>0. stack'[t] = <<f>>
      BY <2>2, <2>3
    <3> HIDE DEF f
    <3>2. stage'[t] \in Telling
      BY <2>2, <2>3 DEF Telling
    <3> QED
      BY <2>2, <2>3, <3>0, <3>1, <3>2, LoopStarts, ZenonT(60)
  <2> QED
    BY <2>4
<1>16. ASSUME t \in Threads, Unregister(t)
       PROVE  Good
  <2>1. stack'[t] = <<>>
    BY <1>16 DEF Unregister, AllJoined, SetStack, TypeOK
  <2> QED
    BY <1>5, <2>1
<1>17. ASSUME t = Main, MainJoined
       PROVE  Good
  <2>1. stack'[t] = <<>>
    BY <1>17 DEF MainJoined, AllJoined, SetStack, TypeOK
  <2> QED
    BY <1>5, <2>1
<1> HIDE DEF Good
<1>18. Good
  BY <1>6, <1>7, <1>8, <1>9, <1>10, <1>11, <1>12, <1>13, <1>14, <1>15, <1>16, <1>17, OwnStack
<1> QED
  BY <1>18 DEF Good

-----------------------------------------------------------------------------
(***************************************************************************)
(* The loops over the children.                                            *)
(***************************************************************************)

\* A loop goes on with what it has not come to yet, or is over.
LEMMA LoopGoesOn ==
  ASSUME TypeOK, StageInv, CallInv, StackInv, ListInv, [Next]_vars, NEW t \in Everyone,
         stage[t] \in Telling \cup JoiningAll
  PROVE  \/ /\ stage'[t] = stage[t] /\ kids'[t] = kids[t] /\ stack'[t] # <<>>
            /\ Bottom(stack[t]).of = Nobody /\ Bottom(stack'[t]).of = Nobody
            /\ Bottom(stack[t]).causes \subseteq Bottom(stack'[t]).causes
            /\ \A c \in Threads : Pending(stack'[t], c) => Pending(stack[t], c)
            /\ \A c \in Threads : Pending(stack[t], c) =>
                  \/ Pending(stack'[t], c)
                  \/ stage[t] \in Telling /\ c \in pleaseStop'
                  \/ stage[t] \in JoiningAll /\ \E e \in Descendants(c) \cap Casualties : e \in Top(t).causes
                  \/ stage[t] \in JoiningAll /\ c \in stopped /\ (Failed(c) => c \in Bottom(stack'[t]).causes)
         \/ /\ AllTold(t) \/ (t \in Threads /\ Unregister(t)) \/ (t = Main /\ MainJoined)
            /\ Bottom(stack[t]) = Top(t)
            /\ \A c \in Threads : ~Pending(stack[t], c)
<1> USE ThreadsAssumption DEF ThreadsAssumption
<1>0. (\A c \in Threads : c \in Everyone /\ c # Nobody /\ c # Timeout) /\ Main \in Everyone /\ Main \notin Threads
  BY DEF Everyone
<1> DEFINE s == stack[t]
           n == stack'[t]
           On(c) == \/ Pending(n, c)
                    \/ stage[t] \in Telling /\ c \in pleaseStop'
                    \/ stage[t] \in JoiningAll /\ \E e \in Descendants(c) \cap Casualties : e \in Top(t).causes
                    \/ stage[t] \in JoiningAll /\ c \in stopped /\ (Failed(c) => c \in Bottom(n).causes)
           GoesOn == /\ stage'[t] = stage[t] /\ kids'[t] = kids[t] /\ n # <<>>
                     /\ Bottom(s).of = Nobody /\ Bottom(n).of = Nobody
                     /\ Bottom(s).causes \subseteq Bottom(n).causes
                     /\ \A c \in Threads : Pending(n, c) => Pending(s, c)
                     /\ \A c \in Threads : Pending(s, c) => On(c)
           Ends == /\ AllTold(t) \/ (t \in Threads /\ Unregister(t)) \/ (t = Main /\ MainJoined)
                   /\ Bottom(s) = Top(t)
                   /\ \A c \in Threads : ~Pending(s, c)
<1>1. s # <<>> /\ stage[t] # "target"
  BY DEF CallInv, Telling, JoiningAll
<1>2. /\ Top(t) = s[1] /\ Top(t) \in Frames /\ Len(s) \in Nat \ {0}
      /\ Fits(stage[t], kids[t], Top(t)) /\ Top(t).causes \cap Threads \subseteq Casualties
      /\ Top(t).of = Nobody <=> Len(s) = 1
  BY <1>1, TopFacts
<1>len. Len(s) \in Nat /\ Len(s) >= 1 /\ (Top(t).of # Nobody => Len(s) > 1)
  <2>1. Len(s) \in Nat /\ Len(s) # 0
    BY <1>2
  <2>2. Top(t).of # Nobody => Len(s) # 1
    BY <1>2
  <2>3. \A i \in Nat : i # 0 => i >= 1 /\ (i # 1 => i > 1)
    OBVIOUS
  <2> QED
    BY <2>1, <2>2, <2>3
<1>3. /\ s \in Seq(Frames) /\ Shape(stage[t], s)
      /\ \A i \in 1..Len(s) : s[i] \in Frames
  BY StackFacts
<1>4. Bottom(s) \in Frames /\ Bottom(s).of = Nobody /\ Len(s) \in 1..Len(s)
  <2>1. Len(s) \in 1..Len(s) /\ DOMAIN s = 1..Len(s)
    BY <1>2, <1>3
  <2> QED
    BY <1>1, <1>3, <2>1 DEF Bottom, Shape
<1>5. ASSUME n = s, stage'[t] = stage[t], kids'[t] = kids[t]
      PROVE  GoesOn
  BY <1>1, <1>4, <1>5
<1>6. ASSUME Descend(t)
      PROVE  GoesOn
  <2>1. PICK h \in Threads :
           /\ h = Head(Top(t).todo)
           /\ n \in Seq(Frames)
           /\ Len(n) = Len(s) + 1
           /\ n[1] = Frame(Top(t).op, h, children[h], Top(t).till)
           /\ n[2] = [Top(t) EXCEPT !.todo = Tail(@)]
           /\ \A i \in 2..Len(s) : n[i + 1] = s[i]
    BY <1>6, Descends
  <2>2. stage'[t] = stage[t] /\ kids'[t] = kids[t] /\ Top(t).todo # <<>>
    BY <1>6 DEF Descend
  <2>3. n[1].of = h
    BY <2>1 DEF Frame
  <2>4. /\ n[2].of = Top(t).of /\ n[2].causes = Top(t).causes /\ n[2].todo = Tail(Top(t).todo)
        /\ ToSet(Top(t).todo) = {h} \cup ToSet(Tail(Top(t).todo))
    <3>1. Top(t).todo \in Seq(Threads)
      BY <1>2 DEF Frames
    <3>2. ToSet(Top(t).todo) = {h} \cup ToSet(Tail(Top(t).todo))
      BY <2>1, <2>2, <3>1, Elements
    <3> QED
      BY <1>2, <2>1, <3>2 DEF Frames
  <2> HIDE DEF n, s
  <2>5. n # <<>>
    <3>1. Len(n) # 0
      BY <1>2, <2>1
    <3> QED
      BY <3>1
  <2>6. CASE Len(s) = 1
    <3>1. Bottom(s) = Top(t) /\ Bottom(n) = n[2] /\ Len(n) > 1 /\ n[Len(n) - 1] = n[1]
      BY <1>2, <2>1, <2>6 DEF Bottom
    <3>2. \A c \in Threads : Pending(s, c) <=> Pending(n, c)
      BY <2>3, <2>4, <2>6, <3>1 DEF Pending
    <3> QED
      BY <1>4, <2>2, <2>4, <2>5, <3>1, <3>2 DEF n, s
  <2>7. CASE Len(s) # 1
    <3>0. Len(n) = Len(s) + 1 /\ Len(s) \in Nat /\ Len(s) > 1
      <4>1. \A i \in Nat : i >= 1 /\ i # 1 => i > 1
        OBVIOUS
      <4> QED
        BY <1>len, <2>1, <2>7, <4>1
    <3>9. \A i \in 2..Len(s) : n[i + 1] = s[i]
      BY <2>1
    <3>1. Bottom(n) = Bottom(s)
      <4>1. n[Len(s) + 1] = s[Len(s)]
        BY <3>0, <3>9
      <4> QED
        BY <3>0, <4>1 DEF Bottom
    <3>2. Len(s) > 1 /\ Len(n) > 1 /\ n[Len(n) - 1].of = s[Len(s) - 1].of
      <4>1. CASE Len(s) = 2
        <5>1. Len(n) - 1 = 2 /\ Len(s) - 1 = 1 /\ Len(n) > 1
          BY <3>0, <4>1
        <5> QED
          BY <1>2, <2>4, <3>0, <5>1
      <4>2. CASE Len(s) # 2
        <5>1. Len(s) - 1 \in 2..Len(s) /\ (Len(s) - 1) + 1 = Len(n) - 1 /\ Len(n) > 1
          <6>1. \A i \in Nat : i > 1 /\ i # 2 => i - 1 \in 2..i /\ (i - 1) + 1 = (i + 1) - 1 /\ i + 1 > 1
            OBVIOUS
          <6> QED
            BY <3>0, <4>2, <6>1
        <5> QED
          BY <3>0, <3>9, <5>1
      <4> QED
        BY <4>1, <4>2
    <3>3. \A c \in Threads : Pending(s, c) <=> Pending(n, c)
      BY <3>1, <3>2 DEF Pending
    <3> QED
      BY <1>4, <2>2, <2>5, <3>1, <3>3 DEF n, s
  <2> QED
    BY <2>6, <2>7
<1>7. ASSUME JoinSignals(t)
      PROVE  GoesOn
  <2>1. /\ n \in Seq(Frames)
        /\ Len(n) = Len(s)
        /\ n[1] = [s[1] EXCEPT !.waits = TRUE]
        /\ \A i \in 2..Len(s) : n[i] = s[i]
    BY <1>7, JoinMarks
  <2>2. stage'[t] = stage[t] /\ kids'[t] = kids[t] /\ Top(t).of # Nobody
    BY <1>7 DEF JoinSignals, Joining
  <2>3. n[1].of = s[1].of
    BY <1>2, <2>1 DEF Frames
  <2> HIDE DEF n, s
  <2>4. n # <<>> /\ Len(s) > 1 /\ Bottom(n) = Bottom(s)
    <3>1. Len(n) # 0 /\ Len(s) > 1
      BY <1>2, <2>1, <2>2
    <3> QED
      BY <1>2, <2>1, <3>1 DEF Bottom
  <2>5. n[Len(n) - 1].of = s[Len(s) - 1].of
    <3>1. Len(n) = Len(s) /\ Len(s) \in Nat /\ \A i \in 2..Len(s) : n[i] = s[i]
      BY <1>2, <2>1
    <3> QED
      BY <2>3, <2>4, <3>1
  <2>6. \A c \in Threads : Pending(s, c) <=> Pending(n, c)
    BY <2>1, <2>4, <2>5 DEF Pending
  <2> QED
    BY <1>4, <2>2, <2>4, <2>6 DEF n, s
<1>8. ASSUME StopSelf(t)
      PROVE  GoesOn
  <2>1. /\ n \in Seq(Frames)
        /\ Len(n) = Len(s) - 1
        /\ \A i \in 1..(Len(s) - 1) : n[i] = s[i + 1]
    BY <1>8, StopPops
  <2>2. /\ stage'[t] = stage[t] /\ kids'[t] = kids[t]
        /\ Top(t).of # Nobody /\ Top(t).op = "stop" /\ Top(t).of \in pleaseStop'
    BY <1>8 DEF StopSelf
  <2>3. stage[t] \in Telling
    BY <1>2, <2>2 DEF Fits
  <2> HIDE DEF n, s
  <2>4. n # <<>> /\ Len(s) > 1 /\ Bottom(n) = Bottom(s)
    <3>1. Len(n) # 0 /\ Len(s) > 1
      BY <1>2, <2>1, <2>2
    <3> QED
      BY <1>2, <2>1, <3>1 DEF Bottom
  <2>5. ASSUME NEW c \in Threads, Pending(s, c)
        PROVE  Pending(n, c) \/ c \in pleaseStop'
    <3>1. CASE Len(s) = 2
      BY <1>2, <2>2, <2>4, <2>5, <3>1 DEF Pending
    <3>2. CASE Len(s) # 2
      <4>1. Len(n) > 1 /\ n[Len(n) - 1] = s[Len(s) - 1]
        BY <1>2, <2>1, <2>4, <3>2, SMTT(30)
      <4> QED
        BY <2>4, <2>5, <4>1 DEF Pending
    <3> QED
      BY <3>1, <3>2
  <2>6. ASSUME NEW c \in Threads, Pending(n, c)
        PROVE  Pending(s, c)
    <3>1. CASE Len(n) = 1
      BY <2>4, <2>6, <3>1 DEF Pending
    <3>2. CASE Len(n) # 1
      <4>1. n[Len(n) - 1] = s[Len(s) - 1]
        <5>1. \A i \in Nat : i > 1 /\ i - 1 # 1 => /\ (i - 1) - 1 \in 1..(i - 1)
                                                  /\ ((i - 1) - 1) + 1 = i - 1
          OBVIOUS
        <5> QED
          BY <1>len, <2>1, <2>4, <3>2, <5>1
      <4> QED
        BY <2>4, <2>6, <4>1 DEF Pending
    <3> QED
      BY <3>1, <3>2
  <2> QED
    BY <1>4, <2>2, <2>3, <2>4, <2>5, <2>6 DEF n, s
<1>9. ASSUME JoinRaises(t) \/ JoinEnds(t) \/ JoinTimesOut(t)
      PROVE  GoesOn
  <2>1. /\ stage'[t] = stage[t] /\ kids'[t] = kids[t] /\ outcome' = outcome
        /\ Top(t).of # Nobody /\ Top(t).op = "join" /\ ~JoinTimesOut(t)
    BY <1>1, <1>2, <1>9 DEF JoinRaises, JoinEnds, JoinTimesOut, Joining, Fits
  <2>2. stage[t] \in JoiningAll /\ Len(s) > 1 /\ Top(t).of \in Threads
    <3>1. Top(t).of \in Threads
      BY <1>2, <2>1 DEF Frames
    <3>2. stage[t] \notin Telling
      BY <1>2, <2>1 DEF Fits
    <3> QED
      BY <1>len, <2>1, <3>1, <3>2
  <2>3. PICK causes \in SUBSET (Threads \cup {Timeout}) :
           /\ Return(t, causes)
           /\ \/ \E e \in Descendants(Top(t).of) \cap Casualties : e \in Top(t).causes
              \/ Top(t).of \in stopped /\ (Failed(Top(t).of) => Top(t).of \in causes)
    <3>1. CASE JoinRaises(t)
      <4>1. Return(t, Top(t).causes) /\ Top(t).causes # {}
        BY <3>1 DEF JoinRaises
      <4>2. /\ Top(t).causes \in SUBSET (Threads \cup {Timeout}) /\ Timeout \notin Top(t).causes
            /\ Top(t).causes \cap Threads \subseteq Descendants(Top(t).of)
        BY <1>1, <1>2, <2>1 DEF Fits, Frames
      <4>3. \E e \in Descendants(Top(t).of) \cap Casualties : e \in Top(t).causes
        BY <1>2, <4>1, <4>2
      <4> QED
        BY <4>1, <4>2, <4>3
    <3>2. CASE JoinEnds(t)
      BY <2>2, <3>2 DEF JoinEnds, Failed
    <3> QED
      BY <1>9, <2>1, <3>1, <3>2
  <2>4. /\ n \in Seq(Frames)
        /\ Len(n) = Len(s) - 1
        /\ n[1] = [s[2] EXCEPT !.causes = @ \cup causes]
        /\ \A i \in 2..(Len(s) - 1) : n[i] = s[i + 1]
    BY <1>1, <2>2, <2>3, JoinPops
  <2>5. n[1].of = s[2].of /\ n[1].causes = s[2].causes \cup causes /\ n[1].todo = s[2].todo
    <3>1. s[2] \in Frames
      BY <1>2, <1>3, <2>2
    <3> QED
      BY <2>4, <3>1 DEF Frames
  <2> HIDE DEF n, s
  <2>6. n # <<>>
    <3>1. Len(n) # 0
      BY <1>2, <2>2, <2>4
    <3> QED
      BY <3>1
  <2>7. CASE Len(s) = 2
    <3>1. Bottom(s) = s[2] /\ Bottom(n) = n[1] /\ s[Len(s) - 1] = Top(t)
      BY <1>2, <2>4, <2>7 DEF Bottom
    <3>2. ASSUME NEW c \in Threads, Pending(s, c)
          PROVE  On(c)
      <4>1. CASE c \in ToSet(Bottom(s).todo)
        BY <2>5, <3>1, <4>1 DEF Pending, n
      <4>2. CASE c = Top(t).of
        BY <2>2, <2>3, <2>5, <3>1, <4>2 DEF n
      <4> QED
        BY <3>1, <3>2, <4>1, <4>2 DEF Pending
    <3>3. ASSUME NEW c \in Threads, Pending(n, c)
          PROVE  Pending(s, c)
      <4>1. ~(Len(n) > 1)
        BY <2>4, <2>7
      <4> QED
        BY <2>5, <3>1, <3>3, <4>1 DEF Pending
    <3> QED
      BY <1>4, <2>1, <2>5, <2>6, <3>1, <3>2, <3>3 DEF n, s
  <2>8. CASE Len(s) # 2
    <3>1. Bottom(n) = Bottom(s) /\ Len(n) > 1 /\ n[Len(n) - 1].of = s[Len(s) - 1].of
      <4>0. Len(n) = Len(s) - 1 /\ Len(s) \in Nat /\ Len(s) > 2 /\ \A i \in 2..(Len(s) - 1) : n[i] = s[i + 1]
        BY <1>2, <2>2, <2>4, <2>8
      <4>1. Bottom(n) = Bottom(s) /\ Len(n) > 1
        BY <4>0 DEF Bottom
      <4>2. CASE Len(s) = 3
        <5>1. Len(n) - 1 = 1 /\ Len(s) - 1 = 2
          BY <4>0, <4>2
        <5> QED
          BY <2>5, <4>1, <5>1
      <4>3. CASE Len(s) # 3
        <5>1. Len(n) - 1 \in 2..(Len(s) - 1) /\ (Len(n) - 1) + 1 = Len(s) - 1
          BY <4>0, <4>3
        <5> QED
          BY <4>0, <4>1, <5>1
      <4> QED
        BY <4>2, <4>3
    <3>2. \A c \in Threads : Pending(s, c) <=> Pending(n, c)
      BY <2>2, <3>1 DEF Pending
    <3> QED
      BY <1>4, <2>1, <2>6, <3>1, <3>2 DEF n, s
  <2> QED
    BY <2>7, <2>8
<1>10. ASSUME AllTold(t) \/ (t \in Threads /\ Unregister(t)) \/ (t = Main /\ MainJoined)
       PROVE  Ends
  <2>1. Top(t).of = Nobody /\ Top(t).todo = <<>>
    BY <1>10 DEF AllTold, Unregister, MainJoined, AllJoined
  <2>2. Len(s) = 1 /\ Bottom(s) = Top(t)
    BY <1>2, <2>1 DEF Bottom
  <2>3. ToSet(<<>>) = {}
    BY DEF ToSet
  <2> QED
    BY <1>10, <2>1, <2>2, <2>3 DEF Pending
<1>11. ~(\E c \in Threads : StopThread(t, c) \/ \E till \in BOOLEAN : Join(t, c, till))
  BY <1>1 DEF StopThread, Join, CallOn, RunsTarget
<1>12. ~TakeChildren(t) /\ ~(t = Main /\ (MainStop \/ Residue))
  BY <1>1 DEF TakeChildren, MainStop, Residue, RunsTarget, Telling, JoiningAll
<1> HIDE DEF GoesOn, Ends
<1>13. GoesOn \/ Ends
  BY <1>1, <1>5, <1>6, <1>7, <1>8, <1>9, <1>10, <1>11, <1>12, OwnStack
<1> QED
  BY <1>13 DEF GoesOn, Ends

\* From which stage to which a thread goes, and in which step.
LEMMA Moves ==
  ASSUME TypeOK, [Next]_vars, NEW t \in Everyone
  PROVE  \/ stage'[t] = stage[t]
         \/ t \in Threads /\ stage[t] = "unborn" /\ stage'[t] = "created" /\ Create(ParentOf[t], t)
         \/ stage[t] \in {"created", "starting"} /\ stage'[t] \in {"starting", "target"}
         \/ stage[t] \in {"target", "failed"} /\ stage'[t] \in {"failed", "closing"}
         \/ (t \in Threads /\ TakeChildren(t)) \/ (t = Main /\ MainStop)
         \/ AllTold(t)
         \/ (t \in Threads /\ Unregister(t)) \/ (t = Main /\ MainJoined)
         \/ stage[t] \in {"unregistered", "linger"} /\ stage'[t] \in {"linger", "gone"}
         \/ t = Main /\ Residue
<1> USE ThreadsAssumption DEF ThreadsAssumption
<1>0. (\A c \in Threads : c \in Everyone) /\ Main \in Everyone
  BY DEF Everyone
<1> DEFINE Good == \/ stage'[t] = stage[t]
                   \/ t \in Threads /\ stage[t] = "unborn" /\ stage'[t] = "created" /\ Create(ParentOf[t], t)
                   \/ stage[t] \in {"created", "starting"} /\ stage'[t] \in {"starting", "target"}
                   \/ stage[t] \in {"target", "failed"} /\ stage'[t] \in {"failed", "closing"}
                   \/ (t \in Threads /\ TakeChildren(t)) \/ (t = Main /\ MainStop)
                   \/ AllTold(t)
                   \/ (t \in Threads /\ Unregister(t)) \/ (t = Main /\ MainJoined)
                   \/ stage[t] \in {"unregistered", "linger"} /\ stage'[t] \in {"linger", "gone"}
                   \/ t = Main /\ Residue
<1>1. \A r \in Everyone : \A label : stage' = [stage EXCEPT ![r] = label]
         => stage'[t] = IF t = r THEN label ELSE stage[t]
  BY DEF TypeOK
<1>2. ASSUME NEW r \in Everyone, NEW c \in Threads, Create(r, c)
      PROVE  Good
  <2>1. ParentOf[c] = r /\ stage[c] = "unborn" /\ stage' = [stage EXCEPT ![c] = "created"]
    BY <1>2 DEF Create, Goto
  <2> QED
    BY <1>0, <1>1, <1>2, <2>1
<1>3. ASSUME NEW r \in Everyone, NEW c \in Threads, StartThread(r, c)
      PROVE  Good
  BY <1>0, <1>1, <1>3 DEF StartThread, Goto
<1>4. ASSUME NEW r \in Everyone, NEW c \in Threads,
             Release(r, c) \/ StopThread(r, c) \/ \E till \in BOOLEAN : Join(r, c, till)
      PROVE  Good
  BY <1>4 DEF Release, StopThread, Join
<1>5. ASSUME NEW r \in Threads, NEW o \in {"ok", "failed"}, Finish(r, o)
      PROVE  Good
  <2>1. stage[r] = "target" /\ \E label \in {"failed", "closing"} : stage' = [stage EXCEPT ![r] = label]
    BY <1>5 DEF Finish, RunsTarget, Goto
  <2> QED
    BY <1>0, <1>1, <2>1
<1>6. ASSUME NEW r \in Everyone,
             Descend(r) \/ StopSelf(r) \/ JoinSignals(r) \/ JoinRaises(r) \/ JoinEnds(r) \/ JoinTimesOut(r)
      PROVE  Good
  BY <1>6 DEF Descend, StopSelf, JoinSignals, JoinRaises, JoinEnds, JoinTimesOut
<1>7. ASSUME NEW r \in Everyone, AllTold(r)
      PROVE  Good
  <2>1. \E label : stage' = [stage EXCEPT ![r] = label]
    BY <1>7 DEF AllTold, Goto
  <2> QED
    BY <1>1, <1>7, <2>1
<1>8. ASSUME NEW r \in Threads, Register(r) \/ ReportFailure(r) \/ Stopped(r) \/ MetJoiner(r) \/ Forgotten(r)
      PROVE  Good
  BY <1>0, <1>1, <1>8 DEF Register, ReportFailure, Stopped, MetJoiner, Forgotten, Goto
<1>9. ASSUME NEW r \in Threads, TakeChildren(r) \/ Unregister(r)
      PROVE  Good
  <2>1. \E label : stage' = [stage EXCEPT ![r] = label]
    BY <1>9 DEF TakeChildren, Unregister, Goto
  <2> QED
    BY <1>0, <1>1, <1>9, <2>1
<1>10. ASSUME MainStop \/ MainJoined \/ Residue
       PROVE  Good
  <2>1. \E label : stage' = [stage EXCEPT ![Main] = label]
    BY <1>10 DEF MainStop, MainJoined, Residue, Goto
  <2> QED
    BY <1>0, <1>1, <1>10, <2>1
<1>11. ASSUME UNCHANGED vars
       PROVE  Good
  BY <1>11 DEF vars
<1> HIDE DEF Good
<1>12. ASSUME Next
       PROVE  Good
  BY <1>2, <1>3, <1>4, <1>5, <1>6, <1>7, <1>8, <1>9, <1>10, <1>12 DEF Next, Target, Walk, Run
<1>13. Good
  BY <1>11, <1>12
<1> QED
  BY <1>13 DEF Good

\* A loop that begins has every child to come.
LEMMA LoopBegins ==
  ASSUME TypeOK, CallInv, StackInv, IsFiniteSet(all), [Next]_vars, NEW t \in Everyone,
         stage'[t] # stage[t], stage'[t] \in Telling \cup JoiningAll
  PROVE  /\ \A c \in Threads : Pending(stack'[t], c) <=> c \in ToSet(kids'[t])
         /\ \/ /\ AllTold(t) /\ kids'[t] = kids[t] /\ stage[t] \in Telling
               /\ stage'[t] = IF stage[t] = "stop_kids" THEN "join_kids" ELSE "join_residue"
            \/ /\ (t \in Threads /\ TakeChildren(t)) \/ (t = Main /\ MainStop)
               /\ kids'[t] = children[t] /\ stage'[t] = "stop_kids"
            \/ /\ t = Main /\ Residue
               /\ ToSet(kids'[t]) = all /\ stage'[t] = "stop_residue"
<1> USE DEF Telling, JoiningAll
<1>1. ASSUME NEW op, NEW todo, stack'[t] = <<Frame(op, Nobody, todo, FALSE)>>, ToSet(todo) = ToSet(kids'[t]),
             NEW c \in Threads
      PROVE  Pending(stack'[t], c) <=> c \in ToSet(kids'[t])
  <2> DEFINE f == Frame(op, Nobody, todo, FALSE)
  <2>1. f.todo = todo
    BY DEF Frame
  <2> HIDE DEF f
  <2>2. stack'[t] = <<f>>
    BY <1>1 DEF f
  <2>3. Len(stack'[t]) = 1 /\ Bottom(stack'[t]) = f
    BY <2>2 DEF Bottom
  <2> QED
    BY <1>1, <2>1, <2>3 DEF Pending
<1>2. CASE AllTold(t)
  <2>1. stack'[t] = <<Frame("join", Nobody, kids[t], FALSE)>> /\ kids'[t] = kids[t]
        /\ stage'[t] = IF stage[t] = "stop_kids" THEN "join_kids" ELSE "join_residue"
    BY <1>2 DEF AllTold, Goto, SetStack, TypeOK
  <2>2. stage[t] \in Telling
    BY <1>2, ToldStage
  <2>3. \A c \in Threads : Pending(stack'[t], c) <=> c \in ToSet(kids'[t])
    BY <1>1, <2>1
  <2> QED
    BY <1>2, <2>1, <2>2, <2>3
<1>3. CASE t \in Threads /\ TakeChildren(t)
  <2>1. stack'[t] = <<Frame("stop", Nobody, children[t], FALSE)>> /\ kids'[t] = children[t] /\ stage'[t] = "stop_kids"
    BY <1>3 DEF TakeChildren, Goto, SetStack, TypeOK
  <2>2. \A c \in Threads : Pending(stack'[t], c) <=> c \in ToSet(kids'[t])
    BY <1>1, <2>1
  <2> QED
    BY <1>3, <2>1, <2>2
<1>4. CASE t = Main /\ MainStop
  <2>1. stack'[t] = <<Frame("stop", Nobody, Reverse(children[t]), FALSE)>> /\ kids'[t] = children[t] /\ stage'[t] = "stop_kids"
    BY <1>4 DEF MainStop, Goto, SetStack, TypeOK
  <2>2. ToSet(Reverse(children[t])) = ToSet(children[t])
    <3>1. children[t] \in Seq(Threads)
      BY DEF TypeOK
    <3> QED
      BY <3>1, TurnedRound
  <2>3. \A c \in Threads : Pending(stack'[t], c) <=> c \in ToSet(kids'[t])
    BY <1>1, <2>1, <2>2
  <2> QED
    BY <1>4, <2>1, <2>3
<1>5. CASE t = Main /\ Residue
  <2>1. PICK rest \in SetToSeqs(all) :
           /\ kids' = [kids EXCEPT ![Main] = rest]
           /\ SetStack(Main, <<Frame("stop", Nobody, rest, FALSE)>>)
    BY <1>5 DEF Residue
  <2>2. stage'[t] = "stop_residue" /\ kids'[t] = rest /\ stack'[t] = <<Frame("stop", Nobody, rest, FALSE)>>
    BY <1>5, <2>1 DEF Residue, Goto, SetStack, TypeOK
  <2>3. ToSet(rest) = all
    BY Listing
  <2>4. \A c \in Threads : Pending(stack'[t], c) <=> c \in ToSet(kids'[t])
    BY <1>1, <2>2
  <2> QED
    BY <1>5, <2>2, <2>3, <2>4
<1>6. ~(t \in Threads /\ Unregister(t)) /\ ~(t = Main /\ MainJoined)
  BY DEF Unregister, MainJoined, Goto, TypeOK
<1> QED
  BY <1>2, <1>3, <1>4, <1>5, <1>6, Moves

\* Every step keeps what a loop goes through.
LEMMA NextLoop ==
  ASSUME TypeOK, StageInv, CallInv, StackInv, ListInv, LoopInv, IsFiniteSet(all), [Next]_vars
  PROVE  LoopInv'
<1> SUFFICES ASSUME NEW t \in Everyone, stage'[t] \in Telling \cup JoiningAll, NEW c \in Threads,
                    Pending(stack'[t], c)
             PROVE  c \in ToSet(kids'[t])
  BY DEF LoopInv, Pending, Bottom
<1>1. CASE stage'[t] # stage[t]
  BY <1>1, LoopBegins
<1>2. CASE stage'[t] = stage[t]
  <2>1. ~AllTold(t) /\ ~(t \in Threads /\ Unregister(t)) /\ ~(t = Main /\ MainJoined)
    BY <1>2, ToldStage DEF AllTold, Unregister, MainJoined, Goto, TypeOK, Telling
  <2>2. kids'[t] = kids[t] /\ Pending(stack[t], c)
    BY <1>2, <2>1, LoopGoesOn
  <2> QED
    BY <1>2, <2>2 DEF LoopInv
<1> QED
  BY <1>1, <1>2

\* The loop at the bottom of the stack of Main is in a loop's stage.
LEMMA MainLoop ==
  ASSUME TypeOK, CallInv, StackInv, stack[Main] # <<>>, Bottom(stack[Main]).of = Nobody
  PROVE  stage[Main] \in Telling \cup JoiningAll
<1>1. Main \in Everyone
  BY DEF Everyone
<1>2. Len(stack[Main]) \in DOMAIN stack[Main]
  BY <1>1, TopFacts
<1>3. stage[Main] # "target"
  BY <1>1, <1>2 DEF StackInv, Shape, Bottom
<1> QED
  BY <1>1, <1>3 DEF CallInv

\* What has reached the main thread, or is on its way, is not lost.
LEMMA PassedStays ==
  ASSUME TypeOK, StageInv, CallInv, StackInv, ListInv, [Next]_vars,
         NEW c \in Threads, c \in stopped, Passed(c)
  PROVE  Passed(c)'
<1>0. Main \in Everyone /\ Main \notin Threads
  BY ThreadsAssumption DEF ThreadsAssumption, Everyone
<1>1. Failed(c)' <=> Failed(c)
  <2>1. stage[c] \notin Unrun \cup {"target"}
    BY DEF StageInv, Unrun, Unmade
  <2> QED
    BY <2>1, Onward DEF Failed
<1>2. heard \subseteq heard'
  BY Onward
<1>3. ASSUME stack[Main] # <<>>, Bottom(stack[Main]).of = Nobody, c \in Bottom(stack[Main]).causes
      PROVE  Passed(c)'
  <2>1. stage[Main] \in Telling \cup JoiningAll
    BY <1>3, MainLoop
  <2>2. CASE AllTold(Main)
    <3>1. Bottom(stack[Main]) = Top(Main)
      BY <1>0, <2>1, <2>2, LoopGoesOn, ToldStage DEF Bottom, Top
    <3>2. Fits(stage[Main], kids[Main], Top(Main)) /\ Top(Main).op = "stop"
      BY <1>0, <1>3, <2>2, TopFacts DEF AllTold
    <3> QED
      BY <1>3, <3>1, <3>2 DEF Fits
  <2>3. CASE MainJoined
    <3>1. Bottom(stack[Main]) = Top(Main)
      <4>1. Top(Main).of = Nobody
        BY <2>3 DEF MainJoined, AllJoined
      <4>2. Len(stack[Main]) = 1 /\ Top(Main) = stack[Main][1]
        BY <1>0, <1>3, <4>1, TopFacts
      <4> QED
        BY <4>2 DEF Bottom
    <3> QED
      BY <1>3, <2>3, <3>1 DEF MainJoined, Passed
  <2>4. CASE ~AllTold(Main) /\ ~MainJoined
    <3>1. stack'[Main] # <<>> /\ Bottom(stack'[Main]).of = Nobody
          /\ Bottom(stack[Main]).causes \subseteq Bottom(stack'[Main]).causes
      BY <1>0, <2>1, <2>4, LoopGoesOn
    <3>2. Bottom(stack[Main])' = Bottom(stack'[Main])
      BY DEF Bottom
    <3> QED
      BY <1>3, <3>1, <3>2 DEF Passed
  <2> QED
    BY <2>2, <2>3, <2>4
<1> QED
  BY <1>1, <1>2, <1>3 DEF Passed

\* Nor is what has been settled.
LEMMA SettledStays ==
  ASSUME TypeOK, StageInv, CallInv, StackInv, ListInv, [Next]_vars, NEW c \in Threads, Settled(c)
  PROVE  Settled(c)'
  BY Onward, CasualtiesStay, PassedStays DEF Settled

-----------------------------------------------------------------------------
(***************************************************************************)
(* Who is listed, who was told, and who was joined.                        *)
(***************************************************************************)

\* What a child of Main raises when it is joined is heard, or collected by the
\* loop of MainThread.stop().
LEMMA JoinPasses ==
  ASSUME TypeOK, StageInv, CallInv, StackInv, ListInv, LoopInv, NEW t \in Everyone, JoinEnds(t),
         NEW c \in Threads, c = Top(t).of
  PROVE  Passed(c)'
<1> USE ThreadsAssumption DEF ThreadsAssumption
<1> DEFINE s == stack[t]
           n == stack'[t]
<1>0. (\A x \in Threads : x \in Everyone /\ x # Nobody) /\ Main \in Everyone /\ Main \notin Threads
  BY DEF Everyone
<1>1. /\ s # <<>> /\ c # Nobody /\ Top(t).op = "join"
      /\ Return(t, IF outcome[c] = "failed" THEN {c} ELSE {})
      /\ outcome' = outcome
  BY DEF JoinEnds, Joining
<1>2. /\ Top(t) = s[1] /\ Top(t) \in Frames /\ Len(s) \in Nat \ {0} /\ DOMAIN s = 1..Len(s)
      /\ stage[t] \in Telling \cup JoiningAll \cup {"target"}
      /\ Fits(stage[t], kids[t], Top(t))
      /\ c # Nobody => Len(s) # 1 \/ stage[t] = "target"
  BY <1>1, TopFacts
<1>4. CASE ParentOf[c] # Main \/ ~Failed(c)
  BY <1>1, <1>4 DEF Passed, Failed
<1>5. ASSUME ParentOf[c] = Main, Failed(c)
      PROVE  Passed(c)'
  <2>1. Return(t, {c}) /\ {c} \in SUBSET (Threads \cup {Timeout})
    BY <1>1, <1>5 DEF Failed
  <2>2. CASE Len(s) = 1
    <3>1. heard' = heard \cup ({c} \cap Threads)
      BY <1>1, <2>1, <2>2, JoinPops
    <3> QED
      BY <3>1 DEF Passed
  <2>3. CASE Len(s) # 1
    <3>1. Len(s) > 1 /\ 1 \in DOMAIN s /\ 2 \in DOMAIN s /\ 1 < Len(s) /\ (2 = Len(s) => Len(s) - 1 = 1)
      <4>1. \A i \in Nat \ {0} : i # 1 => i > 1 /\ 1 \in 1..i /\ 2 \in 1..i /\ 1 < i /\ (2 = i => i - 1 = 1)
        OBVIOUS
      <4>2. Len(s) \in Nat \ {0} /\ DOMAIN s = 1..Len(s)
        BY <1>2
      <4> QED
        BY <2>3, <4>1, <4>2
    <3>2. s[2].of = Nobody
      <4>1. s[2] \in Frames
        BY <3>1, <1>2, StackFacts
      <4>2. s[2].of # Nobody => ParentOf[c] = s[2].of /\ s[2].of \in Threads
        BY <1>2, <3>1, <4>1 DEF StackInv, Shape, Frames
      <4> QED
        BY <1>0, <1>5, <4>2
    <3>3. Len(s) = 2 /\ stage[t] # "target" /\ stage[t] \in JoiningAll
      BY <1>1, <1>2, <3>1, <3>2, ZenonT(60) DEF StackInv, Shape, Fits
    <3>4. Pending(s, c)
      BY <1>2, <3>1, <3>3 DEF Pending
    <3>5. c \in ToSet(kids[t])
      BY <3>3, <3>4 DEF LoopInv
    <3>6. t = Main
      BY <1>0, <1>5, <3>3, <3>5 DEF JoiningAll, ListInv, StageInv, Everyone
    <3>7. /\ Len(n) = 1
          /\ n[1] = [s[2] EXCEPT !.causes = @ \cup {c}]
      <4>1. Len(n) = Len(s) - 1 /\ n[1] = [s[2] EXCEPT !.causes = @ \cup {c}]
        BY <1>1, <2>1, <3>1, JoinPops
      <4> QED
        BY <3>3, <4>1
    <3>8. n[1].of = Nobody /\ c \in n[1].causes
      <4>1. s[2] \in Frames
        BY <3>1, <1>2, StackFacts
      <4> QED
        BY <3>2, <3>7, <4>1 DEF Frames
    <3>9. n # <<>> /\ Bottom(n) = n[1]
      BY <3>7 DEF Bottom
    <3>10. Bottom(stack[Main])' = Bottom(stack'[Main])
      BY DEF Bottom
    <3> QED
      BY <3>6, <3>8, <3>9, <3>10 DEF Passed
  <2> QED
    BY <2>2, <2>3
<1> QED
  BY <1>4, <1>5

\* Who takes a child off a list.
LEMMA OffTheList ==
  ASSUME TypeOK, StageInv, CallInv, StackInv, ListInv, [Next]_vars,
         NEW c \in Threads, c \in ToSet(children[ParentOf[c]]), c \notin ToSet(children'[ParentOf[c]])
  PROVE  \/ ParentOf[c] \in Threads /\ TakeChildren(ParentOf[c])
         \/ \E t \in Everyone : JoinEnds(t) /\ Top(t).of = c
         \/ Forgotten(c) /\ ParentOf[c] # Main
<1> USE ThreadsAssumption DEF ThreadsAssumption
<1>0. (\A t \in Threads : t \in Everyone /\ ParentOf[t] \in Everyone) /\ Main \in Everyone
  BY DEF Everyone
<1> SUFFICES ASSUME NEW p \in Everyone, p = ParentOf[c]
             PROVE  \/ p \in Threads /\ TakeChildren(p)
                    \/ \E t \in Everyone : JoinEnds(t) /\ Top(t).of = c
                    \/ Forgotten(c) /\ p # Main
  BY <1>0
<1>1. children'[p] # children[p]
  OBVIOUS
<1>2. ASSUME NEW x \in Threads, RemoveChild(x)
      PROVE  x = c
  <2>1. ToSet(children'[p]) = ToSet(children[p]) \ {x}
    BY <1>2, ChildRemoved
  <2> QED
    BY <2>1
<1>3. ASSUME NEW t \in Everyone, NEW x \in Threads, Create(t, x)
      PROVE  FALSE
  <2>1. children' = [children EXCEPT ![t] = Append(children[t], x)]
    BY <1>3 DEF Create
  <2>2. ToSet(Append(children[t], x)) = ToSet(children[t]) \cup {x}
    <3>1. children[t] \in Seq(Threads)
      BY DEF TypeOK
    <3> QED
      BY <3>1, OneMore
  <2>3. children'[p] = IF p = t THEN Append(children[t], x) ELSE children[p]
    BY <2>1 DEF TypeOK
  <2> QED
    BY <2>2, <2>3
<1>4. ~\E t \in Everyone : Target(t)
  BY <1>1, <1>3 DEF Target, StartThread, StopThread, Join, Release, Finish
<1>5. ASSUME NEW t \in Everyone, Walk(t)
      PROVE  JoinEnds(t) /\ Top(t).of = c
  <2>1. JoinEnds(t)
    BY <1>1, <1>5 DEF Walk, Descend, StopSelf, AllTold, JoinRaises, JoinSignals, JoinTimesOut
  <2>2. RemoveChild(Top(t).of) /\ Top(t).of \in Threads
    BY <2>1, TopFacts DEF JoinEnds, Joining, Frames
  <2> QED
    BY <1>2, <2>1, <2>2
<1>6. ASSUME NEW t \in Threads, Run(t)
      PROVE  (p \in Threads /\ TakeChildren(p)) \/ (Forgotten(c) /\ p # Main)
  <2>1. CASE Forgotten(t)
    <3>1. ParentOf[t] # Main /\ RemoveChild(t)
      BY <1>1, <2>1 DEF Forgotten
    <3> QED
      BY <1>2, <2>1, <3>1
  <2>2. CASE TakeChildren(t)
    <3>1. t = p
      BY <1>1, <2>2 DEF TakeChildren, TypeOK
    <3> QED
      BY <2>2, <3>1
  <2>3. CASE ~Forgotten(t) /\ ~TakeChildren(t)
    BY <1>1, <1>6, <2>3 DEF Run, Register, ReportFailure, Unregister, Stopped, MetJoiner
  <2> QED
    BY <2>1, <2>2, <2>3
<1>7. ~(MainStop \/ MainJoined \/ Residue \/ UNCHANGED vars)
  BY <1>1 DEF MainStop, MainJoined, Residue, vars
<1> QED
  BY <1>4, <1>5, <1>6, <1>7 DEF Next

\* Every step keeps track of the children that were made.
LEMMA NextListed ==
  ASSUME TypeOK, StageInv, CallInv, StackInv, ListInv, LoopInv, ListedInv, [Next]_vars
  PROVE  ListedInv'
<1> USE ThreadsAssumption DEF ThreadsAssumption, Unmade, Over
<1>0. (\A t \in Threads : t \in Everyone /\ ParentOf[t] \in Everyone /\ t # Main) /\ Main \in Everyone
  BY DEF Everyone
<1> SUFFICES ASSUME NEW c \in Threads, stage'[c] \notin Unmade, NEW p \in Everyone, p = ParentOf[c]
             PROVE  \/ stage'[p] \notin {"stop_kids", "join_kids"} \cup Over /\ c \in ToSet(children'[p])
                    \/ stage'[p] \in {"stop_kids", "join_kids"} /\ c \in ToSet(kids'[p])
                    \/ stage'[p] \in Over
                    \/ c \in stopped' /\ Passed(c)'
  BY <1>0 DEF ListedInv
<1> DEFINE Good == \/ stage'[p] \notin {"stop_kids", "join_kids"} \cup Over /\ c \in ToSet(children'[p])
                   \/ stage'[p] \in {"stop_kids", "join_kids"} /\ c \in ToSet(kids'[p])
                   \/ stage'[p] \in Over
                   \/ c \in stopped' /\ Passed(c)'
<1>1. CASE stage[c] \in Unmade
  <2>1. Create(p, c)
    <3>1. ~TakeChildren(c) /\ ~AllTold(c) /\ ~Unregister(c)
      BY <1>0, <1>1, ToldStage DEF TakeChildren, Unregister, Telling
    <3> QED
      BY <1>0, <1>1, <3>1, Moves
  <2>2. stage[p] = "target" /\ stage[c] = "unborn" /\ children' = [children EXCEPT ![p] = Append(children[p], c)]
    BY <2>1 DEF Create, RunsTarget
  <2>3. stage'[p] = "target"
    BY <1>0, <2>1, <2>2 DEF Create, Goto, TypeOK
  <2>4. c \in ToSet(children'[p])
    <3>1. children[p] \in Seq(Threads)
      BY DEF TypeOK
    <3>2. ToSet(Append(children[p], c)) = ToSet(children[p]) \cup {c}
      BY <3>1, OneMore
    <3> QED
      BY <2>2, <3>2 DEF TypeOK
  <2> QED
    BY <2>3, <2>4
<1>2. ASSUME c \in stopped, Passed(c)
      PROVE  Good
  BY <1>2, PassedStays, Onward
<1>3. ASSUME stage[p] \in Over
      PROVE  Good
  BY <1>3, Onward
<1>4. ASSUME stage[p] \in {"stop_kids", "join_kids"}, c \in ToSet(kids[p])
      PROVE  Good
  <2>1. ~TakeChildren(p) /\ ~(p = Main /\ MainStop)
    BY <1>4, <1>0 DEF TakeChildren, MainStop, RunsTarget
  <2>2. CASE stage'[p] \in {"stop_kids", "join_kids"}
    BY <1>4, <2>1, <2>2, KidsStay
  <2>3. CASE stage'[p] \notin {"stop_kids", "join_kids"}
    <3>1. AllTold(p) => stage'[p] \in {"stop_kids", "join_kids"}
      BY <1>4, ToldStage DEF AllTold, Goto, TypeOK, Telling
    <3>2. Unregister(p) => stage'[p] \in Over
      BY DEF Unregister, Goto, TypeOK
    <3>3. p = Main /\ MainJoined => stage'[p] \in Over
      BY <1>4 DEF MainJoined, Goto, TypeOK
    <3>4. ~(p = Main /\ Residue)
      BY <1>4 DEF Residue
    <3>5. stage'[p] \in Over
      BY <1>4, <2>1, <2>3, <3>1, <3>2, <3>3, <3>4, Moves
    <3> QED
      BY <3>5
  <2> QED
    BY <2>2, <2>3
<1>5. ASSUME stage[p] \notin {"stop_kids", "join_kids"}, c \in ToSet(children[p])
      PROVE  Good
  <2>1. CASE c \in ToSet(children'[p])
    <3>1. stage'[p] \in {"stop_kids", "join_kids"} => kids'[p] = children[p]
      BY <1>5, KidsStay
    <3> QED
      BY <1>5, <2>1, <3>1
  <2>2. ASSUME NEW t \in Everyone, JoinEnds(t), Top(t).of = c
        PROVE  Good
    <3>1. c \in stopped
      BY <2>2 DEF JoinEnds
    <3> QED
      BY <2>2, <3>1, JoinPasses, Onward
  <2>3. ASSUME Forgotten(c), p # Main
        PROVE  Good
    <3>1. c \in stopped
      BY <2>3 DEF Forgotten, StageInv
    <3>2. Passed(c)'
      BY <2>3 DEF Passed
    <3> QED
      BY <3>1, <3>2, Onward
  <2>4. ASSUME p \in Threads, TakeChildren(p)
        PROVE  Good
    BY <1>5, <2>4 DEF TakeChildren, Goto, TypeOK
  <2> HIDE DEF Good
  <2> QED
    BY <1>5, <2>1, <2>2, <2>3, <2>4, OffTheList
<1>6. CASE stage[c] \notin Unmade
  <2> HIDE DEF Good
  <2>1. Good
    BY <1>2, <1>3, <1>4, <1>5, <1>6 DEF ListedInv
  <2> QED
    BY <2>1 DEF Good
<1> QED
  BY <1>1, <1>6

\* A loop over the children that ends has gone past all of them.
LEMMA LoopEnds ==
  ASSUME TypeOK, StageInv, CallInv, StackInv, ListInv, [Next]_vars, NEW p \in Everyone,
         stage[p] \notin Over, stage'[p] \in Over
  PROVE  stage[p] = "join_kids" /\ \A c \in Threads : ~Pending(stack[p], c)
<1> USE DEF Over
<1>1. ~TakeChildren(p) /\ ~(p = Main /\ MainStop) /\ ~(p = Main /\ Residue)
  BY DEF TakeChildren, MainStop, Residue, Goto, TypeOK
<1>2. ~AllTold(p)
  <2>1. ASSUME AllTold(p)
        PROVE  stage'[p] = "join_kids"
    BY <2>1, ToldStage DEF AllTold, Goto, TypeOK, Telling
  <2> QED
    BY <2>1
<1>3. (p \in Threads /\ Unregister(p)) \/ (p = Main /\ MainJoined)
  BY <1>1, <1>2, Moves
<1>4. stage[p] = "join_kids" /\ stage'[p] # stage[p]
  BY <1>3 DEF Unregister, MainJoined
<1> QED
  BY <1>4, LoopGoesOn DEF JoiningAll

\* Nobody is made by a thread whose loops have begun.
LEMMA NoneMade ==
  ASSUME TypeOK, CallInv, StackInv, [Next]_vars, NEW c \in Threads, stage'[c] \notin Unmade,
         stage[ParentOf[c]] # "target"
  PROVE  stage[c] \notin Unmade
<1>1. c \in Everyone
  BY DEF Everyone
<1>2. ~TakeChildren(c) \/ stage[c] \notin Unmade
  BY DEF TakeChildren, Unmade
<1>3. ~Unregister(c) \/ stage[c] \notin Unmade
  BY DEF Unregister, Unmade
<1>4. ~AllTold(c) \/ stage[c] \notin Unmade
  BY <1>1, ToldStage DEF Telling, Unmade
<1>5. ~Create(ParentOf[c], c)
  BY DEF Create, RunsTarget
<1> QED
  BY <1>1, <1>2, <1>3, <1>4, <1>5, Moves, ThreadsAssumption DEF ThreadsAssumption, Unmade

\* Every step tells the children to stop, before it goes on.
LEMMA NextTold ==
  ASSUME TypeOK, StageInv, CallInv, StackInv, ListInv, LoopInv, ListedInv, ToldInv, IsFiniteSet(all), [Next]_vars
  PROVE  ToldInv'
<1> SUFFICES ASSUME NEW c \in Threads, NEW p, p = ParentOf[c]
             PROVE  /\ stage'[p] = "stop_kids" /\ c \in ToSet(kids'[p]) => c \in pleaseStop' \/ Pending(stack'[p], c)
                    /\ stage'[p] = "join_kids" /\ c \in ToSet(kids'[p]) => c \in pleaseStop'
                    /\ stage'[p] \in Over /\ stage'[c] \notin Unmade => c \in pleaseStop' \cup stopped'
  BY DEF ToldInv, Pending, Bottom
<1>0. p \in Everyone
  BY ThreadsAssumption DEF ThreadsAssumption
<1>1. pleaseStop \subseteq pleaseStop' /\ stopped \subseteq stopped'
  BY Onward
<1>2. ASSUME stage'[p] = "stop_kids", c \in ToSet(kids'[p])
      PROVE  c \in pleaseStop' \/ Pending(stack'[p], c)
  <2>1. CASE stage'[p] # stage[p]
    BY <1>0, <1>2, <2>1, LoopBegins DEF Telling
  <2>2. CASE stage'[p] = stage[p]
    <3>1. ~AllTold(p) /\ ~Unregister(p) /\ ~(p = Main /\ MainJoined)
      BY <1>0, <1>2, <2>2 DEF AllTold, Unregister, MainJoined, Goto, TypeOK
    <3>2. /\ kids'[p] = kids[p]
          /\ Pending(stack[p], c) => Pending(stack'[p], c) \/ c \in pleaseStop'
      BY <1>0, <1>2, <2>2, <3>1, LoopGoesOn DEF Telling, JoiningAll
    <3> QED
      BY <1>1, <1>2, <2>2, <3>2 DEF ToldInv
  <2> QED
    BY <2>1, <2>2
<1>3. ASSUME stage'[p] = "join_kids", c \in ToSet(kids'[p])
      PROVE  c \in pleaseStop'
  <2>1. CASE stage'[p] # stage[p]
    <3>1. AllTold(p) /\ kids'[p] = kids[p] /\ stage[p] \in Telling
          /\ stage'[p] = IF stage[p] = "stop_kids" THEN "join_kids" ELSE "join_residue"
      BY <1>0, <1>3, <2>1, LoopBegins DEF JoiningAll
    <3>2. stage[p] = "stop_kids"
      BY <1>3, <3>1
    <3>3. ~Pending(stack[p], c)
      BY <1>0, <2>1, <3>1, LoopGoesOn
    <3> QED
      BY <1>1, <1>3, <3>1, <3>2, <3>3 DEF ToldInv
  <2>2. CASE stage'[p] = stage[p]
    <3>1. kids'[p] = kids[p]
      BY <1>0, <1>3, <2>2, KidsStay
    <3> QED
      BY <1>1, <1>3, <2>2, <3>1 DEF ToldInv
  <2> QED
    BY <2>1, <2>2
<1>4. ASSUME stage'[p] \in Over, stage'[c] \notin Unmade
      PROVE  c \in pleaseStop' \cup stopped'
  <2>1. CASE stage[p] \in Over
    <3>1. stage[c] \notin Unmade
      BY <1>4, <2>1, NoneMade DEF Over
    <3> QED
      BY <1>1, <2>1, <3>1 DEF ToldInv
  <2>2. CASE stage[p] \notin Over
    <3>1. stage[p] = "join_kids"
      BY <1>0, <1>4, <2>2, LoopEnds
    <3>2. stage[c] \notin Unmade
      BY <1>4, <3>1, NoneMade
    <3> QED
      BY <1>1, <2>2, <3>1, <3>2 DEF ListedInv, ToldInv
  <2> QED
    BY <2>1, <2>2
<1> QED
  BY <1>2, <1>3, <1>4

\* Every step joins the children, before it goes on.
LEMMA NextJoined ==
  ASSUME TypeOK, StageInv, CallInv, StackInv, ListInv, LoopInv, ListedInv, JoinedInv, IsFiniteSet(all), [Next]_vars
  PROVE  JoinedInv'
<1> SUFFICES ASSUME NEW c \in Threads, NEW p, p = ParentOf[c]
             PROVE  /\ stage'[p] = "join_kids" /\ c \in ToSet(kids'[p]) => Settled(c)' \/ Pending(stack'[p], c)
                    /\ stage'[p] \in Over /\ stage'[c] \notin Unmade => Settled(c)'
  BY DEF JoinedInv, Pending, Bottom
<1>0. p \in Everyone
  BY ThreadsAssumption DEF ThreadsAssumption
<1>1. Settled(c) => Settled(c)'
  BY SettledStays
<1>2. ASSUME stage'[p] = "join_kids", c \in ToSet(kids'[p])
      PROVE  Settled(c)' \/ Pending(stack'[p], c)
  <2>1. CASE stage'[p] # stage[p]
    BY <1>0, <1>2, <2>1, LoopBegins DEF JoiningAll
  <2>2. CASE stage'[p] = stage[p]
    <3>1. ~AllTold(p) /\ ~Unregister(p) /\ ~(p = Main /\ MainJoined)
      BY <1>0, <1>2, <2>2, ToldStage DEF Unregister, MainJoined, Goto, TypeOK, Telling
    <3>2. /\ kids'[p] = kids[p]
          /\ stack'[p] # <<>>
          /\ Bottom(stack'[p]).of = Nobody
          /\ Pending(stack[p], c) =>
                \/ Pending(stack'[p], c)
                \/ \E e \in Descendants(c) \cap Casualties : e \in Top(p).causes
                \/ c \in stopped /\ (Failed(c) => c \in Bottom(stack'[p]).causes)
      BY <1>0, <1>2, <2>2, <3>1, LoopGoesOn DEF Telling, JoiningAll
    <3>3. Settled(c) \/ Pending(stack[p], c)
      BY <1>2, <2>2, <3>2 DEF JoinedInv
    <3>4. ASSUME NEW e \in Descendants(c) \cap Casualties
          PROVE  Settled(c)'
      BY CasualtiesStay DEF Settled, Short
    <3>5. ASSUME c \in stopped, Failed(c) => c \in Bottom(stack'[p]).causes
          PROVE  Settled(c)'
      <4>1. Failed(c)' <=> Failed(c)
        <5>1. stage[c] \notin Unrun \cup {"target"}
          BY <3>5 DEF StageInv, Unrun, Unmade
        <5> QED
          BY <5>1, Onward DEF Failed
      <4>2. Bottom(stack[Main])' = Bottom(stack'[Main])
        BY DEF Bottom
      <4>3. Passed(c)'
        BY <3>2, <3>5, <4>1, <4>2 DEF Passed
      <4> QED
        BY <3>5, <4>3, Onward DEF Settled
    <3> QED
      BY <1>1, <3>2, <3>3, <3>4, <3>5
  <2> QED
    BY <2>1, <2>2
<1>3. ASSUME stage'[p] \in Over, stage'[c] \notin Unmade
      PROVE  Settled(c)'
  <2>1. CASE stage[p] \in Over
    <3>1. stage[c] \notin Unmade
      BY <1>3, <2>1, NoneMade DEF Over
    <3> QED
      BY <1>1, <2>1, <3>1 DEF JoinedInv
  <2>2. CASE stage[p] \notin Over
    <3>1. stage[p] = "join_kids" /\ ~Pending(stack[p], c)
      BY <1>0, <1>3, <2>2, LoopEnds
    <3>2. stage[c] \notin Unmade
      BY <1>3, <3>1, NoneMade
    <3>3. c \in ToSet(kids[p]) \/ (c \in stopped /\ Passed(c))
      BY <2>2, <3>1, <3>2 DEF ListedInv
    <3>4. Settled(c)
      BY <3>1, <3>3 DEF JoinedInv, Settled
    <3> QED
      BY <1>1, <3>4
  <2> QED
    BY <2>1, <2>2
<1> QED
  BY <1>2, <1>3

-----------------------------------------------------------------------------
(***************************************************************************)
(* The second round of MainThread.stop().                                  *)
(***************************************************************************)

\* No call comes upon a thread that had failed and been joined before the round.
LEMMA RoundAvoids ==
  ASSUME TypeOK, CallInv, StackInv, ListInv, [Next]_vars, NEW U \in SUBSET Threads,
         U \subseteq Casualties, U \cap ToSet(kids[Main]) = {},
         stage[Main] \in {"stop_residue", "join_residue"},
         \A i \in DOMAIN stack[Main] : U \cap (stack[Main][i].causes \cup {stack[Main][i].of}
                                               \cup ToSet(stack[Main][i].todo)) = {}
  PROVE  \A i \in DOMAIN stack'[Main] : U \cap (stack'[Main][i].causes \cup {stack'[Main][i].of}
                                                \cup ToSet(stack'[Main][i].todo)) = {}
<1> USE ThreadsAssumption DEF ThreadsAssumption
<1> DEFINE s == stack[Main]
           n == stack'[Main]
           Free(f) == U \cap (f.causes \cup {f.of} \cup ToSet(f.todo)) = {}
           Good == \A i \in DOMAIN n : Free(n[i])
<1>0. Main \in Everyone /\ (\A x \in Threads : x \in Everyone) /\ Nobody \notin U /\ Timeout \notin U
  BY DEF Everyone
<1>1. s # <<>> /\ stage[Main] # "target"
  BY <1>0 DEF CallInv, Telling, JoiningAll
<1>2. /\ Top(Main) = s[1] /\ Top(Main) \in Frames /\ Len(s) \in Nat /\ Len(s) # 0 /\ DOMAIN s = 1..Len(s)
  BY <1>0, <1>1, TopFacts
<1>3. s \in Seq(Frames) /\ \A i \in 1..Len(s) : s[i] \in Frames
  BY <1>0, StackFacts
<1>4. \A i \in 1..Len(s) : Free(s[i])
  BY <1>2
<1>5. Free(Top(Main))
  <2>1. 1 \in 1..Len(s)
    BY <1>2
  <2> QED
    BY <1>2, <1>4, <2>1
<1>6. ASSUME n = s
      PROVE  Good
  BY <1>2, <1>4, <1>6
<1>7. ASSUME Descend(Main)
      PROVE  Good
  <2>1. PICK h \in Threads :
           /\ h = Head(Top(Main).todo)
           /\ n \in Seq(Frames)
           /\ Len(n) = Len(s) + 1
           /\ n[1] = Frame(Top(Main).op, h, children[h], Top(Main).till)
           /\ n[2] = [Top(Main) EXCEPT !.todo = Tail(@)]
           /\ \A i \in 2..Len(s) : n[i + 1] = s[i]
    BY <1>0, <1>7, Descends
  <2>2. n[1].of = h /\ n[1].causes = {} /\ n[1].todo = children[h]
    BY <2>1 DEF Frame
  <2>3. n[2].of = Top(Main).of /\ n[2].causes = Top(Main).causes /\ n[2].todo = Tail(Top(Main).todo)
    BY <1>2, <2>1 DEF Frames
  <2>4. ToSet(Top(Main).todo) = {h} \cup ToSet(Tail(Top(Main).todo))
    <3>1. Top(Main).todo \in Seq(Threads) /\ Top(Main).todo # <<>>
      BY <1>2, <1>7 DEF Frames, Descend
    <3> QED
      BY <2>1, <3>1, Elements
  <2>5. U \cap ToSet(children[h]) = {}
    <3>1. \A x \in U : x \notin ToSet(children[ParentOf[x]])
      BY DEF Casualties
    <3> QED
      BY <1>0, <3>1 DEF ListInv
  <2> HIDE DEF Free
  <2>6. Free(n[1])
    BY <1>5, <2>2, <2>4, <2>5 DEF Free
  <2>7. Free(n[2])
    BY <1>5, <2>3, <2>4 DEF Free
  <2>8. \A i \in 2..Len(s) : Free(n[i + 1])
    <3>1. \A i \in 2..Len(s) : i \in 1..Len(s) /\ n[i + 1] = s[i]
      BY <2>1
    <3> QED
      BY <1>4, <3>1
  <2>9. ASSUME NEW i \in 1..Len(n)
        PROVE  Free(n[i])
    <3>1. i = 1 \/ i = 2 \/ (i - 1 \in 2..Len(s) /\ (i - 1) + 1 = i)
      <4>1. \A l \in Nat : \A j \in 1..(l + 1) : j = 1 \/ j = 2 \/ (j - 1 \in 2..l /\ (j - 1) + 1 = j)
        OBVIOUS
      <4> QED
        BY <1>2, <2>1, <4>1
    <3> QED
      BY <2>6, <2>7, <2>8, <3>1
  <2>10. DOMAIN n = 1..Len(n)
    BY <2>1
  <2> QED
    BY <2>9, <2>10
<1>8. ASSUME JoinSignals(Main)
      PROVE  Good
  <2>1. /\ n \in Seq(Frames)
        /\ Len(n) = Len(s)
        /\ n[1] = [s[1] EXCEPT !.waits = TRUE]
        /\ \A i \in 2..Len(s) : n[i] = s[i]
    BY <1>0, <1>8, JoinMarks
  <2>2. n[1].of = s[1].of /\ n[1].causes = s[1].causes /\ n[1].todo = s[1].todo
    BY <1>2, <2>1 DEF Frames
  <2>3. ASSUME NEW i \in 1..Len(s)
        PROVE  Free(n[i])
    <3>1. CASE i = 1
      BY <1>4, <2>2, <3>1
    <3>2. CASE i # 1
      <4>1. i \in 2..Len(s)
        BY <3>2
      <4> QED
        BY <1>4, <2>1, <4>1
    <3> QED
      BY <3>1, <3>2
  <2>4. DOMAIN n = 1..Len(s)
    BY <2>1
  <2> QED
    BY <2>3, <2>4
<1>9. ASSUME StopSelf(Main)
      PROVE  Good
  <2>1. /\ n \in Seq(Frames)
        /\ Len(n) = Len(s) - 1
        /\ \A i \in 1..(Len(s) - 1) : n[i] = s[i + 1]
    BY <1>0, <1>9, StopPops
  <2>2. DOMAIN n = 1..(Len(s) - 1) /\ \A i \in 1..(Len(s) - 1) : i + 1 \in 1..Len(s)
    BY <1>2, <2>1
  <2> QED
    BY <1>4, <2>1, <2>2
<1>10. ASSUME JoinRaises(Main) \/ JoinEnds(Main) \/ JoinTimesOut(Main)
       PROVE  Good
  <2>1. PICK causes \in SUBSET (Threads \cup {Timeout}) :
           Return(Main, causes) /\ causes \subseteq Top(Main).causes \cup {Top(Main).of, Timeout}
    <3>1. Top(Main).of # Nobody
      BY <1>10 DEF JoinRaises, JoinEnds, JoinTimesOut, Joining
    <3>2. Top(Main).of \in Threads /\ Top(Main).causes \in SUBSET (Threads \cup {Timeout})
      BY <1>2, <3>1 DEF Frames
    <3> QED
      BY <1>10, <3>2 DEF JoinRaises, JoinEnds, JoinTimesOut
  <2>2. U \cap causes = {}
    BY <1>0, <1>5, <2>1
  <2>3. /\ n \in Seq(Frames)
        /\ Len(n) = Len(s) - 1
        /\ Len(s) > 1 => n[1] = [s[2] EXCEPT !.causes = @ \cup causes]
        /\ \A i \in 2..(Len(s) - 1) : n[i] = s[i + 1]
    BY <1>0, <1>1, <2>1, JoinPops
  <2>4. ASSUME NEW i \in 1..(Len(s) - 1)
        PROVE  Free(n[i])
    <3>1. i + 1 \in 1..Len(s)
      BY <1>2
    <3>2. CASE i = 1
      <4>1. Len(s) > 1 /\ 2 \in 1..Len(s)
        BY <1>2, <3>2
      <4>2. s[2] \in Frames /\ Free(s[2])
        BY <1>3, <1>4, <4>1
      <4>3. n[1].of = s[2].of /\ n[1].causes = s[2].causes \cup causes /\ n[1].todo = s[2].todo
        BY <2>3, <4>1, <4>2 DEF Frames
      <4> QED
        BY <2>2, <3>2, <4>2, <4>3
    <3>3. CASE i # 1
      <4>1. i \in 2..(Len(s) - 1)
        BY <3>3
      <4> QED
        BY <1>4, <2>3, <3>1, <4>1
    <3> QED
      BY <3>2, <3>3
  <2>5. DOMAIN n = 1..(Len(s) - 1)
    BY <2>3
  <2> QED
    BY <2>4, <2>5
<1>11. ASSUME AllTold(Main)
       PROVE  Good
  <2> DEFINE f == Frame("join", Nobody, kids[Main], FALSE)
  <2>1. n = <<f>>
    BY <1>0, <1>11 DEF AllTold, SetStack, TypeOK
  <2>2. f.of = Nobody /\ f.causes = {} /\ f.todo = kids[Main]
    BY DEF Frame
  <2> HIDE DEF f
  <2>3. DOMAIN n = {1} /\ n[1] = f
    BY <2>1
  <2> QED
    BY <1>0, <2>2, <2>3
<1>12. ASSUME MainJoined
       PROVE  Good
  <2>1. n = <<>>
    BY <1>0, <1>12 DEF MainJoined, AllJoined, SetStack, TypeOK
  <2> QED
    BY <2>1
<1>13. ~(\E c \in Threads : StopThread(Main, c) \/ \E till \in BOOLEAN : Join(Main, c, till))
  BY <1>1 DEF StopThread, Join, CallOn, RunsTarget
<1>14. ~MainStop /\ ~Residue
  BY <1>1 DEF MainStop, Residue, RunsTarget
<1> HIDE DEF Good
<1>15. Good
  BY <1>0, <1>6, <1>7, <1>8, <1>9, <1>10, <1>11, <1>12, <1>13, <1>14, OwnStack
<1> QED
  BY <1>15 DEF Good

\* Who is unfinished after the first round, and may have cut a join short, is in ALL.
LEMMA ShortListed ==
  ASSUME StageInv, NEW t \in Threads, stage[t] \notin Unmade, t \notin Finished, Short(t)
  PROVE  t \in all
<1>1. PICK d \in Descendants(t) : d \in stopped
  BY DEF Short, Casualties
<1>2. d \in Threads /\ stage[d] \notin Unmade
  BY <1>1 DEF Descendants, StageInv, Unmade
<1>3. stage[t] \notin Unrun
  BY <1>1, <1>2, NothingBelow
<1> QED
  BY <1>3 DEF StageInv, Finished

\* What the first round leaves: whoever is unfinished is in ALL, or below a thread
\* in ALL, whose join a failure cut short.
LEMMA FirstRoundLeaves ==
  ASSUME TypeOK, StageInv, JoinedInv, stage[Main] = "residue",
         NEW t \in Threads, stage[t] \notin Unmade, t \notin Finished
  PROVE  \E k \in all : (t = k \/ t \in Descendants(k)) /\ Short(k)
<1> DEFINE S == {x \in Threads : \/ stage[x] \in Unmade \/ x \in Finished
                                 \/ \E k \in all : (x = k \/ x \in Descendants(k)) /\ Short(k)}
<1>1. ASSUME NEW x \in Threads, stage[ParentOf[x]] \in Over
      PROVE  x \in S
  <2>1. CASE stage[x] \in Unmade \/ x \in Finished
    BY <2>1
  <2>2. CASE stage[x] \notin Unmade /\ x \notin Finished
    <3>1. Short(x)
      BY <1>1, <2>2 DEF JoinedInv, Settled, Finished
    <3> QED
      BY <2>2, <3>1, ShortListed
  <2> QED
    BY <2>1, <2>2
<1>2. ChildrenOf(Main) \subseteq S
  BY <1>1 DEF ChildrenOf, Over
<1>3. ASSUME NEW x \in Threads, ParentOf[x] \in S
      PROVE  x \in S
  <2>1. CASE stage[ParentOf[x]] \in Unmade
    BY <2>1 DEF StageInv, Unrun
  <2>2. CASE ParentOf[x] \in Finished
    <3>1. stage[ParentOf[x]] \in Over
      BY <2>2 DEF Finished, StageInv, Over, TypeOK
    <3> QED
      BY <1>1, <3>1
  <2>3. CASE \E k \in all : (ParentOf[x] = k \/ ParentOf[x] \in Descendants(k)) /\ Short(k)
    BY <2>3, ChildIsBelow, ChildOfBelow
  <2> QED
    BY <1>3, <2>1, <2>2, <2>3
<1>4. t \in Descendants(Main)
  BY DEF StageInv
<1> HIDE DEF S
<1>5. t \in S
  <2>1. S \in SUBSET Threads
    BY DEF S
  <2> QED
    BY <1>2, <1>3, <1>4, <2>1 DEF Descendants, ClosedDown
<1> QED
  BY <1>5 DEF S

\* The second round begins.
LEMMA ResidueBegins ==
  ASSUME TypeOK, StageInv, CallInv, StackInv, ListInv, JoinedInv, IsFiniteSet(all), Residue,
         NEW U, U = Casualties, NEW R, R = all
  PROVE  ResidueInv(U, R)'
<1>0. Main \in Everyone /\ Main \notin Threads /\ Nobody \notin Threads
  BY ThreadsAssumption DEF ThreadsAssumption, Everyone
<1>1. PICK rest \in SetToSeqs(all) :
         /\ kids' = [kids EXCEPT ![Main] = rest]
         /\ SetStack(Main, <<Frame("stop", Nobody, rest, FALSE)>>)
  BY DEF Residue
<1>2. /\ stage[Main] = "residue" /\ stage' = [stage EXCEPT ![Main] = "stop_residue"]
      /\ UNCHANGED <<children, pleaseStop, joiner, stopped, outcome, all, calls, heard>>
  BY DEF Residue, Goto
<1>3. /\ stage'[Main] = "stop_residue" /\ \A t \in Threads : stage'[t] = stage[t]
      /\ kids'[Main] = rest
      /\ stack'[Main] = <<Frame("stop", Nobody, rest, FALSE)>>
  <2>1. stage'[Main] = "stop_residue" /\ \A t \in Threads : stage'[t] = stage[t]
    BY <1>0, <1>2 DEF TypeOK, Everyone
  <2>2. kids'[Main] = rest
    BY <1>0, <1>1 DEF TypeOK
  <2>3. stack'[Main] = <<Frame("stop", Nobody, rest, FALSE)>>
    BY <1>0, <1>1 DEF SetStack, TypeOK
  <2> QED
    BY <2>1, <2>2, <2>3
<1>4. ToSet(rest) = R
  BY Listing
<1>5. Casualties' = Casualties /\ Finished' = Finished
  BY <1>2, <1>3 DEF Casualties, Failed, Finished
<1>6. U \cap R = {}
  BY DEF Casualties, StageInv
<1>7. \A i \in DOMAIN stack'[Main] : U \cap (stack'[Main][i].causes \cup {stack'[Main][i].of}
                                             \cup ToSet(stack'[Main][i].todo)) = {}
  <2> DEFINE f == Frame("stop", Nobody, rest, FALSE)
  <2>1. f.of = Nobody /\ f.causes = {} /\ f.todo = rest
    BY DEF Frame
  <2>2. stack'[Main] = <<f>>
    BY <1>3
  <2> HIDE DEF f
  <2>3. DOMAIN stack'[Main] = {1} /\ stack'[Main][1] = f
    BY <2>2
  <2>4. Nobody \notin U
    BY <1>0 DEF Casualties
  <2> QED
    BY <1>4, <1>6, <2>1, <2>3, <2>4
<1>8. \A t \in Threads : stage'[t] \notin Unmade /\ t \notin Finished' =>
         \E k \in R : (t = k \/ t \in Descendants(k)) /\ U \cap Descendants(k) # {}
  BY <1>2, <1>3, <1>5, FirstRoundLeaves DEF Short
<1>9. \A t \in Threads : stage'[t] \notin Unmade /\ t \notin Finished' /\ U \cap Descendants(t) # {}
         => t \in R
  BY <1>3, <1>5, ShortListed DEF Short
<1> QED
  BY <1>3, <1>4, <1>5, <1>6, <1>7, <1>8, <1>9 DEF ResidueInv

\* Who has finished stays so.
LEMMA FinishedStays ==
  ASSUME TypeOK, StageInv, CallInv, StackInv, IsFiniteSet(all), [Next]_vars
  PROVE  Finished \subseteq Finished'
<1> SUFFICES ASSUME NEW t \in Threads, stage[t] = "unregistered"
             PROVE  t \in Finished'
  BY Onward DEF Finished
<1>1. ~TakeChildren(t) /\ ~Unregister(t)
  BY DEF TakeChildren, Unregister
<1>2. ~AllTold(t) /\ t \in Everyone
  BY ToldStage DEF Telling, Everyone
<1>3. t # Main
  BY ThreadsAssumption DEF ThreadsAssumption
<1>4. stage'[t] = "unregistered" \/ stage'[t] \in {"linger", "gone"}
  BY <1>1, <1>2, <1>3, Moves
<1> QED
  BY <1>4, NextStage DEF StageInv, Finished

\* Every step goes on with the second round.
LEMMA NextRound ==
  ASSUME TypeOK, StageInv, CallInv, StackInv, ListInv, ListedInv, LoopInv, JoinedInv, SecondRound,
         IsFiniteSet(all), [Next]_vars
  PROVE  SecondRound'
<1>0. Main \in Everyone /\ Main \notin Threads /\ Nobody \notin Threads /\ (\A t \in Threads : t \in Everyone)
  BY ThreadsAssumption DEF ThreadsAssumption, Everyone
<1>1. CASE stage'[Main] \notin {"stop_residue", "join_residue", "gone"}
  BY <1>1 DEF SecondRound, ResidueInv
<1>2. CASE /\ stage'[Main] \in {"stop_residue", "join_residue", "gone"}
           /\ stage[Main] \notin {"stop_residue", "join_residue", "gone"}
  <2>1. stage[Main] \in {"target", "residue", "stop_kids", "join_kids"}
    BY <1>2 DEF StageInv, Telling, JoiningAll
  <2>2. ~MainStop /\ ~MainJoined
    BY <1>0, <1>2, <2>1 DEF MainStop, MainJoined, Goto, TypeOK
  <2>3. ~AllTold(Main)
    <3>1. ASSUME AllTold(Main)
          PROVE  stage'[Main] = "join_kids"
      BY <1>0, <2>1, <3>1, ToldStage DEF AllTold, Goto, TypeOK, Telling
    <3> QED
      BY <1>2, <3>1
  <2>4. Residue
    BY <1>0, <1>2, <2>1, <2>2, <2>3, Moves
  <2>5. \E U, R : ResidueInv(U, R)' /\ U \in SUBSET Threads /\ R \in SUBSET Threads
    <3>1. \A U, R : U = Casualties /\ R = all => ResidueInv(U, R)'
      BY <2>4, ResidueBegins
    <3>2. Casualties \in SUBSET Threads /\ all \in SUBSET Threads
      BY DEF Casualties, TypeOK
    <3> QED
      BY <3>1, <3>2
  <2> QED
    BY <2>5 DEF SecondRound
<1>3. CASE /\ stage'[Main] \in {"stop_residue", "join_residue", "gone"}
           /\ stage[Main] \in {"stop_residue", "join_residue", "gone"}
  <2>1. PICK U \in SUBSET Threads, R \in SUBSET Threads : ResidueInv(U, R)
    BY DEF SecondRound
  <2>2. /\ U \cap R = {}
        /\ U \subseteq Casualties
        /\ \A i \in DOMAIN stack[Main] : U \cap (stack[Main][i].causes \cup {stack[Main][i].of}
                                                 \cup ToSet(stack[Main][i].todo)) = {}
        /\ stage[Main] # "gone" => ToSet(kids[Main]) = R
        /\ \A t \in Threads : stage[t] \notin Unmade /\ t \notin Finished =>
              \E k \in R : (t = k \/ t \in Descendants(k)) /\ U \cap Descendants(k) # {}
        /\ \A t \in Threads : stage[t] \notin Unmade /\ t \notin Finished /\ U \cap Descendants(t) # {}
              => t \in R
        /\ stage[Main] # "stop_residue" =>
              \A k \in R : \/ k \in stopped
                           \/ \E e \in Descendants(k) \ U : Failed(e)
                           \/ stage[Main] = "join_residue" /\ Pending(stack[Main], k)
    BY <1>3, <2>1 DEF ResidueInv
  <2>3. U \subseteq Casualties'
    BY <2>2, CasualtiesStay
  <2>4. Finished \subseteq Finished'
    BY FinishedStays
  <2>5. ASSUME stage'[Main] # stage[Main]
        PROVE  \/ /\ stage[Main] = "stop_residue" /\ stage'[Main] = "join_residue"
                  /\ kids'[Main] = kids[Main]
                  /\ \A k \in Threads : k \in ToSet(kids'[Main]) => Pending(stack'[Main], k)
               \/ /\ stage[Main] = "join_residue" /\ stage'[Main] = "gone"
                  /\ \A k \in Threads : ~Pending(stack[Main], k)
    <3>1. CASE stage'[Main] = "gone"
      <4>1. MainJoined
        <5>1. ~AllTold(Main)
          BY <1>0, <3>1 DEF AllTold, Goto, TypeOK
        <5>2. ~MainStop /\ ~Residue
          BY <1>3 DEF MainStop, Residue, RunsTarget
        <5> QED
          BY <1>0, <1>3, <2>5, <5>1, <5>2, Moves
      <4>2. stage[Main] = "join_residue"
        BY <1>3, <4>1 DEF MainJoined
      <4> QED
        BY <1>0, <2>5, <3>1, <4>2, LoopGoesOn DEF JoiningAll
    <3>2. CASE stage'[Main] # "gone"
      <4>1. ~MainStop /\ ~Residue
        BY <1>3 DEF MainStop, Residue, RunsTarget
      <4>2. /\ \A c \in Threads : Pending(stack'[Main], c) <=> c \in ToSet(kids'[Main])
            /\ AllTold(Main) /\ kids'[Main] = kids[Main] /\ stage[Main] \in Telling
            /\ stage'[Main] = IF stage[Main] = "stop_kids" THEN "join_kids" ELSE "join_residue"
        BY <1>0, <1>3, <2>5, <3>2, <4>1, LoopBegins DEF Telling, JoiningAll
      <4> QED
        BY <1>3, <4>2 DEF Telling
    <3> QED
      BY <3>1, <3>2
  <2>6. ASSUME stage'[Main] = stage[Main], stage[Main] # "gone"
        PROVE  /\ kids'[Main] = kids[Main]
               /\ \A c \in Threads : Pending(stack[Main], c) =>
                     \/ Pending(stack'[Main], c)
                     \/ stage[Main] \in Telling
                     \/ \E e \in Descendants(c) \cap Casualties : e \in Top(Main).causes
                     \/ c \in stopped
    <3>1. ~AllTold(Main) /\ ~MainJoined
      BY <1>0, <1>3, <2>6, ToldStage DEF AllTold, MainJoined, Goto, TypeOK, Telling
    <3> QED
      BY <1>0, <1>3, <2>6, <3>1, LoopGoesOn DEF Telling, JoiningAll
  <2>7. \A i \in DOMAIN stack'[Main] : U \cap (stack'[Main][i].causes \cup {stack'[Main][i].of}
                                               \cup ToSet(stack'[Main][i].todo)) = {}
    <3>1. CASE stage[Main] # "gone"
      BY <1>3, <2>2, <3>1, RoundAvoids
    <3>2. CASE stage[Main] = "gone"
      <4>1. stage'[Main] = "gone"
        BY <2>5, <3>2
      <4>2. stack'[Main] = <<>>
        BY <1>0, <4>1, NextCall DEF CallInv, Telling, JoiningAll
      <4> QED
        BY <4>2
    <3> QED
      BY <3>1, <3>2
  <2>8. stage'[Main] # "gone" => ToSet(kids'[Main]) = R
    BY <2>2, <2>5, <2>6
  <2>9. ASSUME NEW t \in Threads, stage'[t] \notin Unmade, t \notin Finished'
        PROVE  \E k \in R : (t = k \/ t \in Descendants(k)) /\ U \cap Descendants(k) # {}
    <3>1. CASE stage[t] \notin Unmade
      BY <2>2, <2>4, <2>9, <3>1
    <3>2. CASE stage[t] \in Unmade
      <4>1. stage[ParentOf[t]] = "target"
        BY <2>9, <3>2, NoneMade
      <4>2. ParentOf[t] \in Threads /\ ParentOf[t] \notin Finished /\ stage[ParentOf[t]] \notin Unmade
        BY <1>3, <4>1, ThreadsAssumption DEF ThreadsAssumption, Everyone, Finished, StageInv, Unmade
      <4>3. PICK k \in R : (ParentOf[t] = k \/ ParentOf[t] \in Descendants(k)) /\ U \cap Descendants(k) # {}
        BY <2>2, <4>2
      <4> QED
        BY <4>3, ChildIsBelow, ChildOfBelow
    <3> QED
      BY <3>1, <3>2
  <2>10. ASSUME NEW t \in Threads, stage'[t] \notin Unmade, t \notin Finished', U \cap Descendants(t) # {}
         PROVE  t \in R
    <3>1. CASE stage[t] \notin Unmade
      BY <2>2, <2>4, <2>10, <3>1
    <3>2. CASE stage[t] \in Unmade
      <4>1. PICK u \in Descendants(t) : u \in Casualties
        BY <2>2, <2>10
      <4>2. stage[u] \in Unmade
        BY <3>2, NothingBelow DEF Unrun
      <4> QED
        BY <4>1, <4>2 DEF Casualties, StageInv, Unmade
    <3> QED
      BY <3>1, <3>2
  <2>11. ASSUME stage'[Main] # "stop_residue", NEW k \in R
         PROVE  \/ k \in stopped'
                \/ \E e \in Descendants(k) \ U : Failed(e)'
                \/ stage'[Main] = "join_residue" /\ Pending(stack'[Main], k)
    <3>1. stopped \subseteq stopped' /\ \A e \in Threads : Failed(e) => Failed(e)'
      BY Onward DEF Failed
    <3>2. Descendants(k) \subseteq Threads
      BY DEF Descendants
    <3>3. ASSUME k \in stopped \/ \E e \in Descendants(k) \ U : Failed(e)
          PROVE  k \in stopped' \/ \E e \in Descendants(k) \ U : Failed(e)'
      BY <3>1, <3>2, <3>3
    <3>4. CASE stage[Main] = "stop_residue"
      BY <2>2, <2>5, <2>11, <3>4
    <3>5. CASE stage[Main] = "join_residue" /\ stage'[Main] = "join_residue"
      <4>1. ASSUME NEW e \in Descendants(k) \cap Casualties, e \in Top(Main).causes
            PROVE  e \in Descendants(k) \ U /\ Failed(e)
        <5>1. stack[Main] # <<>>
          BY <1>0, <3>5 DEF CallInv, JoiningAll
        <5>2. Top(Main) = stack[Main][1] /\ 1 \in DOMAIN stack[Main]
          BY <1>0, <5>1, TopFacts
        <5>3. e \notin U
          BY <2>2, <4>1, <5>2
        <5> QED
          BY <5>3 DEF Casualties
      <4> QED
        BY <2>2, <2>6, <3>3, <3>5, <4>1 DEF Telling
    <3>6. CASE stage[Main] = "join_residue" /\ stage'[Main] # "join_residue"
      BY <2>2, <2>5, <3>3, <3>6
    <3>7. CASE stage[Main] = "gone"
      BY <2>2, <3>3, <3>7
    <3> QED
      BY <1>3, <3>4, <3>5, <3>6, <3>7
  <2>12. ResidueInv(U, R)'
    BY <2>2, <2>3, <2>7, <2>8, <2>9, <2>10, <2>11 DEF ResidueInv, Pending, Bottom, Failed
  <2> QED
    BY <2>12 DEF SecondRound
<1> QED
  BY <1>1, <1>2, <1>3

-----------------------------------------------------------------------------
(***************************************************************************)
(* The theorems.                                                           *)
(***************************************************************************)
IndInv == /\ TypeOK /\ IsFiniteSet(all)
          /\ StageInv /\ CallInv /\ StackInv
          /\ ListInv /\ ListedInv /\ LoopInv
          /\ ToldInv /\ JoinedInv
          /\ SecondRound

\* In the beginning the program runs and no thread is made.
LEMMA InitIndInv == Init => IndInv
<1> SUFFICES ASSUME Init
             PROVE  IndInv
  OBVIOUS
<1> USE ThreadsAssumption DEF ThreadsAssumption
<1>0. Main \in Everyone /\ (\A t \in Threads : t \in Everyone /\ ParentOf[t] \in Everyone /\ t # Main)
  BY DEF Everyone
<1>1. stage[Main] = "target" /\ \A t \in Threads : stage[t] \in Unmade
  BY <1>0 DEF Init, Unmade
<1>2. /\ \A t \in Everyone : children[t] = <<>> /\ stack[t] = <<>>
      /\ stopped = {} /\ all = {}
      /\ \A t \in Threads : outcome[t] = "none"
  BY DEF Init
<1>3. ToSet(<<>>) = {} /\ DOMAIN <<>> = {}
  BY DEF ToSet
<1>4. \A t \in Everyone : stage[t] \in {"target"} \cup Unmade
  BY <1>1 DEF Everyone
<1>5. TypeOK /\ IsFiniteSet(all)
  BY <1>2, InitType, FS_EmptySet
<1>6. StageInv
  BY <1>0, <1>1, <1>2 DEF StageInv, Unmade, Unrun
<1>7. CallInv
  BY <1>2, <1>4 DEF CallInv, Telling, JoiningAll, Unmade
<1>8. StackInv
  BY <1>2, <1>3 DEF StackInv, Shape
<1>9. ListInv
  BY <1>2, <1>3, <1>4 DEF ListInv, Unmade
<1>10. ListedInv /\ LoopInv
  BY <1>1, <1>4 DEF ListedInv, LoopInv, Telling, JoiningAll, Unmade
<1>11. ToldInv /\ JoinedInv
  BY <1>0, <1>4 DEF ToldInv, JoinedInv, Over, Unmade
<1>12. SecondRound
  BY <1>1 DEF SecondRound, ResidueInv
<1> QED
  BY <1>5, <1>6, <1>7, <1>8, <1>9, <1>10, <1>11, <1>12 DEF IndInv

\* No step leaves the invariant.
LEMMA NextIndInv == IndInv /\ [Next]_vars => IndInv'
<1> SUFFICES ASSUME IndInv, [Next]_vars
             PROVE  IndInv'
  OBVIOUS
<1>1. TypeOK'
  BY NextType DEF IndInv
<1>2. StageInv' /\ IsFiniteSet(all)'
  BY NextStage DEF IndInv
<1>3. CallInv'
  BY NextCall DEF IndInv
<1>4. StackInv'
  BY NextStack DEF IndInv
<1>5. ListInv'
  BY NextList DEF IndInv
<1>6. ListedInv'
  BY NextListed DEF IndInv
<1>7. LoopInv'
  BY NextLoop DEF IndInv
<1>8. ToldInv'
  BY NextTold DEF IndInv
<1>9. JoinedInv'
  BY NextJoined DEF IndInv
<1>10. SecondRound'
  BY NextRound DEF IndInv
<1> QED
  BY <1>1, <1>2, <1>3, <1>4, <1>5, <1>6, <1>7, <1>8, <1>9, <1>10 DEF IndInv

\* The state always fits its types.
THEOREM TypeCorrect == Spec => []TypeOK
<1>1. IndInv => TypeOK
  BY DEF IndInv
<1> QED
  BY <1>1, InitIndInv, NextIndInv, PTL DEF Spec

\* A thread that has stopped before a child of its own, or a main thread that has
\* ended before a thread, was cut short by failures (threads.py:432-433).
LEMMA FailuresCutShort == IndInv => StopsLastUnlessFailures
<1> SUFFICES ASSUME IndInv
             PROVE  StopsLastUnlessFailures
  OBVIOUS
<1> USE DEF IndInv
<1>0. \A t \in Started : t \in Threads /\ stage[t] \notin Unmade
  BY DEF Started, Unmade
<1>1. \A t \in Finished : t \in Threads /\ stage[t] \in Over
  BY DEF Finished, TypeOK, StageInv, Over
<1>2. \A c : Short(c) => \E d \in Descendants(c) : d \in Casualties /\ Failed(d)
  BY DEF Short, Casualties
<1>3. ASSUME NEW c \in Started, ParentOf[c] \in stopped, c \notin stopped
      PROVE  c \in pleaseStop /\ \E d \in Descendants(c) : Failed(d)
  <2>1. stage[ParentOf[c]] \in Over
    BY <1>1, <1>3 DEF Finished
  <2>2. c \in pleaseStop
    BY <1>0, <1>3, <2>1 DEF ToldInv
  <2>3. Settled(c)
    BY <1>0, <2>1 DEF JoinedInv
  <2> QED
    BY <1>2, <1>3, <2>2, <2>3 DEF Settled
<1>4. ASSUME stage[Main] = "gone", NEW t \in Started \ Finished
      PROVE  \E a \in Threads : /\ a = t \/ t \in Descendants(a)
                                /\ \E d, e \in Descendants(a) : d # e /\ Failed(d) /\ Failed(e)
  <2>1. PICK U \in SUBSET Threads, R \in SUBSET Threads : ResidueInv(U, R)
    BY DEF SecondRound
  <2>2. /\ U \subseteq Casualties
        /\ \A x \in Threads : stage[x] \notin Unmade /\ x \notin Finished =>
              \E k \in R : (x = k \/ x \in Descendants(k)) /\ U \cap Descendants(k) # {}
        /\ \A x \in Threads : stage[x] \notin Unmade /\ x \notin Finished /\ U \cap Descendants(x) # {}
              => x \in R
        /\ \A k \in R : k \in stopped \/ \E e \in Descendants(k) \ U : Failed(e)
    BY <1>4, <2>1 DEF ResidueInv
  <2>3. PICK k \in R : (t = k \/ t \in Descendants(k)) /\ U \cap Descendants(k) # {}
    BY <1>0, <1>4, <2>2
  <2>4. PICK u \in U \cap Descendants(k) : Failed(u)
    BY <2>2, <2>3 DEF Casualties
  <2>5. CASE \E e \in Descendants(k) \ U : Failed(e)
    BY <2>3, <2>4, <2>5
  <2>6. CASE k \in stopped
    <3>1. t \in Descendants(k)
      BY <1>4, <2>3, <2>6 DEF Finished
    <3>2. PICK c \in Descendants(k) : stage[c] \notin Unmade /\ c \notin Finished /\ ParentOf[c] \in Finished
      <4> SUFFICES ASSUME \A x \in Descendants(k) : ParentOf[x] \in Finished => stage[x] \in Unmade \/ x \in Finished
                   PROVE  FALSE
        OBVIOUS
      <4> DEFINE S == {x \in Threads : x \in Descendants(k) => stage[x] \in Unmade \/ x \in Finished}
      <4>1. ASSUME NEW x \in Threads, ParentOf[x] = k \/ ParentOf[x] \in S
            PROVE  x \in S
        <5> SUFFICES ASSUME x \in Descendants(k)
                     PROVE  stage[x] \in Unmade \/ x \in Finished
          OBVIOUS
        <5>1. ParentOf[x] = k \/ ParentOf[x] \in Descendants(k)
          BY ParentOfBelow
        <5>2. CASE ParentOf[x] \in Finished
          BY <5>2
        <5>3. CASE stage[ParentOf[x]] \in Unmade
          BY <5>3 DEF StageInv, Unrun
        <5> QED
          BY <2>6, <4>1, <5>1, <5>2, <5>3 DEF Finished
      <4>2. ChildrenOf(k) \subseteq S /\ ClosedDown(S)
        BY <4>1 DEF ChildrenOf, ClosedDown
      <4> HIDE DEF S
      <4>3. t \in S
        <5>1. S \in SUBSET Threads
          BY DEF S
        <5> QED
          BY <3>1, <4>2, <5>1 DEF Descendants
      <4> QED
        BY <1>0, <1>4, <3>1, <4>3 DEF S
    <3>3. c \in Threads /\ Descendants(c) \subseteq Descendants(k)
      BY BelowBelow DEF Descendants
    <3>4. c \notin stopped /\ Short(c)
      BY <1>1, <3>2, <3>3 DEF JoinedInv, Settled, Finished
    <3>5. PICK d \in Descendants(c) : Failed(d)
      BY <1>2, <3>4
    <3>6. CASE d \notin U
      BY <2>3, <2>4, <3>3, <3>5, <3>6
    <3>7. CASE d \in U
      <4>1. c \in R
        BY <2>2, <3>2, <3>3, <3>5, <3>7
      <4>2. PICK e \in Descendants(c) \ U : Failed(e)
        BY <2>2, <3>4, <4>1
      <4> QED
        BY <2>3, <3>3, <3>5, <3>7, <4>2
    <3> QED
      BY <3>6, <3>7
  <2> QED
    BY <2>2, <2>5, <2>6
<1> QED
  BY <1>3, <1>4 DEF StopsLastUnlessFailures

\* Parents tell their children to stop, and stop last unless failures below cut
\* their joins short; so does the main thread, with its two rounds.
THEOREM ParentsStopLast == Spec => []StopsLastUnlessFailures
<1> QED
  BY FailuresCutShort, InitIndInv, NextIndInv, PTL DEF Spec

\* What a child of the main thread raised, with no failure below it, has been
\* raised or logged when the program has ended.
THEOREM MainHears == Spec => []FailureHeard
<1>1. ASSUME IndInv
      PROVE  FailureHeard
  <2> SUFFICES ASSUME NEW t \in Threads, stage[Main] = "gone", ParentOf[t] = Main, Failed(t),
                      \A d \in Descendants(t) : ~Failed(d)
               PROVE  t \in heard
    BY DEF FailureHeard
  <2>1. stage[t] \notin Unmade
    BY <1>1 DEF IndInv, StageInv, Failed, Unrun
  <2>2. Settled(t)
    BY <1>1, <2>1 DEF IndInv, JoinedInv, Over
  <2>3. ~Short(t)
    BY DEF Short, Casualties
  <2>4. stack[Main] = <<>>
    BY <1>1 DEF IndInv, CallInv, Everyone, Telling, JoiningAll
  <2> QED
    BY <2>2, <2>3, <2>4 DEF Settled, Passed
<1> QED
  BY <1>1, InitIndInv, NextIndInv, PTL DEF Spec
=============================================================================
