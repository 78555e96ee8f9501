---------------------------- MODULE QueueProofs ----------------------------
(***************************************************************************)
(* Lock and Queue.  The Lock, for every set of threads: mutual exclusion,  *)
(* and a waiting list that holds exactly the waiting threads nobody has    *)
(* signalled, which is one at most.  The Queue, for every set of threads,  *)
(* values and programs: who finds space still has it when the values go    *)
(* in, and pop() gives up on an empty queue only; both rest on what is     *)
(* shown of the Lock.  What is taken is what was put, each value once and  *)
(* in order.                                                               *)
(***************************************************************************)
EXTENDS Queue, SequenceTheorems, WellFoundedInduction, TLAPS

\* The Lock by itself, some of whose threads never wait; any may at a queue.
CONSTANT Regulars

K == INSTANCE Lock

-----------------------------------------------------------------------------
\* A list of at most one element is empty or has one.
LEMMA ShortList ==
  ASSUME NEW S, NEW s \in Seq(S), Len(s) <= 1
  PROVE  \/ s = <<>>
         \/ /\ Len(s) = 1
            /\ DOMAIN s = {1}
            /\ s[1] \in S
            /\ Tail(s) = <<>>
            /\ Head(s) = s[1]
<1>1. CASE Len(s) = 0
  BY <1>1
<1>2. CASE Len(s) = 1
  <2>1. DOMAIN s = {1} /\ s[1] \in S
    BY <1>2
  <2>2. Tail(s) = <<>>
    <3>1. Tail(s) \in Seq(S) /\ Len(Tail(s)) = 0
      BY <1>2
    <3> QED
      BY <3>1, EmptySeq
  <2>3. Head(s) = s[1]
    BY <1>2
  <2> QED
    BY <1>2, <2>1, <2>2, <2>3
<1>3. Len(s) = 0 \/ Len(s) = 1
  <2>1. Len(s) \in Nat
    BY LenProperties
  <2>2. \A n \in Nat : n <= 1 => n = 0 \/ n = 1
    OBVIOUS
  <2> QED
    BY <2>1, <2>2
<1> QED
  BY <1>1, <1>2, <1>3

\* What happens at a lock at which any thread may wait.
AnyNext == \E t \in Threads :
              \/ K!Enter(t) \/ K!Exit(t)
              \/ \E tl \in {"none", "armed"} : K!Wait(t, tl)
              \/ K!TillFires(t) \/ K!Wake(t) \/ K!Reacquire(t)

\* The initial state of the Lock satisfies its inductive invariant.
LEMMA LockInitIndInv == K!Init => K!IndInv
  BY QueueAssumption DEF QueueAssumption, K!Init, K!IndInv, K!TypeOK, K!MutualExclusion, K!WaitingExact,
     K!WokenForReason, K!OneWaiter, K!Phases, K!Tills

\* Every step at the lock keeps the inductive invariant.
LEMMA LockNextIndInv == K!IndInv /\ [AnyNext]_(K!vars) => K!IndInv'
<1> SUFFICES ASSUME K!IndInv, [AnyNext]_(K!vars)
             PROVE  K!IndInv'
  OBVIOUS
<1> USE QueueAssumption DEF QueueAssumption, K!IndInv, K!TypeOK, K!MutualExclusion, K!WaitingExact,
        K!WokenForReason, K!OneWaiter, K!Phases, K!Tills
<1>0. \/ waiting = <<>>
      \/ /\ Len(waiting) = 1
         /\ DOMAIN waiting = {1}
         /\ waiting[1] \in Threads
         /\ Tail(waiting) = <<>>
         /\ Head(waiting) = waiting[1]
  BY ShortList
<1>1. ASSUME NEW t \in Threads, K!Enter(t)
      PROVE  K!IndInv'
  <2>1. K!TypeOK'
    BY <1>0, <1>1 DEF K!Enter
  <2>2. K!MutualExclusion'
    BY <1>0, <1>1 DEF K!Enter
  <2>3. K!WaitingExact'
    BY <1>0, <1>1 DEF K!Enter
  <2>4. K!WokenForReason' /\ K!OneWaiter'
    BY <1>0, <1>1 DEF K!Enter
  <2> QED
    BY <2>1, <2>2, <2>3, <2>4
<1>2. ASSUME NEW t \in Threads, K!Exit(t)
      PROVE  K!IndInv'
  <2>1. K!TypeOK'
    BY <1>0, <1>2 DEF K!Exit, K!SignalOldest
  <2>2. K!MutualExclusion'
    BY <1>0, <1>2 DEF K!Exit, K!SignalOldest
  <2>3. K!WaitingExact'
    BY <1>0, <1>2 DEF K!Exit, K!SignalOldest
  <2>4. K!WokenForReason' /\ K!OneWaiter'
    BY <1>0, <1>2 DEF K!Exit, K!SignalOldest
  <2> QED
    BY <2>1, <2>2, <2>3, <2>4
<1>3. ASSUME NEW t \in Threads, NEW tl \in {"none", "armed"}, K!Wait(t, tl)
      PROVE  K!IndInv'
  <2>0. waiting' = <<t>>
    BY <1>0, <1>3 DEF K!Wait
  <2>1. K!TypeOK'
    BY <1>0, <1>3, <2>0 DEF K!Wait
  <2>2. K!MutualExclusion'
    BY <1>0, <1>3 DEF K!Wait
  <2>3. K!WaitingExact'
    <3>1. CASE waiting = <<>>
      BY <1>3, <2>0, <3>1 DEF K!Wait
    <3>2. CASE waiting # <<>>
      <4>1. /\ signaled' = signaled \cup {waiting[1]}
            /\ phase' = [phase EXCEPT ![t] = "asleep"]
            /\ phase[t] = "in"
        BY <1>0, <1>3, <3>2 DEF K!Wait
      <4>2. waiting[1] # t /\ t \notin signaled /\ phase[waiting[1]] \in {"asleep", "awake"}
        BY <1>0, <3>2, <4>1
      <4>3. \A u \in Threads \ {t} : phase[u] \in {"asleep", "awake"} /\ u \notin signaled
                                    <=> u = waiting[1]
        BY <1>0, <3>2
      <4>4. \A u \in Threads : (\E i \in DOMAIN waiting' : waiting'[i] = u) <=> u = t
        BY <2>0
      <4>5. \A u \in Threads : u = t <=> phase'[u] \in {"asleep", "awake"} /\ u \notin signaled'
        BY <4>1, <4>2, <4>3
      <4>6. \A i, k \in DOMAIN waiting' : waiting'[i] = waiting'[k] => i = k
        BY <2>0
      <4>7. \A u \in signaled' : phase'[u] \in {"asleep", "awake"}
        BY <4>1, <4>2
      <4> QED
        BY <4>4, <4>5, <4>6, <4>7
    <3> QED
      BY <3>1, <3>2
  <2>4. K!WokenForReason' /\ K!OneWaiter'
    <3>1. K!OneWaiter'
      BY <2>0
    <3>2. K!WokenForReason'
      BY <1>0, <1>3 DEF K!Wait
    <3> QED
      BY <3>1, <3>2
  <2> QED
    BY <2>1, <2>2, <2>3, <2>4
<1>4. ASSUME NEW t \in Threads, K!TillFires(t)
      PROVE  K!IndInv'
  <2>1. K!TypeOK'
    BY <1>0, <1>4 DEF K!TillFires
  <2>2. K!MutualExclusion'
    BY <1>0, <1>4 DEF K!TillFires
  <2>3. K!WaitingExact'
    BY <1>0, <1>4 DEF K!TillFires
  <2>4. K!WokenForReason' /\ K!OneWaiter'
    BY <1>0, <1>4 DEF K!TillFires
  <2> QED
    BY <2>1, <2>2, <2>3, <2>4
<1>5. ASSUME NEW t \in Threads, K!Wake(t)
      PROVE  K!IndInv'
  <2>1. K!TypeOK'
    BY <1>0, <1>5 DEF K!Wake
  <2>2. K!MutualExclusion'
    BY <1>0, <1>5 DEF K!Wake
  <2>3. K!WaitingExact'
    BY <1>0, <1>5 DEF K!Wake
  <2>4. K!WokenForReason' /\ K!OneWaiter'
    BY <1>0, <1>5 DEF K!Wake
  <2> QED
    BY <2>1, <2>2, <2>3, <2>4
<1>6. ASSUME NEW t \in Threads, K!Reacquire(t)
      PROVE  K!IndInv'
  <2>1. K!TypeOK'
    BY <1>0, <1>6 DEF K!Reacquire, K!RemoveAt
  <2>2. K!MutualExclusion'
    <3>1. holder = NoThread /\ holder' = t /\ phase' = [phase EXCEPT ![t] = "in"]
      BY <1>6 DEF K!Reacquire
    <3> QED
      BY <3>1
  <2>3. K!WaitingExact'
    BY <1>0, <1>6 DEF K!Reacquire, K!RemoveAt
  <2>4. K!WokenForReason' /\ K!OneWaiter'
    BY <1>0, <1>6 DEF K!Reacquire, K!RemoveAt
  <2> QED
    BY <2>1, <2>2, <2>3, <2>4
<1>7. CASE UNCHANGED K!vars
  BY <1>7 DEF K!vars
<1> QED
  BY <1>1, <1>2, <1>3, <1>4, <1>5, <1>6, <1>7 DEF AnyNext

\* The Lock is such a lock.
LEMMA NextIsAny == [K!Next]_(K!vars) => [AnyNext]_(K!vars)
  BY DEF K!Next, AnyNext

\* No step at the lock leaves the state space the types describe.
THEOREM LockTypes == K!Spec => []K!TypeOK
<1>1. K!IndInv => K!TypeOK
  BY DEF K!IndInv
<1> QED
  BY <1>1, LockInitIndInv, LockNextIndInv, NextIsAny, PTL DEF K!Spec

\* wait() always returns with the lock, and nobody else has it (lock.py:55, 82-83).
THEOREM LockExcludes == K!Spec => []K!MutualExclusion
<1>1. K!IndInv => K!MutualExclusion
  BY DEF K!IndInv
<1> QED
  BY <1>1, LockInitIndInv, LockNextIndInv, NextIsAny, PTL DEF K!Spec

\* A signal is never handed to a thread that is gone, and every waiting thread
\* can be reached by one, however signals and tills race (lock.py:44-50, 61-91).
THEOREM WaitersTracked == K!Spec => []K!WaitingExact
<1>1. K!IndInv => K!WaitingExact
  BY DEF K!IndInv
<1> QED
  BY <1>1, LockInitIndInv, LockNextIndInv, NextIsAny, PTL DEF K!Spec

\* However many threads share the lock, one at most waits without a signal.
THEOREM OneWaiterAtMost == K!Spec => []K!OneWaiter
<1>1. K!IndInv => K!OneWaiter
  BY DEF K!IndInv
<1> QED
  BY <1>1, LockInitIndInv, LockNextIndInv, NextIsAny, PTL DEF K!Spec

\* The answer of wait() tells whether a signal was handed over, also when the
\* till was reached at the same time (lock.py:57, 85-91).
THEOREM AnswerCorrect == K!Spec => K!AnswerTellsSignal
<1>1. K!IndInv /\ [K!Next]_(K!vars) =>
        [\A t \in Threads : phase[t] = "awake" /\ phase'[t] = "in" =>
          \/ /\ result'[t]
             /\ \A i \in DOMAIN waiting : waiting[i] # t
          \/ /\ ~result'[t]
             /\ till[t] = "fired"
             /\ \E i \in DOMAIN waiting : waiting[i] = t]_(K!vars)
  <2> SUFFICES ASSUME K!IndInv, K!Next, NEW t \in Threads, phase[t] = "awake", phase'[t] = "in"
               PROVE  \/ /\ result'[t]
                         /\ \A i \in DOMAIN waiting : waiting[i] # t
                      \/ /\ ~result'[t]
                         /\ till[t] = "fired"
                         /\ \E i \in DOMAIN waiting : waiting[i] = t
    BY DEF K!vars
  <2>1. K!Reacquire(t)
    BY DEF K!Next, K!IndInv, K!TypeOK, K!Phases, K!Enter, K!Exit, K!Wait, K!TillFires, K!Wake, K!Reacquire
  <2>2. result'[t] = (t \in signaled)
    BY <2>1 DEF K!Reacquire, K!IndInv, K!TypeOK
  <2> QED
    BY <2>2 DEF K!IndInv, K!WaitingExact, K!WokenForReason
<1> QED
  BY <1>1, LockInitIndInv, LockNextIndInv, NextIsAny, PTL DEF K!Spec, K!AnswerTellsSignal

-----------------------------------------------------------------------------
Outside == {"idle", "await_close", "start"}
Sleeping == {"asleep", "awake"}

\* Where a thread is in its call fits where it is in the Lock.
PlaceInv == \A t \in Threads : /\ phase[t] = "out" <=> pc[t] \in Outside
                               /\ phase[t] \in Sleeping => pc[t] \in {"space", "answer", "join"}
                               /\ request[t].op # "close"

\* Who is about to append has found space, unless its values are forced in.
SpaceInv == \A t \in Threads :
               pc[t] = "append" /\ ~request[t].force => ~IsFull \/ closed

\* The queue is empty as long as a thread in pop() is in the list of waiters.
SleepInv == \A i \in DOMAIN waiting : pc[waiting[i]] = "answer" => queue = <<>>

IndInv == TypeOK /\ K!IndInv /\ PlaceInv /\ SpaceInv /\ SleepInv /\ GivesUpOnEmpty

-----------------------------------------------------------------------------
\* The initial state satisfies the inductive invariant.
LEMMA InitIndInv == Init => IndInv
<1> SUFFICES ASSUME Init
             PROVE  IndInv
  OBVIOUS
<1>1. K!IndInv
  BY LockInitIndInv, QueueAssumption DEF QueueAssumption, Init, L!Init, K!Init
<1>2. L!TypeOK
  BY QueueAssumption DEF QueueAssumption, Init, L!Init, L!TypeOK, L!Tills, L!Phases
<1>3. NoRequest \in Request
  BY DEF NoRequest, Request
<1>4. left \in [Threads -> SUBSET Request]
  BY QueueAssumption DEF QueueAssumption, Init
<1>5. TypeOK
  BY <1>2, <1>3, <1>4 DEF Init, TypeOK, L!Tills, PCs
<1>6. PlaceInv /\ SpaceInv /\ SleepInv /\ GivesUpOnEmpty
  BY DEF Init, L!Init, PlaceInv, SpaceInv, SleepInv, GivesUpOnEmpty, Outside, Sleeping, At, NoRequest
<1> QED
  BY <1>1, <1>5, <1>6 DEF IndInv

\* What the Lock is told in a step of the queue.
LockSteps(t) == \/ L!Enter(t) \/ L!Exit(t)
                \/ \E tl \in {"none", "armed"} : L!Wait(t, tl)
                \/ L!TillFires(t) \/ L!Wake(t) \/ L!Reacquire(t)

\* Every step of the queue is a step of the Lock, or leaves it as it is.
LEMMA StepOfLock ==
  ASSUME TypeOK, NEW t \in Threads, LockSteps(t) \/ UNCHANGED lockVars
  PROVE  [AnyNext]_(K!vars)
<1>1. CASE L!Enter(t)
  BY <1>1 DEF L!Enter, K!Enter, AnyNext
<1>2. CASE L!Exit(t)
  BY <1>2 DEF L!Exit, K!Exit, L!SignalOldest, K!SignalOldest, AnyNext
<1>3. CASE \E tl \in {"none", "armed"} : L!Wait(t, tl)
  BY <1>3 DEF L!Wait, K!Wait, AnyNext
<1>4. CASE L!TillFires(t)
  BY <1>4 DEF L!TillFires, K!TillFires, AnyNext
<1>5. CASE L!Wake(t)
  BY <1>5 DEF L!Wake, K!Wake, AnyNext
<1>6. CASE L!Reacquire(t)
  BY <1>6 DEF L!Reacquire, K!Reacquire, L!RemoveAt, K!RemoveAt, AnyNext
<1>7. CASE UNCHANGED lockVars
  BY <1>7 DEF lockVars, K!vars
<1> QED
  BY <1>1, <1>2, <1>3, <1>4, <1>5, <1>6, <1>7 DEF LockSteps

\* The type invariant of the Lock, as Queue names it.
LEMMA SameType == K!IndInv => L!TypeOK
  BY DEF K!IndInv, K!TypeOK, L!TypeOK, K!Tills, L!Tills, K!Phases, L!Phases

\* One thread is inside, and one waits at most.
LEMMA LockFacts ==
  ASSUME IndInv
  PROVE  /\ \A t \in Threads : phase[t] = "in" <=> holder = t
         /\ waiting \in Seq(Threads)
         /\ \/ waiting = <<>>
            \/ /\ Len(waiting) = 1
               /\ DOMAIN waiting = {1}
               /\ waiting[1] \in Threads
               /\ Tail(waiting) = <<>>
               /\ Head(waiting) = waiting[1]
<1>1. /\ \A t \in Threads : phase[t] = "in" <=> holder = t
      /\ waiting \in Seq(Threads)
      /\ Len(waiting) <= 1
  BY DEF IndInv, K!IndInv, K!TypeOK, K!MutualExclusion, K!OneWaiter
<1>2. CASE Len(waiting) = 1
  <2>1. DOMAIN waiting = {1} /\ waiting[1] \in Threads
    BY <1>1, <1>2
  <2>2. Tail(waiting) \in Seq(Threads) /\ Len(Tail(waiting)) = 0
    BY <1>1, <1>2
  <2>3. Tail(waiting) = <<>>
    BY <2>2, EmptySeq
  <2> QED
    BY <1>1, <1>2, <2>1, <2>3
<1>3. CASE Len(waiting) = 0
  BY <1>1, <1>3, EmptySeq
<1>4. Len(waiting) = 0 \/ Len(waiting) = 1
  <2>1. Len(waiting) \in Nat
    BY <1>1
  <2>2. \A n \in Nat : n <= 1 => n = 0 \/ n = 1
    OBVIOUS
  <2> QED
    BY <1>1, <2>1, <2>2
<1>5. \A t \in Threads : phase[t] = "in" <=> holder = t
  BY <1>1
<1> QED
  BY <1>1, <1>2, <1>3, <1>4, <1>5

\* After a thread has left nobody waits any more.
LEMMA LeaveEmpties ==
  ASSUME IndInv, NEW t \in Threads, L!Exit(t)
  PROVE  waiting' = <<>>
  BY LockFacts DEF L!Exit, L!SignalOldest

\* Whatever a thread does to the queue as it leaves keeps the invariant.
LEMMA LeaveIndInv ==
  ASSUME IndInv, NEW t \in Threads, Leave(t), closed' \in BOOLEAN
  PROVE  IndInv'
<1>1. K!IndInv'
  BY StepOfLock, LockNextIndInv, QueueAssumption DEF QueueAssumption, IndInv, Leave, LockSteps
<1>2. TypeOK'
  <2>1. L!TypeOK'
    BY <1>1, SameType, PTL
  <2>2. NoRequest \in Request
    BY DEF NoRequest, Request
  <2>3. /\ pc' \in [Threads -> PCs]
        /\ request' \in [Threads -> Request]
        /\ giveUp' \in [Threads -> L!Tills]
        /\ caller' \in [Threads -> L!Tills]
        /\ left' \in [Threads -> SUBSET Request]
    BY <2>2 DEF IndInv, TypeOK, Leave, Goto, PCs, L!Tills
  <2> QED
    BY <2>1, <2>3 DEF TypeOK
<1>3. /\ phase[t] = "in" /\ phase' = [phase EXCEPT ![t] = "out"]
      /\ pc' = [pc EXCEPT ![t] = "idle"]
      /\ request' = [request EXCEPT ![t] = NoRequest]
  BY DEF Leave, Goto, L!Exit
<1>4. \A u \in Threads : u # t => phase[u] # "in"
  BY <1>3, LockFacts
<1>5. phase \in [Threads -> L!Phases] /\ pc \in [Threads -> PCs]
  BY DEF IndInv, TypeOK, L!TypeOK
<1>6. PlaceInv'
  BY <1>3, <1>5 DEF IndInv, TypeOK, PlaceInv, Outside, Sleeping, NoRequest
<1>7. SpaceInv'
  <2> SUFFICES ASSUME NEW u \in Threads, pc'[u] = "append"
               PROVE  FALSE
    BY DEF SpaceInv
  <2>1. u # t /\ pc[u] = "append"
    BY <1>3, <1>5
  <2>2. phase[u] # "out" /\ phase[u] \notin Sleeping
    BY <2>1 DEF IndInv, PlaceInv, Outside
  <2> QED
    BY <1>4, <1>5, <2>1, <2>2 DEF L!Phases, Sleeping
<1>8. SleepInv'
  <2>1. DOMAIN waiting' = {}
    BY LeaveEmpties DEF Leave
  <2> QED
    BY <2>1 DEF SleepInv
<1>9. GivesUpOnEmpty'
  <2> SUFFICES ASSUME NEW u \in Threads, phase'[u] = "in"
               PROVE  FALSE
    BY DEF GivesUpOnEmpty, At
  <2> QED
    BY <1>3, <1>4, <1>5
<1> QED
  BY <1>1, <1>2, <1>6, <1>7, <1>8, <1>9 DEF IndInv

\* So does a thread that goes to sleep in one of the three waits.
LEMMA SleepIndInv ==
  ASSUME IndInv, NEW t \in Threads, NEW tl \in {"none", "armed"},
         NEW label \in {"space", "answer", "join"}, Sleep(t, tl, label),
         label = "answer" => queue = <<>>
  PROVE  IndInv'
<1>1. K!IndInv'
  BY StepOfLock, LockNextIndInv, QueueAssumption DEF QueueAssumption, IndInv, Sleep, LockSteps
<1>2. TypeOK'
  <2>1. L!TypeOK'
    BY <1>1, SameType, PTL
  <2>2. /\ pc' \in [Threads -> PCs]
        /\ UNCHANGED <<closed, request, giveUp, caller, left>>
    BY DEF IndInv, TypeOK, Sleep, Goto, PCs
  <2> QED
    BY <2>1, <2>2 DEF TypeOK, IndInv
<1>3. /\ phase[t] = "in" /\ phase' = [phase EXCEPT ![t] = "asleep"]
      /\ pc' = [pc EXCEPT ![t] = label]
      /\ UNCHANGED <<queue, closed, request, result>>
  BY DEF Sleep, Goto, L!Wait
<1>4. \A u \in Threads : u # t => phase[u] # "in"
  BY <1>3, LockFacts
<1>5. phase \in [Threads -> L!Phases] /\ pc \in [Threads -> PCs]
  BY DEF IndInv, TypeOK, L!TypeOK
<1>6. PlaceInv'
  BY <1>3, <1>5 DEF IndInv, PlaceInv, Outside, Sleeping
<1>7. SpaceInv'
  BY <1>3, <1>5 DEF IndInv, SpaceInv, IsFull
<1>8. SleepInv'
  <2>1. waiting' = <<t>>
    <3>1. waiting = <<>> \/ Tail(waiting) = <<>>
      BY LockFacts
    <3>2. Append(<<>>, t) = <<t>>
      OBVIOUS
    <3> QED
      BY <3>1, <3>2 DEF Sleep, L!Wait
  <2>2. \A i \in DOMAIN waiting' : waiting'[i] = t
    BY <2>1
  <2> QED
    BY <1>3, <1>5, <2>2 DEF SleepInv
<1>9. GivesUpOnEmpty'
  <2> SUFFICES ASSUME NEW u \in Threads, phase'[u] = "in"
               PROVE  FALSE
    BY DEF GivesUpOnEmpty, At
  <2> QED
    BY <1>3, <1>4, <1>5
<1> QED
  BY <1>1, <1>2, <1>6, <1>7, <1>8, <1>9 DEF IndInv

\* A signal, a till or the lock changes nothing but the Lock.
LEMMA LockOnlyIndInv ==
  ASSUME IndInv, NEW t \in Threads,
         L!TillFires(t) \/ L!Wake(t) \/ L!Reacquire(t),
         UNCHANGED <<queue, closed, pc, request, giveUp, caller, left>>
  PROVE  IndInv'
<1>1. K!IndInv'
  BY StepOfLock, LockNextIndInv, QueueAssumption DEF QueueAssumption, IndInv, LockSteps
<1>2. TypeOK'
  <2>1. L!TypeOK'
    BY <1>1, SameType, PTL
  <2> QED
    BY <2>1 DEF TypeOK, IndInv
<1>3. phase \in [Threads -> L!Phases] /\ result \in [Threads -> BOOLEAN]
  BY DEF IndInv, TypeOK, L!TypeOK
<1>4. PlaceInv'
  BY <1>3 DEF IndInv, PlaceInv, Outside, Sleeping, L!TillFires, L!Wake, L!Reacquire
<1>5. SpaceInv'
  BY DEF IndInv, SpaceInv, IsFull
<1>6. SleepInv'
  <2>1. CASE UNCHANGED waiting
    BY <2>1 DEF IndInv, SleepInv
  <2>2. CASE L!Reacquire(t) /\ waiting' # waiting
    <3>1. PICK i \in DOMAIN waiting : waiting' = RemoveAt(waiting, i)
      BY <2>2 DEF L!Reacquire, L!RemoveAt, RemoveAt
    <3>2. waiting' = <<>>
      <4>1. Len(waiting) = 1 /\ i = 1 /\ waiting \in Seq(Threads)
        BY <3>1, LockFacts
      <4>2. waiting' = SubSeq(waiting, 1, 0) \o SubSeq(waiting, 2, 1)
        BY <3>1, <4>1 DEF RemoveAt
      <4>3. SubSeq(waiting, 1, 0) = <<>> /\ SubSeq(waiting, 2, 1) = <<>>
        BY <4>1, SubSeqEmpty
      <4> QED
        BY <4>2, <4>3
    <3> QED
      BY <3>2 DEF SleepInv
  <2> QED
    BY <2>1, <2>2 DEF L!TillFires, L!Wake
<1>7. GivesUpOnEmpty'
  <2> SUFFICES ASSUME NEW u \in Threads, pc[u] = "answer", phase'[u] = "in", ~result'[u]
               PROVE  queue = <<>>
    BY DEF GivesUpOnEmpty, At
  <2>1. CASE phase[u] = "in"
    <3>1. result[u] = result'[u]
      BY <1>3, <2>1 DEF L!TillFires, L!Wake, L!Reacquire
    <3> QED
      BY <2>1, <3>1 DEF IndInv, GivesUpOnEmpty, At
  <2>2. CASE phase[u] # "in"
    <3>1. u = t /\ L!Reacquire(t)
      BY <1>3, <2>2 DEF L!TillFires, L!Wake, L!Reacquire
    <3>2. phase[u] = "awake" /\ u \notin signaled
      BY <1>3, <3>1 DEF L!Reacquire
    <3>3. \E i \in DOMAIN waiting : waiting[i] = u
      BY <3>2 DEF IndInv, K!IndInv, K!WaitingExact
    <3> QED
      BY <3>3 DEF IndInv, SleepInv
  <2> QED
    BY <2>1, <2>2
<1> QED
  BY <1>1, <1>2, <1>4, <1>5, <1>6, <1>7 DEF IndInv

\* A thread goes on inside: it has found space, or was signalled.
LEMMA InsideIndInv ==
  ASSUME IndInv, NEW t \in Threads, NEW label \in {"append", "look"},
         phase[t] = "in", pc[t] \in {"space", "answer"}, Goto(t, label),
         label = "append" => ~IsFull \/ closed,
         UNCHANGED <<lockVars, queue, closed, request, giveUp, caller, left>>
  PROVE  IndInv'
<1>1. K!IndInv'
  BY StepOfLock, LockNextIndInv, QueueAssumption DEF QueueAssumption, IndInv
<1>2. TypeOK'
  <2>1. L!TypeOK'
    BY <1>1, SameType, PTL
  <2>2. pc' \in [Threads -> PCs]
    BY DEF IndInv, TypeOK, Goto, PCs
  <2> QED
    BY <2>1, <2>2 DEF TypeOK, IndInv
<1>3. /\ pc' = [pc EXCEPT ![t] = label] /\ pc \in [Threads -> PCs]
      /\ UNCHANGED <<waiting, phase, result, queue, closed, request>>
  BY DEF Goto, lockVars, IndInv, TypeOK
<1>4. PlaceInv'
  BY <1>3 DEF IndInv, PlaceInv, Outside, Sleeping
<1>5. SpaceInv'
  BY <1>3 DEF IndInv, SpaceInv, IsFull
<1>6. SleepInv'
  <2>1. \A i \in DOMAIN waiting : waiting[i] \in Threads
    BY LockFacts
  <2> QED
    BY <1>3, <2>1 DEF IndInv, SleepInv
<1>7. GivesUpOnEmpty'
  BY <1>3 DEF IndInv, GivesUpOnEmpty, At
<1> QED
  BY <1>1, <1>2, <1>4, <1>5, <1>6, <1>7 DEF IndInv

\* A thread outside the Lock prepares its call, or a signal that it goes by is
\* activated.
LEMMA OutsideIndInv ==
  ASSUME IndInv, NEW t \in Threads,
         UNCHANGED <<lockVars, queue>>,
         closed' \in BOOLEAN, closed => closed',
         \/ UNCHANGED <<pc, request>>
         \/ /\ pc[t] \in Outside
            /\ \E label \in Outside : Goto(t, label)
            /\ \A u \in Threads : u # t => request'[u] = request[u],
         request' \in [Threads -> Request],
         \A u \in Threads : request'[u].op # "close",
         giveUp' \in [Threads -> L!Tills],
         caller' \in [Threads -> L!Tills],
         left' \in [Threads -> SUBSET Request]
  PROVE  IndInv'
<1>1. K!IndInv'
  BY StepOfLock, LockNextIndInv, QueueAssumption DEF QueueAssumption, IndInv
<1>2. pc' \in [Threads -> PCs]
  BY DEF IndInv, TypeOK, Goto, PCs, Outside
<1>3. TypeOK'
  <2>1. L!TypeOK'
    BY <1>1, SameType, PTL
  <2> QED
    BY <1>2, <2>1 DEF TypeOK
<1>4. /\ UNCHANGED <<waiting, phase, result, queue>>
      /\ pc \in [Threads -> PCs]
  BY DEF lockVars, IndInv, TypeOK
<1>5. \A u \in Threads : /\ pc'[u] \in Outside <=> pc[u] \in Outside
                         /\ pc[u] \notin Outside => pc'[u] = pc[u] /\ request'[u] = request[u]
  BY <1>4 DEF Goto
<1>6. PlaceInv'
  BY <1>4, <1>5 DEF IndInv, PlaceInv, Outside, Sleeping
<1>7. SpaceInv'
  BY <1>4, <1>5 DEF IndInv, SpaceInv, IsFull, Outside
<1>8. SleepInv'
  <2>1. \A i \in DOMAIN waiting : waiting[i] \in Threads
    BY LockFacts
  <2> QED
    BY <1>4, <1>5, <2>1 DEF IndInv, SleepInv, Outside
<1>9. GivesUpOnEmpty'
  BY <1>4, <1>5 DEF IndInv, GivesUpOnEmpty, At, Outside
<1> QED
  BY <1>1, <1>3, <1>6, <1>7, <1>8, <1>9 DEF IndInv

\* A thread takes the lock, and goes to what its method does first.
LEMMA EnterIndInv ==
  ASSUME IndInv, NEW t \in Threads, EnterLock(t)
  PROVE  IndInv'
<1>1. K!IndInv'
  BY StepOfLock, LockNextIndInv, QueueAssumption DEF QueueAssumption, IndInv, EnterLock, LockSteps
<1> DEFINE label == CASE request[t].op \in Putting -> IF request[t].force THEN "append" ELSE "space"
                      [] request[t].op = "pop" -> "look"
                      [] OTHER -> request[t].op
<1>2. request[t] \in Request /\ request[t].op # "close"
  BY DEF IndInv, TypeOK, PlaceInv
<1>3. /\ label \in PCs \ Outside
      /\ label # "answer"
      /\ label = "append" => request[t].force
  BY <1>2 DEF Request, Putting, PCs, Outside
<1>4. /\ pc' = [pc EXCEPT ![t] = label] /\ pc \in [Threads -> PCs]
      /\ phase[t] = "out" /\ holder = NoThread
      /\ phase' = [phase EXCEPT ![t] = "in"] /\ phase \in [Threads -> L!Phases]
      /\ UNCHANGED <<waiting, result, queue, closed, request, giveUp, caller, left>>
  BY DEF EnterLock, Goto, L!Enter, IndInv, TypeOK, L!TypeOK
<1> HIDE DEF label
<1>5. TypeOK'
  <2>1. L!TypeOK'
    BY <1>1, SameType, PTL
  <2>2. pc' \in [Threads -> PCs]
    BY <1>3, <1>4
  <2> QED
    BY <1>4, <2>1, <2>2 DEF TypeOK, IndInv
<1>6. PlaceInv'
  BY <1>3, <1>4 DEF IndInv, PlaceInv, Sleeping
<1>7. SpaceInv'
  BY <1>3, <1>4 DEF IndInv, SpaceInv, IsFull
<1>8. SleepInv'
  <2>1. \A i \in DOMAIN waiting : waiting[i] \in Threads
    BY LockFacts
  <2> QED
    BY <1>3, <1>4, <2>1 DEF IndInv, SleepInv
<1>9. GivesUpOnEmpty'
  BY <1>3, <1>4 DEF IndInv, GivesUpOnEmpty, At
<1> QED
  BY <1>1, <1>5, <1>6, <1>7, <1>8, <1>9 DEF IndInv

\* Every step of the queue keeps the inductive invariant.
LEMMA NextIndInv == IndInv /\ [Next]_vars => IndInv'
<1> SUFFICES ASSUME IndInv, [Next]_vars
             PROVE  IndInv'
  OBVIOUS
<1>1. CASE UNCHANGED vars
  <2>1. UNCHANGED <<lockVars, queue, closed, pc, request, giveUp, caller, left>>
    BY <1>1 DEF vars, lockVars
  <2>3. K!IndInv'
    BY <2>1, LockNextIndInv, QueueAssumption DEF QueueAssumption, IndInv, K!vars, lockVars
  <2>4. L!TypeOK'
    BY <2>3, SameType, PTL
  <2>5. TypeOK'
    BY <2>1, <2>4 DEF IndInv, TypeOK
  <2>6. PlaceInv' /\ SpaceInv' /\ SleepInv' /\ GivesUpOnEmpty'
    BY <2>1 DEF lockVars, IndInv, PlaceInv, SpaceInv, SleepInv, GivesUpOnEmpty, IsFull, At
  <2> QED
    BY <2>3, <2>5, <2>6 DEF IndInv
<1>2. ASSUME NEW t \in Threads, NEW r \in left[t], Call(t, r)
      PROVE  IndInv'
  <2>1. r \in Request /\ r.op # "close"
    BY <1>2 DEF Call, IndInv, TypeOK
  <2>2. /\ request' \in [Threads -> Request]
        /\ \A u \in Threads : request'[u].op # "close"
        /\ \A u \in Threads : u # t => request'[u] = request[u]
    BY <1>2, <2>1 DEF Call, IndInv, TypeOK, PlaceInv
  <2>3. caller' \in [Threads -> L!Tills] /\ giveUp' \in [Threads -> L!Tills]
    BY <1>2, <2>1 DEF Call, IndInv, TypeOK, Request, L!Tills
  <2>4. left' \in [Threads -> SUBSET Request]
    BY <1>2 DEF Call, IndInv, TypeOK
  <2>5. /\ pc[t] \in Outside
        /\ \E label \in Outside : Goto(t, label)
        /\ UNCHANGED <<lockVars, queue, closed>>
    BY <1>2 DEF Call, Outside
  <2>6. closed \in BOOLEAN
    BY DEF IndInv, TypeOK
  <2> QED
    BY <2>2, <2>3, <2>4, <2>5, <2>6, OutsideIndInv
<1>3. ASSUME NEW t \in Threads, NEW r \in left[t], Close(t, r)
      PROVE  IndInv'
  <2>1. left' \in [Threads -> SUBSET Request]
    BY <1>3 DEF Close, IndInv, TypeOK
  <2>2. closed' \in BOOLEAN /\ closed'
    BY <1>3 DEF Close
  <2> QED
    BY <1>3, <2>1, <2>2, OutsideIndInv DEF Close, IndInv, TypeOK, PlaceInv
<1>4. ASSUME NEW t \in Threads, GiveUpFires(t)
      PROVE  IndInv'
  <2>1. giveUp' \in [Threads -> L!Tills]
    BY <1>4 DEF GiveUpFires, IndInv, TypeOK, L!Tills
  <2>2. closed' \in BOOLEAN /\ UNCHANGED closed
    BY <1>4 DEF GiveUpFires, IndInv, TypeOK
  <2> QED
    BY <1>4, <2>1, <2>2, OutsideIndInv DEF GiveUpFires, IndInv, TypeOK, PlaceInv
<1>5. ASSUME NEW t \in Threads, CallerFires(t)
      PROVE  IndInv'
  <2>1. caller' \in [Threads -> L!Tills]
    BY <1>5 DEF CallerFires, IndInv, TypeOK, L!Tills
  <2>2. closed' \in BOOLEAN /\ UNCHANGED closed
    BY <1>5 DEF CallerFires, IndInv, TypeOK
  <2> QED
    BY <1>5, <2>1, <2>2, OutsideIndInv DEF CallerFires, IndInv, TypeOK, PlaceInv
<1>6. ASSUME NEW t \in Threads, ClosedForJoin(t)
      PROVE  IndInv'
  <2>1. pc[t] \in Outside /\ \E label \in Outside : Goto(t, label)
    BY <1>6 DEF ClosedForJoin, Outside
  <2>2. closed' \in BOOLEAN /\ UNCHANGED closed
    BY <1>6 DEF ClosedForJoin, IndInv, TypeOK
  <2> QED
    BY <1>6, <2>1, <2>2, OutsideIndInv DEF ClosedForJoin, IndInv, TypeOK, PlaceInv
<1>7. ASSUME NEW t \in Threads, SleepTillFires(t) \/ WakeUp(t) \/ ReacquireLock(t)
      PROVE  IndInv'
  BY <1>7, LockOnlyIndInv DEF SleepTillFires, WakeUp, ReacquireLock
<1>8. ASSUME NEW t \in Threads, EnterLock(t)
      PROVE  IndInv'
  BY <1>8, EnterIndInv
<1>9. ASSUME NEW t \in Threads, Inside(t)
      PROVE  IndInv'
  <2>1. closed \in BOOLEAN
    BY DEF IndInv, TypeOK
  <2>2. giveUp[t] \in {"none", "armed", "fired"}
    BY DEF IndInv, TypeOK, L!Tills
  <2>3. CASE SpaceFound(t)
    BY <2>3, InsideIndInv DEF SpaceFound, At
  <2>4. CASE SpaceWait(t)
    <3>1. \E tl \in {"none", "armed"} : Sleep(t, tl, "space")
      BY <2>2, <2>4 DEF SpaceWait
    <3> QED
      BY <3>1, SleepIndInv
  <2>5. CASE \/ SpaceTimeout(t) \/ AddRefused(t) \/ PopClosed(t) \/ PopUnsignaled(t)
             \/ JoinReturns(t) \/ Peek(t)
    <3>1. Leave(t) /\ UNCHANGED closed
      BY <2>5 DEF SpaceTimeout, AddRefused, PopClosed, PopUnsignaled, JoinReturns, Peek
    <3>2. closed' \in BOOLEAN
      BY <2>1, <3>1
    <3> QED
      BY <3>1, <3>2, LeaveIndInv
  <2>6. CASE Put(t)
    <3>1. closed' \in BOOLEAN
      BY <2>1, <2>6 DEF Put
    <3> QED
      BY <2>6, <3>1, LeaveIndInv DEF Put
  <2>7. CASE Stop(t)
    <3>1. closed' \in BOOLEAN
      BY <2>7 DEF Stop
    <3> QED
      BY <2>7, <3>1, LeaveIndInv DEF Stop
  <2>8. CASE PopValue(t) \/ PopAll(t)
    <3>1. Leave(t) /\ UNCHANGED closed
      BY <2>8 DEF PopValue, PopAll, Take
    <3>2. closed' \in BOOLEAN
      BY <2>1, <3>1
    <3> QED
      BY <3>1, <3>2, LeaveIndInv
  <2>9. CASE PopOne(t)
    <3>1. Leave(t)
      BY <2>9 DEF PopOne, Take
    <3>2. closed' \in BOOLEAN
      BY <2>1, <2>9 DEF PopOne
    <3> QED
      BY <3>1, <3>2, LeaveIndInv
  <2>10. CASE PopWait(t)
    BY <2>10, SleepIndInv DEF PopWait
  <2>11. CASE PopSignaled(t)
    BY <2>11, InsideIndInv DEF PopSignaled, At
  <2>12. CASE JoinWait(t)
    <3>1. \E tl \in {"none", "armed"} : Sleep(t, tl, "join")
      BY <2>2, <2>12 DEF JoinWait
    <3> QED
      BY <3>1, SleepIndInv
  <2> QED
    BY <1>9, <2>3, <2>4, <2>5, <2>6, <2>7, <2>8, <2>9, <2>10, <2>11, <2>12 DEF Inside
<1> QED
  BY <1>1, <1>2, <1>3, <1>4, <1>5, <1>6, <1>7, <1>8, <1>9 DEF Next, Locking

-----------------------------------------------------------------------------
(***************************************************************************)
(* What the operators on queues return.  AddAll is a fold, of which the    *)
(* library defines the result by recursion over the sets of positions; an  *)
(* induction over the last position shows what it is.                      *)
(***************************************************************************)
\* Induction over the natural numbers, for sets of them.
LEMMA Induction ==
  ASSUME NEW S, 0 \in S, \A n \in Nat : n \in S => n + 1 \in S
  PROVE  Nat \subseteq S
<1> SUFFICES ASSUME Nat \ S # {}
             PROVE  FALSE
  OBVIOUS
<1>1. \E x \in Nat \ S : \A y \in Nat \ S : ~(<<y, x>> \in OpToRel(<, Nat))
  BY NatLessThanWellFounded, WFMin
<1>2. PICK x \in Nat \ S : \A y \in Nat \ S : ~(<<y, x>> \in OpToRel(<, Nat))
  BY <1>1
<1>3. x # 0 /\ x - 1 \in Nat /\ x - 1 < x /\ (x - 1) + 1 = x
  <2>1. x \in Nat /\ x # 0
    BY <1>2
  <2> QED
    BY <2>1
<1>4. <<x - 1, x>> \in OpToRel(<, Nat)
  BY <1>2, <1>3 DEF OpToRel
<1> QED
  BY <1>2, <1>3, <1>4

\* One value put at the end of a queue, or left out.
AddOne(q, v) == IF v = PleaseStop \/ (Unique /\ v \in ToSet(q)) THEN q ELSE Append(q, v)

\* The recursive definition of the fold behind AddAll, up to the n-th value.
Adds(f, s, vs, n) ==
    f = [t \in SUBSET (1..n) |-> IF t = {} THEN s ELSE AddOne(f[t \ {Max(t)}], vs[Max(t)])]

\* The largest of some of the numbers up to n is n when it is one of them.
LEMMA MaxIs ==
  ASSUME NEW n \in Nat, NEW t \in SUBSET (1..n), n \in t
  PROVE  Max(t) = n
<1>1. \A x \in t : x >= n => x = n
  OBVIOUS
<1>2. \A y \in t : n >= y
  OBVIOUS
<1> QED
  BY <1>1, <1>2 DEF Max

\* AddAll is what that definition gives for the whole list.
LEMMA AddAllIs ==
  ASSUME NEW s, NEW vs, DOMAIN vs = 1..Len(vs)
  PROVE  AddAll(s, vs) = (CHOOSE f : Adds(f, s, vs, Len(vs)))[1..Len(vs)]
  BY DEF AddAll, FoldLeft, MapThenFoldSet, Adds, AddOne

\* There is a function as the definition describes it.
LEMMA AddsExists ==
  ASSUME NEW s, NEW vs
  PROVE  \A n \in Nat : \E f : Adds(f, s, vs, n)
<1> DEFINE S == {n \in Nat : \E f : Adds(f, s, vs, n)}
<1>1. 0 \in S
  <2> DEFINE g == [t \in SUBSET (1..0) |-> s]
  <2>1. \A t \in SUBSET (1..0) : t = {}
    OBVIOUS
  <2>2. Adds(g, s, vs, 0)
    BY <2>1 DEF Adds
  <2> QED
    BY <2>2
<1>2. ASSUME NEW n \in Nat, n \in S
      PROVE  n + 1 \in S
  <2>1. PICK f : Adds(f, s, vs, n)
    BY <1>2
  <2> DEFINE g == [t \in SUBSET (1..(n + 1)) |->
                     IF n + 1 \in t THEN AddOne(f[t \ {n + 1}], vs[n + 1]) ELSE f[t]]
  <2>2. ASSUME NEW t \in SUBSET (1..(n + 1))
        PROVE  g[t] = IF t = {} THEN s ELSE AddOne(g[t \ {Max(t)}], vs[Max(t)])
    <3>1. CASE n + 1 \in t
      <4>1. Max(t) = n + 1
        BY <3>1, MaxIs
      <4>2. t \ {n + 1} \in SUBSET (1..(n + 1)) /\ n + 1 \notin t \ {n + 1}
        OBVIOUS
      <4>3. g[t \ {n + 1}] = f[t \ {n + 1}]
        BY <4>2
      <4> QED
        BY <3>1, <4>1, <4>3
    <3>2. CASE n + 1 \notin t
      <4>1. t \in SUBSET (1..n)
        <5>1. \A x \in 1..(n + 1) : x # n + 1 => x \in 1..n
          OBVIOUS
        <5> QED
          BY <3>2, <5>1
      <4>4. t \ {Max(t)} \in SUBSET (1..(n + 1)) /\ n + 1 \notin t \ {Max(t)}
        BY <3>2
      <4>2. f[t] = IF t = {} THEN s ELSE AddOne(f[t \ {Max(t)}], vs[Max(t)])
        BY <2>1, <4>1 DEF Adds
      <4>3. g[t] = f[t] /\ g[t \ {Max(t)}] = f[t \ {Max(t)}]
        BY <3>2, <4>1, <4>4
      <4> QED
        BY <4>2, <4>3
    <3> QED
      BY <3>1, <3>2
  <2>3. Adds(g, s, vs, n + 1)
    <3>1. g = [t \in SUBSET (1..(n + 1)) |-> g[t]]
      OBVIOUS
    <3> HIDE DEF g
    <3> QED
      BY <2>2, <3>1 DEF Adds
  <2> QED
    BY <2>3
<1> HIDE DEF S
<1>3. Nat \subseteq S
  BY <1>1, <1>2, Induction
<1> QED
  BY <1>3 DEF S

\* What AddAll makes of a sequence is a sequence of the same values.
LEMMA AddAllType ==
  ASSUME NEW V, NEW s \in Seq(V), NEW vs \in Seq(V)
  PROVE  AddAll(s, vs) \in Seq(V)
<1> DEFINE f == CHOOSE g : Adds(g, s, vs, Len(vs))
<1>1. Adds(f, s, vs, Len(vs))
  <2>1. Len(vs) \in Nat
    OBVIOUS
  <2>2. \E g : Adds(g, s, vs, Len(vs))
    BY <2>1, AddsExists, Zenon
  <2> QED
    BY <2>2
<1>2. AddAll(s, vs) = f[1..Len(vs)]
  BY AddAllIs
<1> HIDE DEF f
<1> DEFINE S == {n \in Nat : n <= Len(vs) => \A t \in SUBSET (1..n) : f[t] \in Seq(V)}
<1>3. 0 \in S
  <2>1. \A t \in SUBSET (1..0) : t = {} /\ t \in SUBSET (1..Len(vs))
    OBVIOUS
  <2>2. \A t \in SUBSET (1..0) : f[t] = s
    BY <1>1, <2>1 DEF Adds
  <2> QED
    BY <2>2
<1>4. ASSUME NEW n \in Nat, n \in S
      PROVE  n + 1 \in S
  <2> SUFFICES ASSUME n + 1 <= Len(vs), NEW t \in SUBSET (1..(n + 1))
               PROVE  f[t] \in Seq(V)
    OBVIOUS
  <2>1. \A u \in SUBSET (1..n) : f[u] \in Seq(V)
    BY <1>4
  <2>2. CASE n + 1 \in t
    <3>1. Max(t) = n + 1 /\ t \ {n + 1} \in SUBSET (1..n) /\ t \in SUBSET (1..Len(vs)) /\ t # {}
      BY <2>2, MaxIs
    <3>2. f[t] = AddOne(f[t \ {n + 1}], vs[n + 1])
      BY <1>1, <3>1 DEF Adds
    <3>3. f[t \ {n + 1}] \in Seq(V) /\ vs[n + 1] \in V
      BY <2>1, <3>1
    <3> QED
      BY <3>2, <3>3, AppendProperties DEF AddOne
  <2>3. CASE n + 1 \notin t
    BY <2>1, <2>3
  <2> QED
    BY <2>2, <2>3
<1> HIDE DEF S
<1>5. Len(vs) \in S
  BY <1>3, <1>4, Induction
<1> QED
  BY <1>2, <1>5 DEF S

-----------------------------------------------------------------------------
Queued == Values \cup {PleaseStop}

\* The history is made of what was taken and what is queued, and those are
\* sequences of values.
OrderInv == /\ queue \in Seq(Queued)
            /\ delivered \in Seq(Queued)
            /\ EachOnceInOrder

\* What is left of the history after what was taken is the queue.
LEMMA RestOfLog ==
  ASSUME NEW V, NEW d \in Seq(V), NEW q \in Seq(V)
  PROVE  SubSeq(d \o q, Len(d) + 1, Len(d \o q)) = q
<1>1. Len(d \o q) = Len(d) + Len(q) /\ d \o q \in Seq(V)
  BY ConcatProperties
<1>2. CASE Len(q) = 0
  <2>1. q = <<>>
    BY <1>2, EmptySeq
  <2>2. SubSeq(d \o q, Len(d) + 1, Len(d)) = <<>>
    BY SubSeqEmpty
  <2> QED
    BY <1>1, <1>2, <2>1, <2>2
<1>3. CASE Len(q) # 0
  <2>1. /\ Len(d) + 1 \in Len(d) + 1 .. Len(d) + Len(q)
        /\ Len(d) + Len(q) \in Len(d) + 1 .. Len(d) + Len(q)
        /\ Len(d) + 1 - Len(d) = 1
        /\ Len(d) + Len(q) - Len(d) = Len(q)
    BY <1>3
  <2>2. SubSeq(d \o q, Len(d) + 1, Len(d) + Len(q))
          = SubSeq(q, Len(d) + 1 - Len(d), Len(d) + Len(q) - Len(d))
    BY <2>1, SubSeqOfConcat2
  <2>3. SubSeq(q, 1, Len(q)) = q
    BY SubSeqFull
  <2> QED
    BY <1>1, <2>1, <2>2, <2>3
<1> QED
  BY <1>2, <1>3

\* To take the first values of a queue changes nothing of the whole.
LEMMA TakeFirst ==
  ASSUME NEW d \in Seq(Queued), NEW q \in Seq(Queued), NEW n \in 0..Len(q)
  PROVE  /\ SubSeq(q, 1, n) \in Seq(Queued)
         /\ SubSeq(q, n + 1, Len(q)) \in Seq(Queued)
         /\ d \o SubSeq(q, 1, n) \in Seq(Queued)
         /\ (d \o SubSeq(q, 1, n)) \o SubSeq(q, n + 1, Len(q)) = d \o q
<1>1. SubSeq(q, 1, n) \in Seq(Queued)
  <2>1. \A i \in 1..n : q[i] \in Queued
    OBVIOUS
  <2> QED
    BY <2>1, SubSeqProperties
<1>2. SubSeq(q, n + 1, Len(q)) \in Seq(Queued)
  <2>1. \A i \in (n + 1)..Len(q) : q[i] \in Queued
    OBVIOUS
  <2> QED
    BY <2>1, SubSeqProperties
<1>3. SubSeq(q, 1, n) \o SubSeq(q, n + 1, Len(q)) = q
  <2>1. SubSeq(q, 1, n) \o SubSeq(q, n + 1, Len(q)) = SubSeq(q, 1, Len(q))
    <3>1. 1 \in 1..(Len(q) + 1) /\ n \in (1 - 1)..Len(q) /\ Len(q) \in n..Len(q)
      OBVIOUS
    <3> QED
      BY <3>1, ConcatAdjacentSubSeq
  <2> QED
    BY <2>1, SubSeqFull
<1>4. (d \o SubSeq(q, 1, n)) \o SubSeq(q, n + 1, Len(q))
        = d \o (SubSeq(q, 1, n) \o SubSeq(q, n + 1, Len(q)))
  <2> DEFINE x == SubSeq(q, 1, n)
  <2> DEFINE y == SubSeq(q, n + 1, Len(q))
  <2>1. x \in Seq(Queued) /\ y \in Seq(Queued)
    BY <1>1, <1>2
  <2> HIDE DEF x, y
  <2>2. (d \o x) \o y = d \o (x \o y)
    BY <2>1, SMTT(30)
  <2> QED
    BY <2>2 DEF x, y
<1> QED
  BY <1>1, <1>2, <1>3, <1>4, ConcatProperties

\* A sequence turned round has the same values.
LEMMA ReverseType ==
  ASSUME NEW V, NEW s \in Seq(V)
  PROVE  Reverse(s) \in Seq(V)
<1>1. \A i \in 1..Len(s) : s[(Len(s) - i) + 1] \in V
  OBVIOUS
<1>2. Len(s) \in Nat
  OBVIOUS
<1> QED
  BY <1>1, <1>2, IsASeq DEF Reverse

\* The values that a thread puts.
LEMMA RequestValues ==
  ASSUME TypeOK, NEW t \in Threads
  PROVE  request[t].values \in Seq(Queued)
  BY DEF TypeOK, Request, Queued

\* A queue that loses its first values to a caller.
LEMMA TakeOrder ==
  ASSUME OrderInv, NEW t \in Threads, NEW n \in 0..Len(queue), Take(t, n), UNCHANGED log
  PROVE  OrderInv'
<1>1. /\ delivered' \in Seq(Queued)
      /\ queue' \in Seq(Queued)
      /\ delivered' \o queue' = delivered \o queue
  <2>1. queue \in Seq(Queued) /\ delivered \in Seq(Queued)
    BY DEF OrderInv
  <2>2. delivered' = delivered \o SubSeq(queue, 1, n) /\ queue' = SubSeq(queue, n + 1, Len(queue))
    BY DEF Take
  <2>3. /\ SubSeq(queue, n + 1, Len(queue)) \in Seq(Queued)
        /\ delivered \o SubSeq(queue, 1, n) \in Seq(Queued)
        /\ (delivered \o SubSeq(queue, 1, n)) \o SubSeq(queue, n + 1, Len(queue)) = delivered \o queue
    BY <2>1, TakeFirst
  <2> QED
    BY <2>2, <2>3
<1> QED
  BY <1>1 DEF OrderInv, EachOnceInOrder, Queued

\* A queue that gets values, in front or at the end.
LEMMA PutOrder ==
  ASSUME OrderInv, TypeOK, NEW t \in Threads, Put(t)
  PROVE  OrderInv'
<1> DEFINE vs == request[t].values
<1>1. /\ queue \in Seq(Queued) /\ delivered \in Seq(Queued)
      /\ vs \in Seq(Queued) /\ Reverse(vs) \in Seq(Queued)
  BY RequestValues, ReverseType DEF OrderInv
<1>2. SubSeq(log, Len(delivered) + 1, Len(log)) = queue
  BY <1>1, RestOfLog, SMTT(30) DEF OrderInv, EachOnceInOrder
<1>3. queue' \in Seq(Queued) /\ log' = delivered \o queue'
  <2>1. CASE queue' = Reverse(vs) \o queue /\ log' = delivered \o Reverse(vs) \o queue
    <3>1. (delivered \o Reverse(vs)) \o queue = delivered \o (Reverse(vs) \o queue)
      BY <1>1
    <3> QED
      BY <1>1, <2>1, <3>1, ConcatProperties
  <2>2. CASE queue' = AddAll(queue, vs) /\ log' = delivered \o AddAll(queue, vs)
    BY <1>1, <2>2, AddAllType
  <2> QED
    BY <1>2, <2>1, <2>2 DEF Put
<1>4. delivered' = delivered
  BY DEF Put
<1>5. log' \in Seq(Queued)
  BY <1>1, <1>3, ConcatProperties
<1> QED
  BY <1>1, <1>3, <1>4, <1>5 DEF OrderInv, EachOnceInOrder, Queued

\* No step loses, doubles or overtakes a value.
LEMMA NextOrderInv == OrderInv /\ TypeOK /\ [Next]_vars => OrderInv'
<1> SUFFICES ASSUME OrderInv, TypeOK, [Next]_vars
             PROVE  OrderInv'
  OBVIOUS
<1>1. CASE UNCHANGED <<queue, log, delivered>>
  BY <1>1 DEF OrderInv, EachOnceInOrder
<1>2. ASSUME NEW t \in Threads, Inside(t)
      PROVE  OrderInv'
  <2>1. CASE \/ SpaceFound(t) \/ SpaceWait(t) \/ SpaceTimeout(t) \/ AddRefused(t) \/ Stop(t)
             \/ PopClosed(t) \/ PopWait(t) \/ PopSignaled(t) \/ PopUnsignaled(t)
             \/ JoinWait(t) \/ JoinReturns(t) \/ Peek(t)
    BY <1>1, <2>1 DEF SpaceFound, SpaceWait, SpaceTimeout, AddRefused, Stop, PopClosed, PopWait,
                      PopSignaled, PopUnsignaled, JoinWait, JoinReturns, Peek, Sleep
  <2>2. CASE Put(t)
    BY <2>2, PutOrder
  <2>3. Len(queue) \in Nat /\ (queue # <<>> => 1 \in 0..Len(queue)) /\ Len(queue) \in 0..Len(queue)
    <3>1. queue \in Seq(Queued)
      BY DEF OrderInv
    <3>2. queue # <<>> => Len(queue) # 0
      BY <3>1, EmptySeq
    <3> QED
      BY <3>1, <3>2
  <2>4. CASE PopValue(t)
    BY <2>3, <2>4, TakeOrder DEF PopValue
  <2>5. CASE PopOne(t)
    <3>1. CASE UNCHANGED <<queue, delivered>> /\ UNCHANGED log
      BY <1>1, <3>1
    <3>2. CASE queue # <<>> /\ Take(t, 1) /\ UNCHANGED log
      BY <2>3, <3>2, TakeOrder
    <3> QED
      BY <2>5, <3>1, <3>2 DEF PopOne
  <2>6. CASE PopAll(t)
    BY <2>3, <2>6, TakeOrder DEF PopAll
  <2> QED
    BY <1>2, <2>1, <2>2, <2>4, <2>5, <2>6 DEF Inside
<1>3. CASE \E t \in Threads : \/ \E r \in left[t] : Call(t, r) \/ Close(t, r)
                              \/ GiveUpFires(t) \/ CallerFires(t) \/ ClosedForJoin(t)
                              \/ SleepTillFires(t) \/ WakeUp(t) \/ Locking(t)
  BY <1>1, <1>3 DEF Call, Close, GiveUpFires, CallerFires, ClosedForJoin, SleepTillFires, WakeUp,
                    Locking, EnterLock, ReacquireLock
<1>4. CASE UNCHANGED vars
  BY <1>1, <1>4 DEF vars
<1> QED
  BY <1>2, <1>3, <1>4 DEF Next

-----------------------------------------------------------------------------
\* The variables keep their types; DeliveredInOrder gives that of `queue`.
THEOREM TypeCorrect == Spec => []TypeOK
<1>1. IndInv => TypeOK
  BY DEF IndInv
<1> QED
  BY <1>1, InitIndInv, NextIndInv, PTL DEF Spec

\* pop() gives up on an empty queue only, although it does not look again after
\* its wait (queues.py:184-187): of all that may sleep on the lock, one at most
\* has not been signalled, and whoever puts a value signals it as he leaves.
THEOREM GiveUpOnEmptyOnly == Spec => []GivesUpOnEmpty
<1>1. IndInv => GivesUpOnEmpty
  BY DEF IndInv
<1> QED
  BY <1>1, InitIndInv, NextIndInv, PTL DEF Spec

\* The test for space still holds when the values go in, for any number of
\* threads that were woken for the same space (queues.py:78, 85, 115, 141-159).
THEOREM SpaceIsKept == Spec => PutsFit
<1>1. IndInv /\ [Next]_vars =>
        [\A t \in Threads : At(t, "append") /\ ~request[t].force /\ queue' # queue
                               => ~IsFull \/ closed]_vars
  BY DEF IndInv, SpaceInv, At
<1> QED
  BY <1>1, InitIndInv, NextIndInv, PTL DEF Spec, PutsFit

\* Nothing is lost, doubled or overtaken between add() and pop(): what was
\* taken, followed by what is queued, is what was put, push() included
\* (queues.py:78-135, 174-199).
THEOREM DeliveredInOrder == Spec => []EachOnceInOrder
<1>1. Init => OrderInv
  <2>1. \A V : <<>> \in Seq(V) /\ <<>> \o <<>> = <<>>
    BY EmptySeq, ConcatEmptySeq
  <2> QED
    BY <2>1 DEF Init, OrderInv, EachOnceInOrder
<1>2. OrderInv => EachOnceInOrder
  BY DEF OrderInv
<1> QED
  BY <1>1, <1>2, NextOrderInv, TypeCorrect, PTL DEF Spec
=============================================================================
