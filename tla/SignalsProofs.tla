---------------------------- MODULE SignalsProofs ----------------------------
(***************************************************************************)
(* Signals, for every set of threads and jobs: no wait() and no job given  *)
(* to then() is forgotten by the go() that activates the signal.           *)
(***************************************************************************)
EXTENDS Signals, SequenceTheorems, FiniteSetTheorems, TLAPS

\* Deleting an entry of a list leaves a list of the same elements
\* (remove_then, signals.py:183-186).
LEMMA RemoveAtType ==
  ASSUME NEW S, NEW s \in Seq(S), NEW i \in DOMAIN s
  PROVE  RemoveAt(s, i) \in Seq(S)
  BY DEF RemoveAt

\* The elements of a sequence over S are in S.
LEMMA ToSetType ==
  ASSUME NEW S, NEW s \in Seq(S)
  PROVE  ToSet(s) \subseteq S
  BY DEF ToSet

\* The initial state satisfies the inductive invariant.
LEMMA InitIndInv == Init => IndInv
<1> SUFFICES ASSUME Init PROVE IndInv
  OBVIOUS
<1> USE SignalAssumption DEF Init, SignalAssumption
<1>0. go \in BOOLEAN
  OBVIOUS
<1>1. TypeOK
  BY <1>0 DEF TypeOK, PCs, Ops
<1>2. LockInv
  BY DEF LockInv, Locked, Ops
<1>3. GoerInv
  BY DEF GoerInv, Harvesting
<1>4. NoStrandedWork
  BY DEF NoStrandedWork, NoStrandedWaiter, NoStrandedJob
<1> QED
  BY <1>1, <1>2, <1>3, <1>4 DEF IndInv

\* Every step of every method keeps the inductive invariant.
LEMMA NextIndInv == IndInv /\ [Next]_vars => IndInv'
<1> SUFFICES ASSUME IndInv, [Next]_vars
             PROVE  IndInv'
  OBVIOUS
<1> USE SignalAssumption DEF IndInv, TypeOK, LockInv, GoerInv, NoStrandedWork,
      NoStrandedWaiter, NoStrandedJob, PCs, Ops, Locked, Harvesting, SignalAssumption
<1>1. ASSUME NEW t \in Threads, Wait(t)
      PROVE  IndInv'
  <2>1. TypeOK'
    BY <1>1 DEF Wait, Enter, shared, hist
  <2>2. LockInv'
    BY <1>1 DEF Wait, Enter, shared, hist
  <2>3. GoerInv'
    BY <1>1 DEF Wait, Enter, shared, hist
  <2>4. NoStrandedWork'
    BY <1>1 DEF Wait, Enter, shared, hist
  <2> QED
    BY <2>1, <2>2, <2>3, <2>4
<1>2. ASSUME NEW t \in Threads, Go(t)
      PROVE  IndInv'
  <2>1. TypeOK'
    BY <1>2 DEF Go, Enter, shared, hist
  <2>2. LockInv'
    BY <1>2 DEF Go, Enter, shared, hist
  <2>3. GoerInv'
    BY <1>2 DEF Go, Enter, shared, hist
  <2>4. NoStrandedWork'
    BY <1>2 DEF Go, Enter, shared, hist
  <2> QED
    BY <2>1, <2>2, <2>3, <2>4
<1>3. ASSUME NEW t \in Threads, NEW j \in Jobs, Then(t, j)
      PROVE  IndInv'
  <2>1. TypeOK'
    BY <1>3, SMTT(30) DEF Then, Enter, shared
  <2>2. LockInv'
    BY <1>3 DEF Then, Enter, shared
  <2>3. GoerInv'
    BY <1>3 DEF Then, Enter, shared
  <2>4. NoStrandedWork'
    BY <1>3 DEF Then, Enter, shared
  <2> QED
    BY <2>1, <2>2, <2>3, <2>4
<1>4. ASSUME NEW t \in Threads, NEW j \in Jobs, RemoveThen(t, j)
      PROVE  IndInv'
  <2>1. TypeOK'
    BY <1>4 DEF RemoveThen, Enter, shared, hist
  <2>2. LockInv'
    BY <1>4 DEF RemoveThen, Enter, shared, hist
  <2>3. GoerInv'
    BY <1>4 DEF RemoveThen, Enter, shared, hist
  <2>4. NoStrandedWork'
    BY <1>4 DEF RemoveThen, Enter, shared, hist
  <2> QED
    BY <2>1, <2>2, <2>3, <2>4
<1>5. ASSUME NEW t \in Threads, Acquire(t)
      PROVE  IndInv'
  <2>1. TypeOK'
    BY <1>5 DEF Acquire, hist
  <2>2. LockInv'
    BY <1>5 DEF Acquire, hist
  <2>3. GoerInv'
    BY <1>5 DEF Acquire, hist
  <2>4. NoStrandedWork'
    BY <1>5 DEF Acquire, hist
  <2> QED
    BY <2>1, <2>2, <2>3, <2>4
<1>6. ASSUME NEW t \in Threads, Recheck(t)
      PROVE  IndInv'
  <2>1. CASE ~go
    <3>1. pc' = [pc EXCEPT ![t] = "commit"] /\ lock' = lock
      BY <1>6, <2>1 DEF Recheck
    <3>2. TypeOK'
      BY <1>6, <2>1, <3>1 DEF Recheck, hist
    <3>3. LockInv'
      BY <1>6, <2>1, <3>1 DEF Recheck, hist
    <3>4. GoerInv'
      BY <1>6, <2>1, <3>1 DEF Recheck, hist
    <3>5. NoStrandedWork'
      BY <1>6, <2>1, <3>1 DEF Recheck, hist
    <3> QED
      BY <3>2, <3>3, <3>4, <3>5
  <2>2. CASE go /\ op[t] = "then"
    <3>1. pc' = [pc EXCEPT ![t] = "run_now"] /\ lock' = NoThread
      BY <1>6, <2>2 DEF Recheck
    <3>2. TypeOK'
      BY <1>6, <2>2, <3>1 DEF Recheck, hist
    <3>3. LockInv'
      BY <1>6, <2>2, <3>1 DEF Recheck, hist
    <3>4. GoerInv'
      BY <1>6, <2>2, <3>1 DEF Recheck, hist
    <3>5. NoStrandedWork'
      BY <1>6, <2>2, <3>1 DEF Recheck, hist
    <3> QED
      BY <3>2, <3>3, <3>4, <3>5
  <2>3. CASE go /\ op[t] # "then"
    <3>1. pc' = [pc EXCEPT ![t] = "idle"] /\ lock' = NoThread
      BY <1>6, <2>3 DEF Recheck
    <3>2. TypeOK'
      BY <1>6, <2>3, <3>1 DEF Recheck, hist
    <3>3. LockInv'
      BY <1>6, <2>3, <3>1 DEF Recheck, hist
    <3>4. GoerInv'
      BY <1>6, <2>3, <3>1 DEF Recheck, hist
    <3>5. NoStrandedWork'
      BY <1>6, <2>3, <3>1 DEF Recheck, hist
    <3> QED
      BY <3>2, <3>3, <3>4, <3>5
  <2> QED
    BY <2>1, <2>2, <2>3
<1>7. ASSUME NEW t \in Threads, CommitWait(t)
      PROVE  IndInv'
  <2>1. TypeOK'
    BY <1>7 DEF CommitWait, Commit, hist
  <2>2. LockInv'
    BY <1>7 DEF CommitWait, Commit, hist
  <2>3. GoerInv'
    BY <1>7 DEF CommitWait, Commit, hist
  <2>4. NoStrandedWork'
    BY <1>7 DEF CommitWait, Commit, hist
  <2> QED
    BY <2>1, <2>2, <2>3, <2>4
<1>8. ASSUME NEW t \in Threads, CommitThen(t)
      PROVE  IndInv'
  <2>1. TypeOK'
    BY <1>8 DEF CommitThen, Commit, hist
  <2>2. LockInv'
    BY <1>8 DEF CommitThen, Commit, hist
  <2>3. GoerInv'
    BY <1>8 DEF CommitThen, Commit, hist
  <2>4. NoStrandedWork'
    BY <1>8 DEF CommitThen, Commit, hist
  <2> QED
    BY <2>1, <2>2, <2>3, <2>4
<1>9. ASSUME NEW t \in Threads, CommitRemoveThen(t)
      PROVE  IndInv'
  <2>0. jobQueue' \in Seq(Jobs) /\ removed' \subseteq Jobs
    <3>1. jobQueue \in Seq(Jobs) /\ removed \subseteq Jobs /\ arg[t] \in Jobs
      BY <1>9 DEF CommitRemoveThen, Commit
    <3>2. \A i \in DOMAIN jobQueue : RemoveAt(jobQueue, i) \in Seq(Jobs)
      BY <3>1, RemoveAtType
    <3> QED
      BY <1>9, <3>1, <3>2 DEF CommitRemoveThen
  <2>1. TypeOK'
    BY <1>9, <2>0 DEF CommitRemoveThen, Commit
  <2>2. LockInv'
    BY <1>9 DEF CommitRemoveThen, Commit
  <2>3. GoerInv'
    BY <1>9 DEF CommitRemoveThen, Commit
  <2>4. NoStrandedWork'
    BY <1>9 DEF CommitRemoveThen, Commit
  <2> QED
    BY <2>1, <2>2, <2>3, <2>4
<1>10. ASSUME NEW t \in Threads, CommitGo(t)
      PROVE  IndInv'
  <2>1. TypeOK'
    BY <1>10 DEF CommitGo, Commit, hist
  <2>2. LockInv'
    BY <1>10 DEF CommitGo, Commit, hist
  <2>3. GoerInv'
    BY <1>10 DEF CommitGo, Commit, hist
  <2>4. NoStrandedWork'
    BY <1>10 DEF CommitGo, Commit, hist
  <2> QED
    BY <2>1, <2>2, <2>3, <2>4
<1>11. ASSUME NEW t \in Threads, TakeJobs(t)
      PROVE  IndInv'
  <2>1. TypeOK'
    BY <1>11, SMTT(30) DEF TakeJobs, hist
  <2>2. LockInv'
    BY <1>11 DEF TakeJobs, hist
  <2>3. GoerInv'
    BY <1>11 DEF TakeJobs, hist
  <2>4. NoStrandedWork'
    BY <1>11 DEF TakeJobs, hist
  <2> QED
    BY <2>1, <2>2, <2>3, <2>4
<1>12. ASSUME NEW t \in Threads, TakeStoppers(t)
      PROVE  IndInv'
  <2>1. TypeOK'
    BY <1>12 DEF TakeStoppers, hist
  <2>2. LockInv'
    BY <1>12 DEF TakeStoppers, hist
  <2>3. GoerInv'
    BY <1>12 DEF TakeStoppers, hist
  <2>4. \A u \in Threads : stoppers[u] = {}
    BY <1>12 DEF TakeStoppers
  <2>5. stoppers'[t] = waiting
    BY <1>12 DEF TakeStoppers
  <2>6. NoStrandedWaiter'
    BY <1>12, <2>4, <2>5 DEF TakeStoppers
  <2>7. NoStrandedJob'
    BY <1>12 DEF TakeStoppers
  <2> QED
    BY <2>1, <2>2, <2>3, <2>6, <2>7
<1>13. ASSUME NEW t \in Threads, ReleaseOne(t)
      PROVE  IndInv'
  <2>1. TypeOK'
    BY <1>13 DEF ReleaseOne, hist
  <2>2. LockInv'
    BY <1>13 DEF ReleaseOne, hist
  <2>3. GoerInv'
    BY <1>13 DEF ReleaseOne, hist
  <2>4. NoStrandedWork'
    BY <1>13 DEF ReleaseOne, hist
  <2> QED
    BY <2>1, <2>2, <2>3, <2>4
<1>14. ASSUME NEW t \in Threads, ReleaseDone(t)
      PROVE  IndInv'
  <2>1. TypeOK'
    BY <1>14 DEF ReleaseDone, hist, shared
  <2>2. LockInv'
    BY <1>14 DEF ReleaseDone, hist, shared
  <2>3. GoerInv'
    BY <1>14 DEF ReleaseDone, hist, shared
  <2>4. NoStrandedWork'
    BY <1>14 DEF ReleaseDone, hist, shared
  <2> QED
    BY <2>1, <2>2, <2>3, <2>4
<1>15. ASSUME NEW t \in Threads, RunJob(t)
      PROVE  IndInv'
  <2>0. jobs[t] \in Seq(Jobs) /\ jobs[t] # <<>>
    BY <1>15 DEF RunJob
  <2>1. Head(jobs[t]) \in Jobs /\ Tail(jobs[t]) \in Seq(Jobs)
    BY <2>0
  <2>4. ToSet(Tail(jobs[t])) \subseteq Jobs
    BY <2>1, ToSetType
  <2>5. ran' \in [Jobs -> Nat]
    <3>1. ran' = [ran EXCEPT ![Head(jobs[t])] = @ + 1]
      BY <1>15 DEF RunJob
    <3>2. ran[Head(jobs[t])] + 1 \in Nat
      BY <2>1
    <3> QED
      BY <2>1, <3>1, <3>2
  <2>2. CASE Head(jobs[t]) \in Escaping
    <3>1. /\ pc' = [pc EXCEPT ![t] = "idle"]
          /\ jobs' = [jobs EXCEPT ![t] = <<>>]
          /\ lost' = lost \cup ToSet(Tail(jobs[t]))
      BY <1>15, <2>2 DEF RunJob
    <3>2. TypeOK'
      <4>1. jobs' \in [Threads -> Seq(Jobs)] /\ lost' \subseteq Jobs
        BY <2>4, <3>1
      <4> QED
        BY <1>15, <2>5, <3>1, <4>1 DEF RunJob, shared
    <3>3. LockInv'
      BY <1>15, <2>1, <2>4, <3>1 DEF RunJob, shared
    <3>4. GoerInv'
      BY <1>15, <2>1, <2>4, <3>1 DEF RunJob, shared
    <3>5. NoStrandedWork'
      BY <1>15, <2>1, <2>4, <3>1 DEF RunJob, shared
    <3> QED
      BY <3>2, <3>3, <3>4, <3>5
  <2>3. CASE Head(jobs[t]) \notin Escaping
    <3>1. /\ pc' = pc
          /\ jobs' = [jobs EXCEPT ![t] = Tail(@)]
          /\ lost' = lost
      BY <1>15, <2>3 DEF RunJob
    <3>2. TypeOK'
      <4>1. jobs' \in [Threads -> Seq(Jobs)]
        BY <2>1, <3>1
      <4> QED
        BY <1>15, <2>5, <3>1, <4>1 DEF RunJob, shared
    <3>3. LockInv'
      BY <1>15, <2>1, <2>4, <3>1 DEF RunJob, shared
    <3>4. GoerInv'
      BY <1>15, <2>1, <2>4, <3>1 DEF RunJob, shared
    <3>5. NoStrandedWork'
      BY <1>15, <2>1, <2>4, <3>1 DEF RunJob, shared
    <3> QED
      BY <3>2, <3>3, <3>4, <3>5
  <2> QED
    BY <2>2, <2>3
<1>16. ASSUME NEW t \in Threads, GoReturns(t)
      PROVE  IndInv'
  <2>1. TypeOK'
    BY <1>16 DEF GoReturns, hist, shared
  <2>2. LockInv'
    BY <1>16 DEF GoReturns, hist, shared
  <2>3. GoerInv'
    BY <1>16 DEF GoReturns, hist, shared
  <2>4. NoStrandedWork'
    BY <1>16 DEF GoReturns, hist, shared
  <2> QED
    BY <2>1, <2>2, <2>3, <2>4
<1>17. ASSUME NEW t \in Threads, RunNow(t)
      PROVE  IndInv'
  <2>1. TypeOK'
    <3>1. arg[t] \in Jobs
      BY <1>17 DEF RunNow
    <3>2. ran' = [ran EXCEPT ![arg[t]] = @ + 1] /\ ran[arg[t]] + 1 \in Nat
      BY <1>17, <3>1 DEF RunNow
    <3>3. ran' \in [Jobs -> Nat]
      BY <3>1, <3>2
    <3> QED
      BY <1>17, <3>3 DEF RunNow, shared
  <2>2. LockInv'
    BY <1>17 DEF RunNow, shared
  <2>3. GoerInv'
    BY <1>17 DEF RunNow, shared
  <2>4. NoStrandedWork'
    BY <1>17 DEF RunNow, shared
  <2> QED
    BY <2>1, <2>2, <2>3, <2>4
<1>18. ASSUME NEW t \in Threads, Unblock(t)
      PROVE  IndInv'
  <2>1. TypeOK'
    BY <1>18 DEF Unblock, hist, shared
  <2>2. LockInv'
    BY <1>18 DEF Unblock, hist, shared
  <2>3. GoerInv'
    BY <1>18 DEF Unblock, hist, shared
  <2>4. NoStrandedWork'
    BY <1>18 DEF Unblock, hist, shared
  <2> QED
    BY <2>1, <2>2, <2>3, <2>4
<1>19. CASE UNCHANGED vars
  BY <1>19 DEF vars
<1> QED
  BY <1>1, <1>2, <1>3, <1>4, <1>5, <1>6, <1>7, <1>8, <1>9, <1>10, <1>11, <1>12, <1>13, <1>14, <1>15, <1>16, <1>17, <1>18, <1>19 DEF Next, Call, Step, Harvest

\* No call ever leaves the state space the types describe.
THEOREM TypeCorrect == Spec => []TypeOK
<1>1. IndInv => TypeOK
  BY DEF IndInv
<1> QED
  BY <1>1, InitIndInv, NextIndInv, PTL DEF Spec

\* The lists of a Signal are handed over without a gap: a thread that blocks
\* in wait() is listed, taken or released, and nothing is added to a list
\* after the activating go() has taken it (signals.py:93-103, 117-126, 157-166).
THEOREM NothingStranded == Spec => []NoStrandedWork
<1>1. IndInv => NoStrandedWork
  BY DEF IndInv
<1> QED
  BY <1>1, InitIndInv, NextIndInv, PTL DEF Spec

\* The inductive invariant itself, for other proofs about Signals.
THEOREM IndInvHolds == Spec => []IndInv
  BY InitIndInv, NextIndInv, PTL DEF Spec
-----------------------------------------------------------------------------
(***************************************************************************)
(* JobConservation: where a job is.                                        *)
(***************************************************************************)
\* An entry appended to a list is its only new element.
LEMMA AppendEntries ==
  ASSUME NEW S, NEW s \in Seq(S), NEW e \in S
  PROVE  /\ ToSet(Append(s, e)) = ToSet(s) \cup {e}
         /\ IsInjective(s) /\ e \notin ToSet(s) => IsInjective(Append(s, e))
<1> DEFINE a == Append(s, e)
<1>1. /\ a \in Seq(S) /\ Len(a) = Len(s) + 1 /\ Len(s) \in Nat
      /\ \A i \in 1..Len(s) : a[i] = s[i]
      /\ a[Len(s) + 1] = e
  OBVIOUS
<1>2. DOMAIN a = 1..(Len(s) + 1) /\ DOMAIN s = 1..Len(s)
  BY <1>1
<1> HIDE DEF a
<1>3. ToSet(a) = ToSet(s) \cup {e}
  BY <1>1, <1>2 DEF ToSet
<1>4. IsInjective(s) /\ e \notin ToSet(s) => IsInjective(a)
  BY <1>1, <1>2 DEF ToSet, IsInjective
<1> QED
  BY <1>3, <1>4 DEF a

\* A list without its head has the other elements.
LEMMA TailEntries ==
  ASSUME NEW S, NEW s \in Seq(S), s # <<>>
  PROVE  /\ ToSet(s) = {Head(s)} \cup ToSet(Tail(s))
         /\ IsInjective(s) => IsInjective(Tail(s)) /\ Head(s) \notin ToSet(Tail(s))
<1> DEFINE r == Tail(s)
<1>1. /\ r \in Seq(S) /\ Len(r) = Len(s) - 1 /\ Len(s) \in Nat \ {0}
      /\ \A i \in 1..(Len(s) - 1) : r[i] = s[i + 1]
      /\ Head(s) = s[1]
  OBVIOUS
<1>2. DOMAIN r = 1..(Len(s) - 1) /\ DOMAIN s = 1..Len(s)
  BY <1>1
<1> HIDE DEF r
<1>3. \A i \in 2..Len(s) : i - 1 \in DOMAIN r /\ r[i - 1] = s[i]
  BY <1>1, <1>2
<1>4. ToSet(s) = {Head(s)} \cup ToSet(r)
  <2>1. ToSet(r) \subseteq ToSet(s)
    BY <1>1, <1>2 DEF ToSet
  <2>2. \A i \in DOMAIN s : i = 1 \/ i \in 2..Len(s)
    BY <1>2
  <2>3. ToSet(s) \subseteq {Head(s)} \cup ToSet(r)
    BY <1>1, <1>3, <2>2 DEF ToSet
  <2>4. Head(s) \in ToSet(s)
    BY <1>1, <1>2 DEF ToSet
  <2> QED
    BY <2>1, <2>3, <2>4
<1>5. ASSUME IsInjective(s)
      PROVE  IsInjective(r) /\ Head(s) \notin ToSet(r)
  <2>1. \A i \in DOMAIN r : i + 1 \in DOMAIN s /\ i + 1 # 1 /\ r[i] = s[i + 1]
    BY <1>1, <1>2
  <2>2. 1 \in DOMAIN s /\ Head(s) = s[1]
    BY <1>1, <1>2
  <2>3. Head(s) \notin ToSet(r)
    BY <1>5, <2>1, <2>2 DEF ToSet, IsInjective
  <2>4. ASSUME NEW i \in DOMAIN r, NEW k \in DOMAIN r, r[i] = r[k]
        PROVE  i = k
    <3>1. i + 1 = k + 1
      BY <1>5, <2>1, <2>4 DEF IsInjective
    <3> QED
      BY <1>2, <3>1
  <2> QED
    BY <2>3, <2>4 DEF IsInjective
<1> QED
  BY <1>4, <1>5 DEF r

\* The empty list has no elements.
LEMMA EmptyEntries == ToSet(<<>>) = {} /\ IsInjective(<<>>)
  BY DEF ToSet, IsInjective

\* Deleting an entry of a list without duplicates takes out that element and
\* no other.
LEMMA RemoveAtEntries ==
  ASSUME NEW S, NEW s \in Seq(S), NEW i \in DOMAIN s, IsInjective(s)
  PROVE  /\ ToSet(RemoveAt(s, i)) = ToSet(s) \ {s[i]}
         /\ IsInjective(RemoveAt(s, i))
<1> DEFINE r == RemoveAt(s, i)
<1>1. /\ Len(s) \in Nat /\ i \in 1..Len(s) /\ DOMAIN s = 1..Len(s)
  OBVIOUS
<1>2. /\ DOMAIN r = 1..(Len(s) - 1)
      /\ \A k \in 1..(i - 1) : r[k] = s[k]
      /\ \A k \in i..(Len(s) - 1) : r[k] = s[k + 1]
  <2> DEFINE left == SubSeq(s, 1, i - 1)
             right == SubSeq(s, i + 1, Len(s))
  <2>1. /\ left \in Seq(S) /\ Len(left) = i - 1
        /\ \A k \in 1..(i - 1) : left[k] = s[k]
    BY <1>1
  <2>2. /\ right \in Seq(S) /\ Len(right) = Len(s) - i
        /\ \A k \in 1..(Len(s) - i) : right[k] = s[i + k]
    BY <1>1, SMTT(30)
  <2>3. r = left \o right
    BY DEF RemoveAt
  <2> HIDE DEF left, right, r
  <2>3a. r \in Seq(S) /\ Len(r) = Len(left) + Len(right)
    BY <2>1, <2>2, <2>3, ConcatProperties
  <2>3b. Len(r) = Len(s) - 1
    BY <1>1, <2>1, <2>2, <2>3a
  <2>4. DOMAIN r = 1..(Len(s) - 1)
    BY <2>3a, <2>3b
  <2>6. \A k \in 1..(i - 1) : r[k] = left[k]
    BY <1>1, <2>1, <2>2, <2>3
  <2>5. ASSUME NEW k \in i..(Len(s) - 1)
        PROVE  r[k] = s[k + 1]
    <3>1. k - (i - 1) \in 1..(Len(s) - i)
      BY <1>1
    <3>2. r[k] = right[k - (i - 1)]
      BY <1>1, <2>1, <2>2, <2>3, <3>1, SMTT(30)
    <3>3. i + (k - (i - 1)) = k + 1
      BY <1>1
    <3> QED
      BY <2>2, <3>1, <3>2, <3>3
  <2> QED
    BY <1>1, <2>1, <2>4, <2>5, <2>6
<1> HIDE DEF r
<1>3. \A k \in DOMAIN r : k \in 1..(i - 1) \/ k \in i..(Len(s) - 1)
  BY <1>1, <1>2
<1>4. \A k \in DOMAIN s : \/ k = i
                          \/ k \in 1..(i - 1) /\ k \in DOMAIN r /\ r[k] = s[k]
                          \/ k \in (i + 1)..Len(s) /\ k - 1 \in DOMAIN r /\ r[k - 1] = s[k]
  BY <1>1, <1>2
<1>5. \A k \in DOMAIN r : \E m \in DOMAIN s : /\ m # i
                                              /\ r[k] = s[m]
                                              /\ m = IF k < i THEN k ELSE k + 1
  BY <1>1, <1>2, <1>3
<1>6. ToSet(r) \subseteq ToSet(s) \ {s[i]}
  BY <1>5 DEF ToSet, IsInjective
<1>7. ToSet(s) \ {s[i]} \subseteq ToSet(r)
  BY <1>4 DEF ToSet
<1>8. IsInjective(r)
  <2> SUFFICES ASSUME NEW k \in DOMAIN r, NEW m \in DOMAIN r, r[k] = r[m]
               PROVE  k = m
    BY DEF IsInjective
  <2>1. (IF k < i THEN k ELSE k + 1) = (IF m < i THEN m ELSE m + 1)
    BY <1>5 DEF IsInjective
  <2> QED
    BY <1>1, <1>2, <2>1
<1> QED
  BY <1>6, <1>7, <1>8 DEF r

\* A step that moves no job, and that no call of then() begins or ends with,
\* leaves every job at its place.
LEMMA SamePlaces ==
  ASSUME OnePlace,
         UNCHANGED <<attached, removed, lost, ran, jobQueue, jobs>>,
         \A u \in Threads : Handing(u)' <=> Handing(u),
         \A u \in Threads : Handing(u) => arg'[u] = arg[u]
  PROVE  OnePlace'
<1>1. Settled' = Settled
  BY DEF Settled, Done
<1>2. HandingApart'
  BY <1>1 DEF OnePlace, HandingApart
<1>3. QueueApart' /\ TakenApart' /\ SettledApart'
  BY <1>1 DEF OnePlace, QueueApart, TakenApart, SettledApart
<1>4. NoneVanished'
  BY <1>1 DEF OnePlace, NoneVanished
<1> QED
  BY <1>2, <1>3, <1>4 DEF OnePlace

\* What HandingApart says of one call of then().
LEMMA HandingJob ==
  ASSUME OnePlace, NEW t \in Threads, Handing(t)
  PROVE  /\ arg[t] \in attached \ (Settled \cup ToSet(jobQueue))
         /\ \A u \in Threads : /\ arg[t] \notin ToSet(jobs[u])
                               /\ Handing(u) /\ arg[u] = arg[t] => u = t
  BY Zenon DEF OnePlace, HandingApart

\* Nothing was handed over yet.
LEMMA InitOnePlace == Init => OnePlace
<1> SUFFICES ASSUME Init PROVE OnePlace
  OBVIOUS
<1>1. Settled = {}
  BY DEF Init, Settled, Done
<1>2. \A t \in Threads : ~Handing(t)
  BY DEF Init, Handing, Locked
<1> QED
  BY <1>1, <1>2, EmptyEntries
     DEF Init, OnePlace, HandingApart, QueueApart, TakenApart, SettledApart, NoneVanished

\* Every step of every method leaves each job at one place.
LEMMA NextOnePlace == IndInv /\ OnePlace /\ [Next]_vars => OnePlace'
<1> SUFFICES ASSUME IndInv, OnePlace, [Next]_vars
             PROVE  OnePlace'
  OBVIOUS
<1> USE SignalAssumption DEF SignalAssumption
<1>t. TypeOK
  BY DEF IndInv
<1>1. ASSUME NEW t \in Threads, Wait(t)
      PROVE  OnePlace'
  <2>1. UNCHANGED <<attached, removed, lost, ran, jobQueue, jobs>>
    BY <1>1 DEF Wait, Enter, shared, hist
  <2>2. \A u \in Threads : Handing(u)' <=> Handing(u)
    BY <1>1, <1>t DEF Wait, Enter, shared, hist, TypeOK, Handing, Locked
  <2>3. \A u \in Threads : Handing(u) => arg'[u] = arg[u]
    BY <1>1, <1>t DEF Wait, Enter, shared, hist, TypeOK, Handing, Locked
  <2> QED
    BY <2>1, <2>2, <2>3, SamePlaces
<1>2. ASSUME NEW t \in Threads, Go(t)
      PROVE  OnePlace'
  <2>1. UNCHANGED <<attached, removed, lost, ran, jobQueue, jobs>>
    BY <1>2 DEF Go, Enter, shared, hist
  <2>2. \A u \in Threads : Handing(u)' <=> Handing(u)
    BY <1>2, <1>t DEF Go, Enter, shared, hist, TypeOK, Handing, Locked
  <2>3. \A u \in Threads : Handing(u) => arg'[u] = arg[u]
    BY <1>2, <1>t DEF Go, Enter, shared, hist, TypeOK, Handing, Locked
  <2> QED
    BY <2>1, <2>2, <2>3, SamePlaces
<1>3. ASSUME NEW t \in Threads, NEW j \in Jobs, RemoveThen(t, j)
      PROVE  OnePlace'
  <2>1. UNCHANGED <<attached, removed, lost, ran, jobQueue, jobs>>
    BY <1>3 DEF RemoveThen, Enter, shared, hist
  <2>2. \A u \in Threads : Handing(u)' <=> Handing(u)
    BY <1>3, <1>t DEF RemoveThen, Enter, shared, hist, TypeOK, Handing, Locked
  <2>3. \A u \in Threads : Handing(u) => arg'[u] = arg[u]
    BY <1>3, <1>t DEF RemoveThen, Enter, shared, hist, TypeOK, Handing, Locked
  <2> QED
    BY <2>1, <2>2, <2>3, SamePlaces
<1>4. ASSUME NEW t \in Threads, Acquire(t)
      PROVE  OnePlace'
  <2>1. UNCHANGED <<attached, removed, lost, ran, jobQueue, jobs>>
    BY <1>4 DEF Acquire, hist
  <2>2. \A u \in Threads : Handing(u)' <=> Handing(u)
    BY <1>4, <1>t DEF Acquire, hist, TypeOK, Handing, Locked
  <2>3. \A u \in Threads : Handing(u) => arg'[u] = arg[u]
    BY <1>4, <1>t DEF Acquire, hist, TypeOK, Handing, Locked
  <2> QED
    BY <2>1, <2>2, <2>3, SamePlaces
<1>5. ASSUME NEW t \in Threads, Recheck(t)
      PROVE  OnePlace'
  <2>1. UNCHANGED <<attached, removed, lost, ran, jobQueue, jobs>>
    BY <1>5 DEF Recheck, hist
  <2>2. \A u \in Threads : Handing(u)' <=> Handing(u)
    BY <1>5, <1>t DEF Recheck, hist, TypeOK, Handing, Locked
  <2>3. \A u \in Threads : Handing(u) => arg'[u] = arg[u]
    BY <1>5, <1>t DEF Recheck, hist, TypeOK, Handing, Locked
  <2> QED
    BY <2>1, <2>2, <2>3, SamePlaces
<1>6. ASSUME NEW t \in Threads, CommitWait(t)
      PROVE  OnePlace'
  <2>1. UNCHANGED <<attached, removed, lost, ran, jobQueue, jobs>>
    BY <1>6 DEF CommitWait, Commit, hist
  <2>2. \A u \in Threads : Handing(u)' <=> Handing(u)
    BY <1>6, <1>t DEF CommitWait, Commit, hist, TypeOK, Handing, Locked
  <2>3. \A u \in Threads : Handing(u) => arg'[u] = arg[u]
    BY <1>6, <1>t DEF CommitWait, Commit, hist, TypeOK, Handing, Locked
  <2> QED
    BY <2>1, <2>2, <2>3, SamePlaces
<1>7. ASSUME NEW t \in Threads, CommitGo(t)
      PROVE  OnePlace'
  <2>1. UNCHANGED <<attached, removed, lost, ran, jobQueue, jobs>>
    BY <1>7 DEF CommitGo, Commit, hist
  <2>2. \A u \in Threads : Handing(u)' <=> Handing(u)
    BY <1>7, <1>t DEF CommitGo, Commit, hist, TypeOK, Handing, Locked
  <2>3. \A u \in Threads : Handing(u) => arg'[u] = arg[u]
    BY <1>7, <1>t DEF CommitGo, Commit, hist, TypeOK, Handing, Locked
  <2> QED
    BY <2>1, <2>2, <2>3, SamePlaces
<1>8. ASSUME NEW t \in Threads, TakeStoppers(t)
      PROVE  OnePlace'
  <2>1. UNCHANGED <<attached, removed, lost, ran, jobQueue, jobs>>
    BY <1>8 DEF TakeStoppers, hist
  <2>2. \A u \in Threads : Handing(u)' <=> Handing(u)
    BY <1>8, <1>t DEF TakeStoppers, hist, TypeOK, Handing, Locked
  <2>3. \A u \in Threads : Handing(u) => arg'[u] = arg[u]
    BY <1>8, <1>t DEF TakeStoppers, hist, TypeOK, Handing, Locked
  <2> QED
    BY <2>1, <2>2, <2>3, SamePlaces
<1>9. ASSUME NEW t \in Threads, ReleaseOne(t)
      PROVE  OnePlace'
  <2>1. UNCHANGED <<attached, removed, lost, ran, jobQueue, jobs>>
    BY <1>9 DEF ReleaseOne, hist
  <2>2. \A u \in Threads : Handing(u)' <=> Handing(u)
    BY <1>9, <1>t DEF ReleaseOne, hist, TypeOK, Handing, Locked
  <2>3. \A u \in Threads : Handing(u) => arg'[u] = arg[u]
    BY <1>9, <1>t DEF ReleaseOne, hist, TypeOK, Handing, Locked
  <2> QED
    BY <2>1, <2>2, <2>3, SamePlaces
<1>10. ASSUME NEW t \in Threads, ReleaseDone(t)
      PROVE  OnePlace'
  <2>1. UNCHANGED <<attached, removed, lost, ran, jobQueue, jobs>>
    BY <1>10 DEF ReleaseDone, shared, hist
  <2>2. \A u \in Threads : Handing(u)' <=> Handing(u)
    BY <1>10, <1>t DEF ReleaseDone, shared, hist, TypeOK, Handing, Locked
  <2>3. \A u \in Threads : Handing(u) => arg'[u] = arg[u]
    BY <1>10, <1>t DEF ReleaseDone, shared, hist, TypeOK, Handing, Locked
  <2> QED
    BY <2>1, <2>2, <2>3, SamePlaces
<1>11. ASSUME NEW t \in Threads, GoReturns(t)
      PROVE  OnePlace'
  <2>1. UNCHANGED <<attached, removed, lost, ran, jobQueue, jobs>>
    BY <1>11 DEF GoReturns, shared, hist
  <2>2. \A u \in Threads : Handing(u)' <=> Handing(u)
    BY <1>11, <1>t DEF GoReturns, shared, hist, TypeOK, Handing, Locked
  <2>3. \A u \in Threads : Handing(u) => arg'[u] = arg[u]
    BY <1>11, <1>t DEF GoReturns, shared, hist, TypeOK, Handing, Locked
  <2> QED
    BY <2>1, <2>2, <2>3, SamePlaces
<1>12. ASSUME NEW t \in Threads, Unblock(t)
      PROVE  OnePlace'
  <2>1. UNCHANGED <<attached, removed, lost, ran, jobQueue, jobs>>
    BY <1>12 DEF Unblock, shared, hist
  <2>2. \A u \in Threads : Handing(u)' <=> Handing(u)
    BY <1>12, <1>t DEF Unblock, shared, hist, TypeOK, Handing, Locked
  <2>3. \A u \in Threads : Handing(u) => arg'[u] = arg[u]
    BY <1>12, <1>t DEF Unblock, shared, hist, TypeOK, Handing, Locked
  <2> QED
    BY <2>1, <2>2, <2>3, SamePlaces
<1>13. ASSUME NEW t \in Threads, NEW j \in Jobs, Then(t, j)
      PROVE  OnePlace'
  <2>1. /\ UNCHANGED <<removed, lost, ran, jobQueue, jobs>>
        /\ attached' = attached \cup {j} /\ j \notin attached
    BY <1>13 DEF Then, Enter, shared
  <2>2. ~Handing(t) /\ Handing(t)' /\ arg'[t] = j
    BY <1>13, <1>t DEF Then, Enter, TypeOK, Handing, Locked
  <2>3. \A u \in Threads \ {t} : (Handing(u)' <=> Handing(u)) /\ arg'[u] = arg[u]
    BY <1>13, <1>t DEF Then, Enter, TypeOK, Handing
  <2>4. Settled' = Settled
    BY <2>1 DEF Settled, Done
  <2>5. HandingApart'
    BY <2>1, <2>2, <2>3, <2>4 DEF OnePlace, HandingApart, QueueApart, TakenApart, SettledApart
  <2>6. QueueApart' /\ TakenApart' /\ SettledApart'
    BY <2>1, <2>4 DEF OnePlace, QueueApart, TakenApart, SettledApart
  <2>7. NoneVanished'
    BY <2>1, <2>2, <2>3, <2>4 DEF OnePlace, NoneVanished
  <2> QED
    BY <2>5, <2>6, <2>7 DEF OnePlace
<1>14. ASSUME NEW t \in Threads, CommitThen(t)
      PROVE  OnePlace'
  <2>1. /\ UNCHANGED <<attached, removed, lost, ran, arg, jobs>>
        /\ jobQueue' = Append(jobQueue, arg[t])
    BY <1>14 DEF CommitThen, Commit, hist
  <2>2. Handing(t) /\ ~Handing(t)'
    BY <1>14, <1>t DEF CommitThen, Commit, TypeOK, Handing, Locked
  <2>3. \A u \in Threads \ {t} : Handing(u)' <=> Handing(u)
    BY <1>14, <1>t DEF CommitThen, Commit, TypeOK, Handing
  <2>4. Settled' = Settled
    BY <2>1 DEF Settled, Done
  <2>5. arg[t] \in Jobs /\ jobQueue \in Seq(Jobs)
    BY <1>14, <1>t DEF CommitThen, Commit, IndInv, LockInv, TypeOK
  <2>6. ToSet(jobQueue') = ToSet(jobQueue) \cup {arg[t]} /\ IsInjective(jobQueue')
    BY <2>1, <2>2, <2>5, AppendEntries DEF OnePlace, HandingApart, QueueApart
  <2>7. /\ arg[t] \in attached \ (Settled \cup ToSet(jobQueue))
        /\ \A u \in Threads : arg[t] \notin ToSet(jobs[u])
        /\ \A u \in Threads \ {t} : Handing(u) => arg[u] # arg[t]
    BY <2>2, HandingJob
  <2>8. HandingApart'
    <3> SUFFICES ASSUME NEW u \in Threads, Handing(u)'
                 PROVE  /\ arg'[u] \in attached' \ (Settled' \cup ToSet(jobQueue'))
                        /\ \A w \in Threads : /\ arg'[u] \notin ToSet(jobs'[w])
                                              /\ Handing(w)' /\ arg'[w] = arg'[u] => w = u
      BY DEF HandingApart
    <3>1. u # t /\ Handing(u) /\ arg[u] # arg[t]
      BY <2>2, <2>3, <2>7
    <3>2. /\ arg[u] \in attached \ (Settled \cup ToSet(jobQueue))
          /\ \A w \in Threads : /\ arg[u] \notin ToSet(jobs[w])
                                /\ Handing(w) /\ arg[w] = arg[u] => w = u
      BY <3>1 DEF OnePlace, HandingApart
    <3> QED
      BY <2>1, <2>2, <2>3, <2>4, <2>6, <3>1, <3>2
  <2>9. QueueApart' /\ SettledApart'
    BY <2>1, <2>4, <2>6, <2>7 DEF OnePlace, QueueApart, SettledApart
  <2>10. TakenApart'
    BY <2>1, <2>4, <2>6, <2>7 DEF OnePlace, TakenApart
  <2>11. NoneVanished'
    BY <2>1, <2>2, <2>3, <2>4, <2>6 DEF OnePlace, NoneVanished
  <2> QED
    BY <2>8, <2>9, <2>10, <2>11 DEF OnePlace
<1>15. ASSUME NEW t \in Threads, CommitRemoveThen(t)
      PROVE  OnePlace'
  <2>1. UNCHANGED <<attached, lost, ran, arg, jobs>>
    BY <1>15 DEF CommitRemoveThen, Commit
  <2>2. \A u \in Threads : Handing(u)' <=> Handing(u)
    BY <1>15, <1>t DEF CommitRemoveThen, Commit, TypeOK, Handing, Locked
  <2>3. CASE UNCHANGED <<jobQueue, removed>>
    BY <2>1, <2>2, <2>3, SamePlaces
  <2>4. ASSUME NEW i \in DOMAIN jobQueue, jobQueue[i] = arg[t],
               jobQueue' = RemoveAt(jobQueue, i), removed' = removed \cup {arg[t]}
        PROVE  OnePlace'
    <3>1. jobQueue \in Seq(Jobs)
      BY <1>t DEF TypeOK
    <3>2. ToSet(jobQueue') = ToSet(jobQueue) \ {arg[t]} /\ IsInjective(jobQueue')
      BY <2>4, <3>1, RemoveAtEntries DEF OnePlace, QueueApart
    <3>3. arg[t] \in ToSet(jobQueue) /\ arg[t] \in Jobs
      BY <2>4, <3>1 DEF ToSet
    <3>4. Settled' = Settled \cup {arg[t]}
      BY <2>1, <2>4 DEF Settled, Done
    <3>5. arg[t] \in attached \ Settled
      BY <3>3 DEF OnePlace, QueueApart
    <3>6. HandingApart'
      BY <2>1, <2>2, <3>2, <3>3, <3>4 DEF OnePlace, HandingApart
    <3>7. QueueApart'
      BY <2>1, <3>2, <3>4 DEF OnePlace, QueueApart
    <3>8. TakenApart'
      BY <2>1, <3>2, <3>3, <3>4 DEF OnePlace, TakenApart
    <3>9. SettledApart'
      BY <2>1, <2>4, <3>4, <3>5 DEF OnePlace, SettledApart, Settled, Done
    <3>10. NoneVanished'
      BY <2>1, <2>2, <3>2, <3>4 DEF OnePlace, NoneVanished
    <3> QED
      BY <3>6, <3>7, <3>8, <3>9, <3>10 DEF OnePlace
  <2> QED
    BY <1>15, <2>3, <2>4 DEF CommitRemoveThen
<1>16. ASSUME NEW t \in Threads, TakeJobs(t)
      PROVE  OnePlace'
  <2>1. /\ UNCHANGED <<attached, removed, lost, ran, arg>>
        /\ jobQueue' = <<>> /\ jobs' = [jobs EXCEPT ![t] = jobQueue]
    BY <1>16 DEF TakeJobs, hist
  <2>2. \A u \in Threads : Handing(u)' <=> Handing(u)
    BY <1>16, <1>t DEF TakeJobs, TypeOK, Handing, Locked
  <2>3. Settled' = Settled
    BY <2>1 DEF Settled, Done
  <2>4. \A u \in Threads : jobs[u] = <<>>
    BY <1>16 DEF TakeJobs, IndInv, GoerInv, Harvesting
  <2>5. /\ ToSet(jobQueue') = {} /\ IsInjective(jobQueue')
        /\ \A u \in Threads : ToSet(jobs[u]) = {} /\ IsInjective(jobs[u])
    BY <2>1, <2>4, EmptyEntries
  <2>6. /\ ToSet(jobs'[t]) = ToSet(jobQueue)
        /\ \A u \in Threads \ {t} : ToSet(jobs'[u]) = {} /\ IsInjective(jobs'[u])
        /\ jobs'[t] = jobQueue
    BY <1>t, <2>1, <2>5 DEF TypeOK
  <2>7. HandingApart'
    BY <2>1, <2>2, <2>3, <2>5, <2>6 DEF OnePlace, HandingApart
  <2>8. QueueApart' /\ TakenApart' /\ SettledApart'
    BY <2>1, <2>3, <2>5, <2>6 DEF OnePlace, QueueApart, TakenApart, SettledApart
  <2>9. NoneVanished'
    BY <2>1, <2>2, <2>3, <2>5, <2>6 DEF OnePlace, NoneVanished
  <2> QED
    BY <2>7, <2>8, <2>9 DEF OnePlace
<1>17. ASSUME NEW t \in Threads, RunJob(t)
      PROVE  OnePlace'
  <2> DEFINE head == Head(jobs[t])
             rest == Tail(jobs[t])
  <2>1. /\ UNCHANGED <<attached, removed, arg, jobQueue, op>>
        /\ ran' = [ran EXCEPT ![head] = @ + 1]
    BY <1>17 DEF RunJob, shared
  <2>2. \A u \in Threads : Handing(u)' <=> Handing(u)
    BY <1>17, <1>t DEF RunJob, TypeOK, Handing, Locked
  <2>3. jobs[t] \in Seq(Jobs) /\ jobs[t] # <<>> /\ head \in Jobs
    BY <1>17, <1>t DEF RunJob, TypeOK
  <2>4. /\ ToSet(jobs[t]) = {head} \cup ToSet(rest)
        /\ IsInjective(rest) /\ head \notin ToSet(rest)
    BY <2>3, TailEntries DEF OnePlace, TakenApart
  <2>5. \A u \in Threads \ {t} : jobs[u] = <<>> /\ ToSet(jobs[u]) = {}
    BY <1>17, EmptyEntries DEF RunJob, IndInv, GoerInv, Harvesting
  <2>6. /\ head \in attached \ (Settled \cup ToSet(jobQueue))
        /\ ToSet(rest) \subseteq attached \ (Settled \cup ToSet(jobQueue))
    BY <2>4 DEF OnePlace, TakenApart
  <2>7. ran[head] = 0 /\ ran'[head] = 1 /\ \A j \in Jobs \ {head} : ran'[j] = ran[j]
    <3>1. ran \in [Jobs -> Nat]
      BY <1>t DEF TypeOK
    <3>2. ran[head] = 0
      BY <2>3, <2>6, <3>1 DEF Settled, Done
    <3> QED
      BY <2>1, <2>3, <3>1, <3>2
  <2>10. \A u \in Threads : Handing(u) => arg[u] \notin {head} \cup ToSet(rest)
    BY <2>4, HandingJob
  <2> HIDE DEF head, rest
  <2>8. CASE head \notin Escaping
    <3>1. jobs' = [jobs EXCEPT ![t] = rest] /\ lost' = lost
      BY <1>17, <2>8 DEF RunJob, head, rest
    <3>2. jobs'[t] = rest /\ \A u \in Threads \ {t} : jobs'[u] = jobs[u]
      BY <1>t, <3>1 DEF TypeOK
    <3>3. Settled' = Settled \cup {head}
      BY <2>1, <2>3, <2>7, <3>1 DEF Settled, Done
    <3>4. HandingApart'
      BY <2>1, <2>2, <2>4, <2>10, <3>2, <3>3 DEF OnePlace, HandingApart
    <3>5. QueueApart'
      BY <2>1, <2>6, <3>3 DEF OnePlace, QueueApart
    <3>6. TakenApart'
      BY <2>1, <2>4, <2>5, <2>6, <3>2, <3>3 DEF OnePlace, TakenApart
    <3>7. SettledApart'
      BY <2>1, <2>6, <2>7, <3>1, <3>3 DEF OnePlace, SettledApart, Settled, Done
    <3>8. NoneVanished'
      BY <2>1, <2>2, <2>4, <3>2, <3>3 DEF OnePlace, NoneVanished
    <3> QED
      BY <3>4, <3>5, <3>6, <3>7, <3>8 DEF OnePlace
  <2>9. CASE head \in Escaping
    <3>1. jobs' = [jobs EXCEPT ![t] = <<>>] /\ lost' = lost \cup ToSet(rest)
      BY <1>17, <2>9 DEF RunJob, head, rest
    <3>2. jobs'[t] = <<>> /\ \A u \in Threads \ {t} : jobs'[u] = jobs[u]
      BY <1>t, <3>1 DEF TypeOK
    <3>3. Settled' = Settled \cup {head} \cup ToSet(rest)
      BY <2>1, <2>3, <2>7, <3>1 DEF Settled, Done
    <3>4. ToSet(jobs'[t]) = {} /\ IsInjective(jobs'[t])
      BY <3>2, EmptyEntries
    <3>5. HandingApart'
      BY <2>1, <2>2, <2>4, <2>10, <3>2, <3>3, <3>4 DEF OnePlace, HandingApart
    <3>6. QueueApart'
      BY <2>1, <2>6, <3>3 DEF OnePlace, QueueApart
    <3>7. TakenApart'
      BY <2>1, <2>5, <3>2, <3>3, <3>4 DEF OnePlace, TakenApart
    <3>8. SettledApart'
      BY <2>1, <2>4, <2>6, <2>7, <3>1, <3>3 DEF OnePlace, SettledApart, Settled, Done
    <3>9. NoneVanished'
      BY <2>1, <2>2, <2>4, <3>2, <3>3 DEF OnePlace, NoneVanished
    <3> QED
      BY <3>5, <3>6, <3>7, <3>8, <3>9 DEF OnePlace
  <2> QED
    BY <2>8, <2>9
<1>18. ASSUME NEW t \in Threads, RunNow(t)
      PROVE  OnePlace'
  <2>1. /\ UNCHANGED <<attached, removed, lost, arg, jobQueue, jobs>>
        /\ ran' = [ran EXCEPT ![arg[t]] = @ + 1]
    BY <1>18 DEF RunNow, shared
  <2>2. Handing(t) /\ ~Handing(t)' /\ arg[t] \in Jobs
    BY <1>18, <1>t DEF RunNow, shared, TypeOK, Handing, Locked, IndInv, LockInv
  <2>3. \A u \in Threads \ {t} : Handing(u)' <=> Handing(u)
    BY <1>18, <1>t DEF RunNow, shared, TypeOK, Handing
  <2>4. arg[t] \in attached \ Settled
    BY <2>2 DEF OnePlace, HandingApart
  <2>5. ran[arg[t]] = 0 /\ ran'[arg[t]] = 1 /\ \A j \in Jobs \ {arg[t]} : ran'[j] = ran[j]
    <3>1. ran \in [Jobs -> Nat]
      BY <1>t DEF TypeOK
    <3>2. ran[arg[t]] = 0
      BY <2>2, <2>4, <3>1 DEF Settled, Done
    <3> QED
      BY <2>1, <2>2, <3>1, <3>2
  <2>6. Settled' = Settled \cup {arg[t]}
    BY <2>1, <2>2, <2>5 DEF Settled, Done
  <2>11. /\ arg[t] \notin ToSet(jobQueue)
         /\ \A u \in Threads : arg[t] \notin ToSet(jobs[u])
         /\ \A u \in Threads \ {t} : Handing(u) => arg[u] # arg[t]
    BY <2>2, HandingJob
  <2>7. HandingApart'
    BY <2>1, <2>2, <2>3, <2>6, <2>11 DEF OnePlace, HandingApart
  <2>8. QueueApart' /\ TakenApart'
    BY <2>1, <2>6, <2>11 DEF OnePlace, QueueApart, TakenApart
  <2>9. SettledApart'
    BY <2>1, <2>4, <2>5, <2>6 DEF OnePlace, SettledApart, Settled, Done
  <2>10. NoneVanished'
    BY <2>1, <2>2, <2>3, <2>6 DEF OnePlace, NoneVanished
  <2> QED
    BY <2>7, <2>8, <2>9, <2>10 DEF OnePlace
<1>19. CASE UNCHANGED vars
  <2>1. \A u \in Threads : (Handing(u)' <=> Handing(u)) /\ arg'[u] = arg[u]
    BY <1>19 DEF vars, Handing
  <2>2. UNCHANGED <<attached, removed, lost, ran, jobQueue, jobs>>
    BY <1>19 DEF vars
  <2> QED
    BY <2>1, <2>2, SamePlaces
<1> QED
  BY <1>1, <1>2, <1>3, <1>4, <1>5, <1>6, <1>7, <1>8, <1>9, <1>10, <1>11, <1>12, <1>13, <1>14, <1>15, <1>16, <1>17, <1>18, <1>19 DEF Next, Call, Step, Harvest
\* The inductive invariant with the places of the jobs, for other proofs.
THEOREM OnePlaceHolds == Spec => []OnePlace
  BY InitIndInv, NextIndInv, InitOnePlace, NextOnePlace, PTL DEF Spec

\* The parts of Places: what each of them is when the job is there, and when
\* it is not.
LEMMA PartsOfPlaces ==
  ASSUME IndInv, OnePlace, NEW j \in Jobs
  PROVE  /\ IF \E t \in Threads : Handing(t) /\ arg[t] = j
            THEN \E x : InCall(j) = {x} ELSE InCall(j) = {}
         /\ IF j \in ToSet(jobQueue) THEN \E x : InQueue(j) = {x} ELSE InQueue(j) = {}
         /\ IF \E t \in Threads : j \in ToSet(jobs[t])
            THEN \E x : InHands(j) = {x} ELSE InHands(j) = {}
         /\ IF ran[j] > 0 THEN \E x : Runs(j) = {x} ELSE Runs(j) = {}
         /\ IF j \in removed THEN \E x : TakenOut(j) = {x} ELSE TakenOut(j) = {}
         /\ IF j \in lost THEN \E x : Gone(j) = {x} ELSE Gone(j) = {}
<1> USE DEF InCall, InQueue, InHands, Runs, TakenOut, Gone
<1>1. IF \E t \in Threads : Handing(t) /\ arg[t] = j THEN \E x : InCall(j) = {x} ELSE InCall(j) = {}
  <2>1. ASSUME NEW t \in Threads, Handing(t), arg[t] = j
        PROVE  InCall(j) = {<<"call", t, 1>>}
    <3>1. {u \in Threads : Handing(u) /\ arg[u] = j} = {t}
      BY <2>1, HandingJob
    <3> QED
      BY <3>1
  <2> QED
    BY <2>1
<1>2. IF j \in ToSet(jobQueue) THEN \E x : InQueue(j) = {x} ELSE InQueue(j) = {}
  <2>1. ASSUME NEW i \in DOMAIN jobQueue, jobQueue[i] = j
        PROVE  InQueue(j) = {<<"queue", NoThread, i>>}
    <3>1. {k \in DOMAIN jobQueue : jobQueue[k] = j} = {i}
      BY <2>1 DEF OnePlace, QueueApart, IsInjective
    <3> QED
      BY <3>1
  <2> QED
    BY <2>1 DEF ToSet
<1>3. IF \E t \in Threads : j \in ToSet(jobs[t]) THEN \E x : InHands(j) = {x} ELSE InHands(j) = {}
  <2>1. ASSUME NEW t \in Threads, NEW i \in DOMAIN jobs[t], jobs[t][i] = j
        PROVE  InHands(j) = {<<"go", t, i>>}
    <3>1. {k \in DOMAIN jobs[t] : jobs[t][k] = j} = {i}
      BY <2>1 DEF OnePlace, TakenApart, IsInjective
    <3>2. jobs[t] # <<>>
      BY <2>1
    <3>3. ASSUME NEW u \in Threads, u # t
          PROVE  {k \in DOMAIN jobs[u] : jobs[u][k] = j} = {}
      <4>1. jobs[u] = <<>>
        BY <3>2, <3>3 DEF IndInv, GoerInv
      <4> QED
        BY <4>1
    <3> QED
      BY <3>1, <3>3
  <2>2. CASE \E t \in Threads : j \in ToSet(jobs[t])
    <3>1. PICK t \in Threads : \E i \in DOMAIN jobs[t] : jobs[t][i] = j
      BY <2>2 DEF ToSet
    <3>2. \E x : InHands(j) = {x}
      BY <2>1, <3>1
    <3> QED
      BY <2>2, <3>2
  <2>3. CASE \A t \in Threads : j \notin ToSet(jobs[t])
    <3>1. \A t \in Threads : {k \in DOMAIN jobs[t] : jobs[t][k] = j} = {}
      BY <2>3 DEF ToSet
    <3>2. InHands(j) = {}
      BY <3>1
    <3> QED
      BY <2>3, <3>2
  <2> QED
    BY <2>2, <2>3
<1>4. IF ran[j] > 0 THEN \E x : Runs(j) = {x} ELSE Runs(j) = {}
  <2>1. ran[j] \in Nat /\ (ran[j] > 0 => ran[j] = 1)
    BY DEF IndInv, TypeOK, OnePlace, SettledApart
  <2>2. CASE ran[j] > 0
    <3>1. 1..ran[j] = {1}
      BY <2>1, <2>2
    <3>2. Runs(j) = {<<"ran", NoThread, 1>>}
      BY <3>1
    <3> QED
      BY <2>2, <3>2
  <2>3. CASE ~(ran[j] > 0)
    <3>1. 1..ran[j] = {}
      BY <2>1, <2>3
    <3> QED
      BY <2>3, <3>1
  <2> QED
    BY <2>2, <2>3
<1>5. IF j \in removed THEN \E x : TakenOut(j) = {x} ELSE TakenOut(j) = {}
  <2>1. j \in removed => TakenOut(j) = {<<"removed", NoThread, 1>>}
    OBVIOUS
  <2> QED
    BY <2>1
<1>6. IF j \in lost THEN \E x : Gone(j) = {x} ELSE Gone(j) = {}
  <2>1. j \in lost => Gone(j) = {<<"lost", NoThread, 1>>}
    OBVIOUS
  <2> QED
    BY <2>1
<1> QED
  BY <1>1, <1>2, <1>3, <1>4, <1>5, <1>6

\* A job that was handed over to then() is at one place and one only: in the
\* call, in the queue, in the hands of go(), run once, removed, or lost
\* behind a job that raised (README.md:217, signals.py:117-143, 157-186).
THEOREM JobsConserved == Spec => []JobConservation
<1>1. IndInv /\ OnePlace => JobConservation
  <2> SUFFICES ASSUME IndInv, OnePlace, NEW j \in Jobs
               PROVE  Cardinality(Places(j)) = IF j \in attached THEN 1 ELSE 0
    BY DEF JobConservation
  <2> DEFINE called == \E t \in Threads : Handing(t) /\ arg[t] = j
             queued == j \in ToSet(jobQueue)
             taken == \E t \in Threads : j \in ToSet(jobs[t])
             done == ran[j] > 0
             out == j \in removed
             gone == j \in lost
  <2>1. /\ IF called THEN \E x : InCall(j) = {x} ELSE InCall(j) = {}
        /\ IF queued THEN \E x : InQueue(j) = {x} ELSE InQueue(j) = {}
        /\ IF taken THEN \E x : InHands(j) = {x} ELSE InHands(j) = {}
        /\ IF done THEN \E x : Runs(j) = {x} ELSE Runs(j) = {}
        /\ IF out THEN \E x : TakenOut(j) = {x} ELSE TakenOut(j) = {}
        /\ IF gone THEN \E x : Gone(j) = {x} ELSE Gone(j) = {}
    BY PartsOfPlaces
  <2>2. j \in Settled <=> out \/ gone \/ done
    BY DEF Settled, Done
  <2>3. called => j \in attached /\ ~queued /\ ~taken /\ j \notin Settled
    BY HandingJob
  <2>4. queued => j \in attached /\ ~taken /\ j \notin Settled
    BY DEF OnePlace, QueueApart, TakenApart
  <2>5. taken => j \in attached /\ j \notin Settled
    BY DEF OnePlace, TakenApart
  <2>6. /\ j \in Settled => j \in attached
        /\ done => ~out /\ ~gone
        /\ ~(out /\ gone)
    BY DEF OnePlace, SettledApart
  <2>7. j \in attached => called \/ queued \/ taken \/ j \in Settled
    BY DEF OnePlace, NoneVanished
  <2> HIDE DEF called, queued, taken, done, out, gone
  <2>8. CASE j \in attached
    <3>1. \E x : Places(j) = {x}
      BY <2>1, <2>2, <2>3, <2>4, <2>5, <2>6, <2>7, <2>8 DEF Places
    <3> QED
      BY <2>8, <3>1, FS_Singleton
  <2>9. CASE j \notin attached
    <3>1. Places(j) = {}
      BY <2>1, <2>2, <2>3, <2>4, <2>5, <2>6, <2>9 DEF Places
    <3> QED
      BY <2>9, <3>1, FS_EmptySet
  <2> QED
    BY <2>8, <2>9
<1> QED
  BY <1>1, IndInvHolds, OnePlaceHolds, PTL
-----------------------------------------------------------------------------
(***************************************************************************)
(* Signals takes the steps of AbstractSignal and no other.                 *)
(***************************************************************************)
\* What is due, element by element.
LEMMA DueJobs ==
  \A j : j \in Due <=> \/ j \in ToSet(jobQueue)
                       \/ \E t \in Threads : j \in ToSet(jobs[t])
                       \/ \E t \in Threads : pc[t] = "run_now" /\ arg[t] = j
  BY DEF Due

\* A step that moves no job between the lists and starts or ends no run_now
\* leaves the same jobs due.
LEMMA SameDue ==
  ASSUME UNCHANGED <<jobQueue, jobs>>,
         \A u \in Threads : (pc'[u] = "run_now") <=> (pc[u] = "run_now"),
         \A u \in Threads : pc[u] = "run_now" => arg'[u] = arg[u]
  PROVE  Due' = Due
<1>1. {arg'[t] : t \in {u \in Threads : pc'[u] = "run_now"}}
        = {arg[t] : t \in {u \in Threads : pc[u] = "run_now"}}
  OBVIOUS
<1> QED
  BY <1>1 DEF Due

\* Nobody is blocked or unblocked by a step that leaves this place of nobody.
LEMMA SameBlocked ==
  ASSUME \A u \in Threads : (pc'[u] = "blocked") <=> (pc[u] = "blocked")
  PROVE  Blocked' = Blocked
  BY DEF Blocked

\* A job in the hands of a call of then() is neither due nor run, unless that
\* call is about to run it.
LEMMA HandingNotDue ==
  ASSUME IndInv, OnePlace, NEW t \in Threads, Handing(t), pc[t] # "run_now"
  PROVE  arg[t] \notin Due \cup Done
<1>1. \A u \in Threads : pc[u] = "run_now" => Handing(u)
  BY DEF IndInv, LockInv, Handing
<1>2. \A u \in Threads : pc[u] = "run_now" => arg[u] # arg[t]
  BY <1>1, HandingJob
<1> QED
  BY <1>2, HandingJob, DueJobs DEF Settled

\* Every step of a method is a step of the promise, or does not concern it.
LEMMA NextPromise ==
  IndInv /\ OnePlace /\ [Next]_vars => [Promise!Next]_(Promise!vars)
<1> SUFFICES ASSUME IndInv, OnePlace, [Next]_vars
             PROVE  Promise!Next \/ UNCHANGED Promise!vars
  OBVIOUS
<1> USE SignalAssumption DEF SignalAssumption
<1>t. TypeOK
  BY DEF IndInv
<1>s. UNCHANGED <<go, Blocked, Due, Done>> => UNCHANGED Promise!vars
  BY DEF Promise!vars
<1>1. ASSUME NEW t \in Threads, Wait(t)
      PROVE  UNCHANGED <<go, Blocked, Due, Done>>
  <2>1. UNCHANGED <<go, ran, jobQueue, jobs>>
    BY <1>1 DEF Wait, Enter, shared, hist
  <2>2. \A u \in Threads : /\ (pc'[u] = "run_now") <=> (pc[u] = "run_now")
                           /\ (pc'[u] = "blocked") <=> (pc[u] = "blocked")
                           /\ pc[u] = "run_now" => arg'[u] = arg[u]
    BY <1>1, <1>t DEF Wait, Enter, shared, hist, TypeOK
  <2>3. Blocked' = Blocked
    BY <2>2, SameBlocked
  <2>4. Due' = Due
    BY <2>1, <2>2, SameDue
  <2> QED
    BY <2>1, <2>3, <2>4 DEF Done
<1>2. ASSUME NEW t \in Threads, Go(t)
      PROVE  UNCHANGED <<go, Blocked, Due, Done>>
  <2>1. UNCHANGED <<go, ran, jobQueue, jobs>>
    BY <1>2 DEF Go, Enter, shared, hist
  <2>2. \A u \in Threads : /\ (pc'[u] = "run_now") <=> (pc[u] = "run_now")
                           /\ (pc'[u] = "blocked") <=> (pc[u] = "blocked")
                           /\ pc[u] = "run_now" => arg'[u] = arg[u]
    BY <1>2, <1>t DEF Go, Enter, shared, hist, TypeOK
  <2>3. Blocked' = Blocked
    BY <2>2, SameBlocked
  <2>4. Due' = Due
    BY <2>1, <2>2, SameDue
  <2> QED
    BY <2>1, <2>3, <2>4 DEF Done
<1>3. ASSUME NEW t \in Threads, NEW j \in Jobs, Then(t, j)
      PROVE  UNCHANGED <<go, Blocked, Due, Done>>
  <2>1. UNCHANGED <<go, ran, jobQueue, jobs>>
    BY <1>3 DEF Then, Enter, shared
  <2>2. \A u \in Threads : /\ (pc'[u] = "run_now") <=> (pc[u] = "run_now")
                           /\ (pc'[u] = "blocked") <=> (pc[u] = "blocked")
                           /\ pc[u] = "run_now" => arg'[u] = arg[u]
    BY <1>3, <1>t DEF Then, Enter, shared, TypeOK
  <2>3. Blocked' = Blocked
    BY <2>2, SameBlocked
  <2>4. Due' = Due
    BY <2>1, <2>2, SameDue
  <2> QED
    BY <2>1, <2>3, <2>4 DEF Done
<1>4. ASSUME NEW t \in Threads, NEW j \in Jobs, RemoveThen(t, j)
      PROVE  UNCHANGED <<go, Blocked, Due, Done>>
  <2>1. UNCHANGED <<go, ran, jobQueue, jobs>>
    BY <1>4 DEF RemoveThen, Enter, shared, hist
  <2>2. \A u \in Threads : /\ (pc'[u] = "run_now") <=> (pc[u] = "run_now")
                           /\ (pc'[u] = "blocked") <=> (pc[u] = "blocked")
                           /\ pc[u] = "run_now" => arg'[u] = arg[u]
    BY <1>4, <1>t DEF RemoveThen, Enter, shared, hist, TypeOK
  <2>3. Blocked' = Blocked
    BY <2>2, SameBlocked
  <2>4. Due' = Due
    BY <2>1, <2>2, SameDue
  <2> QED
    BY <2>1, <2>3, <2>4 DEF Done
<1>5. ASSUME NEW t \in Threads, Acquire(t)
      PROVE  UNCHANGED <<go, Blocked, Due, Done>>
  <2>1. UNCHANGED <<go, ran, jobQueue, jobs>>
    BY <1>5 DEF Acquire, hist
  <2>2. \A u \in Threads : /\ (pc'[u] = "run_now") <=> (pc[u] = "run_now")
                           /\ (pc'[u] = "blocked") <=> (pc[u] = "blocked")
                           /\ pc[u] = "run_now" => arg'[u] = arg[u]
    BY <1>5, <1>t DEF Acquire, hist, TypeOK
  <2>3. Blocked' = Blocked
    BY <2>2, SameBlocked
  <2>4. Due' = Due
    BY <2>1, <2>2, SameDue
  <2> QED
    BY <2>1, <2>3, <2>4 DEF Done
<1>6. ASSUME NEW t \in Threads, TakeStoppers(t)
      PROVE  UNCHANGED <<go, Blocked, Due, Done>>
  <2>1. UNCHANGED <<go, ran, jobQueue, jobs>>
    BY <1>6 DEF TakeStoppers, hist
  <2>2. \A u \in Threads : /\ (pc'[u] = "run_now") <=> (pc[u] = "run_now")
                           /\ (pc'[u] = "blocked") <=> (pc[u] = "blocked")
                           /\ pc[u] = "run_now" => arg'[u] = arg[u]
    BY <1>6, <1>t DEF TakeStoppers, hist, TypeOK
  <2>3. Blocked' = Blocked
    BY <2>2, SameBlocked
  <2>4. Due' = Due
    BY <2>1, <2>2, SameDue
  <2> QED
    BY <2>1, <2>3, <2>4 DEF Done
<1>7. ASSUME NEW t \in Threads, ReleaseOne(t)
      PROVE  UNCHANGED <<go, Blocked, Due, Done>>
  <2>1. UNCHANGED <<go, ran, jobQueue, jobs>>
    BY <1>7 DEF ReleaseOne, hist
  <2>2. \A u \in Threads : /\ (pc'[u] = "run_now") <=> (pc[u] = "run_now")
                           /\ (pc'[u] = "blocked") <=> (pc[u] = "blocked")
                           /\ pc[u] = "run_now" => arg'[u] = arg[u]
    BY <1>7, <1>t DEF ReleaseOne, hist, TypeOK
  <2>3. Blocked' = Blocked
    BY <2>2, SameBlocked
  <2>4. Due' = Due
    BY <2>1, <2>2, SameDue
  <2> QED
    BY <2>1, <2>3, <2>4 DEF Done
<1>8. ASSUME NEW t \in Threads, ReleaseDone(t)
      PROVE  UNCHANGED <<go, Blocked, Due, Done>>
  <2>1. UNCHANGED <<go, ran, jobQueue, jobs>>
    BY <1>8 DEF ReleaseDone, shared, hist
  <2>2. \A u \in Threads : /\ (pc'[u] = "run_now") <=> (pc[u] = "run_now")
                           /\ (pc'[u] = "blocked") <=> (pc[u] = "blocked")
                           /\ pc[u] = "run_now" => arg'[u] = arg[u]
    BY <1>8, <1>t DEF ReleaseDone, shared, hist, TypeOK
  <2>3. Blocked' = Blocked
    BY <2>2, SameBlocked
  <2>4. Due' = Due
    BY <2>1, <2>2, SameDue
  <2> QED
    BY <2>1, <2>3, <2>4 DEF Done
<1>9. ASSUME NEW t \in Threads, GoReturns(t)
      PROVE  UNCHANGED <<go, Blocked, Due, Done>>
  <2>1. UNCHANGED <<go, ran, jobQueue, jobs>>
    BY <1>9 DEF GoReturns, shared, hist
  <2>2. \A u \in Threads : /\ (pc'[u] = "run_now") <=> (pc[u] = "run_now")
                           /\ (pc'[u] = "blocked") <=> (pc[u] = "blocked")
                           /\ pc[u] = "run_now" => arg'[u] = arg[u]
    BY <1>9, <1>t DEF GoReturns, shared, hist, TypeOK
  <2>3. Blocked' = Blocked
    BY <2>2, SameBlocked
  <2>4. Due' = Due
    BY <2>1, <2>2, SameDue
  <2> QED
    BY <2>1, <2>3, <2>4 DEF Done
<1>10. ASSUME NEW t \in Threads, Recheck(t)
       PROVE  Promise!Next \/ UNCHANGED <<go, Blocked, Due, Done>>
  <2>1. UNCHANGED <<go, ran, jobQueue, jobs, arg>> /\ pc[t] = "recheck"
    BY <1>10 DEF Recheck, hist
  <2>2. \A u \in Threads \ {t} : pc'[u] = pc[u]
    BY <1>10, <1>t DEF Recheck, TypeOK
  <2>3. pc'[t] \in {"commit", "run_now", "idle"}
    BY <1>10, <1>t DEF Recheck, TypeOK
  <2>4. Blocked' = Blocked
    BY <2>1, <2>2, <2>3, SameBlocked
  <2>5. Done' = Done
    BY <2>1 DEF Done
  <2>6. CASE pc'[t] = "run_now"
    <3>1. op[t] = "then" /\ arg[t] \in Jobs
      BY <1>10, <1>t, <2>6 DEF Recheck, TypeOK, IndInv, LockInv
    <3>2. arg[t] \notin Due \cup Done
      BY <2>1, <3>1, HandingNotDue DEF Handing, Locked
    <3>3. {arg'[v] : v \in {u \in Threads : pc'[u] = "run_now"}}
            = {arg[v] : v \in {u \in Threads : pc[u] = "run_now"}} \cup {arg[t]}
      BY <2>1, <2>2, <2>6
    <3>4. Due' = Due \cup {arg[t]}
      BY <2>1, <3>3 DEF Due
    <3>5. Promise!Attach(arg[t])
      BY <2>1, <2>4, <2>5, <3>2, <3>4 DEF Promise!Attach
    <3> QED
      BY <3>1, <3>5 DEF Promise!Next
  <2>7. CASE pc'[t] # "run_now"
    <3>1. Due' = Due
      BY <2>1, <2>2, <2>7, SameDue
    <3> QED
      BY <2>1, <2>4, <2>5, <3>1
  <2> QED
    BY <2>6, <2>7
<1>11. ASSUME NEW t \in Threads, CommitWait(t)
       PROVE  Promise!Next
  <2>1. /\ UNCHANGED <<go, ran, jobQueue, jobs, arg>>
        /\ pc[t] = "commit" /\ pc' = [pc EXCEPT ![t] = "blocked"]
    BY <1>11 DEF CommitWait, Commit, hist
  <2>2. ~go
    BY <2>1 DEF IndInv, LockInv
  <2>3. pc'[t] = "blocked" /\ \A u \in Threads \ {t} : pc'[u] = pc[u]
    BY <1>t, <2>1 DEF TypeOK
  <2>4. t \notin Blocked /\ Blocked' = Blocked \cup {t}
    BY <2>1, <2>3 DEF Blocked
  <2>5. Due' = Due
    BY <2>1, <2>3, SameDue
  <2>6. Promise!BeginWait(t)
    BY <2>1, <2>2, <2>4, <2>5 DEF Promise!BeginWait, Done
  <2> QED
    BY <2>6 DEF Promise!Next
<1>12. ASSUME NEW t \in Threads, CommitThen(t)
       PROVE  Promise!Next
  <2>1. /\ UNCHANGED <<go, ran, jobs, arg>> /\ jobQueue' = Append(jobQueue, arg[t])
        /\ op[t] = "then" /\ pc[t] = "commit" /\ pc' = [pc EXCEPT ![t] = "idle"]
    BY <1>12 DEF CommitThen, Commit, hist
  <2>2. arg[t] \in Jobs /\ jobQueue \in Seq(Jobs)
    BY <1>t, <2>1 DEF IndInv, LockInv, TypeOK
  <2>3. pc'[t] = "idle" /\ \A u \in Threads \ {t} : pc'[u] = pc[u]
    BY <1>t, <2>1 DEF TypeOK
  <2>4. arg[t] \notin Due \cup Done
    BY <2>1, HandingNotDue DEF Handing, Locked
  <2>5. {arg'[v] : v \in {u \in Threads : pc'[u] = "run_now"}}
          = {arg[v] : v \in {u \in Threads : pc[u] = "run_now"}}
    BY <2>1, <2>3
  <2>6. ToSet(jobQueue') = ToSet(jobQueue) \cup {arg[t]}
    BY <2>1, <2>2, AppendEntries
  <2>7. Due' = Due \cup {arg[t]}
    BY <2>1, <2>5, <2>6 DEF Due
  <2>8. Blocked' = Blocked
    BY <2>1, <2>3, SameBlocked
  <2>9. Promise!Attach(arg[t])
    BY <2>1, <2>4, <2>7, <2>8 DEF Promise!Attach, Done
  <2> QED
    BY <2>2, <2>9 DEF Promise!Next
<1>13. ASSUME NEW t \in Threads, CommitRemoveThen(t)
       PROVE  Promise!Next \/ UNCHANGED <<go, Blocked, Due, Done>>
  <2>1. /\ UNCHANGED <<go, ran, jobs, arg>>
        /\ pc[t] = "commit" /\ pc' = [pc EXCEPT ![t] = "idle"]
    BY <1>13 DEF CommitRemoveThen, Commit
  <2>2. pc'[t] = "idle" /\ \A u \in Threads \ {t} : pc'[u] = pc[u]
    BY <1>t, <2>1 DEF TypeOK
  <2>3. Blocked' = Blocked /\ Done' = Done
    BY <2>1, <2>2, SameBlocked DEF Done
  <2>4. CASE UNCHANGED jobQueue
    <3>1. Due' = Due
      BY <2>1, <2>2, <2>4, SameDue
    <3> QED
      BY <2>1, <2>3, <3>1
  <2>5. ASSUME NEW i \in DOMAIN jobQueue, jobQueue[i] = arg[t],
               jobQueue' = RemoveAt(jobQueue, i)
        PROVE  Promise!Next
    <3>1. jobQueue \in Seq(Jobs)
      BY <1>t DEF TypeOK
    <3>2. ToSet(jobQueue') = ToSet(jobQueue) \ {arg[t]}
      BY <2>5, <3>1, RemoveAtEntries DEF OnePlace, QueueApart
    <3>3. arg[t] \in ToSet(jobQueue) /\ arg[t] \in Jobs
      BY <2>5, <3>1 DEF ToSet
    <3>4. \A u \in Threads : arg[t] \notin ToSet(jobs[u])
      BY <3>3 DEF OnePlace, TakenApart
    <3>5. \A u \in Threads : pc[u] = "run_now" => Handing(u)
      BY DEF IndInv, LockInv, Handing
    <3>6. \A u \in Threads : pc[u] = "run_now" => arg[u] # arg[t]
      BY <3>3, <3>5, HandingJob
    <3>7. {arg'[v] : v \in {u \in Threads : pc'[u] = "run_now"}}
            = {arg[v] : v \in {u \in Threads : pc[u] = "run_now"}}
      BY <2>1, <2>2
    <3>8. arg[t] \in Due /\ Due' = Due \ {arg[t]}
      BY <2>1, <3>2, <3>3, <3>4, <3>6, <3>7 DEF Due
    <3>9. ~go
      BY <2>1 DEF IndInv, LockInv
    <3>10. Promise!Detach(arg[t])
      BY <2>1, <2>3, <3>8, <3>9 DEF Promise!Detach
    <3> QED
      BY <3>3, <3>10 DEF Promise!Next
  <2> QED
    BY <1>13, <2>4, <2>5 DEF CommitRemoveThen
<1>14. ASSUME NEW t \in Threads, CommitGo(t)
       PROVE  Promise!Next
  <2>1. /\ UNCHANGED <<ran, jobQueue, jobs, arg>> /\ go' = TRUE
        /\ pc[t] = "commit" /\ pc' = [pc EXCEPT ![t] = "take_jobs"]
    BY <1>14 DEF CommitGo, Commit, hist
  <2>2. ~go
    BY <2>1 DEF IndInv, LockInv
  <2>3. pc'[t] = "take_jobs" /\ \A u \in Threads \ {t} : pc'[u] = pc[u]
    BY <1>t, <2>1 DEF TypeOK
  <2>4. Blocked' = Blocked
    BY <2>1, <2>3, SameBlocked
  <2>5. Due' = Due
    BY <2>1, <2>3, SameDue
  <2>6. Promise!Go
    BY <2>1, <2>2, <2>4, <2>5 DEF Promise!Go, Done
  <2> QED
    BY <2>6 DEF Promise!Next
<1>15. ASSUME NEW t \in Threads, TakeJobs(t)
       PROVE  UNCHANGED <<go, Blocked, Due, Done>>
  <2>1. /\ UNCHANGED <<go, ran, arg>> /\ jobQueue' = <<>>
        /\ jobs' = [jobs EXCEPT ![t] = jobQueue]
        /\ pc[t] = "take_jobs" /\ pc' = [pc EXCEPT ![t] = "take_stoppers"]
    BY <1>15 DEF TakeJobs, hist
  <2>2. pc'[t] = "take_stoppers" /\ \A u \in Threads \ {t} : pc'[u] = pc[u]
    BY <1>t, <2>1 DEF TypeOK
  <2>3. \A u \in Threads : jobs[u] = <<>>
    BY <2>1 DEF IndInv, GoerInv, Harvesting
  <2>4. /\ ToSet(jobQueue') = {} /\ ToSet(jobs'[t]) = ToSet(jobQueue)
        /\ \A u \in Threads : ToSet(jobs[u]) = {}
        /\ \A u \in Threads \ {t} : ToSet(jobs'[u]) = {}
    BY <1>t, <2>1, <2>3, EmptyEntries DEF TypeOK
  <2>5. (UNION {ToSet(jobs'[u]) : u \in Threads}) = ToSet(jobQueue)
    BY <2>4
  <2>6. (UNION {ToSet(jobs[u]) : u \in Threads}) = {}
    BY <2>4
  <2>7. {arg'[v] : v \in {u \in Threads : pc'[u] = "run_now"}}
          = {arg[v] : v \in {u \in Threads : pc[u] = "run_now"}}
    BY <2>1, <2>2
  <2>8. Due' = Due
    BY <2>4, <2>5, <2>6, <2>7 DEF Due
  <2>9. Blocked' = Blocked
    BY <2>1, <2>2, SameBlocked
  <2> QED
    BY <2>1, <2>8, <2>9 DEF Done
<1>16. ASSUME NEW t \in Threads, RunJob(t)
       PROVE  Promise!Next
  <2> DEFINE head == Head(jobs[t])
             rest == Tail(jobs[t])
             left == IF head \in Escaping THEN {} ELSE ToSet(rest)
             dropped == IF head \in Escaping THEN ToSet(rest) ELSE {}
  <2>1. /\ UNCHANGED <<go, arg, jobQueue>> /\ ran' = [ran EXCEPT ![head] = @ + 1]
        /\ pc[t] = "run"
    BY <1>16 DEF RunJob, shared
  <2>2. jobs[t] \in Seq(Jobs) /\ jobs[t] # <<>> /\ head \in Jobs
    BY <1>16, <1>t DEF RunJob, TypeOK
  <2>3. ToSet(jobs[t]) = {head} \cup ToSet(rest) /\ head \notin ToSet(rest)
    BY <2>2, TailEntries DEF OnePlace, TakenApart
  <2>4. /\ jobs'[t] = IF head \in Escaping THEN <<>> ELSE rest
        /\ \A u \in Threads \ {t} : jobs'[u] = jobs[u]
        /\ pc'[t] \in {"run", "idle"}
        /\ \A u \in Threads \ {t} : pc'[u] = pc[u]
    BY <1>16, <1>t DEF RunJob, TypeOK
  <2>5. \A u \in Threads \ {t} : jobs[u] = <<>>
    BY <2>1 DEF IndInv, GoerInv, Harvesting
  <2>6. /\ ToSet(jobs'[t]) = left
        /\ \A u \in Threads \ {t} : ToSet(jobs[u]) = {} /\ ToSet(jobs'[u]) = {}
    BY <2>4, <2>5, EmptyEntries
  <2>7. ToSet(jobs[t]) \cap ToSet(jobQueue) = {}
    BY DEF OnePlace, TakenApart
  <2>8. \A u \in Threads : pc[u] = "run_now" => arg[u] \notin ToSet(jobs[t])
    <3>1. \A u \in Threads : pc[u] = "run_now" => Handing(u)
      BY DEF IndInv, LockInv, Handing
    <3> QED
      BY <3>1, HandingJob
  <2>9. ran[head] \in Nat /\ ran'[head] = ran[head] + 1 /\ \A j \in Jobs \ {head} : ran'[j] = ran[j]
    BY <1>t, <2>1, <2>2 DEF TypeOK
  <2>10. go
    BY <2>1 DEF IndInv, GoerInv, Harvesting
  <2>11. {arg'[v] : v \in {u \in Threads : pc'[u] = "run_now"}}
          = {arg[v] : v \in {u \in Threads : pc[u] = "run_now"}}
    BY <2>1, <2>4
  <2>12. (UNION {ToSet(jobs'[u]) : u \in Threads}) = left
    BY <2>6
  <2>13. (UNION {ToSet(jobs[u]) : u \in Threads}) = {head} \cup ToSet(rest)
    BY <2>3, <2>6
  <2> DEFINE now == {arg[v] : v \in {u \in Threads : pc[u] = "run_now"}}
  <2>14. now \cap ({head} \cup ToSet(rest)) = {}
    BY <2>3, <2>8
  <2>15. Done' = Done \cup {head}
    BY <2>2, <2>9 DEF Done
  <2>16. Due' = ToSet(jobQueue) \cup left \cup now
    BY <2>1, <2>11, <2>12 DEF Due
  <2>17. Due = ToSet(jobQueue) \cup ({head} \cup ToSet(rest)) \cup now
    BY <2>13 DEF Due
  <2>18. Blocked' = Blocked
    BY <2>1, <2>4, SameBlocked
  <2> HIDE DEF head, rest, now
  <2>19. /\ head \in Due
         /\ dropped \in SUBSET (Due \ {head})
         /\ head \notin Escaping => dropped = {}
         /\ Due' = Due \ ({head} \cup dropped)
    BY <2>3, <2>7, <2>14, <2>16, <2>17
  <2>20. Promise!RunJob(head)
    BY <2>1, <2>10, <2>15, <2>18, <2>19 DEF Promise!RunJob
  <2> QED
    BY <2>2, <2>20 DEF Promise!Next
<1>17. ASSUME NEW t \in Threads, RunNow(t)
       PROVE  Promise!Next
  <2>1. /\ UNCHANGED <<go, arg, jobQueue, jobs>> /\ ran' = [ran EXCEPT ![arg[t]] = @ + 1]
        /\ pc[t] = "run_now" /\ pc' = [pc EXCEPT ![t] = "idle"]
    BY <1>17 DEF RunNow, shared
  <2>2. Handing(t) /\ arg[t] \in Jobs
    BY <2>1 DEF IndInv, LockInv, Handing
  <2>3. pc'[t] = "idle" /\ \A u \in Threads \ {t} : pc'[u] = pc[u]
    BY <1>t, <2>1 DEF TypeOK
  <2>4. \A u \in Threads : pc[u] = "run_now" => Handing(u)
    BY DEF IndInv, LockInv, Handing
  <2>5. /\ arg[t] \notin ToSet(jobQueue)
        /\ \A u \in Threads : arg[t] \notin ToSet(jobs[u])
        /\ \A u \in Threads \ {t} : pc[u] = "run_now" => arg[u] # arg[t]
    BY <2>2, <2>4, HandingJob
  <2>6. {arg'[v] : v \in {u \in Threads : pc'[u] = "run_now"}}
          = {arg[v] : v \in {u \in Threads : pc[u] = "run_now"}} \ {arg[t]}
    BY <2>1, <2>3, <2>5
  <2>7. arg[t] \in Due /\ Due' = Due \ {arg[t]}
    BY <2>1, <2>5, <2>6 DEF Due
  <2>8. Done' = Done \cup {arg[t]}
    <3>1. ran[arg[t]] \in Nat /\ ran'[arg[t]] = ran[arg[t]] + 1
          /\ \A j \in Jobs \ {arg[t]} : ran'[j] = ran[j]
      BY <1>t, <2>1, <2>2 DEF TypeOK
    <3> QED
      BY <2>2, <3>1 DEF Done
  <2>9. Blocked' = Blocked
    BY <2>1, <2>3, SameBlocked
  <2>10. go
    BY <2>1 DEF IndInv, GoerInv
  <2>11. \E dropped \in SUBSET (Due \ {arg[t]}) :
            /\ arg[t] \notin Escaping => dropped = {}
            /\ Due' = Due \ ({arg[t]} \cup dropped)
    <3> WITNESS {} \in SUBSET (Due \ {arg[t]})
    <3> QED
      BY <2>7
  <2>12. Promise!RunJob(arg[t])
    BY <2>1, <2>7, <2>8, <2>9, <2>10, <2>11 DEF Promise!RunJob
  <2> QED
    BY <2>2, <2>12 DEF Promise!Next
<1>18. ASSUME NEW t \in Threads, Unblock(t)
       PROVE  Promise!Next
  <2>1. /\ UNCHANGED <<go, ran, jobQueue, jobs, arg>> /\ t \in opened
        /\ pc[t] = "blocked" /\ pc' = [pc EXCEPT ![t] = "idle"]
    BY <1>18 DEF Unblock, shared, hist
  <2>2. go
    BY <2>1 DEF IndInv, GoerInv
  <2>3. pc'[t] = "idle" /\ \A u \in Threads \ {t} : pc'[u] = pc[u]
    BY <1>t, <2>1 DEF TypeOK
  <2>4. t \in Blocked /\ Blocked' = Blocked \ {t}
    BY <2>1, <2>3 DEF Blocked
  <2>5. Due' = Due
    BY <2>1, <2>3, SameDue
  <2>6. Promise!EndWait(t)
    BY <2>1, <2>2, <2>4, <2>5 DEF Promise!EndWait, Done
  <2> QED
    BY <2>6 DEF Promise!Next
<1>19. CASE UNCHANGED vars
  BY <1>19, <1>s DEF vars, Blocked, Due, Done
<1> QED
  BY <1>s, <1>1, <1>2, <1>3, <1>4, <1>5, <1>6, <1>7, <1>8, <1>9, <1>10, <1>11, <1>12, <1>13, <1>14, <1>15, <1>16, <1>17, <1>18, <1>19 DEF Next, Call, Step, Harvest

\* The safety part of ImplementsPromise, for every set of threads and jobs: a
\* signal is activated once, a wait() ends only after that, and a job that
\* then() has delivered runs once, not before it and not after remove_then()
\* took it back (signals.py:93-186).
THEOREM SafePromise == Spec => Promise!Init /\ [][Promise!Next]_(Promise!vars)
<1>1. Init => Promise!Init
  <2> SUFFICES ASSUME Init PROVE Promise!Init
    OBVIOUS
  <2>1. Due = {}
    BY EmptyEntries DEF Init, Due
  <2> QED
    BY <2>1 DEF Init, Promise!Init, Blocked, Done
<1> QED
  BY <1>1, InitIndInv, NextIndInv, InitOnePlace, NextOnePlace, NextPromise, PTL DEF Spec
=============================================================================
