----------------------------- MODULE PoolProofs -----------------------------
(***************************************************************************)
(* For any number of workers and tasks: every running task is joined by a  *)
(* worker, and past the `with` block all is done.                          *)
(***************************************************************************)
EXTENDS Pool, TLAPS

\* The tasks in the queue are those that were put there and not taken.
QueueInv == /\ \A i, j \in 1..Len(queue) : queue[i] = queue[j] => i = j
            /\ \A i \in 1..Len(queue) : task[queue[i]] = "queued"
            /\ \A t \in Tasks : task[t] = "queued" => \E i \in 1..Len(queue) : queue[i] = t

\* A worker that is about to start a task is the only one that has it, and one
\* that joins it looks at its children only.
StarterHolds == \A w \in Workers : worker[w] = "start" => holds[w] \in Tasks /\ task[holds[w]] = "taken"
OneStarter == \A w, v \in Workers :
                 worker[w] = "start" /\ worker[v] = "start" /\ holds[w] = holds[v] => w = v
TakenIsHeld == \A t \in Tasks : task[t] = "taken" => \E w \in Workers : worker[w] = "start" /\ holds[w] = t
JoinerHolds == \A w \in Workers :
                  /\ worker[w] \in {"look", "join"} => holds[w] \in Tasks
                  /\ worker[w] = "join" => seen[w] \subseteq Children(holds[w])
HoldsInv == StarterHolds /\ OneStarter /\ TakenIsHeld /\ JoinerHolds

\* A worker that was not told to stop leaves a queue that stays empty.
LeftInv == /\ \A w \in Workers : worker[w] = "left" => w \in told \/ (closed /\ queue = <<>>)
           /\ owner = "outside" => \A w \in Workers : worker[w] = "left"

IndInv == TypeOK /\ QueueInv /\ HoldsInv /\ LeftInv /\ Supervised

-----------------------------------------------------------------------------
\* The initial state satisfies the inductive invariant.
LEMMA InitIndInv == Init => IndInv
<1> SUFFICES ASSUME Init PROVE IndInv
    OBVIOUS
<1> USE DEF Init
<1>0. closed \in BOOLEAN
    OBVIOUS
<1>1. TypeOK
    BY <1>0 DEF TypeOK
<1>2. QueueInv /\ HoldsInv /\ LeftInv
    BY DEF QueueInv, LeftInv, HoldsInv, StarterHolds, OneStarter, TakenIsHeld, JoinerHolds
<1>3. Supervised
    BY DEF Supervised, Running
<1> QED
    BY <1>1, <1>2, <1>3 DEF IndInv

\* Every step keeps the type invariant.
LEMMA TypeNext == TypeOK /\ [Next]_vars => TypeOK'
<1> SUFFICES ASSUME TypeOK, [Next]_vars
             PROVE  TypeOK'
    OBVIOUS
<1> USE PoolAssumption DEF PoolAssumption, TypeOK, Running, Unstarted, Become, WorkerGoto
<1>1. ASSUME NEW t \in Tasks, Run(t) PROVE TypeOK'
    BY <1>1 DEF Run
<1>2. ASSUME NEW t \in Tasks, RunRefused(t) PROVE TypeOK'
    BY <1>2 DEF RunRefused
<1>3. ASSUME NEW w \in Workers, Loop(w) PROVE TypeOK'
    BY <1>3 DEF Loop
<1>4. ASSUME NEW w \in Workers, Pop(w) PROVE TypeOK'
    BY <1>4 DEF Pop
<1>5. ASSUME NEW w \in Workers, PopClosed(w) \/ PopNone(w) PROVE TypeOK'
    BY <1>5 DEF PopClosed, PopNone
<1>6. ASSUME NEW w \in Workers, Start(w) \/ StartFails(w) PROVE TypeOK'
    BY <1>6, SMTT(30) DEF Start, StartFails
<1>7. ASSUME NEW w \in Workers, Look(w) PROVE TypeOK'
    BY <1>7 DEF Look, Children
<1>8. ASSUME NEW w \in Workers, Join(w) \/ JoinRaises(w) \/ JoinTimesOut(w) PROVE TypeOK'
    BY <1>8 DEF Join, JoinRaises, JoinTimesOut
<1>9. ASSUME NEW t \in Tasks, Wait(t) \/ WaitOver(t) \/ End(t) PROVE TypeOK'
    BY <1>9 DEF Wait, WaitOver, End
<1>10. ASSUME NEW t \in Tasks, NEW fails \in BOOLEAN, Finish(t, fails) PROVE TypeOK'
    BY <1>10 DEF Finish
<1>11. CASE Exit \/ WorkersJoined \/ Stop
    BY <1>11 DEF Exit, WorkersJoined, Stop
<1>12. ASSUME NEW w \in Workers, Tell(w) PROVE TypeOK'
    BY <1>12 DEF Tell
<1>13. CASE UNCHANGED vars
    BY <1>13 DEF vars
<1> QED
    BY <1>1, <1>2, <1>3, <1>4, <1>5, <1>6, <1>7, <1>8, <1>9, <1>10, <1>11, <1>12, <1>13
    DEF Next, WorkerStep, Ends

\* The queue holds each task once: it is new when it is put there, and no
\* longer queued when it is taken.
LEMMA QueueNext == TypeOK /\ QueueInv /\ HoldsInv /\ [Next]_vars => QueueInv'
<1> SUFFICES ASSUME TypeOK, QueueInv, HoldsInv, [Next]_vars
             PROVE  QueueInv'
    OBVIOUS
<1> USE PoolAssumption DEF PoolAssumption, TypeOK, Become
<1>1. ASSUME NEW t \in Tasks, Run(t) PROVE QueueInv'
  <2>1. /\ task[t] = "new"
        /\ task'[t] = "queued"
        /\ \A k \in Tasks \ {t} : task'[k] = task[k]
    BY <1>1 DEF Run
  <2>2. /\ Len(queue') = Len(queue) + 1
        /\ queue'[Len(queue) + 1] = t
        /\ \A i \in 1..Len(queue) : queue'[i] = queue[i] /\ queue[i] \in Tasks
    BY <1>1 DEF Run
  <2>3. \A i \in 1..Len(queue) : queue[i] # t
    BY <2>1 DEF QueueInv
  <2>4. \A i, j \in 1..Len(queue') : queue'[i] = queue'[j] => i = j
    BY <2>2, <2>3 DEF QueueInv
  <2>5. \A i \in 1..Len(queue') : task'[queue'[i]] = "queued"
    BY <2>1, <2>2, <2>3 DEF QueueInv
  <2>6. ASSUME NEW k \in Tasks, task'[k] = "queued"
        PROVE  \E i \in 1..Len(queue') : queue'[i] = k
    <3>1. CASE k = t
      BY <3>1, <2>2
    <3>2. CASE k # t
      <4>1. PICK i \in 1..Len(queue) : queue[i] = k
        BY <3>2, <2>1, <2>6 DEF QueueInv
      <4> QED
        BY <4>1, <2>2
    <3> QED
      BY <3>1, <3>2
  <2> QED
    BY <2>4, <2>5, <2>6 DEF QueueInv
<1>2. ASSUME NEW w \in Workers, Pop(w) PROVE QueueInv'
  <2>1. /\ queue # <<>>
        /\ Len(queue) \in Nat /\ Len(queue) > 0
        /\ Head(queue) = queue[1] /\ queue[1] \in Tasks
        /\ Len(queue') = Len(queue) - 1
        /\ \A i \in 1..Len(queue) - 1 : queue'[i] = queue[i + 1] /\ queue[i + 1] \in Tasks
    BY <1>2 DEF Pop
  <2>2. /\ task'[queue[1]] = "taken"
        /\ \A k \in Tasks \ {queue[1]} : task'[k] = task[k]
    BY <1>2, <2>1 DEF Pop
  <2>3. \A i \in 1..Len(queue) - 1 : queue'[i] # queue[1]
    BY <2>1 DEF QueueInv
  <2>4. \A i, j \in 1..Len(queue') : queue'[i] = queue'[j] => i = j
    BY <2>1 DEF QueueInv
  <2>5. \A i \in 1..Len(queue') : task'[queue'[i]] = "queued"
    BY <2>1, <2>2, <2>3, SMTT(30) DEF QueueInv
  <2>6. ASSUME NEW t \in Tasks, task'[t] = "queued"
        PROVE  \E i \in 1..Len(queue') : queue'[i] = t
    <3>1. t # queue[1] /\ task[t] = "queued"
      BY <2>2, <2>6
    <3>2. PICK i \in 1..Len(queue) : queue[i] = t
      BY <3>1 DEF QueueInv
    <3>3. i - 1 \in 1..Len(queue') /\ queue'[i - 1] = t
      BY <3>1, <3>2, <2>1
    <3> QED
      BY <3>3
  <2> QED
    BY <2>4, <2>5, <2>6 DEF QueueInv
<1>3. ASSUME queue' = queue, \A t \in Tasks : task'[t] = "queued" <=> task[t] = "queued"
      PROVE  QueueInv'
  <2>1. \A i \in 1..Len(queue) : queue[i] \in Tasks
    OBVIOUS
  <2> QED
    BY <1>3, <2>1 DEF QueueInv
<1>4. ASSUME NEW t \in Tasks, RunRefused(t) PROVE QueueInv'
    BY <1>3, <1>4 DEF RunRefused, MayCall
<1>5. ASSUME NEW w \in Workers, Start(w) \/ StartFails(w) PROVE QueueInv'
    BY <1>3, <1>5 DEF Start, StartFails, HoldsInv, StarterHolds
<1>6. ASSUME NEW t \in Tasks, Wait(t) \/ WaitOver(t) \/ End(t) \/ \E fails \in BOOLEAN : Finish(t, fails)
      PROVE  QueueInv'
    BY <1>3, <1>6 DEF Wait, WaitOver, End, Finish
<1>7. CASE UNCHANGED <<queue, task>>
    BY <1>3, <1>7
<1>8. ASSUME NEW w \in Workers,
             \/ Loop(w) \/ PopClosed(w) \/ PopNone(w) \/ Look(w)
             \/ Join(w) \/ JoinRaises(w) \/ JoinTimesOut(w) \/ Tell(w)
      PROVE  UNCHANGED <<queue, task>>
    BY <1>8 DEF Loop, PopClosed, PopNone, Look, Join, JoinRaises, JoinTimesOut, Tell
<1>9. Exit \/ WorkersJoined \/ Stop \/ UNCHANGED vars => UNCHANGED <<queue, task>>
    BY DEF Exit, WorkersJoined, Stop, vars
<1> QED
    BY <1>1, <1>2, <1>4, <1>5, <1>6, <1>7, <1>8, <1>9 DEF Next, WorkerStep, Ends

\* What a worker holds is its own until it has started it.
LEMMA HoldsNext == TypeOK /\ QueueInv /\ HoldsInv /\ [Next]_vars => HoldsInv'
<1> SUFFICES ASSUME TypeOK, QueueInv, HoldsInv, [Next]_vars
             PROVE  HoldsInv'
    OBVIOUS
<1> USE PoolAssumption DEF PoolAssumption, TypeOK, Become, WorkerGoto,
        StarterHolds, OneStarter, TakenIsHeld, JoinerHolds
<1>1. ASSUME NEW w \in Workers, Pop(w) PROVE HoldsInv'
  <2>1. /\ worker[w] = "pop"
        /\ Head(queue) = queue[1] /\ queue[1] \in Tasks
        /\ task[queue[1]] = "queued"
    BY <1>1 DEF Pop, QueueInv
  <2>2. /\ task'[queue[1]] = "taken"
        /\ \A k \in Tasks \ {queue[1]} : task'[k] = task[k]
        /\ worker'[w] = "start" /\ holds'[w] = queue[1]
        /\ \A v \in Workers \ {w} : worker'[v] = worker[v] /\ holds'[v] = holds[v]
        /\ seen' = seen
    BY <1>1, <2>1 DEF Pop
  <2>3. StarterHolds' /\ OneStarter'
    BY <2>1, <2>2 DEF HoldsInv
  <2>4. TakenIsHeld'
    <3> SUFFICES ASSUME NEW t \in Tasks, task'[t] = "taken"
                 PROVE  \E v \in Workers : worker'[v] = "start" /\ holds'[v] = t
      OBVIOUS
    <3>1. CASE t = queue[1]
      BY <3>1, <2>2
    <3>2. CASE t # queue[1]
      <4>1. PICK v \in Workers : worker[v] = "start" /\ holds[v] = t
        BY <3>2, <2>2 DEF HoldsInv
      <4> QED
        BY <4>1, <2>1, <2>2
    <3> QED
      BY <3>1, <3>2
  <2>5. JoinerHolds'
    BY <2>1, <2>2 DEF HoldsInv
  <2> QED
    BY <2>3, <2>4, <2>5 DEF HoldsInv
<1>2. ASSUME NEW w \in Workers, Start(w) \/ StartFails(w) PROVE HoldsInv'
  <2>1. /\ worker[w] = "start" /\ holds[w] \in Tasks /\ task[holds[w]] = "taken"
        /\ worker'[w] \in {"look", "loop"}
        /\ \A v \in Workers \ {w} : worker'[v] = worker[v]
        /\ task'[holds[w]] \in {"running", "lost"}
        /\ \A k \in Tasks \ {holds[w]} : task'[k] = task[k]
        /\ holds' = holds /\ seen' = seen
    BY <1>2 DEF Start, StartFails, HoldsInv
  <2>2. \A v \in Workers : worker'[v] = "start" => v # w /\ worker[v] = "start" /\ holds[v] # holds[w]
    BY <2>1 DEF HoldsInv
  <2>3. TakenIsHeld'
    <3> SUFFICES ASSUME NEW t \in Tasks, task'[t] = "taken"
                 PROVE  \E v \in Workers : worker'[v] = "start" /\ holds'[v] = t
      OBVIOUS
    <3>1. t # holds[w] /\ task[t] = "taken"
      BY <2>1
    <3>2. PICK v \in Workers : worker[v] = "start" /\ holds[v] = t
      BY <3>1 DEF HoldsInv
    <3> QED
      BY <2>1, <3>1, <3>2
  <2>4. StarterHolds' /\ OneStarter'
    BY <2>1, <2>2 DEF HoldsInv
  <2>5. JoinerHolds'
    BY <2>1 DEF HoldsInv
  <2> QED
    BY <2>3, <2>4, <2>5 DEF HoldsInv
<1>3. ASSUME holds' = holds, worker' = worker, seen' = seen,
             \A t \in Tasks : task'[t] = "taken" <=> task[t] = "taken"
      PROVE  HoldsInv'
    BY <1>3 DEF HoldsInv
<1>4. ASSUME NEW t \in Tasks, Run(t) \/ RunRefused(t) PROVE HoldsInv'
    BY <1>3, <1>4 DEF Run, RunRefused, MayCall
<1>5. ASSUME NEW t \in Tasks, Wait(t) \/ WaitOver(t) \/ End(t) \/ \E fails \in BOOLEAN : Finish(t, fails)
      PROVE  HoldsInv'
    BY <1>3, <1>5 DEF Wait, WaitOver, End, Finish
<1>6. ASSUME NEW w \in Workers, Look(w) PROVE HoldsInv'
  <2>1. /\ worker[w] = "look" /\ worker'[w] = "join"
        /\ seen'[w] \subseteq Children(holds[w])
        /\ \A v \in Workers \ {w} : worker'[v] = worker[v] /\ seen'[v] = seen[v]
        /\ holds' = holds /\ task' = task
    BY <1>6 DEF Look
  <2> QED
    BY <2>1 DEF HoldsInv
<1>7. ASSUME NEW w \in Workers,
             \/ Loop(w) \/ PopClosed(w) \/ PopNone(w)
             \/ Join(w) \/ JoinRaises(w) \/ JoinTimesOut(w)
      PROVE  HoldsInv'
  <2>1. /\ worker[w] \in {"loop", "pop", "join"}
        /\ worker'[w] \in {"loop", "pop", "left"}
        /\ \A v \in Workers \ {w} : worker'[v] = worker[v]
        /\ holds' = holds /\ task' = task /\ seen' = seen
    BY <1>7 DEF Loop, PopClosed, PopNone, Join, JoinRaises, JoinTimesOut
  <2> QED
    BY <2>1 DEF HoldsInv
<1>8. Exit \/ WorkersJoined \/ Stop \/ (\E w \in Workers : Tell(w)) \/ UNCHANGED vars
        => HoldsInv'
    BY <1>3 DEF Exit, WorkersJoined, Stop, Tell, vars
<1> QED
    BY <1>1, <1>2, <1>4, <1>5, <1>6, <1>7, <1>8 DEF Next, WorkerStep, Ends

\* A closed queue gets no more tasks, and a worker that has left stays away.
LEMMA LeftNext == TypeOK /\ LeftInv /\ [Next]_vars => LeftInv'
<1> SUFFICES ASSUME TypeOK, LeftInv, [Next]_vars
             PROVE  LeftInv'
    OBVIOUS
<1> USE PoolAssumption DEF PoolAssumption, TypeOK, LeftInv, WorkerGoto
<1>1. ASSUME NEW t \in Tasks, Run(t) \/ RunRefused(t) PROVE LeftInv'
    BY <1>1 DEF Run, RunRefused
<1>2. ASSUME NEW w \in Workers, worker[w] # "left",
             \A v \in Workers \ {w} : worker'[v] = worker[v],
             worker'[w] = "left" => w \in told \/ (closed /\ queue = <<>> /\ queue' = <<>>),
             owner' = owner, told' = told, closed' = closed, queue # <<>> \/ queue' = queue
      PROVE  LeftInv'
  <2>1. ASSUME NEW v \in Workers, worker'[v] = "left"
        PROVE  v \in told' \/ (closed' /\ queue' = <<>>)
    <3>1. CASE v = w
      BY <1>2, <2>1, <3>1
    <3>2. CASE v # w
      BY <1>2, <2>1, <3>2
    <3> QED
      BY <3>1, <3>2
  <2>2. owner' # "outside"
    BY <1>2
  <2> QED
    BY <2>1, <2>2
<1>3. ASSUME NEW w \in Workers, Loop(w) \/ PopClosed(w) \/ PopNone(w) PROVE LeftInv'
  <2>1. /\ worker[w] # "left"
        /\ \A v \in Workers \ {w} : worker'[v] = worker[v]
        /\ worker'[w] = "left" => w \in told \/ (closed /\ queue = <<>> /\ queue' = <<>>)
        /\ owner' = owner /\ told' = told /\ closed' = closed /\ queue' = queue
    BY <1>3 DEF Loop, PopClosed, PopNone
  <2> QED
    BY <1>2, <2>1
<1>4. ASSUME NEW w \in Workers, Pop(w) \/ Start(w) \/ StartFails(w) \/ Look(w) PROVE LeftInv'
  <2>1. /\ worker[w] # "left"
        /\ \A v \in Workers \ {w} : worker'[v] = worker[v]
        /\ worker'[w] # "left"
        /\ owner' = owner /\ told' = told /\ closed' = closed
        /\ queue # <<>> \/ queue' = queue
    BY <1>4 DEF Pop, Start, StartFails, Look
  <2> QED
    BY <1>2, <2>1
<1>5. ASSUME NEW w \in Workers, Join(w) \/ JoinRaises(w) \/ JoinTimesOut(w) PROVE LeftInv'
    BY <1>5 DEF Join, JoinRaises, JoinTimesOut
<1>6. ASSUME NEW t \in Tasks, Wait(t) \/ WaitOver(t) \/ End(t) \/ \E fails \in BOOLEAN : Finish(t, fails)
      PROVE  LeftInv'
    BY <1>6 DEF Wait, WaitOver, End, Finish
<1>7. Exit \/ WorkersJoined \/ Stop \/ (\E w \in Workers : Tell(w)) \/ UNCHANGED vars
        => LeftInv'
    BY DEF Exit, WorkersJoined, Stop, Tell, vars
<1> QED
    BY <1>1, <1>2, <1>3, <1>4, <1>5, <1>6, <1>7 DEF Next, WorkerStep, Ends

\* A worker leaves a running task only with the excuse that Supervised names,
\* and one that was told so keeps it to the end.
LEMMA SupervisedNext == TypeOK /\ HoldsInv /\ Supervised /\ [Next]_vars => Supervised'
<1> SUFFICES ASSUME TypeOK, HoldsInv, Supervised, [Next]_vars
             PROVE  Supervised'
    OBVIOUS
<1> DEFINE Joins(w) == worker[w] \in {"look", "join"}
           Deserts(w) == w \in told /\ worker[w] \in {"loop", "left"}
<1> USE PoolAssumption
    DEF PoolAssumption, TypeOK, Become, WorkerGoto, ChildFailed, Children, Running
<1>1. ASSUME told \subseteq told', failed \subseteq failed',
             \A t \in Tasks : task'[t] \in Running => task[t] \in Running,
             \A w \in Workers : Deserts(w) => holds'[w] = holds[w] /\ Deserts(w)',
             \A w \in Workers : Joins(w) =>
                /\ holds'[w] = holds[w]
                /\ \/ Joins(w)' \/ Deserts(w)'
                   \/ holds[w] \in Tasks =>
                         task'[holds[w]] \notin Running \/ ChildFailed(holds[w])
      PROVE  Supervised'
  <2> SUFFICES ASSUME NEW t \in Tasks, task'[t] \in Running
               PROVE  Joined(t)' \/ Deserted(t)' \/ ChildFailed(t)'
    BY DEF Supervised
  <2>1. Joined(t) \/ Deserted(t) \/ ChildFailed(t)
    BY <1>1 DEF Supervised
  <2>2. ChildFailed(t) => ChildFailed(t)'
    BY <1>1
  <2>3. ASSUME NEW w \in Workers, holds'[w] = t, Joins(w)' \/ Deserts(w)'
        PROVE  Joined(t)' \/ Deserted(t)'
    BY <2>3 DEF Joined, Deserted
  <2>4. ASSUME NEW w \in Workers, Joins(w), holds[w] = t
        PROVE  Joined(t)' \/ Deserted(t)' \/ ChildFailed(t)
    BY <1>1, <2>3, <2>4
  <2>5. ASSUME NEW w \in Workers, Deserts(w), holds[w] = t
        PROVE  Joined(t)' \/ Deserted(t)'
    BY <1>1, <2>3, <2>5
  <2>6. Joined(t) => \E w \in Workers : Joins(w) /\ holds[w] = t
    BY DEF Joined
  <2>7. Deserted(t) => \E w \in Workers : Deserts(w) /\ holds[w] = t
    BY DEF Deserted
  <2> QED
    BY <2>1, <2>2, <2>4, <2>5, <2>6, <2>7
<1>2. ASSUME NEW w \in Workers, Start(w) PROVE Supervised'
  <2>1. /\ worker[w] = "start" /\ worker'[w] = "look"
        /\ \A v \in Workers \ {w} : worker'[v] = worker[v]
        /\ \A t \in Tasks \ {holds[w]} : task'[t] = task[t]
        /\ holds' = holds /\ told' = told /\ failed' = failed
    BY <1>2 DEF Start
  <2> SUFFICES ASSUME NEW t \in Tasks, task'[t] \in Running
               PROVE  Joined(t)' \/ Deserted(t)' \/ ChildFailed(t)'
    BY DEF Supervised
  <2>2. CASE t = holds[w]
    BY <2>1, <2>2 DEF Joined
  <2>3. CASE t # holds[w]
    <3>1. Joined(t) \/ Deserted(t) \/ ChildFailed(t)
      BY <2>1, <2>3 DEF Supervised
    <3>2. Joined(t) => Joined(t)'
      BY <2>1, <2>3 DEF Joined
    <3>3. Deserted(t) => Deserted(t)'
      BY <2>1, <2>3 DEF Deserted
    <3> QED
      BY <2>1, <3>1, <3>2, <3>3
  <2> QED
    BY <2>2, <2>3
<1>3. ASSUME NEW t \in Tasks, Run(t) \/ RunRefused(t) PROVE Supervised'
  <2>1. /\ \A k \in Tasks : task'[k] \in Running => task[k] \in Running
        /\ told' = told /\ failed \subseteq failed' /\ worker' = worker /\ holds' = holds
    BY <1>3 DEF Run, RunRefused, MayCall
  <2> QED
    BY <1>1, <2>1
<1>4. ASSUME NEW t \in Tasks, Wait(t) \/ WaitOver(t) \/ End(t) \/ \E fails \in BOOLEAN : Finish(t, fails)
      PROVE  Supervised'
  <2>1. /\ \A k \in Tasks : task'[k] \in Running => task[k] \in Running
        /\ told' = told /\ failed \subseteq failed' /\ worker' = worker /\ holds' = holds
    BY <1>4 DEF Wait, WaitOver, End, Finish
  <2> QED
    BY <1>1, <2>1
<1>5. ASSUME NEW w \in Workers,
             \/ Loop(w) \/ PopClosed(w) \/ PopNone(w) \/ StartFails(w) \/ Look(w)
      PROVE  Supervised'
  <2>1. /\ \A k \in Tasks : task'[k] \in Running => task[k] \in Running
        /\ told' = told /\ failed' = failed /\ holds' = holds
        /\ \A v \in Workers : Joins(v) => Joins(v)'
        /\ \A v \in Workers : Deserts(v) => Deserts(v)'
    BY <1>5 DEF Loop, PopClosed, PopNone, StartFails, Look, HoldsInv, StarterHolds
  <2> QED
    BY <1>1, <2>1
<1>6. ASSUME NEW w \in Workers, Pop(w) PROVE Supervised'
  <2>1. /\ \A k \in Tasks : task'[k] \in Running => task[k] \in Running
        /\ told' = told /\ failed' = failed /\ worker[w] = "pop"
        /\ \A v \in Workers \ {w} : worker'[v] = worker[v] /\ holds'[v] = holds[v]
    BY <1>6 DEF Pop
  <2> QED
    BY <1>1, <2>1
<1>7. ASSUME NEW w \in Workers, Join(w) \/ JoinRaises(w) \/ JoinTimesOut(w) PROVE Supervised'
  <2>1. /\ task' = task /\ told' = told /\ failed' = failed /\ holds' = holds
        /\ worker[w] = "join" /\ worker'[w] = "loop"
        /\ \A v \in Workers \ {w} : worker'[v] = worker[v]
    BY <1>7 DEF Join, JoinRaises, JoinTimesOut
  <2>2. holds[w] \in Tasks /\ seen[w] \subseteq Children(holds[w])
    <3>1. JoinerHolds
      BY DEF HoldsInv
    <3>2. holds[w] \in Tasks
      BY <2>1, <3>1 DEF JoinerHolds
    <3>3. seen[w] \subseteq Children(holds[w])
      BY <2>1, <3>1, Zenon DEF JoinerHolds
    <3> QED
      BY <3>2, <3>3
  <2>3. task[holds[w]] \notin Running \/ Deserts(w)' \/ ChildFailed(holds[w])
    <3>1. CASE Join(w)
      BY <3>1 DEF Join
    <3>2. CASE JoinRaises(w)
      BY <3>2, <2>2 DEF JoinRaises
    <3>3. CASE JoinTimesOut(w)
      BY <3>3, <2>1 DEF JoinTimesOut
    <3> QED
      BY <1>7, <3>1, <3>2, <3>3
  <2>4. ASSUME NEW v \in Workers, Joins(v)
        PROVE  \/ Joins(v)' \/ Deserts(v)'
               \/ holds[v] \in Tasks => task'[holds[v]] \notin Running \/ ChildFailed(holds[v])
    <3>1. CASE v = w
      BY <3>1, <2>1, <2>3
    <3>2. CASE v # w
      BY <3>2, <2>1, <2>4
    <3> QED
      BY <3>1, <3>2
  <2>5. ASSUME NEW v \in Workers, Deserts(v)
        PROVE  Deserts(v)'
    BY <2>1, <2>5
  <2>6. /\ told \subseteq told' /\ failed \subseteq failed'
        /\ \A t \in Tasks : task'[t] \in Running => task[t] \in Running
        /\ \A v \in Workers : holds'[v] = holds[v]
    BY <2>1
  <2> HIDE DEF ChildFailed, Running, Joins, Deserts
  <2> QED
    BY <1>1, <2>4, <2>5, <2>6
<1>8. Exit \/ WorkersJoined \/ Stop \/ (\E w \in Workers : Tell(w)) \/ UNCHANGED vars
        => Supervised'
  <2> SUFFICES ASSUME Exit \/ WorkersJoined \/ Stop \/ (\E w \in Workers : Tell(w)) \/ UNCHANGED vars
               PROVE  Supervised'
    OBVIOUS
  <2>1. task' = task /\ told \subseteq told' /\ failed' = failed /\ worker' = worker /\ holds' = holds
    BY DEF Exit, WorkersJoined, Stop, Tell, vars
  <2> QED
    BY <1>1, <2>1
<1> QED
    BY <1>2, <1>3, <1>4, <1>5, <1>6, <1>7, <1>8 DEF Next, WorkerStep, Ends

\* Every step keeps the inductive invariant.
LEMMA NextIndInv == IndInv /\ [Next]_vars => IndInv'
BY TypeNext, QueueNext, HoldsNext, LeftNext, SupervisedNext DEF IndInv

-----------------------------------------------------------------------------
\* Type correctness.
THEOREM TypeCorrect == Spec => []TypeOK
<1>1. IndInv => TypeOK
  BY DEF IndInv
<1> QED
  BY InitIndInv, NextIndInv, <1>1, PTL DEF Spec

\* Whatever fails, waits or is told to stop: a running task is joined by the
\* worker that started it, unless that worker was told to stop or a task the
\* running one made has failed (pools.py:26-35).
THEOREM TasksSupervised == Spec => []Supervised
<1>1. IndInv => Supervised
  BY DEF IndInv
<1> QED
  BY InitIndInv, NextIndInv, <1>1, PTL DEF Spec

\* The workers have all left then, so none holds a task it has yet to start,
\* the queue is closed and empty unless all were told, and what runs is excused
\* by Supervised (pools.py:17-19, 28-35).
THEOREM DoneAtExit == Spec => []AllDoneAtExit
<1>1. IndInv => AllDoneAtExit
  <2> SUFFICES ASSUME IndInv, owner = "outside", NEW t \in Tasks
               PROVE  \/ task[t] \in {"new", "refused", "stopped"}
                      \/ task[t] \in Running /\ (Deserted(t) \/ ChildFailed(t))
                      \/ task[t] = "queued" /\ told = Workers
                      \/ task[t] = "lost"
    BY DEF AllDoneAtExit
  <2>1. \A w \in Workers : worker[w] = "left"
    BY DEF IndInv, LeftInv
  <2>2. task[t] = "queued" => told = Workers
    <3>1. told = Workers \/ queue = <<>>
      BY <2>1 DEF IndInv, LeftInv, TypeOK
    <3>2. queue = <<>> => Len(queue) = 0
      OBVIOUS
    <3> QED
      BY <3>1, <3>2 DEF IndInv, QueueInv
  <2>3. task[t] # "taken"
    BY <2>1 DEF IndInv, HoldsInv, TakenIsHeld
  <2>4. task[t] \in Running => Deserted(t) \/ ChildFailed(t)
    BY <2>1 DEF IndInv, Supervised, Joined
  <2>5. task[t] \in {"new", "stopped"} \cup Running \cup Unstarted
    BY DEF IndInv, TypeOK
  <2> QED
    BY <2>2, <2>3, <2>4, <2>5 DEF Unstarted
<1> QED
  BY InitIndInv, NextIndInv, <1>1, PTL DEF Spec
=============================================================================
