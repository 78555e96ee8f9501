------------------------------- MODULE Signals -------------------------------
(***************************************************************************)
(* One Signal object of src/mo_threads/signals.py and the threads that     *)
(* call it.  A step is a piece of a method between two points where        *)
(* another thread can be scheduled: the unlocked test of _go that opens    *)
(* three of the methods, the acquisition of the signal's lock, the test    *)
(* under the lock, and the update that also releases the lock.  go() sets  *)
(* _go under the lock but takes the job list and the waiter list, releases *)
(* the waiters and runs the jobs outside it.                               *)
(***************************************************************************)
EXTENDS Integers, Sequences, SequencesExt

CONSTANTS Threads,   \* the threads that call the signal
          Jobs,      \* the functions given to then()
          Escaping,  \* the jobs that raise and whose error handler raises too
          NoThread,  \* nobody holds the lock
          NoJob      \* the call takes no function

ASSUME SignalAssumption == /\ Escaping \subseteq Jobs
                           /\ NoThread \notin Threads
                           /\ NoJob \notin Jobs

VARIABLES lock,       \* the thread in the `with self.lock` block
          go,         \* self._go
          jobQueue,   \* self.job_queue, <<>> for None
          waiting,    \* self.waiting_threads: whose stoppers are listed
          opened,     \* the threads whose stopper was released
          pc,         \* where each thread is in its call
          op,         \* the method each thread is in, or was in last
          arg,        \* the function given to that call
          jobs,       \* the local `jobs` of go()
          stoppers,   \* the local `stoppers` of go()
          \* history, read by no guard but the bound on Then
          attached,   \* the jobs ever given to then()
          removed,    \* the jobs remove_then() took out
          lost,       \* the jobs dropped when go() was left by an exception
          ran         \* how often each job was run

shared == <<lock, go, jobQueue, waiting, opened>>
local  == <<pc, op, arg, jobs, stoppers>>
hist   == <<attached, removed, lost, ran>>
vars   == <<lock, go, jobQueue, waiting, opened, pc, op, arg, jobs, stoppers,
            attached, removed, lost, ran>>

Ops == {"wait", "then", "remove_then", "go"}
Locked == {"recheck", "commit"}
PCs == {"idle", "acquire", "blocked", "take_jobs", "take_stoppers", "release",
        "run", "run_now"} \cup Locked

Init == /\ lock = NoThread
        /\ go = FALSE
        /\ jobQueue = <<>>
        /\ waiting = {}
        /\ opened = {}
        /\ pc = [t \in Threads |-> "idle"]
        /\ op = [t \in Threads |-> "wait"]
        /\ arg = [t \in Threads |-> NoJob]
        /\ jobs = [t \in Threads |-> <<>>]
        /\ stoppers = [t \in Threads |-> {}]
        /\ attached = {}
        /\ removed = {}
        /\ lost = {}
        /\ ran = [j \in Jobs |-> 0]

Enter(t, o, j) == /\ pc[t] = "idle"
                  /\ pc' = [pc EXCEPT ![t] = "acquire"]
                  /\ op' = [op EXCEPT ![t] = o]
                  /\ arg' = [arg EXCEPT ![t] = j]
                  /\ UNCHANGED <<shared, jobs, stoppers>>

-----------------------------------------------------------------------------
(***************************************************************************)
(* The four calls up to the lock.  wait(), go() and remove_then() return   *)
(* at once, with nothing changed, when _go is already set; then() has no   *)
(* such test.  Bound: a job is given to then() once.                       *)
(***************************************************************************)
Wait(t) == /\ ~go
           /\ Enter(t, "wait", NoJob)
           /\ UNCHANGED hist

Go(t) == /\ ~go
         /\ Enter(t, "go", NoJob)
         /\ UNCHANGED hist

Then(t, j) == /\ j \notin attached
              /\ Enter(t, "then", j)
              /\ attached' = attached \cup {j}
              /\ UNCHANGED <<removed, lost, ran>>

RemoveThen(t, j) == /\ ~go
                    /\ Enter(t, "remove_then", j)
                    /\ UNCHANGED hist

Acquire(t) == /\ pc[t] = "acquire"
              /\ lock = NoThread
              /\ lock' = t
              /\ pc' = [pc EXCEPT ![t] = "recheck"]
              /\ UNCHANGED <<go, jobQueue, waiting, opened, op, arg, jobs, stoppers, hist>>

\* Mutant: _go is not tested again under the lock.
NoRecheck(t) == /\ pc[t] = "recheck"
                /\ pc' = [pc EXCEPT ![t] = "commit"]
                /\ UNCHANGED <<shared, op, arg, jobs, stoppers, hist>>

\* The test of _go under the lock.  Found set, the call is over, except that
\* then() goes on to run its function itself.
Recheck(t) ==
    /\ pc[t] = "recheck"
    /\ \/ /\ ~go
          /\ pc' = [pc EXCEPT ![t] = "commit"]
          /\ lock' = lock
       \/ /\ go
          /\ pc' = [pc EXCEPT ![t] = IF op[t] = "then" THEN "run_now" ELSE "idle"]
          /\ lock' = NoThread
    /\ UNCHANGED <<go, jobQueue, waiting, opened, op, arg, jobs, stoppers, hist>>

Commit(t, o, next) == /\ pc[t] = "commit"
                      /\ op[t] = o
                      /\ lock' = NoThread
                      /\ pc' = [pc EXCEPT ![t] = next]
                      /\ UNCHANGED <<opened, op, arg, jobs, stoppers>>

CommitWait(t) == /\ Commit(t, "wait", "blocked")
                 /\ waiting' = waiting \cup {t}
                 /\ UNCHANGED <<go, jobQueue, hist>>

CommitThen(t) == /\ Commit(t, "then", "idle")
                 /\ jobQueue' = Append(jobQueue, arg[t])
                 /\ UNCHANGED <<go, waiting, hist>>

\* remove_then() deletes the first entry that equals its argument, if any.
CommitRemoveThen(t) ==
    /\ Commit(t, "remove_then", "idle")
    /\ \/ \E i \in DOMAIN jobQueue :
             /\ jobQueue[i] = arg[t]
             /\ \A k \in 1..(i - 1) : jobQueue[k] # arg[t]
             /\ jobQueue' = RemoveAt(jobQueue, i)
             /\ removed' = removed \cup {arg[t]}
       \/ /\ \A i \in DOMAIN jobQueue : jobQueue[i] # arg[t]
          /\ UNCHANGED <<jobQueue, removed>>
    /\ UNCHANGED <<go, waiting, attached, lost, ran>>

CommitGo(t) == /\ Commit(t, "go", "take_jobs")
               /\ go' = TRUE
               /\ UNCHANGED <<jobQueue, waiting, hist>>

-----------------------------------------------------------------------------
(***************************************************************************)
(* The rest of go(), without the lock.                                     *)
(***************************************************************************)
\* Mutant: the queue is read, not taken.
TakeJobsKeepsQueue(t) ==
    /\ pc[t] = "take_jobs"
    /\ jobs' = [jobs EXCEPT ![t] = jobQueue]
    /\ pc' = [pc EXCEPT ![t] = "take_stoppers"]
    /\ UNCHANGED <<shared, op, arg, stoppers, hist>>

TakeJobs(t) == /\ pc[t] = "take_jobs"
               /\ jobs' = [jobs EXCEPT ![t] = jobQueue]
               /\ jobQueue' = <<>>
               /\ pc' = [pc EXCEPT ![t] = "take_stoppers"]
               /\ UNCHANGED <<lock, go, waiting, opened, op, arg, stoppers, hist>>

TakeStoppers(t) == /\ pc[t] = "take_stoppers"
                   /\ stoppers' = [stoppers EXCEPT ![t] = waiting]
                   /\ waiting' = {}
                   /\ pc' = [pc EXCEPT ![t] = "release"]
                   /\ UNCHANGED <<lock, go, jobQueue, opened, op, arg, jobs, hist>>

\* The stoppers are released one by one; the order of the list is left open.
ReleaseOne(t) == /\ pc[t] = "release"
                 /\ \E w \in stoppers[t] :
                       /\ stoppers' = [stoppers EXCEPT ![t] = @ \ {w}]
                       /\ opened' = opened \cup {w}
                 /\ UNCHANGED <<lock, go, jobQueue, waiting, pc, op, arg, jobs, hist>>

ReleaseDone(t) == /\ pc[t] = "release"
                  /\ stoppers[t] = {}
                  /\ pc' = [pc EXCEPT ![t] = "run"]
                  /\ UNCHANGED <<shared, op, arg, jobs, stoppers, hist>>

\* Mutant: any failing job ends the loop, without the try.
RunJobNoTry(t) ==
    /\ pc[t] = "run"
    /\ jobs[t] # <<>>
    /\ ran' = [ran EXCEPT ![Head(jobs[t])] = @ + 1]
    /\ lost' = lost \cup ToSet(Tail(jobs[t]))
    /\ jobs' = [jobs EXCEPT ![t] = <<>>]
    /\ pc' = [pc EXCEPT ![t] = "idle"]
    /\ UNCHANGED <<shared, op, arg, stoppers, attached, removed>>

\* A job whose error handler returns is like one that does not fail.  When the
\* handler raises, the loop is left and the rest of the local list is gone.
RunJob(t) ==
    /\ pc[t] = "run"
    /\ jobs[t] # <<>>
    /\ ran' = [ran EXCEPT ![Head(jobs[t])] = @ + 1]
    /\ \/ /\ Head(jobs[t]) \notin Escaping
          /\ jobs' = [jobs EXCEPT ![t] = Tail(@)]
          /\ UNCHANGED <<pc, lost>>
       \/ /\ Head(jobs[t]) \in Escaping
          /\ lost' = lost \cup ToSet(Tail(jobs[t]))
          /\ jobs' = [jobs EXCEPT ![t] = <<>>]
          /\ pc' = [pc EXCEPT ![t] = "idle"]
    /\ UNCHANGED <<shared, op, arg, stoppers, attached, removed>>

GoReturns(t) == /\ pc[t] = "run"
                /\ jobs[t] = <<>>
                /\ pc' = [pc EXCEPT ![t] = "idle"]
                /\ UNCHANGED <<shared, op, arg, jobs, stoppers, hist>>

\* then() on an activated signal: the caller runs the function, and an
\* exception of its handler is the caller's.
RunNow(t) == /\ pc[t] = "run_now"
             /\ ran' = [ran EXCEPT ![arg[t]] = @ + 1]
             /\ pc' = [pc EXCEPT ![t] = "idle"]
             /\ UNCHANGED <<shared, op, arg, jobs, stoppers, attached, removed, lost>>

\* The second acquire() of the stopper succeeds once go() released it.
Unblock(t) == /\ pc[t] = "blocked"
              /\ t \in opened
              /\ pc' = [pc EXCEPT ![t] = "idle"]
              /\ UNCHANGED <<shared, op, arg, jobs, stoppers, hist>>

-----------------------------------------------------------------------------
Call(t) == \/ Wait(t)
           \/ Go(t)
           \/ \E j \in Jobs : Then(t, j) \/ RemoveThen(t, j)

Harvest(t) == \/ TakeJobs(t) \/ TakeStoppers(t)
              \/ ReleaseOne(t) \/ ReleaseDone(t)
              \/ RunJob(t) \/ GoReturns(t)

Step(t) == \/ Acquire(t) \/ Recheck(t)
           \/ CommitWait(t) \/ CommitThen(t) \/ CommitRemoveThen(t) \/ CommitGo(t)
           \/ Harvest(t) \/ RunNow(t) \/ Unblock(t)

Next == \E t \in Threads : Call(t) \/ Step(t)

\* A thread in a method is scheduled again and again, and a job it runs ends
\* (the docstring of then() asks for that).  Nobody has to call anything.
Fairness == \A t \in Threads : WF_vars(Step(t))

Spec == Init /\ [][Next]_vars /\ Fairness

-----------------------------------------------------------------------------
TypeOK == /\ lock \in Threads \cup {NoThread}
          /\ go \in BOOLEAN
          /\ jobQueue \in Seq(Jobs)
          /\ waiting \subseteq Threads
          /\ opened \subseteq Threads
          /\ pc \in [Threads -> PCs]
          /\ op \in [Threads -> Ops]
          /\ arg \in [Threads -> Jobs \cup {NoJob}]
          /\ jobs \in [Threads -> Seq(Jobs)]
          /\ stoppers \in [Threads -> SUBSET Threads]
          /\ attached \subseteq Jobs
          /\ removed \subseteq Jobs
          /\ lost \subseteq Jobs
          /\ ran \in [Jobs -> Nat]

-----------------------------------------------------------------------------
(***************************************************************************)
(* The invariants that a proof of the lost-wakeup freedom needs.           *)
(***************************************************************************)
\* The lock is held exactly by the thread inside a `with self.lock` block, and
\* whoever passed the test of _go under the lock can still rely on it.
LockInv == /\ \A t \in Threads : pc[t] \in Locked <=> lock = t
           /\ \A t \in Threads : pc[t] = "commit" => ~go
           /\ \A t \in Threads : /\ pc[t] = "acquire" => op[t] \in Ops
                                 /\ op[t] \in {"then", "remove_then"} => arg[t] \in Jobs
                                 /\ pc[t] = "run_now" => op[t] = "then"

Harvesting == {"take_jobs", "take_stoppers", "release", "run"}

\* At most one call of go() gets past the lock, none before _go is set, and
\* the local lists of everybody else are empty.
GoerInv == /\ ~go => /\ \A t \in Threads : pc[t] \notin Harvesting \cup {"run_now"}
                     /\ opened = {}
           /\ \A t, u \in Threads :
                 pc[t] \in Harvesting /\ pc[u] \in Harvesting => t = u
           /\ \A t \in Threads : /\ jobs[t] # <<>> => pc[t] \in Harvesting \ {"take_jobs"}
                                 /\ stoppers[t] # {} => pc[t] = "release"

\* No thread that blocks in wait() is ever forgotten: it is listed while
\* nobody has taken the list, or it is in the hands of the go() that took it,
\* or its stopper is open.  And once the activating go() has taken the two
\* lists, nothing is ever added to them again (signals.py:93-103, 157-166
\* against 117-126).
NoStrandedWaiter ==
    /\ \A t \in Threads : pc[t] = "blocked" =>
          \/ t \in waiting
          \/ t \in opened
          \/ \E u \in Threads : t \in stoppers[u]
    /\ go /\ (\A u \in Threads : pc[u] \notin {"take_jobs", "take_stoppers"})
          => waiting = {}

NoStrandedJob ==
    go /\ (\A u \in Threads : pc[u] # "take_jobs") => jobQueue = <<>>

NoStrandedWork == NoStrandedWaiter /\ NoStrandedJob

\* All of it together is inductive: SignalsProofs shows that it holds whatever
\* the threads and jobs are.
IndInv == TypeOK /\ LockInv /\ GoerInv /\ NoStrandedWork

-----------------------------------------------------------------------------
\* Where a job is: in a call of then(), in the queue, in the hands of go(),
\* run, removed, or lost.
Handing(t) == op[t] = "then" /\ pc[t] \in Locked \cup {"acquire", "run_now"}

InCall(j)  == {<<"call", t, 1>> : t \in {u \in Threads : Handing(u) /\ arg[u] = j}}
InQueue(j) == {<<"queue", NoThread, i>> : i \in {k \in DOMAIN jobQueue : jobQueue[k] = j}}
InHands(j) == UNION {{<<"go", t, i>> : i \in {k \in DOMAIN jobs[t] : jobs[t][k] = j}}
                       : t \in Threads}
Runs(j)    == {<<"ran", NoThread, n>> : n \in 1..ran[j]}
TakenOut(j) == {<<"removed", NoThread, 1>> : k \in removed \cap {j}}
Gone(j)    == {<<"lost", NoThread, 1>> : k \in lost \cap {j}}

Places(j) == InCall(j) \cup InQueue(j) \cup InHands(j) \cup Runs(j) \cup TakenOut(j) \cup Gone(j)

\* "A job given to then() is run just once" (README.md:217), exactly: at every
\* moment a job that was handed over is at one place and one only, so none is
\* run twice, dropped by the hand-over from then() to go(), or run after
\* remove_then() took it out.
JobConservation == \A j \in Jobs : Cardinality(Places(j)) = IF j \in attached THEN 1 ELSE 0

-----------------------------------------------------------------------------
(***************************************************************************)
(* The inductive form of JobConservation.  A job that was handed over is   *)
(* in a call of then(), in the queue, in the hands of go(), run, removed   *)
(* or lost; no two of these at once, and none of them twice.               *)
(***************************************************************************)
Done == {j \in Jobs : ran[j] > 0}

Settled == removed \cup lost \cup Done

HandingApart ==
    \A t \in Threads : Handing(t) =>
        /\ arg[t] \in attached \ (Settled \cup ToSet(jobQueue))
        /\ \A u \in Threads : /\ arg[t] \notin ToSet(jobs[u])
                              /\ Handing(u) /\ arg[u] = arg[t] => u = t

QueueApart == /\ IsInjective(jobQueue)
              /\ ToSet(jobQueue) \subseteq attached \ Settled

TakenApart == \A t \in Threads :
                 /\ IsInjective(jobs[t])
                 /\ ToSet(jobs[t]) \subseteq attached \ (Settled \cup ToSet(jobQueue))

SettledApart == /\ Settled \subseteq attached
                /\ removed \cap lost = {}
                /\ \A j \in Jobs : ran[j] > 0 => ran[j] = 1 /\ j \notin removed \cup lost

\* Nothing that was handed over has vanished.
NoneVanished == \A j \in attached :
                   \/ j \in Settled \cup ToSet(jobQueue)
                   \/ \E t \in Threads : j \in ToSet(jobs[t])
                   \/ \E t \in Threads : Handing(t) /\ arg[t] = j

OnePlace == HandingApart /\ QueueApart /\ TakenApart /\ SettledApart /\ NoneVanished

-----------------------------------------------------------------------------
\* The signal implements its promise: the steps of AbstractSignal and no other,
\* and in the end everybody who waits is out of wait() and every job that is due
\* was run, or lost behind one whose error handler raised (signals.py:135-143).
Blocked == {t \in Threads : pc[t] = "blocked"}

Due == ToSet(jobQueue) \cup (UNION {ToSet(jobs[t]) : t \in Threads})
         \cup {arg[t] : t \in {u \in Threads : pc[u] = "run_now"}}

Promise == INSTANCE AbstractSignal WITH inWait <- Blocked, due <- Due, ran <- Done

ImplementsPromise == Promise!Spec
=============================================================================
