-------------------------------- MODULE Pool --------------------------------
(***************************************************************************)
(* The ThreadPool of src/mo_threads/pools.py.  run() makes a Thread and    *)
(* puts it on a Queue, workers take threads from there, start them and     *)
(* join them, and leaving the `with` block closes the queue and joins the  *)
(* workers.  The queue is taken as module Queue shows it to be: values     *)
(* come out once and in order, and pop() gives up on a closed queue only   *)
(* when it is empty.  A thread belongs to whoever called run(), not to the *)
(* worker: at its end it stops and joins the threads it made (see Threads),*)
(* and a join() of it looks at its threads first.                          *)
(***************************************************************************)
EXTENDS Integers, Sequences

CONSTANTS Workers,    \* the workers of the pool
          Tasks,      \* the threads made by run()
          Owner,      \* the thread with the `with` block
          NoTask,     \* in place of a task
          RunBy,      \* who calls run() for each task: Owner or a task
          WaitsFor,   \* the task that the target of a task joins, or NoTask
          Unstartable \* the tasks for which the system may have no thread

ASSUME PoolAssumption ==
    /\ Workers # {}
    /\ Workers \cap Tasks = {}
    /\ Owner \notin Workers \cup Tasks
    /\ NoTask \notin Tasks
    /\ RunBy \in [Tasks -> Tasks \cup {Owner}]
    /\ WaitsFor \in [Tasks -> Tasks \cup {NoTask}]
    /\ Unstartable \subseteq Tasks
    \* Bound: a task that was made or is joined by a task makes none.
    /\ \A t \in Tasks : /\ RunBy[t] # Owner => WaitsFor[t] = NoTask
                        /\ \/ RunBy[t] # Owner
                           \/ \E u \in Tasks : WaitsFor[u] = t
                           => \A k \in Tasks : RunBy[k] # t

VARIABLES queue,   \* the tasks in self.queue
          closed,  \* self.queue.closed
          task,    \* how far each task is
          failed,  \* the tasks whose target raised
          listed,  \* the tasks in the list of children of who made them
          worker,  \* where each worker is
          holds,   \* the local `thread` of each worker
          seen,    \* the children its join() of that thread found
          owner,   \* where the owner is
          told,    \* the workers whose please_stop is activated
          untold   \* the workers a stop() of the owner still has to tell

vars == <<queue, closed, task, failed, listed, worker, holds, seen, owner, told, untold>>

Init == /\ queue = <<>>
        /\ closed = FALSE
        /\ task = [t \in Tasks |-> "new"]
        /\ failed = {}
        /\ listed = {}
        /\ worker = [w \in Workers |-> "loop"]
        /\ holds = [w \in Workers |-> NoTask]
        /\ seen = [w \in Workers |-> {}]
        /\ owner = "inside"
        /\ told = {}
        /\ untold = {}

Children(c) == {t \in Tasks : RunBy[t] = c}
Become(t, state) == task' = [task EXCEPT ![t] = state]
WorkerGoto(w, label) == worker' = [worker EXCEPT ![w] = label]

-----------------------------------------------------------------------------
(***************************************************************************)
(* run(), by the owner inside its block or by the target of a task.        *)
(***************************************************************************)
MayCall(c) == IF c = Owner THEN owner = "inside" ELSE task[c] \in {"running", "woken"}

Run(t) == /\ task[t] = "new"
          /\ MayCall(RunBy[t])
          /\ ~closed
          /\ listed' = listed \cup {t}
          /\ queue' = Append(queue, t)
          /\ Become(t, "queued")
          /\ UNCHANGED <<closed, failed, worker, holds, seen, owner, told, untold>>

\* The queue is closed: add() raises after the thread was made, and the target
\* that called run() fails.
RunRefused(t) == /\ task[t] = "new"
                 /\ RunBy[t] # Owner
                 /\ MayCall(RunBy[t])
                 /\ closed
                 /\ listed' = listed \ Children(RunBy[t])
                 /\ failed' = failed \cup {RunBy[t]}
                 /\ task' = [task EXCEPT ![t] = "refused", ![RunBy[t]] = "closing"]
                 /\ UNCHANGED <<queue, closed, worker, holds, seen, owner, told, untold>>

-----------------------------------------------------------------------------
(***************************************************************************)
(* worker().                                                               *)
(***************************************************************************)
Loop(w) == /\ worker[w] = "loop"
           /\ WorkerGoto(w, IF w \in told THEN "left" ELSE "pop")
           /\ UNCHANGED <<queue, closed, task, failed, listed, holds, seen, owner, told, untold>>

Pop(w) == /\ worker[w] = "pop"
          /\ queue # <<>>
          /\ queue' = Tail(queue)
          /\ holds' = [holds EXCEPT ![w] = Head(queue)]
          /\ Become(Head(queue), "taken")
          /\ WorkerGoto(w, "start")
          /\ UNCHANGED <<closed, failed, listed, seen, owner, told, untold>>

\* Mutant: a worker that sleeps does not notice that the queue is closed.
PopSleepsOn(w) == /\ worker[w] = "pop"
                  /\ queue = <<>> /\ closed
                  /\ w \in told
                  /\ WorkerGoto(w, "left")
                  /\ UNCHANGED <<queue, closed, task, failed, listed, holds, seen, owner, told, untold>>

\* Mutant: the worker leaves as soon as the queue is closed.
PopLeavesAtClose(w) == /\ worker[w] = "pop"
                       /\ closed
                       /\ WorkerGoto(w, "left")
                       /\ UNCHANGED <<queue, closed, task, failed, listed, holds, seen, owner, told, untold>>

PopClosed(w) == /\ worker[w] = "pop"
                /\ queue = <<>> /\ closed
                /\ WorkerGoto(w, "left")
                /\ UNCHANGED <<queue, closed, task, failed, listed, holds, seen, owner, told, untold>>

\* pop() returns None, which has no start(); that error is dropped.
PopNone(w) == /\ worker[w] = "pop"
              /\ queue = <<>> /\ ~closed
              /\ w \in told
              /\ WorkerGoto(w, "loop")
              /\ UNCHANGED <<queue, closed, task, failed, listed, holds, seen, owner, told, untold>>

Start(w) == /\ worker[w] = "start"
            /\ Become(holds[w], "running")
            /\ WorkerGoto(w, "look")
            /\ UNCHANGED <<queue, closed, failed, listed, holds, seen, owner, told, untold>>

\* start() raises, which is dropped too.
StartFails(w) == /\ worker[w] = "start"
                 /\ holds[w] \in Unstartable
                 /\ Become(holds[w], "lost")
                 /\ WorkerGoto(w, "loop")
                 /\ UNCHANGED <<queue, closed, failed, listed, holds, seen, owner, told, untold>>

\* join() first takes a snapshot of the children ...
Look(w) == /\ worker[w] = "look"
           /\ seen' = [seen EXCEPT ![w] = Children(holds[w]) \cap listed]
           /\ WorkerGoto(w, "join")
           /\ UNCHANGED <<queue, closed, task, failed, listed, holds, owner, told, untold>>

AllSeenStopped(w) == \A k \in seen[w] : task[k] = "stopped"

\* Mutant: the worker starts a thread and does not join it.
JoinSkipped(w) == /\ worker[w] = "join"
                  /\ WorkerGoto(w, "loop")
                  /\ UNCHANGED <<queue, closed, task, failed, listed, holds, seen, owner, told, untold>>

\* ... joins those, waits for the thread itself, and takes it off the list it
\* is in.  The exception of a thread that failed is dropped.
Join(w) == /\ worker[w] = "join"
           /\ AllSeenStopped(w)
           /\ seen[w] \cap failed = {}
           /\ task[holds[w]] = "stopped"
           /\ listed' = listed \ ({holds[w]} \cup seen[w])
           /\ WorkerGoto(w, "loop")
           /\ UNCHANGED <<queue, closed, task, failed, holds, seen, owner, told, untold>>

\* A child that failed ends the join, whether the thread has stopped or not.
JoinRaises(w) == /\ worker[w] = "join"
                 /\ AllSeenStopped(w)
                 /\ seen[w] \cap failed # {}
                 /\ listed' = listed \ seen[w]
                 /\ WorkerGoto(w, "loop")
                 /\ UNCHANGED <<queue, closed, task, failed, holds, seen, owner, told, untold>>

\* So does the please_stop of the worker.
JoinTimesOut(w) == /\ worker[w] = "join"
                   /\ w \in told
                   /\ ~AllSeenStopped(w) \/ task[holds[w]] # "stopped"
                   /\ listed' = listed \ {k \in seen[w] : task[k] = "stopped"}
                   /\ WorkerGoto(w, "loop")
                   /\ UNCHANGED <<queue, closed, task, failed, holds, seen, owner, told, untold>>

-----------------------------------------------------------------------------
(***************************************************************************)
(* The thread of a task.                                                   *)
(***************************************************************************)
\* Its target joins a task, one that was made already.
Wait(t) == /\ task[t] = "running"
           /\ WaitsFor[t] # NoTask
           /\ task[WaitsFor[t]] # "new"
           /\ Become(t, "waiting")
           /\ UNCHANGED <<queue, closed, failed, listed, worker, holds, seen, owner, told, untold>>

WaitOver(t) == /\ task[t] = "waiting"
               /\ task[WaitsFor[t]] = "stopped"
               /\ listed' = listed \ {WaitsFor[t]}
               /\ Become(t, "woken")
               /\ UNCHANGED <<queue, closed, failed, worker, holds, seen, owner, told, untold>>

\* Its target returns or raises, and the thread takes its children ...
Finish(t, fails) == /\ task[t] \in {"running", "woken"}
                    /\ failed' = IF fails THEN failed \cup {t} ELSE failed
                    /\ listed' = listed \ Children(t)
                    /\ Become(t, "closing")
                    /\ UNCHANGED <<queue, closed, worker, holds, seen, owner, told, untold>>

\* ... and joins them, in the pool or not.
End(t) == /\ task[t] = "closing"
          /\ \A k \in Children(t) : task[k] \in {"new", "stopped"}
          /\ Become(t, "stopped")
          /\ UNCHANGED <<queue, closed, failed, listed, worker, holds, seen, owner, told, untold>>

-----------------------------------------------------------------------------
(***************************************************************************)
(* The owner, and who stops it.                                            *)
(***************************************************************************)
Exit == /\ owner = "inside"
        /\ closed' = TRUE
        /\ owner' = "joining"
        /\ UNCHANGED <<queue, task, failed, listed, worker, holds, seen, told, untold>>

WorkersJoined == /\ owner = "joining"
                 /\ \A w \in Workers : worker[w] = "left"
                 /\ owner' = "outside"
                 /\ UNCHANGED <<queue, closed, task, failed, listed, worker, holds, seen, told, untold>>

\* stop() of the owner tells its children one after the other, the workers
\* among them.  What a task does about it is part of when its target ends.
Stop == /\ told = {} /\ untold = {}
        /\ untold' = Workers
        /\ UNCHANGED <<queue, closed, task, failed, listed, worker, holds, seen, owner, told>>

Tell(w) == /\ w \in untold
           /\ untold' = untold \ {w}
           /\ told' = told \cup {w}
           /\ UNCHANGED <<queue, closed, task, failed, listed, worker, holds, seen, owner>>

-----------------------------------------------------------------------------
WorkerStep(w) == \/ Loop(w) \/ Pop(w) \/ PopClosed(w) \/ PopNone(w)
                 \/ Start(w) \/ StartFails(w) \/ Look(w)
                 \/ Join(w) \/ JoinRaises(w) \/ JoinTimesOut(w)

Ends(t) == WaitOver(t) \/ End(t) \/ \E fails \in BOOLEAN : Finish(t, fails)

Next == \/ \E w \in Workers : WorkerStep(w)
        \/ \E t \in Tasks : Run(t) \/ RunRefused(t) \/ Wait(t) \/ Ends(t)
        \/ Exit \/ WorkersJoined \/ Stop
        \/ \E w \in Workers : Tell(w)

\* Workers and threads run, and a target that does not wait ends.  Nobody has
\* to stop the owner, and the owner need not leave its block.
Fairness == /\ \A w \in Workers : WF_vars(WorkerStep(w))
            /\ \A t \in Tasks : WF_vars(Ends(t))
            /\ WF_vars(WorkersJoined)

Spec == Init /\ [][Next]_vars /\ Fairness
-----------------------------------------------------------------------------
Running == {"running", "waiting", "woken", "closing"}
Unstarted == {"queued", "taken", "refused", "lost"}

TypeOK == /\ queue \in Seq(Tasks)
          /\ closed \in BOOLEAN
          /\ task \in [Tasks -> {"new", "stopped"} \cup Running \cup Unstarted]
          /\ failed \subseteq Tasks
          /\ listed \subseteq Tasks
          /\ worker \in [Workers -> {"loop", "pop", "start", "look", "join", "left"}]
          /\ holds \in [Workers -> Tasks \cup {NoTask}]
          /\ seen \in [Workers -> SUBSET Tasks]
          /\ owner \in {"inside", "joining", "outside"}
          /\ told \subseteq Workers
          /\ untold \subseteq Workers

ChildFailed(t) == Children(t) \cap failed # {}
Joined(t) == \E w \in Workers : holds[w] = t /\ worker[w] \in {"look", "join"}
Deserted(t) == \E w \in told : holds[w] = t /\ worker[w] \in {"loop", "left"}

\* No more tasks run than there are workers: each task that runs is joined by
\* the worker that started it, unless that worker was told to stop, and takes
\* no other, or the task made another one on the pool and that failed
\* (pools.py:33, threads.py:431-433).
Supervised == \A t \in Tasks :
                 task[t] \in Running => Joined(t) \/ Deserted(t) \/ ChildFailed(t)

\* Past the `with` block all is done, as the test of the pool expects
\* (tests/test_threads.py:339-345): a task that was taken on has stopped.  The
\* exceptions are those of Supervised, a task that is left in the queue when
\* all workers were told to stop, and one whose start() raised (pools.py:33-35).
AllDoneAtExit == owner = "outside" => \A t \in Tasks :
                    \/ task[t] \in {"new", "refused", "stopped"}
                    \/ task[t] \in Running /\ (Deserted(t) \/ ChildFailed(t))
                    \/ task[t] = "queued" /\ told = Workers
                    \/ task[t] = "lost"

\* c cannot go on before t has stopped.
Needs(c, t) == \/ task[c] = "waiting" /\ WaitsFor[c] = t
               \/ task[c] = "closing" /\ t \in Children(c) /\ task[t] \notin {"new", "stopped"}

\* A worker joins a task that needs one nobody will ever start: it was refused,
\* could not be started, or is queued behind workers that all wait like that.
Starved == \E w \in Workers, t \in Tasks :
              /\ worker[w] = "join"
              /\ Needs(holds[w], t)
              /\ \/ task[t] \in {"refused", "lost"}
                 \/ /\ task[t] = "queued"
                    /\ \A v \in Workers : \/ worker[v] = "left"
                                          \/ /\ worker[v] = "join"
                                             /\ \E u \in Tasks : /\ Needs(holds[v], u)
                                                                 /\ task[u] \in Unstarted

\* The `with` block is left in the end, unless tasks that need tasks of the
\* same pool starve it.
ExitEnds == owner = "joining" ~> owner = "outside" \/ Starved
=============================================================================
