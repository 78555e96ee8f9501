-------------------------------- MODULE Queue --------------------------------
(***************************************************************************)
(* The Queue of src/mo_threads/queues.py: a bounded queue whose methods    *)
(* run inside a Lock (module Lock), except close(), which only activates   *)
(* the `closed` Signal.  A call is cut where it releases or takes the      *)
(* lock, and between the test for space and the append, where an unlocked  *)
(* close() can come in.                                                    *)
(***************************************************************************)
EXTENDS Integers, Sequences, SequencesExt

CONSTANTS Threads,             \* the threads that use the queue
          Values,              \* what they put into it
          PleaseStop,          \* the PLEASE_STOP constant, also a value
          NoThread,            \* nobody holds the lock
          MaxLen,                 \* self.max
          Silent,              \* self.silent
          Unique,              \* self.unique
          AllowAddAfterClose,  \* self.allow_add_after_close
          Programs             \* what the threads may call: each call of a program once

\* A call: till is "none", "armed" (a Signal that may be activated) or "fired".
Request == [op : {"add", "push", "push_all", "extend", "stop", "close",
                  "pop", "pop_one", "pop_all", "join", "peek"},
            values : Seq(Values \cup {PleaseStop}),
            force : BOOLEAN,
            till : {"none", "armed", "fired"}]

ASSUME QueueAssumption == /\ NoThread \notin Threads
                          /\ PleaseStop \notin Values
                          /\ MaxLen \in Nat \ {0}
                          /\ {Silent, Unique, AllowAddAfterClose} \subseteq BOOLEAN
                          /\ Programs \subseteq [Threads -> SUBSET Request]

VARIABLES holder, waiting, signaled, till, phase, result,   \* the Lock, see there
          queue,      \* self.queue
          closed,     \* self.closed
          pc,         \* where each thread is in its call
          request,    \* the call each thread is in
          giveUp,     \* the till the code of that call goes by
          caller,     \* the till the caller of add() passed
          left,       \* the calls each thread has not made yet (the bound)
          log,        \* history: all values put, in the order they are due
          delivered   \* history: all values taken, in order

lockVars == <<holder, waiting, signaled, till, phase, result>>
vars == <<holder, waiting, signaled, till, phase, result,
          queue, closed, pc, request, giveUp, caller, left, log, delivered>>

L == INSTANCE Lock WITH Regulars <- {}

Putting == {"add", "push", "push_all", "extend"}
PCs == {"idle", "await_close", "start", "space", "append", "stop", "look", "answer",
        "pop_one", "pop_all", "join", "peek"}

NoRequest == [op |-> "peek", values |-> <<>>, force |-> FALSE, till |-> "none"]

Init == /\ L!Init
        /\ queue = <<>>
        /\ closed = FALSE
        /\ pc = [t \in Threads |-> "idle"]
        /\ request = [t \in Threads |-> NoRequest]
        /\ giveUp = [t \in Threads |-> "none"]
        /\ caller = [t \in Threads |-> "none"]
        /\ left \in Programs
        /\ log = <<>>
        /\ delivered = <<>>

Goto(t, label) == pc' = [pc EXCEPT ![t] = label]

\* The `with self.lock` block is left, and the method with it.
Leave(t) == /\ L!Exit(t)
            /\ Goto(t, "idle")
            /\ request' = [request EXCEPT ![t] = NoRequest]
            /\ giveUp' = [giveUp EXCEPT ![t] = "none"]
            /\ caller' = [caller EXCEPT ![t] = "none"]
            /\ UNCHANGED left

-----------------------------------------------------------------------------
\* add() goes by its own timer unless the signal it is given is activated
\* already: `till or Till(...)`, and a Signal that is not activated is false.
Call(t, r) ==
    /\ pc[t] = "idle"
    /\ r \in left[t]
    /\ r.op # "close"
    /\ left' = [left EXCEPT ![t] = @ \ {r}]
    /\ request' = [request EXCEPT ![t] = r]
    /\ caller' = [caller EXCEPT ![t] = IF r.op = "add" THEN r.till ELSE "none"]
    /\ giveUp' = [giveUp EXCEPT ![t] = CASE r.op \in {"pop", "join"} -> r.till
                                         [] r.op = "add" /\ r.till = "fired" -> "fired"
                                         [] r.op = "add" /\ r.till # "fired" -> "armed"
                                         [] OTHER -> "none"]
    /\ Goto(t, IF r.op = "join" THEN "await_close" ELSE "start")
    /\ UNCHANGED <<lockVars, queue, closed, log, delivered>>

\* close() and leaving a `with queue` block: no lock is taken.
Close(t, r) == /\ pc[t] = "idle"
               /\ r \in left[t]
               /\ r.op = "close"
               /\ left' = [left EXCEPT ![t] = @ \ {r}]
               /\ closed' = TRUE
               /\ UNCHANGED <<lockVars, queue, pc, request, giveUp, caller, log, delivered>>

\* The timer of add(), or the signal given to pop() or join().
GiveUpFires(t) == /\ pc[t] # "idle"
                  /\ giveUp[t] = "armed"
                  /\ giveUp' = [giveUp EXCEPT ![t] = "fired"]
                  /\ UNCHANGED <<lockVars, queue, closed, pc, request, caller, left, log, delivered>>

\* The signal given to add().
CallerFires(t) == /\ pc[t] # "idle"
                  /\ caller[t] = "armed"
                  /\ caller' = [caller EXCEPT ![t] = "fired"]
                  /\ UNCHANGED <<lockVars, queue, closed, pc, request, giveUp, left, log, delivered>>

\* join() first waits for closed | till.
ClosedForJoin(t) == /\ pc[t] = "await_close"
                    /\ closed \/ giveUp[t] = "fired"
                    /\ Goto(t, "start")
                    /\ UNCHANGED <<lockVars, queue, closed, request, giveUp, caller, left, log, delivered>>

EnterLock(t) == /\ pc[t] = "start"
                /\ L!Enter(t)
                /\ Goto(t, CASE request[t].op \in Putting -> IF request[t].force THEN "append" ELSE "space"
                             [] request[t].op = "pop" -> "look"
                             [] OTHER -> request[t].op)
                /\ UNCHANGED <<queue, closed, request, giveUp, caller, left, log, delivered>>

-----------------------------------------------------------------------------
(***************************************************************************)
(* Sleeping inside the lock.  In _wait_for_queue_space a silent queue      *)
(* sleeps on the till it was given, the others on a timer of 5 seconds.    *)
(***************************************************************************)
Sleep(t, tl, label) == /\ L!Wait(t, tl)
                       /\ Goto(t, label)
                       /\ UNCHANGED <<queue, closed, request, giveUp, caller, left, log, delivered>>

SleepTillFires(t) ==
    /\ CASE pc[t] = "space"  -> Silent => giveUp[t] = "fired"
         [] pc[t] = "answer" -> closed \/ giveUp[t] = "fired"
         [] OTHER            -> giveUp[t] = "fired"
    /\ L!TillFires(t)
    /\ UNCHANGED <<queue, closed, pc, request, giveUp, caller, left, log, delivered>>

WakeUp(t) == /\ L!Wake(t)
             /\ UNCHANGED <<queue, closed, pc, request, giveUp, caller, left, log, delivered>>

ReacquireLock(t) == /\ L!Reacquire(t)
                    /\ UNCHANGED <<queue, closed, pc, request, giveUp, caller, left, log, delivered>>

-----------------------------------------------------------------------------
At(t, label) == pc[t] = label /\ phase[t] = "in"
IsFull == Len(queue) >= MaxLen

\* Mutant: the queue may get one longer than max.
SpaceOffByOne(t) == /\ At(t, "space")
                    /\ Len(queue) <= MaxLen
                    /\ ~closed
                    /\ Goto(t, "append")
                    /\ UNCHANGED <<lockVars, queue, closed, request, giveUp, caller, left, log, delivered>>

SpaceFound(t) == /\ At(t, "space")
                 /\ IF closed THEN AllowAddAfterClose ELSE ~IsFull
                 /\ Goto(t, "append")
                 /\ UNCHANGED <<lockVars, queue, closed, request, giveUp, caller, left, log, delivered>>

SpaceWait(t) == /\ At(t, "space")
                /\ ~closed /\ IsFull
                /\ giveUp[t] # "fired"
                /\ Sleep(t, IF Silent THEN giveUp[t] ELSE "armed", "space")

SpaceTimeout(t) == /\ At(t, "space")
                   /\ ~closed /\ IsFull
                   /\ giveUp[t] = "fired"
                   /\ Leave(t)
                   /\ UNCHANGED <<queue, closed, log, delivered>>

AddRefused(t) == /\ At(t, "space")
                 /\ closed /\ ~AllowAddAfterClose
                 /\ Leave(t)
                 /\ UNCHANGED <<queue, closed, log, delivered>>

\* What a list of values does to a queue, one at a time: add() and extend()
\* leave out PLEASE_STOP, and with unique what is queued already; push() and
\* push_all() put everything in front, the last one foremost.
AddAll(s, vs) == FoldLeft(LAMBDA q, v : IF v = PleaseStop \/ (Unique /\ v \in ToSet(q))
                                          THEN q ELSE Append(q, v), s, vs)

Put(t) ==
    /\ At(t, "append")
    /\ \/ /\ request[t].op \in {"push", "push_all"}
          /\ queue' = Reverse(request[t].values) \o queue
          /\ log' = delivered \o Reverse(request[t].values)
                      \o SubSeq(log, Len(delivered) + 1, Len(log))
          /\ UNCHANGED closed
       \/ /\ request[t].op \in {"add", "extend"}
          /\ queue' = AddAll(queue, request[t].values)
          /\ log' = delivered \o AddAll(SubSeq(log, Len(delivered) + 1, Len(log)), request[t].values)
          /\ closed' = (closed \/ PleaseStop \in ToSet(request[t].values))
    /\ Leave(t)
    /\ UNCHANGED delivered

\* add(PLEASE_STOP) closes inside the lock, so that leaving it wakes a waiter.
Stop(t) == /\ At(t, "stop")
           /\ closed' = TRUE
           /\ Leave(t)
           /\ UNCHANGED <<queue, log, delivered>>

-----------------------------------------------------------------------------
Take(t, n) == /\ queue' = SubSeq(queue, n + 1, Len(queue))
              /\ delivered' = delivered \o SubSeq(queue, 1, n)
              /\ Leave(t)

\* Mutant: the newest value is popped.
PopNewest(t) == /\ At(t, "look")
                /\ queue # <<>>
                /\ queue' = Front(queue)
                /\ delivered' = Append(delivered, Last(queue))
                /\ Leave(t)
                /\ UNCHANGED <<closed, log>>

PopValue(t) == /\ At(t, "look")
               /\ queue # <<>>
               /\ Take(t, 1)
               /\ UNCHANGED <<closed, log>>

PopClosed(t) == /\ At(t, "look")
                /\ queue = <<>> /\ closed
                /\ Leave(t)
                /\ UNCHANGED <<queue, closed, log, delivered>>

\* Mutant: the thread sleeps on its own till only, not on closed | till.
PopWaitIgnoresClosed(t) == /\ At(t, "look")
                           /\ queue = <<>> /\ ~closed
                           /\ Sleep(t, IF giveUp[t] = "none" THEN "none" ELSE "armed", "answer")

PopWait(t) == /\ At(t, "look")
              /\ queue = <<>> /\ ~closed
              /\ Sleep(t, "armed", "answer")

PopSignaled(t) == /\ At(t, "answer")
                  /\ result[t]
                  /\ Goto(t, "look")
                  /\ UNCHANGED <<lockVars, queue, closed, request, giveUp, caller, left, log, delivered>>

\* The till or `closed` ended the wait: PLEASE_STOP or None is returned
\* without another look at the queue.
PopUnsignaled(t) == /\ At(t, "answer")
                    /\ ~result[t]
                    /\ Leave(t)
                    /\ UNCHANGED <<queue, closed, log, delivered>>

PopOne(t) == /\ At(t, "pop_one")
             /\ \/ /\ closed \/ queue = <<>>
                   /\ Leave(t)
                   /\ UNCHANGED <<queue, closed, delivered>>
                \/ /\ ~closed /\ queue # <<>>
                   /\ closed' = (Head(queue) = PleaseStop)
                   /\ Take(t, 1)
             /\ UNCHANGED log

PopAll(t) == /\ At(t, "pop_all")
             /\ Take(t, Len(queue))
             /\ UNCHANGED <<closed, log>>

JoinWait(t) == /\ At(t, "join")
               /\ giveUp[t] # "fired"
               /\ queue # <<>>
               /\ Sleep(t, giveUp[t], "join")

JoinReturns(t) == /\ At(t, "join")
                  /\ giveUp[t] = "fired" \/ queue = <<>>
                  /\ Leave(t)
                  /\ UNCHANGED <<queue, closed, log, delivered>>

\* __len__, __nonzero__, qsize, empty and full: they too wake a waiter.
Peek(t) == /\ At(t, "peek")
           /\ Leave(t)
           /\ UNCHANGED <<queue, closed, log, delivered>>

-----------------------------------------------------------------------------
Inside(t) == \/ SpaceFound(t) \/ SpaceWait(t) \/ SpaceTimeout(t) \/ AddRefused(t)
             \/ Put(t) \/ Stop(t)
             \/ PopValue(t) \/ PopClosed(t) \/ PopWait(t) \/ PopSignaled(t) \/ PopUnsignaled(t)
             \/ PopOne(t) \/ PopAll(t) \/ JoinWait(t) \/ JoinReturns(t) \/ Peek(t)

Locking(t) == EnterLock(t) \/ ReacquireLock(t)

Next == \E t \in Threads :
           \/ \E r \in left[t] : Call(t, r) \/ Close(t, r)
           \/ GiveUpFires(t) \/ CallerFires(t) \/ ClosedForJoin(t)
           \/ SleepTillFires(t) \/ WakeUp(t) \/ Locking(t) \/ Inside(t)

(***************************************************************************)
(* A thread that can go on inside a method does; timers fire, the timer of *)
(* add() included, but no signal of a caller has to; and a thread that     *)
(* finds the lock free again and again gets it.                            *)
(***************************************************************************)
Fairness == \A t \in Threads :
               /\ WF_vars(Inside(t) \/ WakeUp(t) \/ SleepTillFires(t) \/ ClosedForJoin(t))
               /\ WF_vars(request[t].op = "add" /\ GiveUpFires(t))
               /\ SF_vars(Locking(t))

Spec == Init /\ [][Next]_vars /\ Fairness
-----------------------------------------------------------------------------
\* The type of `queue` is part of EachOnceInOrder.
TypeOK == /\ L!TypeOK
          /\ closed \in BOOLEAN
          /\ pc \in [Threads -> PCs]
          /\ request \in [Threads -> Request]
          /\ giveUp \in [Threads -> L!Tills]
          /\ caller \in [Threads -> L!Tills]
          /\ left \in [Threads -> SUBSET Request]

\* Nothing is lost, doubled or overtaken between add() and pop(), whatever the
\* threads do: what was taken followed by what is queued is what was put.
EachOnceInOrder == /\ log = delivered \o queue
                   /\ log \in Seq(Values \cup {PleaseStop})

\* What the test for space found still holds when the values go in: an open
\* queue at its limit gets nothing but what is forced in (queues.py:78, 85,
\* 115, 141-159).  A batch may run over max by its own length.
PutsFit == [][\A t \in Threads :
                 At(t, "append") /\ ~request[t].force /\ queue' # queue
                    => ~IsFull \/ closed]_vars

\* pop() returns None "if till is reached and queue is still empty"
\* (queues.py:172), and likewise PLEASE_STOP for a closed queue, although it
\* does not look at the queue again (queues.py:184-187): a value put after the
\* thread went to sleep would have signalled it, as it is the only one asleep.
GivesUpOnEmpty == \A t \in Threads : At(t, "answer") /\ ~result[t] => queue = <<>>

\* pop() ends when there is something to take or the queue is closed, however
\* many others wait for a value or for space on the same lock: the signal that
\* an exit hands over is handed on until it gets to a thread that can use it.
PopEnds == \A t \in Threads :
              pc[t] \in {"look", "answer"} /\ (queue # <<>> \/ closed)
                 ~> pc[t] = "idle" \/ (queue = <<>> /\ ~closed)

\* Whoever waits for space leaves once there is some, unless others fill it
\* first, and add() leaves in any case, when its time is over at the latest,
\* with its value or without.  (A silent queue leaves push() and extend(), which
\* have no till, asleep when it is closed while full: close() does not take the
\* lock, queues.py:146, 216.)
AdderServed == \A t \in Threads :
                  /\ pc[t] = "space" /\ ~IsFull ~> pc[t] # "space" \/ IsFull
                  /\ pc[t] = "space" /\ request[t].op = "add" ~> pc[t] # "space"
=============================================================================
