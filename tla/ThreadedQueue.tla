---------------------------- MODULE ThreadedQueue ----------------------------
(***************************************************************************)
(* The ThreadedQueue of src/mo_threads/queues.py: a bounded queue and a    *)
(* thread, worker_bee, that moves its values to a slower queue in batches. *)
(* A function in the queue is called once the values before it were moved, *)
(* a PLEASE_STOP ends the thread, and so does its please_stop.  One call   *)
(* on the queue is one step here: what a call does inside, and what it     *)
(* waits for, is the subject of module Queue.                              *)
(***************************************************************************)
EXTENDS Integers, Sequences, SequencesExt

CONSTANTS Values,      \* what is put into the queue
          Functions,   \* functions put into it
          PleaseStop,  \* the PLEASE_STOP constant
          BatchSize,   \* batch_size
          MaxSize,     \* self.max
          MaxBatch,    \* bound: the items in one extend()
          MaxFailures  \* bound: how often a push raises

ASSUME ThreadedQueueAssumption ==
          /\ Values \cap Functions = {}
          /\ PleaseStop \notin Values \cup Functions
          /\ {BatchSize, MaxSize, MaxBatch} \subseteq Nat \ {0}
          /\ MaxFailures \in Nat

Items == Values \cup Functions \cup {PleaseStop}

VARIABLES queue,       \* self.queue
          pleaseStop,  \* please_stop of the thread
          worker,      \* where worker_bee is
          buffer,      \* _buffer
          postPush,    \* _post_push_functions
          nextPush,    \* is the timer next_push over?
          slow,        \* the values in slow_queue
          slowTold,    \* slow_queue got its PLEASE_STOP
          user,        \* where the caller of stop() is
          owner,       \* where the one is who stops the thread itself
          added,       \* history: all that users put into the queue
          called,      \* history: the functions called
          failures,    \* history: the pushes that raised
          stopLost     \* history: a PLEASE_STOP was taken by a push that raised

inner == <<buffer, postPush, nextPush>>
outer == <<slow, slowTold, called, failures, stopLost>>
vars == <<queue, pleaseStop, worker, inner, outer, user, owner, added>>

Init == /\ queue = <<>>
        /\ pleaseStop = FALSE
        /\ worker = "head"
        /\ buffer = <<>>
        /\ postPush = <<>>
        /\ nextPush = FALSE
        /\ slow = <<>>
        /\ slowTold = FALSE
        /\ user = "idle"
        /\ owner = "idle"
        /\ added = <<>>
        /\ called = {}
        /\ failures = 0
        /\ stopLost = FALSE

HasRoom == Len(queue) < MaxSize
Goto(label) == worker' = label

-----------------------------------------------------------------------------
(***************************************************************************)
(* The users: add() and extend() of values and functions, each of them     *)
(* once (a bound); stop(), which adds PLEASE_STOP as one more item and     *)
(* joins the thread; and whoever stops the thread itself, as the shutdown  *)
(* of the main thread does, which runs the job that puts a PLEASE_STOP     *)
(* into the queue.                                                         *)
(***************************************************************************)
Batches == {b \in BoundedSeq(Values \cup Functions, MaxBatch) : b # <<>> /\ IsInjective(b)}

\* add() is the batch of one.  extend() waits for room once, and then appends
\* the whole of its batch.
Add(batch) == /\ ToSet(batch) \cap ToSet(added) = {}
              /\ HasRoom
              /\ queue' = queue \o batch
              /\ added' = added \o batch
              /\ UNCHANGED <<pleaseStop, worker, inner, outer, user, owner>>

StopAdds == /\ user = "idle"
            /\ HasRoom
            /\ queue' = Append(queue, PleaseStop)
            /\ added' = Append(added, PleaseStop)
            /\ user' = "joins"
            /\ UNCHANGED <<pleaseStop, worker, inner, outer, owner>>

\* add() raises after ten minutes without space, and stop() with it.
StopFails == /\ user = "idle"
             /\ ~HasRoom
             /\ user' = "done"
             /\ UNCHANGED <<queue, pleaseStop, worker, inner, outer, owner, added>>

StopReturns == /\ user = "joins"
               /\ worker \in {"ended", "failed"}
               /\ user' = "done"
               /\ UNCHANGED <<queue, pleaseStop, worker, inner, outer, owner, added>>

StopThread == /\ owner = "idle"
              /\ owner' = IF pleaseStop THEN "done" ELSE "adds"
              /\ pleaseStop' = TRUE
              /\ UNCHANGED <<queue, worker, inner, outer, user, added>>

\* The job adds its PLEASE_STOP, or raises after ten minutes without space.
OwnerAdds == /\ owner = "adds"
             /\ queue' = IF HasRoom THEN Append(queue, PleaseStop) ELSE queue
             /\ owner' = "done"
             /\ UNCHANGED <<pleaseStop, worker, inner, outer, user, added>>

TimerFires == /\ ~nextPush
              /\ nextPush' = TRUE
              /\ UNCHANGED <<queue, pleaseStop, worker, buffer, postPush, outer, user, owner, added>>

-----------------------------------------------------------------------------
(***************************************************************************)
(* worker_bee.                                                             *)
(***************************************************************************)
Loop == /\ worker = "head"
        /\ Goto(IF pleaseStop THEN "last" ELSE "pop")
        /\ UNCHANGED <<queue, pleaseStop, inner, outer, user, owner, added>>

\* Mutant: only PLEASE_STOP is told from the values.
PoppedIntoBuffer(x) == /\ buffer' = IF x = PleaseStop THEN buffer ELSE Append(buffer, x)
                       /\ Goto(IF x = PleaseStop THEN "push" ELSE "batch")
                       /\ UNCHANGED <<postPush, nextPush>>

\* What is popped decides.  With nothing in the buffer the timer may be set
\* anew, if the last push was long ago.
Popped(x) == /\ \/ /\ x \in Values
                   /\ buffer' = Append(buffer, x)
                   /\ Goto("batch")
                   /\ UNCHANGED postPush
                \/ /\ x \in Functions
                   /\ postPush' = Append(postPush, x)
                   /\ Goto("batch")
                   /\ UNCHANGED buffer
                \/ /\ x = PleaseStop
                   /\ Goto("push")
                   /\ UNCHANGED <<buffer, postPush>>
             /\ nextPush' \in IF buffer = <<>> THEN {nextPush, FALSE} ELSE {nextPush}

Pop == /\ worker = "pop"
       /\ queue # <<>>
       /\ queue' = Tail(queue)
       /\ Popped(Head(queue))
       /\ UNCHANGED <<pleaseStop, outer, user, owner, added>>

PopTimesOut == /\ worker = "pop"
               /\ queue = <<>> /\ buffer # <<>> /\ nextPush
               /\ Goto("batch")
               /\ UNCHANGED <<queue, pleaseStop, inner, outer, user, owner, added>>

\* Mutant: the values stay in the buffer.
PushKeepsBuffer == /\ slow' = slow \o buffer
                   /\ buffer' = buffer
                   /\ called' = called \cup ToSet(postPush)
                   /\ postPush' = <<>>
                   /\ UNCHANGED <<slowTold, failures, stopLost>>

\* push_to_queue() in full.
Push == /\ slow' = slow \o buffer
        /\ buffer' = <<>>
        /\ called' = called \cup ToSet(postPush)
        /\ postPush' = <<>>
        /\ UNCHANGED <<slowTold, failures, stopLost>>

\* Mutant: the functions are called before the values are pushed.
PushRaisesAfterCalls == /\ failures < MaxFailures
                        /\ failures' = failures + 1
                        /\ called' = called \cup ToSet(postPush)
                        /\ UNCHANGED <<buffer, postPush, slow, slowTold>>

\* slow_queue.extend() raises and nothing is moved; or one of the functions
\* does, and all of them will be called again.
PushRaises == /\ failures < MaxFailures
              /\ failures' = failures + 1
              /\ \/ UNCHANGED <<buffer, slow, called>>
                 \/ /\ slow' = slow \o buffer
                    /\ buffer' = <<>>
                    /\ \E n \in DOMAIN postPush : called' = called \cup ToSet(SubSeq(postPush, 1, n))
              /\ UNCHANGED <<postPush, slowTold>>

\* Mutant: a PLEASE_STOP ends the loop and leaves the buffer to the last push,
\* which is left out as well.
StopWithoutPush == /\ worker = "push"
                   /\ Goto("tell")
                   /\ pleaseStop' = TRUE
                   /\ UNCHANGED <<queue, inner, outer, user, owner, added>>

\* Mutant: the loop is not left.
StopDoesNotEnd == /\ worker = "push"
                  /\ Push
                  /\ Goto("batch")
                  /\ UNCHANGED <<queue, pleaseStop, nextPush, user, owner, added>>

\* PLEASE_STOP was popped.  A push that raises takes it along: the loop goes on.
StopPushes == /\ worker = "push"
              /\ \/ Push /\ Goto("go")
                 \/ PushRaises /\ stopLost' = TRUE /\ Goto("batch")
              /\ UNCHANGED <<queue, pleaseStop, nextPush, user, owner, added>>

\* The worker activates its please_stop, and so runs the job that adds one more
\* PLEASE_STOP, unless it was activated already.
StopGoes == /\ worker = "go"
            /\ pleaseStop' = TRUE
            /\ queue' = IF ~pleaseStop /\ HasRoom THEN Append(queue, PleaseStop) ELSE queue
            /\ Goto("last")
            /\ UNCHANGED <<inner, outer, user, owner, added>>

\* A batch is full or the time is over.
Batch == /\ worker = "batch"
         /\ LET due == Len(buffer) >= BatchSize \/ nextPush
            IN \/ /\ due /\ buffer # <<>>
                  /\ \/ Push /\ nextPush' = FALSE
                     \/ PushRaises /\ UNCHANGED <<nextPush, stopLost>>
               \/ /\ due /\ buffer = <<>>
                  /\ nextPush' = FALSE
                  /\ UNCHANGED <<buffer, postPush, outer>>
               \/ ~due /\ UNCHANGED <<inner, outer>>
         /\ Goto("head")
         /\ UNCHANGED <<queue, pleaseStop, user, owner, added>>

\* One last push, without a second try.
LastPush == /\ worker = "last"
            /\ \/ buffer = <<>> /\ Goto("tell") /\ UNCHANGED <<buffer, postPush, outer>>
               \/ buffer # <<>> /\ Push /\ Goto("tell")
               \/ buffer # <<>> /\ PushRaises /\ Goto("failed") /\ UNCHANGED stopLost
            /\ UNCHANGED <<queue, pleaseStop, nextPush, user, owner, added>>

TellSlow == /\ worker = "tell"
            /\ slowTold' = TRUE
            /\ Goto("ended")
            /\ UNCHANGED <<queue, pleaseStop, inner, slow, called, failures, stopLost, user, owner, added>>

Worker == \/ Loop \/ Pop \/ PopTimesOut \/ StopPushes \/ StopGoes
          \/ Batch \/ LastPush \/ TellSlow

Next == \/ \E batch \in Batches : Add(batch)
        \/ StopAdds \/ StopFails \/ StopReturns \/ StopThread \/ OwnerAdds
        \/ TimerFires \/ Worker

\* The worker runs and timers fire; nobody has to stop anything.
Spec == Init /\ [][Next]_vars /\ WF_vars(Worker) /\ WF_vars(OwnerAdds)
             /\ WF_vars(TimerFires) /\ WF_vars(StopReturns)
-----------------------------------------------------------------------------
TypeOK == /\ queue \in Seq(Items)
          /\ buffer \in Seq(Values)
          /\ postPush \in Seq(Functions)
          /\ slow \in Seq(Values)
          /\ {pleaseStop, nextPush, slowTold, stopLost} \subseteq BOOLEAN
          /\ worker \in {"head", "pop", "push", "go", "batch", "last", "tell", "ended", "failed"}
          /\ user \in {"idle", "joins", "done"}
          /\ owner \in {"idle", "adds", "done"}
          /\ added \in Seq(Items)
          /\ called \subseteq Functions
          /\ failures \in 0..MaxFailures
          /\ Len(queue) < MaxSize + MaxBatch

ValuesIn(s) == FoldLeft(LAMBDA vs, x : IF x \in Values THEN Append(vs, x) ELSE vs, <<>>, s)

\* Nothing is dropped, doubled or overtaken on the way, whatever raises and
\* however the worker ends (the question of queues.py:438): what is not in the
\* slow queue is still in the buffer or the queue.
MovedOnceInOrder == slow \o buffer \o ValuesIn(queue) = ValuesIn(added)

\* The items put before the first PLEASE_STOP of stop().
BeforeStop == IF PleaseStop \in ToSet(added)
                THEN SubSeq(added, 1, SelectInSeq(added, LAMBDA x : x = PleaseStop) - 1)
                ELSE added

\* A worker that was ended by stop() has moved all that was added before it;
\* one that is stopped itself leaves the queue as it is (queues.py:488).
StopDelivers == worker = "ended" /\ owner = "idle" => ToSet(ValuesIn(BeforeStop)) \subseteq ToSet(slow)

\* A function is called after all values put before it were moved, also when a
\* push has raised in between (queues.py:482-486).
CalledAfterValues ==
    \A i \in DOMAIN added : added[i] \in called
        => ToSet(ValuesIn(SubSeq(added, 1, i))) \subseteq ToSet(slow)

\* stop() ends, unless its PLEASE_STOP was taken by a push that raised; and once
\* the thread is asked to stop, the slow queue is told to stop as well, unless
\* the last push raised.
StopEnds == /\ user = "joins" ~> user = "done" \/ stopLost
            /\ pleaseStop ~> slowTold \/ worker = "failed"
=============================================================================
