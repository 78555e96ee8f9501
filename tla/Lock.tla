-------------------------------- MODULE Lock --------------------------------
(***************************************************************************)
(* The Lock of src/mo_threads/lock.py: a non-re-entrant monitor.  Every    *)
(* __exit__ and every wait() hands a signal to the thread that has waited  *)
(* longest; wait() takes the lock again before it returns, whether it was  *)
(* signalled or gave up because of its till.                               *)
(*                                                                         *)
(* All of self.waiting is read and written with the lock held, so a call   *)
(* is cut only where it releases or takes the lock and where it sleeps.    *)
(* A waiter is named by its thread, which has at most one.                 *)
(***************************************************************************)
EXTENDS Integers, Sequences, SequencesExt

CONSTANTS Threads,   \* the threads that use the lock
          Regulars,  \* those of them that never call wait()
          NoThread   \* nobody holds the lock

ASSUME LockAssumption == /\ NoThread \notin Threads
                         /\ Regulars \subseteq Threads

VARIABLES holder,    \* who has self.lock
          waiting,   \* self.waiting, oldest waiter first (the code pops from the end)
          signaled,  \* the waiters whose Signal is activated
          till,      \* the till of the wait() each thread is in
          phase,     \* where each thread is
          result     \* what its last wait() returned, TRUE outside

vars == <<holder, waiting, signaled, till, phase, result>>

Phases == {"out", "in", "asleep", "awake"}
Tills == {"none", "armed", "fired"}

Init == /\ holder = NoThread
        /\ waiting = <<>>
        /\ signaled = {}
        /\ till = [t \in Threads |-> "none"]
        /\ phase = [t \in Threads |-> "out"]
        /\ result = [t \in Threads |-> TRUE]

\* The oldest waiter, if any, leaves the list and its signal is activated.
SignalOldest == IF waiting = <<>>
                  THEN UNCHANGED <<waiting, signaled>>
                  ELSE /\ signaled' = signaled \cup {Head(waiting)}
                       /\ waiting' = Tail(waiting)

Enter(t) == /\ phase[t] = "out"
            /\ holder = NoThread
            /\ holder' = t
            /\ phase' = [phase EXCEPT ![t] = "in"]
            /\ UNCHANGED <<waiting, signaled, till, result>>

\* Mutant: leaving the monitor tells nobody.
ExitSilently(t) == /\ phase[t] = "in"
                   /\ holder' = NoThread
                   /\ phase' = [phase EXCEPT ![t] = "out"]
                   /\ result' = [result EXCEPT ![t] = TRUE]
                   /\ UNCHANGED <<waiting, signaled, till>>

Exit(t) == /\ phase[t] = "in"
           /\ SignalOldest
           /\ holder' = NoThread
           /\ phase' = [phase EXCEPT ![t] = "out"]
           /\ result' = [result EXCEPT ![t] = TRUE]
           /\ UNCHANGED till

\* Mutant: the own waiter is added and no other is woken, as in a usual monitor.
WaitWakesNobody(t, tl) ==
    /\ phase[t] = "in"
    /\ waiting' = Append(waiting, t)
    /\ till' = [till EXCEPT ![t] = tl]
    /\ holder' = NoThread
    /\ phase' = [phase EXCEPT ![t] = "asleep"]
    /\ UNCHANGED <<signaled, result>>

\* wait(till) up to the point where the thread sleeps: another waiter is
\* signalled, the own one becomes the newest, the lock is released.
Wait(t, tl) ==
    /\ phase[t] = "in"
    /\ \/ /\ waiting = <<>>
          /\ waiting' = <<t>>
          /\ UNCHANGED signaled
       \/ /\ waiting # <<>>
          /\ waiting' = Append(Tail(waiting), t)
          /\ signaled' = signaled \cup {Head(waiting)}
    /\ till' = [till EXCEPT ![t] = tl]
    /\ holder' = NoThread
    /\ phase' = [phase EXCEPT ![t] = "asleep"]
    /\ UNCHANGED result

TillFires(t) == /\ phase[t] \in {"asleep", "awake"}
                /\ till[t] = "armed"
                /\ till' = [till EXCEPT ![t] = "fired"]
                /\ UNCHANGED <<holder, waiting, signaled, phase, result>>

\* The wait on `waiter | till` is over.
Wake(t) == /\ phase[t] = "asleep"
           /\ t \in signaled \/ till[t] = "fired"
           /\ phase' = [phase EXCEPT ![t] = "awake"]
           /\ UNCHANGED <<holder, waiting, signaled, till, result>>

\* Mutant: the answer says whether the till was reached.
ReacquireTellsTill(t) ==
    /\ phase[t] = "awake"
    /\ holder = NoThread
    /\ holder' = t
    /\ waiting' = SelectSeq(waiting, LAMBDA w : w # t)
    /\ result' = [result EXCEPT ![t] = till[t] # "fired"]
    /\ signaled' = signaled \ {t}
    /\ phase' = [phase EXCEPT ![t] = "in"]
    /\ till' = [till EXCEPT ![t] = "none"]

\* The rest of wait(): the lock is taken, the own waiter leaves the list if
\* nobody popped it, and its state is the answer.
Reacquire(t) ==
    /\ phase[t] = "awake"
    /\ holder = NoThread
    /\ holder' = t
    /\ \/ \E i \in DOMAIN waiting : waiting[i] = t /\ waiting' = RemoveAt(waiting, i)
       \/ (\A i \in DOMAIN waiting : waiting[i] # t) /\ UNCHANGED waiting
    /\ result' = [result EXCEPT ![t] = t \in signaled]
    /\ signaled' = signaled \ {t}
    /\ phase' = [phase EXCEPT ![t] = "in"]
    /\ till' = [till EXCEPT ![t] = "none"]

Next == \E t \in Threads :
           \/ Enter(t) \/ Exit(t)
           \/ \E tl \in {"none", "armed"} : t \notin Regulars /\ Wait(t, tl)
           \/ TillFires(t) \/ Wake(t) \/ Reacquire(t)

-----------------------------------------------------------------------------
TypeOK == /\ holder \in Threads \cup {NoThread}
          /\ waiting \in Seq(Threads)
          /\ signaled \subseteq Threads
          /\ till \in [Threads -> Tills]
          /\ phase \in [Threads -> Phases]
          /\ result \in [Threads -> BOOLEAN]

\* Exactly the thread inside the monitor holds the lock, so there is one at
\* most; in particular wait() has the lock again when it returns (lock.py:55).
MutualExclusion == \A t \in Threads : phase[t] = "in" <=> holder = t

\* No signal is spent on a thread that is gone, and no waiting thread is
\* unreachable: the list is, without repetition, the threads that are in
\* wait() and not signalled, also when a till and a signal race
\* (lock.py:46-50, 63-70, 82-91).
WaitingExact ==
    /\ \A i, k \in DOMAIN waiting : waiting[i] = waiting[k] => i = k
    /\ \A t \in Threads : (\E i \in DOMAIN waiting : waiting[i] = t)
                          <=> phase[t] \in {"asleep", "awake"} /\ t \notin signaled
    /\ \A t \in signaled : phase[t] \in {"asleep", "awake"}

\* A thread wakes up for a reason.
WokenForReason == \A t \in Threads : phase[t] = "awake" => t \in signaled \/ till[t] = "fired"

\* "True if signaled to go, False if till was signaled" (lock.py:57), also
\* when both happened: a signal taken off the list is always answered with
\* True, so whoever gave up took no signal from another waiter.
AnswerTellsSignal ==
    [][\A t \in Threads : phase[t] = "awake" /\ phase'[t] = "in" =>
          \/ /\ result'[t]
             /\ \A i \in DOMAIN waiting : waiting[i] # t
          \/ /\ ~result'[t]
             /\ till[t] = "fired"
             /\ \E i \in DOMAIN waiting : waiting[i] = t]_vars

\* Since every wait() wakes the waiter before it, at most one thread at a time
\* is waiting and not signalled.  The list is never longer, and two threads
\* that wait for something with no third one about keep waking each other.
OneWaiter == Len(waiting) <= 1

IndInv == TypeOK /\ MutualExclusion /\ WaitingExact /\ WokenForReason /\ OneWaiter

(***************************************************************************)
(* Every exit signals a waiting thread, "so every thread gets an           *)
(* opportunity to react" (README.md:168).  The environment assumed: what   *)
(* happens at the lock never stops altogether, which the Regulars ensure,  *)
(* and a thread that can leave its sleep does.  No fairness of the lock.   *)
(***************************************************************************)
Spec == Init /\ [][Next]_vars /\ WF_vars(Next) /\ \A t \in Threads : WF_vars(Wake(t))

\* Whoever waits, till or not, gets its turn.
WaiterServed == \A t \in Threads : phase[t] = "asleep" ~> phase[t] = "awake"
=============================================================================
