--------------------------- MODULE AbstractSignal ---------------------------
(***************************************************************************)
(* What the Signal of signals.py promises to those who use it: it is       *)
(* activated once and for good, a wait() ends only once it is activated,   *)
(* and a job handed to then() is run once, never before the activation.    *)
(* A job whose error handler raises may take other due jobs with it.       *)
(***************************************************************************)
CONSTANTS Threads,   \* those who call the signal
          Jobs,      \* the functions given to then()
          Escaping   \* the jobs whose error handler raises

VARIABLES go,        \* has the signal been activated
          inWait,    \* the threads blocked in wait()
          due,       \* the jobs handed over and neither run, removed nor lost
          ran        \* the jobs that were run

vars == <<go, inWait, due, ran>>

Init == /\ go = FALSE
        /\ inWait = {}
        /\ due = {}
        /\ ran = {}

Go == /\ ~go
      /\ go' = TRUE
      /\ UNCHANGED <<inWait, due, ran>>

BeginWait(t) == /\ ~go
                /\ t \notin inWait
                /\ inWait' = inWait \cup {t}
                /\ UNCHANGED <<go, due, ran>>

EndWait(t) == /\ go
              /\ t \in inWait
              /\ inWait' = inWait \ {t}
              /\ UNCHANGED <<go, due, ran>>

Attach(j) == /\ j \notin due \cup ran
             /\ due' = due \cup {j}
             /\ UNCHANGED <<go, inWait, ran>>

\* A job can be taken back, but only as long as the signal is not activated.
Detach(j) == /\ ~go
             /\ j \in due
             /\ due' = due \ {j}
             /\ UNCHANGED <<go, inWait, ran>>

RunJob(j) == /\ go
             /\ j \in due
             /\ ran' = ran \cup {j}
             /\ \E lost \in SUBSET (due \ {j}) :
                   /\ j \notin Escaping => lost = {}
                   /\ due' = due \ ({j} \cup lost)
             /\ UNCHANGED <<go, inWait>>

Next == \/ Go
        \/ \E t \in Threads : BeginWait(t) \/ EndWait(t)
        \/ \E j \in Jobs : Attach(j) \/ Detach(j) \/ RunJob(j)

\* Once the signal is activated, nobody stays in wait() and no job stays due.
Fairness == /\ \A t \in Threads : WF_vars(EndWait(t))
            /\ WF_vars(\E j \in Jobs : RunJob(j))

Spec == Init /\ [][Next]_vars /\ Fairness
=============================================================================
