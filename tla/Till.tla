-------------------------------- MODULE Till --------------------------------
(***************************************************************************)
(* The timers of src/mo_threads/till.py: threads create Till objects, and  *)
(* a daemon thread activates each of them when its time has come, or all   *)
(* of them when it is asked to stop.  Till.locker protects new_timers and  *)
(* next_ping, but the daemon lowers next_ping once more without it, also   *)
(* while a creator who holds it is about to write next_ping, and a creator *)
(* tests `enabled` before it takes it.                                     *)
(*                                                                         *)
(* Time is counted in ticks.  What the daemon computes, or waits for the   *)
(* locker, takes no time: a tick passes only while it sleeps, or when it   *)
(* has ended.  A creator may take any time between its steps, except that  *)
(* it does not keep a daemon that is awake waiting for the locker.         *)
(***************************************************************************)
EXTENDS Integers, FiniteSets, FiniteSetsExt

CONSTANTS Timers,    \* the Till objects that can be created
          Faulty,    \* those of them whose go() raises, after they are activated
          Delays,    \* the `seconds` they are created with, in ticks
          INTERVAL,  \* the longest sleep of the daemon, in ticks
          MaxTime    \* bound on the time

ASSUME TillAssumption == /\ Faulty \subseteq Timers
                         /\ Delays \subseteq Nat \ {0}
                         /\ INTERVAL \in Nat \ {0}
                         /\ MaxTime \in Nat

VARIABLES now,         \* time()
          enabled,     \* the global Signal `enabled`
          stop,        \* the daemon's please_stop
          nextPing,    \* Till.next_ping
          newTimers,   \* Till.new_timers
          state,       \* of each Till: "none", "made" (before the locker), "entering"
                       \* (its creator holds it), "live", "done" (it is DONE)
          lowered,     \* the next_ping a creator is about to write, 0 otherwise
          deadline,    \* its time
          appended,    \* when it got into new_timers
          fired,       \* the Tills activated
          collected,   \* the Tills nobody refers to any more
          pc,          \* where the daemon is
          wakeAt,      \* the end of its sleep, 0 when it is awake
          seen,        \* the next_ping it is about to write, 0 otherwise
          sorted,      \* its sorted_timers
          work,        \* its `work`, and in the end all it has left
          lost         \* history: what it dropped when a go() raised

creation == <<state, lowered, deadline, appended>>
tillVars == <<now, enabled, stop, nextPing, newTimers, state, lowered, deadline,
              appended, fired, collected, pc, wakeAt, seen, sorted, work, lost>>

DaemonPCs == {"start", "loop", "sleep", "take", "split", "lower", "fire",
              "disable", "drain", "flush", "ended"}

MinOf(a, b) == IF a < b THEN a ELSE b
MaxOf(a, b) == IF a > b THEN a ELSE b

TillInit == /\ now = 0
            /\ enabled = FALSE
            /\ stop = FALSE
            /\ nextPing = 0
            /\ newTimers = {}
            /\ state = [x \in Timers |-> "none"]
            /\ lowered = 0
            /\ deadline = [x \in Timers |-> 0]
            /\ appended = [x \in Timers |-> 0]
            /\ fired = {}
            /\ collected = {}
            /\ pc = "start"
            /\ wakeAt = 0
            /\ seen = 0
            /\ sorted = {}
            /\ work = {}
            /\ lost = {}

-----------------------------------------------------------------------------
(***************************************************************************)
(* A Till is created: __new__ tests `enabled`, __init__ computes the       *)
(* deadline, and then reads and writes next_ping and enters the Till with  *)
(* the locker held.  Bound: New and Enter only while there is time left    *)
(* for the deadline and a sleep of the daemon after it.                    *)
(***************************************************************************)
New(x, d) ==
    /\ state[x] = "none"
    /\ \/ /\ ~enabled
          /\ state' = [state EXCEPT ![x] = "done"]
          /\ UNCHANGED deadline
       \/ /\ enabled
          /\ now + d + INTERVAL <= MaxTime
          /\ state' = [state EXCEPT ![x] = "made"]
          /\ deadline' = [deadline EXCEPT ![x] = now + d]
    /\ UNCHANGED <<now, enabled, stop, nextPing, newTimers, lowered, appended, fired,
                   collected, pc, wakeAt, seen, sorted, work, lost>>

\* Nobody holds Till.locker.
Free == \A x \in Timers : state[x] # "entering"

Enter(x) ==
    /\ state[x] = "made"
    /\ Free
    /\ now + INTERVAL <= MaxTime
    /\ state' = [state EXCEPT ![x] = "entering"]
    /\ lowered' = MinOf(nextPing, deadline[x])
    /\ UNCHANGED <<now, enabled, stop, nextPing, newTimers, deadline, appended, fired,
                   collected, pc, wakeAt, seen, sorted, work, lost>>

Register(x) ==
    /\ state[x] = "entering"
    /\ state' = [state EXCEPT ![x] = "live"]
    /\ nextPing' = lowered
    /\ lowered' = 0
    /\ newTimers' = newTimers \cup {x}
    /\ appended' = [appended EXCEPT ![x] = now]
    /\ UNCHANGED <<now, enabled, stop, deadline, fired, collected,
                   pc, wakeAt, seen, sorted, work, lost>>

\* The daemon holds weak references only.
Collect(x) == /\ state[x] = "live"
              /\ x \notin fired \cup collected
              /\ collected' = collected \cup {x}
              /\ UNCHANGED <<now, enabled, stop, nextPing, newTimers, creation, fired,
                             pc, wakeAt, seen, sorted, work, lost>>

AskToStop == /\ ~stop
             /\ stop' = TRUE
             /\ UNCHANGED <<now, enabled, nextPing, newTimers, creation, fired, collected,
                            pc, wakeAt, seen, sorted, work, lost>>

-----------------------------------------------------------------------------
Start == /\ pc = "start"
         /\ enabled' = TRUE
         /\ pc' = "loop"
         /\ UNCHANGED <<now, stop, nextPing, newTimers, creation, fired, collected,
                        wakeAt, seen, sorted, work, lost>>

\* The head of the loop: time to stop, or, with the locker, to sleep for a while
\* or to look.
Loop == /\ pc = "loop"
        /\ \/ /\ stop
              /\ pc' = "disable"
              /\ UNCHANGED wakeAt
           \/ /\ ~stop /\ Free /\ nextPing > now
              /\ wakeAt' = now + MinOf(nextPing - now, INTERVAL)
              /\ pc' = "sleep"
           \/ /\ ~stop /\ Free /\ nextPing <= now
              /\ pc' = "take"
              /\ UNCHANGED wakeAt
        /\ UNCHANGED <<now, enabled, stop, nextPing, newTimers, creation, fired, collected,
                       seen, sorted, work, lost>>

WakeUp == /\ pc = "sleep"
          /\ now >= wakeAt
          /\ pc' = "loop"
          /\ wakeAt' = 0
          /\ UNCHANGED <<now, enabled, stop, nextPing, newTimers, creation, fired, collected,
                         seen, sorted, work, lost>>

\* Mutant: the Tills still waiting are replaced by the new ones.
TakeForgets == /\ pc = "take"
               /\ Free
               /\ nextPing' = now + INTERVAL
               /\ sorted' = newTimers
               /\ newTimers' = {}
               /\ pc' = "split"
               /\ UNCHANGED <<now, enabled, stop, creation, fired, collected,
                              wakeAt, seen, work, lost>>

TakeNew == /\ pc = "take"
           /\ Free
           /\ nextPing' = now + INTERVAL
           /\ sorted' = sorted \cup newTimers
           /\ newTimers' = {}
           /\ pc' = "split"
           /\ UNCHANGED <<now, enabled, stop, creation, fired, collected,
                          wakeAt, seen, work, lost>>

\* What is due or collected is separated from what is not; if there is any of
\* the latter, next_ping is read to be lowered to the first of them.
Due(x) == deadline[x] <= now \/ x \in collected

Split == /\ pc = "split"
         /\ work' = {x \in sorted : Due(x)}
         /\ sorted' = sorted \ work'
         /\ \/ /\ sorted' = {}
               /\ pc' = "fire"
               /\ UNCHANGED seen
            \/ /\ sorted' # {}
               /\ seen' = MinOf(nextPing, Min({deadline[x] : x \in sorted'}))
               /\ pc' = "lower"
         /\ UNCHANGED <<now, enabled, stop, nextPing, newTimers, creation, fired, collected,
                        wakeAt, lost>>

\* The write of that min(), without the locker: an update in between is lost,
\* and it is lost itself if a creator has read next_ping before.
LowerPing == /\ pc = "lower"
             /\ nextPing' = seen
             /\ seen' = 0
             /\ pc' = "fire"
             /\ UNCHANGED <<now, enabled, stop, newTimers, creation, fired, collected,
                            wakeAt, sorted, work, lost>>

\* The Tills are activated one after another, in the order of their deadlines.
\* An exception of go() ends the loop, and with it the daemon.
First(x) == \A y \in work : deadline[x] <= deadline[y]

\* Mutant: the loop ends after its first Till.
FireFirstOnly == /\ pc = "fire"
                 /\ \E x \in work : First(x) /\ fired' = fired \cup {x}
                 /\ work' = {}
                 /\ UNCHANGED <<now, enabled, stop, nextPing, newTimers, creation, collected,
                                pc, wakeAt, seen, sorted, lost>>

FireOne == /\ pc = "fire"
           /\ \E x \in work :
                 /\ First(x)
                 /\ fired' = IF x \in collected THEN fired ELSE fired \cup {x}
                 /\ \/ /\ x \in Faulty \ collected
                       /\ lost' = work \ {x}
                       /\ work' = {}
                       /\ pc' = "disable"
                    \/ /\ x \notin Faulty \ collected
                       /\ work' = work \ {x}
                       /\ UNCHANGED <<pc, lost>>
           /\ UNCHANGED <<now, enabled, stop, nextPing, newTimers, creation, collected,
                          wakeAt, seen, sorted>>

FireDone == /\ pc = "fire"
            /\ work = {}
            /\ pc' = "loop"
            /\ UNCHANGED <<now, enabled, stop, nextPing, newTimers, creation, fired, collected,
                           wakeAt, seen, sorted, work, lost>>

-----------------------------------------------------------------------------
\* The finally clause: no more Tills, then all that are left are activated.
Disable == /\ pc = "disable"
           /\ enabled' = FALSE
           /\ pc' = "drain"
           /\ UNCHANGED <<now, stop, nextPing, newTimers, creation, fired, collected,
                          wakeAt, seen, sorted, work, lost>>

\* Mutant: only the new Tills are activated in the end.
DrainNewOnly == /\ pc = "drain"
                /\ Free
                /\ work' = newTimers
                /\ newTimers' = {}
                /\ pc' = "flush"
                /\ UNCHANGED <<now, enabled, stop, nextPing, creation, fired, collected,
                               wakeAt, seen, sorted, lost>>

Drain == /\ pc = "drain"
         /\ Free
         /\ work' = newTimers \cup sorted
         /\ newTimers' = {}
         /\ sorted' = {}
         /\ pc' = "flush"
         /\ UNCHANGED <<now, enabled, stop, nextPing, creation, fired, collected,
                        wakeAt, seen, lost>>

FlushOne == /\ pc = "flush"
            /\ \E x \in work :
                  /\ fired' = IF x \in collected THEN fired ELSE fired \cup {x}
                  /\ \/ /\ x \in Faulty \ collected
                        /\ lost' = lost \cup (work \ {x})
                        /\ work' = {}
                     \/ /\ x \notin Faulty \ collected
                        /\ work' = work \ {x}
                        /\ UNCHANGED lost
            /\ UNCHANGED <<now, enabled, stop, nextPing, newTimers, creation, collected,
                           pc, wakeAt, seen, sorted>>

End == /\ pc = "flush"
       /\ work = {}
       /\ pc' = "ended"
       /\ UNCHANGED <<now, enabled, stop, nextPing, newTimers, creation, fired, collected,
                      wakeAt, seen, sorted, work, lost>>

Tick == /\ now < MaxTime
        /\ pc = "ended" \/ (pc = "sleep" /\ now < wakeAt)
        /\ now' = now + 1
        /\ UNCHANGED <<enabled, stop, nextPing, newTimers, creation, fired, collected,
                       pc, wakeAt, seen, sorted, work, lost>>

Daemon == \/ Start \/ Loop \/ WakeUp \/ TakeNew \/ Split \/ LowerPing \/ FireOne \/ FireDone
          \/ Disable \/ Drain \/ FlushOne \/ End

TillNext == \/ \E x \in Timers : (\E d \in Delays : New(x, d)) \/ Enter(x) \/ Register(x) \/ Collect(x)
            \/ AskToStop \/ Daemon \/ Tick

\* Time passes and the daemon runs; a constructor that was entered ends.
TillSpec == TillInit /\ [][TillNext]_tillVars /\ WF_tillVars(Daemon) /\ WF_tillVars(Tick)
                 /\ \A x \in Timers : WF_tillVars(Enter(x)) /\ WF_tillVars(Register(x))
-----------------------------------------------------------------------------
TillTypeOK == /\ now \in 0..MaxTime
              /\ enabled \in BOOLEAN
              /\ stop \in BOOLEAN
              /\ nextPing \in Int
              /\ newTimers \subseteq Timers
              /\ state \in [Timers -> {"none", "made", "entering", "live", "done"}]
              /\ lowered \in Int
              /\ deadline \in [Timers -> Nat]
              /\ appended \in [Timers -> Nat]
              /\ fired \subseteq Timers
              /\ collected \subseteq Timers
              /\ pc \in DaemonPCs
              /\ wakeAt \in Int
              /\ seen \in Int
              /\ sorted \subseteq Timers
              /\ work \subseteq Timers
              /\ lost \subseteq Timers

Live == {x \in Timers : state[x] = "live"}

\* A Till that was entered is in one of the daemon's hands, and in one only,
\* until it is activated or collected, or dropped because the go() of another
\* one raised (till.py:83, 110-111, 120-128, 147-150).
Tracked ==
    /\ Live \ (fired \cup collected \cup lost) \subseteq newTimers \cup sorted \cup work
    /\ newTimers \cap (sorted \cup work) = {}
    /\ sorted \cap work = {}
    /\ fired \cap (newTimers \cup sorted \cup work) = {}
    /\ lost # {} => Faulty \cap fired # {}

\* No Till is activated before its time, unless the daemon is on its way out.
NeverEarly == [][\A x \in fired' \ fired : pc = "fire" => deadline[x] <= now]_tillVars

\* While the daemon is at work, a Till is late by one INTERVAL at most, also
\* when the unlocked update of next_ping (till.py:125) undoes the update of
\* its creator (till.py:82), or is undone by the update of another creator.
NeverLate == \A x \in Live \ (fired \cup collected) :
                pc \notin {"disable", "drain", "flush", "ended"}
                   => now <= MaxOf(deadline[x], appended[x]) + INTERVAL

\* A Till that was entered while the timers were enabled is activated in the
\* end: in time, or before it when the daemon stops.
AllFire == \A x \in Timers :
              state[x] = "live" /\ enabled ~> x \in fired \cup collected \cup lost
=============================================================================
