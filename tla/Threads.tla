------------------------------ MODULE Threads ------------------------------
(***************************************************************************)
(* The tree of threads of src/mo_threads/threads.py: how a Thread runs its *)
(* target, stops and joins its children, ends, and waits for a joiner; how *)
(* stop() and join() walk down the tree; and how MainThread.stop() shuts   *)
(* the program down.  stop() and join() call themselves for the children   *)
(* they find, so every thread has a stack of such calls.  Each look at a   *)
(* list of children is a snapshot: the list may change right after.        *)
(***************************************************************************)
EXTENDS Integers, Sequences, SequencesExt

CONSTANTS Threads,   \* the Thread objects
          Main,      \* MAIN_THREAD
          Nobody,    \* in place of a thread
          Timeout,   \* a cause: the till of join() was reached
          ParentOf,  \* who creates and starts each thread
          Programs   \* bounds: the threads there may be, and how many calls of join,
                     \* stop and release each target makes at most

Everyone == Threads \cup {Main}

ASSUME ThreadsAssumption == /\ Main \notin Threads
                            /\ {Nobody, Timeout} \cap Everyone = {}
                            /\ ParentOf \in [Threads -> Everyone]
                            /\ Programs \subseteq [creates : SUBSET Threads, calls : [Everyone -> Nat]]

VARIABLES stage,       \* how far each thread is
          children,    \* self.children
          kids,        \* the local list of children that _run and MainThread.stop() took
          stack,       \* the calls of stop() and join() each thread is in, innermost first
          pleaseStop,  \* the threads whose please_stop is activated
          joiner,      \* the threads whose joiner_is_waiting is activated
          stopped,     \* the threads whose `stopped` is activated
          outcome,     \* of each target: "none" yet, "ok" or "failed"
          all,         \* the threads in ALL, besides Main
          calls,       \* the calls each target may still make
          heard        \* history: the failures logged, or raised to a target

vars == <<stage, children, kids, stack, pleaseStop, joiner, stopped, outcome, all, calls, heard>>

\* A call: `of` is the thread it is made on, Nobody for the loop in _run or
\* MainThread.stop(); `todo` the children it still has to go through; `causes`
\* the exceptions its joins have collected.
Frame(op, of, todo, till) == [op |-> op, of |-> of, todo |-> todo, till |-> till,
                              causes |-> {}, waits |-> FALSE]

Stages == {"never", "unborn", "created", "starting", "target", "failed", "closing", "stop_kids", "join_kids",
           "unregistered", "linger", "residue", "stop_residue", "join_residue", "gone"}

Init == /\ \E program \in Programs :
              /\ stage = [t \in Everyone |-> CASE t = Main -> "target"
                                               [] t \in program.creates -> "unborn"
                                               [] OTHER -> "never"]
              /\ calls = program.calls
        /\ children = [t \in Everyone |-> <<>>]
        /\ kids = [t \in Everyone |-> <<>>]
        /\ stack = [t \in Everyone |-> <<>>]
        /\ pleaseStop = {}
        /\ joiner = {}
        /\ stopped = {}
        /\ outcome = [t \in Threads |-> "none"]
        /\ all = {}
        /\ heard = {}

Started == {t \in Threads : stage[t] \notin {"never", "unborn", "created"}}
Goto(t, label) == stage' = [stage EXCEPT ![t] = label]
SetStack(t, s) == stack' = [stack EXCEPT ![t] = s]
Top(t) == Head(stack[t])
Below(t) == Tail(stack[t])
RunsTarget(t) == stage[t] = "target" /\ stack[t] = <<>>

-----------------------------------------------------------------------------
(***************************************************************************)
(* What a target (for Main: the program) may do.                           *)
(***************************************************************************)
Create(t, c) == /\ RunsTarget(t)
                /\ stage[c] = "unborn"
                /\ ParentOf[c] = t
                /\ Goto(c, "created")
                /\ children' = [children EXCEPT ![t] = Append(@, c)]
                /\ UNCHANGED <<kids, stack, pleaseStop, joiner, stopped, outcome, all, calls, heard>>

StartThread(t, c) == /\ RunsTarget(t)
                     /\ stage[c] = "created"
                     /\ ParentOf[c] = t
                     /\ Goto(c, "starting")
                     /\ UNCHANGED <<children, kids, stack, pleaseStop, joiner, stopped, outcome, all, calls, heard>>

\* Bound: a target calls join, stop and release on its own threads only.
CallOn(t, c) == /\ RunsTarget(t)
                    /\ ParentOf[c] = t
                    /\ c \in Started
                    /\ calls[t] > 0
                    /\ calls' = [calls EXCEPT ![t] = @ - 1]

Join(t, c, till) == /\ CallOn(t, c)
                    /\ SetStack(t, <<Frame("join", c, children[c], till)>>)
                    /\ UNCHANGED <<stage, children, kids, pleaseStop, joiner, stopped, outcome, all, heard>>

StopThread(t, c) == /\ CallOn(t, c)
                    /\ SetStack(t, <<Frame("stop", c, children[c], FALSE)>>)
                    /\ UNCHANGED <<stage, children, kids, pleaseStop, joiner, stopped, outcome, all, heard>>

Release(t, c) == /\ CallOn(t, c)
                 /\ joiner' = joiner \cup {c}
                 /\ UNCHANGED <<stage, children, kids, stack, pleaseStop, stopped, outcome, all, heard>>

\* The target returns or raises; by then it has started what it created.
Finish(t, o) == /\ RunsTarget(t)
                /\ t # Main
                /\ \A c \in Threads : ParentOf[c] = t => stage[c] # "created"
                /\ outcome' = [outcome EXCEPT ![t] = o]
                /\ Goto(t, IF o = "failed" THEN "failed" ELSE "closing")
                /\ UNCHANGED <<children, kids, stack, pleaseStop, joiner, stopped, all, calls, heard>>

-----------------------------------------------------------------------------
(***************************************************************************)
(* stop() and join() on the way down and up the tree.                      *)
(***************************************************************************)
\* The next child of the innermost call, with a snapshot of its own children.
Descend(t) ==
    /\ stack[t] # <<>>
    /\ Top(t).todo # <<>>
    /\ LET c == Head(Top(t).todo)
       IN SetStack(t, <<Frame(Top(t).op, c, children[c], Top(t).till),
                        [Top(t) EXCEPT !.todo = Tail(@)]>> \o Below(t))
    /\ UNCHANGED <<stage, children, kids, pleaseStop, joiner, stopped, outcome, all, calls, heard>>

\* stop(): after the children, the thread itself.
StopSelf(t) == /\ stack[t] # <<>>
               /\ Top(t).op = "stop"
               /\ Top(t).todo = <<>>
               /\ Top(t).of # Nobody
               /\ pleaseStop' = pleaseStop \cup {Top(t).of}
               /\ SetStack(t, Below(t))
               /\ UNCHANGED <<stage, children, kids, joiner, stopped, outcome, all, calls, heard>>

\* join() ends, with the given exceptions: join_all_threads() of the caller
\* collects them, or they are raised to the target.
Return(t, causes) ==
    \/ /\ Below(t) = <<>>
       /\ SetStack(t, <<>>)
       /\ heard' = heard \cup (causes \cap Threads)
    \/ /\ Below(t) # <<>>
       /\ SetStack(t, <<[Head(Below(t)) EXCEPT !.causes = @ \cup causes]>> \o Tail(Below(t)))
       /\ UNCHANGED heard

Joining(t) == /\ stack[t] # <<>>
              /\ Top(t).op = "join"
              /\ Top(t).todo = <<>>
              /\ Top(t).of # Nobody

\* A failed child of the thread to join raises before that thread is waited for.
JoinRaises(t) == /\ Joining(t)
                 /\ Top(t).causes # {}
                 /\ Return(t, Top(t).causes)
                 /\ UNCHANGED <<stage, children, kids, pleaseStop, joiner, stopped, outcome, all, calls>>

JoinSignals(t) == /\ Joining(t)
                  /\ Top(t).causes = {} /\ ~Top(t).waits
                  /\ joiner' = joiner \cup {Top(t).of}
                  /\ SetStack(t, <<[Top(t) EXCEPT !.waits = TRUE]>> \o Below(t))
                  /\ UNCHANGED <<stage, children, kids, pleaseStop, stopped, outcome, all, calls, heard>>

\* remove_child() of the parent, which passes over a thread that is not listed.
RemoveChild(c) ==
    LET p == ParentOf[c]
    IN \/ \E i \in DOMAIN children[p] :
             children[p][i] = c /\ children' = [children EXCEPT ![p] = RemoveAt(@, i)]
       \/ c \notin ToSet(children[p]) /\ UNCHANGED children

\* Mutant: join() does not wait for `stopped`.
JoinHasty(t) == /\ Joining(t)
                /\ Top(t).waits
                /\ RemoveChild(Top(t).of)
                /\ Return(t, IF outcome[Top(t).of] = "failed" THEN {Top(t).of} ELSE {})
                /\ UNCHANGED <<stage, kids, pleaseStop, joiner, stopped, outcome, all, calls>>

JoinEnds(t) == /\ Joining(t)
               /\ Top(t).waits
               /\ Top(t).of \in stopped
               /\ RemoveChild(Top(t).of)
               /\ Return(t, IF outcome[Top(t).of] = "failed" THEN {Top(t).of} ELSE {})
               /\ UNCHANGED <<stage, kids, pleaseStop, joiner, stopped, outcome, all, calls>>

JoinTimesOut(t) == /\ Joining(t)
                   /\ Top(t).waits
                   /\ Top(t).till
                   /\ Top(t).of \notin stopped
                   /\ Return(t, {Timeout})
                   /\ UNCHANGED <<stage, children, kids, pleaseStop, joiner, stopped, outcome, all, calls>>

-----------------------------------------------------------------------------
(***************************************************************************)
(* Thread._run, around the target.                                         *)
(***************************************************************************)
Register(t) == /\ stage[t] = "starting"
               /\ all' = all \cup {t}
               /\ Goto(t, "target")
               /\ UNCHANGED <<children, kids, stack, pleaseStop, joiner, stopped, outcome, calls, heard>>

\* The failure is logged at once if the parent does not list the thread any more.
ReportFailure(t) == /\ stage[t] = "failed"
                    /\ heard' = IF t \in ToSet(children[ParentOf[t]]) THEN heard ELSE heard \cup {t}
                    /\ Goto(t, "closing")
                    /\ UNCHANGED <<children, kids, stack, pleaseStop, joiner, stopped, outcome, all, calls>>

\* Mutant: the children are joined without being told to stop.
TakeChildrenToJoin(t) == /\ stage[t] = "closing"
                         /\ kids' = [kids EXCEPT ![t] = children[t]]
                         /\ children' = [children EXCEPT ![t] = <<>>]
                         /\ SetStack(t, <<Frame("join", Nobody, children[t], FALSE)>>)
                         /\ Goto(t, "join_kids")
                         /\ UNCHANGED <<pleaseStop, joiner, stopped, outcome, all, calls, heard>>

TakeChildren(t) == /\ stage[t] = "closing"
                   /\ kids' = [kids EXCEPT ![t] = children[t]]
                   /\ children' = [children EXCEPT ![t] = <<>>]
                   /\ SetStack(t, <<Frame("stop", Nobody, children[t], FALSE)>>)
                   /\ Goto(t, "stop_kids")
                   /\ UNCHANGED <<pleaseStop, joiner, stopped, outcome, all, calls, heard>>

\* All were told to stop, now they are joined.
AllTold(t) == /\ stack[t] # <<>>
              /\ Top(t).op = "stop" /\ Top(t).of = Nobody /\ Top(t).todo = <<>>
              /\ SetStack(t, <<Frame("join", Nobody, kids[t], FALSE)>>)
              /\ Goto(t, IF stage[t] = "stop_kids" THEN "join_kids" ELSE "join_residue")
              /\ UNCHANGED <<children, kids, pleaseStop, joiner, stopped, outcome, all, calls, heard>>

AllJoined(t) == /\ stack[t] # <<>>
                /\ Top(t).op = "join" /\ Top(t).of = Nobody /\ Top(t).todo = <<>>
                /\ SetStack(t, <<>>)
                /\ kids' = [kids EXCEPT ![t] = <<>>]

\* What the children raised is dropped here.
Unregister(t) == /\ t # Main
                 /\ stage[t] = "join_kids"
                 /\ AllJoined(t)
                 /\ all' = all \ {t}
                 /\ Goto(t, "unregistered")
                 /\ UNCHANGED <<children, pleaseStop, joiner, stopped, outcome, calls, heard>>

Stopped(t) == /\ stage[t] = "unregistered"
              /\ stopped' = stopped \cup {t}
              /\ Goto(t, "linger")
              /\ UNCHANGED <<children, kids, stack, pleaseStop, joiner, outcome, all, calls, heard>>

\* The stopped thread waits a minute for a joiner; then it logs its failure, or
\* leaves its parent's list: unless the parent is Main, and never after a
\* failure, because the logger raises and the handler returns.
MetJoiner(t) == /\ stage[t] = "linger"
                /\ t \in joiner
                /\ Goto(t, "gone")
                /\ UNCHANGED <<children, kids, stack, pleaseStop, joiner, stopped, outcome, all, calls, heard>>

Forgotten(t) == /\ stage[t] = "linger"
                /\ t \notin joiner
                /\ heard' = IF outcome[t] = "failed" THEN heard \cup {t} ELSE heard
                /\ IF ParentOf[t] = Main \/ outcome[t] = "failed"
                   THEN UNCHANGED children
                   ELSE RemoveChild(t)
                /\ Goto(t, "gone")
                /\ UNCHANGED <<kids, stack, pleaseStop, joiner, stopped, outcome, all, calls>>

-----------------------------------------------------------------------------
(***************************************************************************)
(* MainThread.stop().                                                      *)
(***************************************************************************)
MainStop == /\ RunsTarget(Main)
            /\ \A c \in Threads : ParentOf[c] = Main => stage[c] # "created"
            /\ kids' = [kids EXCEPT ![Main] = children[Main]]
            /\ SetStack(Main, <<Frame("stop", Nobody, Reverse(children[Main]), FALSE)>>)
            /\ Goto(Main, "stop_kids")
            /\ UNCHANGED <<children, pleaseStop, joiner, stopped, outcome, all, calls, heard>>

\* Mutant: what the children raised is dropped here too.
MainJoinedQuietly == /\ stage[Main] \in {"join_kids", "join_residue"}
                     /\ AllJoined(Main)
                     /\ Goto(Main, IF stage[Main] = "join_kids" THEN "residue" ELSE "gone")
                     /\ UNCHANGED <<children, pleaseStop, joiner, stopped, outcome, all, calls, heard>>

\* What the children raised is logged, and raised again in the end.
MainJoined == /\ stage[Main] \in {"join_kids", "join_residue"}
              /\ AllJoined(Main)
              /\ heard' = heard \cup (Top(Main).causes \cap Threads)
              /\ Goto(Main, IF stage[Main] = "join_kids" THEN "residue" ELSE "gone")
              /\ UNCHANGED <<children, pleaseStop, joiner, stopped, outcome, all, calls>>

\* The threads that are still in ALL are told to stop and joined as well.
Residue == /\ stage[Main] = "residue"
           /\ \E rest \in SetToSeqs(all) :
                 /\ kids' = [kids EXCEPT ![Main] = rest]
                 /\ SetStack(Main, <<Frame("stop", Nobody, rest, FALSE)>>)
           /\ Goto(Main, "stop_residue")
           /\ UNCHANGED <<children, pleaseStop, joiner, stopped, outcome, all, calls, heard>>

-----------------------------------------------------------------------------
Target(t) == \/ \E c \in Threads : \/ Create(t, c) \/ StartThread(t, c)
                                   \/ StopThread(t, c) \/ Release(t, c)
                                   \/ \E till \in BOOLEAN : Join(t, c, till)
             \/ \E o \in {"ok", "failed"} : t \in Threads /\ Finish(t, o)

Walk(t) == \/ Descend(t) \/ StopSelf(t) \/ AllTold(t)
           \/ JoinRaises(t) \/ JoinSignals(t) \/ JoinEnds(t) \/ JoinTimesOut(t)

Run(t) == \/ Register(t) \/ ReportFailure(t) \/ TakeChildren(t) \/ Unregister(t)
          \/ Stopped(t) \/ MetJoiner(t) \/ Forgotten(t)

Next == \/ \E t \in Everyone : Target(t) \/ Walk(t)
        \/ \E t \in Threads : Run(t)
        \/ MainStop \/ MainJoined \/ Residue

\* What is bound to happen: threads run, and "are expected to exit when
\* signalled" (README.md:17): a target that is not in a call ends when its
\* please_stop is activated, after starting what it created.  No target has to
\* end before.
Bound == \/ \E t \in Everyone : Walk(t)
         \/ \E t \in Threads : \/ Run(t)
                               \/ t \in pleaseStop /\ Finish(t, "ok")
                               \/ StartThread(ParentOf[t], t)
         \/ MainJoined \/ Residue

\* Every step takes a thread further and none takes it back, so that fairness
\* to all these steps together is fairness to each.
Fairness == WF_vars(Bound)

Spec == Init /\ [][Next]_vars /\ Fairness

-----------------------------------------------------------------------------
Frames == [op : {"stop", "join"}, of : Threads \cup {Nobody}, todo : Seq(Threads),
           till : BOOLEAN, causes : SUBSET (Threads \cup {Timeout}), waits : BOOLEAN]

TypeOK == /\ stage \in [Everyone -> Stages]
          /\ children \in [Everyone -> Seq(Threads)]
          /\ kids \in [Everyone -> Seq(Threads)]
          /\ stack \in [Everyone -> Seq(Frames)]
          /\ pleaseStop \subseteq Threads
          /\ joiner \subseteq Threads
          /\ stopped \subseteq Threads
          /\ outcome \in [Threads -> {"none", "ok", "failed"}]
          /\ all \subseteq Threads
          /\ calls \in [Everyone -> Nat]
          /\ heard \subseteq Threads

\* Threads that have stopped, or are about to say so.
Finished == stopped \cup {t \in Threads : stage[t] = "unregistered"}

\* The threads below t in the tree: they are in every set that has the children
\* of t and, with a thread, its children.
ChildrenOf(t) == {c \in Threads : ParentOf[c] = t}
ClosedDown(S) == \A c \in Threads : ParentOf[c] \in S => c \in S
Descendants(t) == {d \in Threads : \A S \in SUBSET Threads :
                                       ChildrenOf(t) \subseteq S /\ ClosedDown(S) => d \in S}
Failed(t) == outcome[t] = "failed"

\* Parents see to it that their children "are dead, before stopping themselves"
\* (README.md:18), and MainThread.stop() "blocks until all known threads have
\* stopped" (threads.py:192).  What the code does ensure of that: a parent has
\* told its children to stop before it stops, and stops before a child of its
\* own only if a thread below that child failed, which ended the join early
\* (threads.py:432-433); the main thread ends before any thread only if two
\* failed below that thread or below one above it, the second of which ended the
\* second join early.
StopsLastUnlessFailures ==
    /\ \A c \in Started : ParentOf[c] \in stopped /\ c \notin stopped =>
          /\ c \in pleaseStop
          /\ \E d \in Descendants(c) : Failed(d)
    /\ stage[Main] = "gone" => \A t \in Started \ Finished :
          \E a \in Threads : /\ a = t \/ t \in Descendants(a)
                            /\ \E d, e \in Descendants(a) : d # e /\ Failed(d) /\ Failed(e)

\* When the program has ended, what went wrong in a thread that the main thread
\* created was raised or logged, unless a thread below it failed too: then the
\* join of that thread ends early and its own failure may stay unheard.
FailureHeard == \A t \in Threads :
                   /\ stage[Main] = "gone" /\ ParentOf[t] = Main /\ Failed(t)
                   /\ \A d \in Descendants(t) : ~Failed(d)
                   => t \in heard

\* A target that was told to stop waits for a child that nobody told: the child
\* was created after stop() had taken its snapshot of the children.
WaitsForUntold(t) == /\ t \in pleaseStop /\ stage[t] = "target" /\ stack[t] # <<>>
                     /\ Top(t).op = "join" /\ Top(t).waits /\ ~Top(t).till
                     /\ Top(t).of \notin pleaseStop \cup stopped

\* MainThread.stop() gets through: no join waits for ever, but for a join of
\* that kind that a target makes itself.
ShutdownEnds == stage[Main] = "stop_kids" ~> \/ stage[Main] = "gone"
                                             \/ \E t \in Threads : WaitsForUntold(t)
=============================================================================
