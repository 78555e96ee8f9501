----------------------------- MODULE Combinators -----------------------------
(***************************************************************************)
(* How signals are combined in src/mo_threads/signals.py: `x | y` is an    *)
(* OrSignal and `x & y` an AndSignals, objects whose functions are queued  *)
(* on the two operands, and the Future of futures.py, whose wait(till) is  *)
(* a wait on such a combination.  A Signal is taken as module Signals      *)
(* shows it to be: go() activates once and runs what was queued, then()    *)
(* queues or runs, remove_then() takes back what is still queued.          *)
(*                                                                         *)
(* A thread has an agenda, the calls it still has to make, innermost       *)
(* first: a call that calls others puts them in front.  The output of a    *)
(* combination is counted by its references, since an OrSignal refers to   *)
(* its output weakly and cleans up when the output is freed.               *)
(***************************************************************************)
EXTENDS Integers, Sequences, FiniteSets, SequencesExt

CONSTANTS Builder,      \* the thread that evaluates the expression and waits
          Triggers,     \* the threads that activate the inputs
          Inputs,       \* the signals the expression is made of
          Outputs,      \* the signals it makes
          Done, Never,  \* the constants DONE and NEVER
          Null,         \* None, as an operand and as no value
          True, False,  \* the Booleans, as operands
          Future,       \* the input that is is_ready of a Future
          Expressions   \* what may be evaluated: sequences of combinations

Threads == {Builder} \cup Triggers
Signals == Inputs \cup Outputs \cup {Done, Never}

\* One application of an operator; left and right may be earlier outputs.
Combination == [out : Outputs, op : {"or", "and"},
                left : Inputs \cup Outputs, right : Inputs \cup Outputs \cup {Null, True, False}]

\* The constants are different things.  An output is made by one combination
\* and is an operand once at most, of a later one, as in an expression whose
\* intermediate results have no name.
ASSUME CombinatorsAssumption ==
    /\ Builder \notin Triggers
    /\ Future \in Inputs
    /\ Inputs \cap Outputs = {}
    /\ {Done, Never} \cap (Inputs \cup Outputs) = {}
    /\ {Null, True, False} \cap Signals = {}
    /\ Null \notin {True, False, "assigned"}
    /\ \A e \in Expressions :
          /\ e \in Seq(Combination) /\ e # <<>>
          /\ \A i, k \in DOMAIN e : i # k => e[i].out # e[k].out
          /\ \A i \in DOMAIN e : {e[i].left, e[i].right} \cap Outputs
                                    \subseteq {e[k].out : k \in 1..(i - 1)}
          /\ \A i, k \in DOMAIN e : i # k =>
                {e[i].left, e[i].right} \cap {e[k].left, e[k].right} \cap Outputs = {}
          /\ \A i \in DOMAIN e : e[i].left = e[i].right => e[i].left \notin Outputs

VARIABLES expr,       \* the expression that is evaluated
          go,         \* the activated signals
          jobs,       \* the job queue of each signal
          value,      \* what evaluating each combination returned
          deps,       \* OrSignal.dependencies of each `|`
          remaining,  \* AndSignals.remaining of each `&`
          refs,       \* how many strong references each output has
          agenda,     \* what each thread still has to call, innermost first
          answer,     \* Future.value
          returned    \* what Future.wait() returned

vars == <<expr, go, jobs, value, deps, remaining, refs, agenda, answer, returned>>

\* A call: what is called, for which combination, and on which signal.
Do(call, out, signal) == [call |-> call, out |-> out, signal |-> signal]

Result(e) == e[Len(e)].out
IsFutureWait(e) == Len(e) = 1 /\ e[1].op = "or" /\ e[1].left = Future

\* The builder evaluates the combinations in turn and drops what it got, at
\* once or after waiting on it.  Future.wait() goes on to read the value.
Plan(e, waits) == [i \in DOMAIN e |-> Do("combine", e[i].out, Null)]
                  \o (IF waits THEN <<Do("wait", Result(e), Null)>> ELSE <<>>)
                  \o <<Do("forget", Result(e), Null)>>
                  \o (IF waits /\ IsFutureWait(e) THEN <<Do("read", Result(e), Null)>> ELSE <<>>)

Init == /\ expr \in Expressions
        /\ go = {Done}
        /\ jobs = [s \in Signals |-> <<>>]
        /\ value = [o \in Outputs |-> Null]
        /\ deps = [o \in Outputs |-> <<>>]
        /\ remaining = [o \in Outputs |-> 0]
        /\ refs = [o \in Outputs |-> 0]
        /\ \E waits \in BOOLEAN :
              agenda = [t \in Threads |-> IF t = Builder THEN Plan(expr, waits) ELSE <<>>]
        /\ answer = Null
        /\ returned = {}

At(t, call) == agenda[t] # <<>> /\ Head(agenda[t]).call = call
Out(t) == Head(agenda[t]).out
On(t) == Head(agenda[t]).signal

\* The call is over, and these come next.
Follow(t, calls) == agenda' = [agenda EXCEPT ![t] = calls \o Tail(@)]

\* A local variable that holds this signal goes out of scope.
Drop(x) == IF x \in Outputs THEN <<Do("unref", x, Null)>> ELSE <<>>

-----------------------------------------------------------------------------
(***************************************************************************)
(* Evaluating one `|` or `&`.                                              *)
(***************************************************************************)
Term(o) == CHOOSE c \in ToSet(expr) : c.out = o

\* An operand is an input, a constant, or what an earlier combination returned.
Operand(x) == IF x \in Outputs THEN value[x] ELSE x
Left(o) == Operand(Term(o).left)
Right(o) == Operand(Term(o).right)

\* How many more references there are to s when a new one is to x.
One(x, s) == IF x = s THEN 1 ELSE 0

\* Nothing is made: the value is an operand, whose reference it takes over, or
\* a constant, and the operands that are not returned are dropped.
Shortcut(t, v) ==
    /\ value' = [value EXCEPT ![Out(t)] = v]
    /\ LET Dropped(x) == IF x = v THEN <<>> ELSE Drop(x)
       IN Follow(t, Dropped(Left(Out(t))) \o Dropped(Right(Out(t))))
    /\ UNCHANGED <<expr, go, jobs, deps, remaining, refs, answer, returned>>

CombineShortcut(t) ==
    /\ At(t, "combine")
    /\ LET o == Out(t)
           op == Term(o).op
       IN \/ /\ \/ Right(o) = Null
                \/ op = "or" /\ Right(o) = False
                \/ op = "and" /\ Right(o) = True
             /\ Shortcut(t, Left(o))
          \/ /\ op = "and" /\ Right(o) = False
             /\ Shortcut(t, Never)
          \/ /\ op = "or" /\ Right(o) \notin {Null, False}
             /\ Right(o) = True \/ {Left(o), Right(o)} \cap go # {}
             /\ Shortcut(t, Done)

\* Mutant: the output gets its cleanup before the operands are registered with.
OrCleansUpFirst(t) ==
    /\ At(t, "combine")
    /\ LET o == Out(t) IN
          /\ Term(o).op = "or"
          /\ {Left(o), Right(o)} \subseteq Signals \ go
          /\ value' = [value EXCEPT ![o] = o]
          /\ deps' = [deps EXCEPT ![o] = <<Left(o), Right(o)>>]
          /\ refs' = [s \in Outputs |-> refs[s] + One(Left(o), s) + One(Right(o), s) + One(o, s)]
          /\ Follow(t, <<Do("then", o, o), Do("then", o, Left(o)), Do("then", o, Right(o))>>
                         \o Drop(Left(o)) \o Drop(Right(o)))
    /\ UNCHANGED <<expr, go, jobs, remaining, answer, returned>>

\* An OrSignal holds on to its operands; its function is queued on each in
\* turn, and its cleanup on the output.
CombineOr(t) ==
    /\ At(t, "combine")
    /\ LET o == Out(t) IN
          /\ Term(o).op = "or"
          /\ {Left(o), Right(o)} \subseteq Signals \ go
          /\ value' = [value EXCEPT ![o] = o]
          /\ deps' = [deps EXCEPT ![o] = <<Left(o), Right(o)>>]
          /\ refs' = [s \in Outputs |-> refs[s] + One(Left(o), s) + One(Right(o), s) + One(o, s)]
          /\ Follow(t, <<Do("then", o, Left(o)), Do("then", o, Right(o)), Do("then", o, o)>>
                         \o Drop(Left(o)) \o Drop(Right(o)))
    /\ UNCHANGED <<expr, go, jobs, remaining, answer, returned>>

\* Mutant: the counter starts one too low.
CombineAndCountsOne(t) ==
    /\ At(t, "combine")
    /\ LET o == Out(t) IN
          /\ Term(o).op = "and"
          /\ {Left(o), Right(o)} \subseteq Signals
          /\ value' = [value EXCEPT ![o] = o]
          /\ remaining' = [remaining EXCEPT ![o] = 1]
          /\ refs' = [refs EXCEPT ![o] = 2]
          /\ Follow(t, <<Do("then", o, Left(o)), Do("then", o, Right(o))>>
                         \o Drop(Left(o)) \o Drop(Right(o)))
    /\ UNCHANGED <<expr, go, jobs, deps, answer, returned>>

\* An AndSignals holds on to its output, but not to its operands.
CombineAnd(t) ==
    /\ At(t, "combine")
    /\ LET o == Out(t) IN
          /\ Term(o).op = "and"
          /\ {Left(o), Right(o)} \subseteq Signals
          /\ value' = [value EXCEPT ![o] = o]
          /\ remaining' = [remaining EXCEPT ![o] = 2]
          /\ refs' = [refs EXCEPT ![o] = 2]
          /\ Follow(t, <<Do("then", o, Left(o)), Do("then", o, Right(o))>>
                         \o Drop(Left(o)) \o Drop(Right(o)))
    /\ UNCHANGED <<expr, go, jobs, deps, answer, returned>>

-----------------------------------------------------------------------------
(***************************************************************************)
(* The methods of Signal, each as one step.                                *)
(***************************************************************************)
\* What is queued on a signal for a combination.
JobOf(o, s) == Do(IF s = o THEN "cleanup" ELSE IF Term(o).op = "or" THEN "fire" ELSE "done", o, Null)

ThenQueues(t) == /\ At(t, "then")
                 /\ On(t) \notin go
                 /\ jobs' = [jobs EXCEPT ![On(t)] = Append(@, JobOf(Out(t), On(t)))]
                 /\ Follow(t, <<>>)
                 /\ UNCHANGED <<expr, go, value, deps, remaining, refs, answer, returned>>

\* Mutant: what comes too late for the queue is not run.
ThenForgets(t) == /\ At(t, "then")
                  /\ On(t) \in go
                  /\ Follow(t, <<>>)
                  /\ UNCHANGED <<expr, go, jobs, value, deps, remaining, refs, answer, returned>>

ThenRuns(t) == /\ At(t, "then")
               /\ On(t) \in go
               /\ Follow(t, <<JobOf(Out(t), On(t))>>)
               /\ UNCHANGED <<expr, go, jobs, value, deps, remaining, refs, answer, returned>>

GoFirst(t) == /\ At(t, "go")
              /\ On(t) \notin go
              /\ go' = go \cup {On(t)}
              /\ jobs' = [jobs EXCEPT ![On(t)] = <<>>]
              /\ Follow(t, jobs[On(t)])
              /\ UNCHANGED <<expr, value, deps, remaining, refs, answer, returned>>

GoAgain(t) == /\ At(t, "go")
              /\ On(t) \in go
              /\ Follow(t, <<>>)
              /\ UNCHANGED <<expr, go, jobs, value, deps, remaining, refs, answer, returned>>

\* The first entry of the OrSignal is taken back.
RemoveThen(t) ==
    /\ At(t, "remove_then")
    /\ LET mine == {i \in DOMAIN jobs[On(t)] : jobs[On(t)][i] = Do("fire", Out(t), Null)}
       IN jobs' = IF On(t) \in go \/ mine = {} THEN jobs
                  ELSE [jobs EXCEPT ![On(t)] = RemoveAt(@, CHOOSE i \in mine : \A k \in mine : i <= k)]
    /\ Follow(t, <<>>)
    /\ UNCHANGED <<expr, go, value, deps, remaining, refs, answer, returned>>

Waited(t) == /\ At(t, "wait")
             /\ value[Out(t)] \in go
             /\ Follow(t, <<>>)
             /\ UNCHANGED <<expr, go, jobs, value, deps, remaining, refs, answer, returned>>

-----------------------------------------------------------------------------
(***************************************************************************)
(* OrSignal and AndSignals.                                                *)
(***************************************************************************)
\* OrSignal.__call__: the output may have been freed; else it is held meanwhile.
Fire(t) == /\ At(t, "fire")
           /\ \/ /\ refs[Out(t)] = 0
                 /\ Follow(t, <<>>)
                 /\ UNCHANGED refs
              \/ /\ refs[Out(t)] > 0
                 /\ refs' = [refs EXCEPT ![Out(t)] = @ + 1]
                 /\ Follow(t, <<Do("go", Out(t), Out(t)), Do("unref", Out(t), Null)>>)
           /\ UNCHANGED <<expr, go, jobs, value, deps, remaining, answer, returned>>

\* The local list holds the operands until they are done with.
Cleanup(t) == /\ At(t, "cleanup")
              /\ LET old == deps[Out(t)]
                 IN Follow(t, IF old = <<>> THEN <<>>
                              ELSE <<Do("remove_then", Out(t), old[1]), Do("remove_then", Out(t), old[2])>>
                                   \o Drop(old[1]) \o Drop(old[2]))
              /\ deps' = [deps EXCEPT ![Out(t)] = <<>>]
              /\ UNCHANGED <<expr, go, jobs, value, remaining, refs, answer, returned>>

\* Mutant: the first operand is enough.
DoneAtOnce(t) == /\ At(t, "done")
                 /\ remaining' = [remaining EXCEPT ![Out(t)] = @ - 1]
                 /\ Follow(t, <<Do("go", Out(t), Out(t))>>)
                 /\ UNCHANGED <<expr, go, jobs, value, deps, refs, answer, returned>>

\* AndSignals.done(): counted under its lock; the last one activates, and with
\* it the AndSignals is gone.
AndDone(t) == /\ At(t, "done")
              /\ remaining' = [remaining EXCEPT ![Out(t)] = @ - 1]
              /\ Follow(t, IF remaining[Out(t)] = 1
                             THEN <<Do("go", Out(t), Out(t)), Do("unref", Out(t), Null)>>
                             ELSE <<>>)
              /\ UNCHANGED <<expr, go, jobs, value, deps, refs, answer, returned>>

\* A reference less; with the last one the signal is freed, its queue with it,
\* and the weak reference of an OrSignal calls cleanup().
Unref(t) ==
    /\ At(t, "unref")
    /\ refs' = [refs EXCEPT ![Out(t)] = @ - 1]
    /\ \/ /\ refs[Out(t)] > 1
          /\ Follow(t, <<>>)
          /\ UNCHANGED jobs
       \/ /\ refs[Out(t)] = 1
          /\ Follow(t, IF Term(Out(t)).op = "or" THEN <<Do("cleanup", Out(t), Null)>> ELSE <<>>)
          /\ jobs' = [jobs EXCEPT ![Out(t)] = <<>>]
    /\ UNCHANGED <<expr, go, value, deps, remaining, answer, returned>>

Forget(t) == /\ At(t, "forget")
             /\ Follow(t, Drop(value[Out(t)]))
             /\ UNCHANGED <<expr, go, jobs, value, deps, remaining, refs, answer, returned>>

-----------------------------------------------------------------------------
(***************************************************************************)
(* Future, and what activates the inputs.                                  *)
(***************************************************************************)
\* Mutant: the Future says it is ready before it has the value.
TriggerThenAssign(t, s) == /\ agenda[t] = <<>>
                           /\ s \notin go
                           /\ agenda' = [agenda EXCEPT ![t] = <<Do("go", Null, s)>>
                                  \o (IF s = Future THEN <<Do("assign", Null, s)>> ELSE <<>>)]
                           /\ UNCHANGED <<expr, go, jobs, value, deps, remaining, refs, answer, returned>>

Trigger(t, s) == /\ agenda[t] = <<>>
                 /\ s \notin go
                 /\ agenda' = [agenda EXCEPT ![t] = (IF s = Future THEN <<Do("assign", Null, s)>> ELSE <<>>)
                                                    \o <<Do("go", Null, s)>>]
                 /\ UNCHANGED <<expr, go, jobs, value, deps, remaining, refs, answer, returned>>

Assign(t) == /\ At(t, "assign")
             /\ answer' = "assigned"
             /\ Follow(t, <<>>)
             /\ UNCHANGED <<expr, go, jobs, value, deps, remaining, refs, returned>>

Read(t) == /\ At(t, "read")
           /\ returned' = {answer}
           /\ Follow(t, <<>>)
           /\ UNCHANGED <<expr, go, jobs, value, deps, remaining, refs, answer>>

-----------------------------------------------------------------------------
Step(t) == \/ CombineShortcut(t) \/ CombineOr(t) \/ CombineAnd(t)
           \/ ThenQueues(t) \/ ThenRuns(t) \/ GoFirst(t) \/ GoAgain(t) \/ RemoveThen(t) \/ Waited(t)
           \/ Fire(t) \/ Cleanup(t) \/ AndDone(t) \/ Unref(t) \/ Forget(t)
           \/ Assign(t) \/ Read(t)

Next == \/ \E t \in Threads : Step(t)
        \/ \E t \in Triggers, s \in Inputs : Trigger(t, s)

\* What is begun is gone through with; no input has to be activated.
Fairness == \A t \in Threads : WF_vars(Step(t))

Spec == Init /\ [][Next]_vars /\ Fairness
-----------------------------------------------------------------------------
Calls == [call : {"combine", "wait", "forget", "read", "then", "go", "remove_then",
                  "fire", "cleanup", "done", "unref", "assign"},
          out : Outputs \cup {Null}, signal : Signals \cup {Null}]

TypeOK == /\ expr \in Expressions
          /\ go \subseteq Signals
          /\ jobs \in [Signals -> Seq(Calls)]
          /\ value \in [Outputs -> Signals \cup {Null}]
          /\ deps \in [Outputs -> Seq(Signals)]
          /\ remaining \in [Outputs -> 0..2]
          /\ refs \in [Outputs -> Nat]
          /\ agenda \in [Threads -> Seq(Calls)]
          /\ answer \in {Null, "assigned"}
          /\ returned \subseteq {Null, "assigned"}

\* Nobody is in a call, but for one that waits for a signal.
Quiet == \A t \in Threads : agenda[t] # <<>> => At(t, "wait") /\ value[Out(t)] \notin go

Made == {o \in Outputs : value[o] = o}
IsOr(o) == Term(o).op = "or"
Asked(o) == IF IsOr(o) THEN {Left(o), Right(o)} \cap go # {} ELSE {Left(o), Right(o)} \subseteq go

\* The output of a combination is never activated before its operands ask for
\* it, and when things have calmed down it is, for as long as someone refers to
\* it: whether an operand was activated before, between or after the
\* registrations with the two (signals.py:233-234, 286-288), and also when both
\* are the same signal.
OutputExact == \A o \in Made : /\ o \in go => Asked(o)
                               /\ Quiet /\ refs[o] > 0 /\ Asked(o) => o \in go

\* "For saving memory" (signals.py:176): an OrSignal whose output was activated
\* or freed is in no queue any more, in whatever order it was registered,
\* called and cleaned up.  Signals that live long keep nothing of the
\* combinations they were in.
NothingLeft == Quiet => \A o \in Made, s \in Signals :
                  IsOr(o) /\ (o \in go \/ refs[o] = 0) => \A i \in DOMAIN jobs[s] : jobs[s][i].out # o

\* What the expression says, as a formula over the inputs.
Holds(x, meaning) == CASE x = Null -> FALSE
                       [] x = True -> TRUE
                       [] x = False -> FALSE
                       [] x \in Outputs -> meaning[x]
                       [] OTHER -> x \in go
Meaning ==
    LET upTo[i \in 0..Len(expr)] ==
          IF i = 0 THEN [o \in Outputs |-> FALSE]
          ELSE LET c == expr[i]
                   m == upTo[i - 1]
               IN [m EXCEPT ![c.out] =
                     IF c.op = "or" THEN Holds(c.left, m) \/ Holds(c.right, m)
                     ELSE Holds(c.left, m) /\ (c.right = Null \/ Holds(c.right, m))]
    IN upTo[Len(expr)][Result(expr)]

\* An `&` waits for an `|` that was freed: nothing but the expression referred
\* to it, and the AndSignals does not.
Orphaned == \E o \in Made : /\ ~IsOr(o) /\ o \notin go
                            /\ \E p \in Made \cap {Left(o), Right(o)} : IsOr(p) /\ refs[p] = 0

\* Who waits on a combination gets out once the expression holds (signals.py:81,
\* futures.py:29), however deep the combination is.
WaitEnds == At(Builder, "wait") /\ Meaning ~> ~At(Builder, "wait") \/ Orphaned

\* Future.wait(till) comes back without the value only if the till was
\* activated, or is True (futures.py:29-30, 36-37, signals.py:206).
FutureAnswers == Null \in returned => Right(Result(expr)) \in go \cup {True}

\* A combination "will be triggered when lhs or rhs is triggered"
\* (README.md:231), here of expressions of any depth.
MeansWhatItSays == Quiet /\ At(Builder, "wait") /\ Meaning => value[Result(expr)] \in go
=============================================================================
