------------------------------- MODULE Python -------------------------------
(***************************************************************************)
(* The Python of src/mo_threads/python.py, which runs commands in another  *)
(* Python process, and src/mo_threads/python_worker.py, which serves them. *)
(* Callers in several threads share self.done, self.response and           *)
(* self.error, one thread watches the output, and the worker answers each  *)
(* command with a line.  Calls are numbered as they are let through, and   *)
(* their Signals, commands and answers with them.  The lines in the Queues *)
(* and pipes of the Process are `input` and `output`; when the Process     *)
(* winds up it closes the queues, and may lose the end of the output (see  *)
(* Processes).  That its stdin is closed makes no difference here, as the  *)
(* commands are forced.                                                    *)
(***************************************************************************)
EXTENDS Integers, Sequences

CONSTANTS Callers,
          Programs,  \* the commands that each caller runs, one of these
          MaxOther   \* bound: the lines of the worker that are no answers

AllKinds == {"works",
             "fails",       \* it raises, and the exception is the answer
             "garbles",     \* its answer is not understood, or is in a line with other text
             "unsendable",  \* it has no JSON
             "stop"}

ASSUME PythonAssumption == /\ Programs \subseteq [Callers -> Seq(AllKinds)]
                           /\ MaxOther \in Nat

VARIABLES maker,       \* __init__: "starting", "ready" or "failed"
          pc,          \* where each caller is
          todo,        \* the commands each caller has yet to run
          mine,        \* the number of its call, 0 before the first
          on,          \* the Signal it waits for, otherwise 0
          got,         \* the answer it is going to return or raise, 0 if that is None
          kind,        \* the commands of the calls let through
          done,        \* the number of self.done, 0 is DONE
          fired,       \* the Signals activated
          response,    \* whose answer is in self.response, 0 is None
          error,       \* the same for self.error
          watcher,     \* where _watch_stdout is
          line,        \* the line it has, or NoLine
          told,        \* its please_stop
          input,       \* commands on their way to the worker
          output,      \* lines on their way to the watcher
          outputClosed,
          worker,      \* "starting", "idle", "busy" or "ended"
          works,       \* the call it works on, or 0
          other,       \* the lines it wrote that are no answers
          asked,       \* process.please_stop
          overlapped   \* history: calls that began before, or read after, another's

callers == <<pc, todo, mine, on, got>>
shared == <<kind, done, fired, response, error, overlapped>>
watching == <<watcher, line, told>>
streams == <<input, output, outputClosed>>
process == <<worker, works, other, asked>>
vars == <<maker, callers, shared, watching, streams, process>>

NoLine == [says |-> "none", call |-> 0]
Line(says, call) == [says |-> says, call |-> call]

Init == /\ maker = "starting"
        /\ pc = [c \in Callers |-> "idle"]
        /\ todo \in Programs
        /\ mine = [c \in Callers |-> 0]
        /\ on = [c \in Callers |-> 0]
        /\ got = [c \in Callers |-> 0]
        /\ kind = <<>>
        /\ done = 0
        /\ fired = {0}
        /\ response = 0
        /\ error = 0
        /\ overlapped = {}
        /\ watcher = "unborn"
        /\ line = NoLine
        /\ told = FALSE
        /\ input = <<>>
        /\ output = <<>>
        /\ outputClosed = FALSE
        /\ worker = "starting"
        /\ works = 0
        /\ other = 0
        /\ asked = FALSE

At(c, label) == pc[c] = label
Goto(c, label) == pc' = [pc EXCEPT ![c] = label]

-----------------------------------------------------------------------------
(***************************************************************************)
(* __init__ waits for the first line of command_loop, whatever comes       *)
(* before it, and starts the watcher.                                      *)
(***************************************************************************)
MakerPops == /\ maker = "starting"
             /\ \/ /\ output # <<>>
                   /\ output' = Tail(output)
                   /\ IF Head(output).says = "ok"
                        THEN maker' = "ready" /\ watcher' = "loop"
                        ELSE UNCHANGED <<maker, watcher>>
                \/ /\ output = <<>> /\ outputClosed
                   /\ maker' = "failed"
                   /\ UNCHANGED <<output, watcher>>
             /\ UNCHANGED <<callers, shared, line, told, input, outputClosed, process>>

-----------------------------------------------------------------------------
(***************************************************************************)
(* _execute.                                                               *)
(***************************************************************************)
Call(c) == /\ At(c, "idle")
           /\ maker = "ready"
           /\ todo[c] # <<>>
           /\ Goto(c, "look")
           /\ UNCHANGED <<maker, todo, mine, on, got, shared, watching, streams, process>>

\* self.done is read before the wait for it, here and after the command is sent.
Look(c) == /\ pc[c] \in {"look", "lookagain"}
           /\ on' = [on EXCEPT ![c] = done]
           /\ Goto(c, IF At(c, "look") THEN "wait" ELSE "waitagain")
           /\ UNCHANGED <<maker, todo, mine, got, shared, watching, streams, process>>

Wait(c) == /\ pc[c] \in {"wait", "waitagain"}
           /\ on[c] \in fired
           /\ on' = [on EXCEPT ![c] = 0]
           /\ Goto(c, IF At(c, "wait") THEN "take" ELSE "read")
           /\ UNCHANGED <<maker, todo, mine, got, shared, watching, streams, process>>

\* Let through, and not back yet.
Inside == {"clear", "send", "lookagain", "waitagain", "read", "raise", "return", "raising", "returning"}
Others(c) == {d \in Callers \ {c} : pc[d] \in Inside}

\* Let the caller through: self.done becomes a Signal of its own.
LetThrough(c) == LET n == Len(kind) + 1 IN
                 /\ kind' = Append(kind, Head(todo[c]))
                 /\ todo' = [todo EXCEPT ![c] = Tail(@)]
                 /\ done' = n
                 /\ mine' = [mine EXCEPT ![c] = n]
                 /\ overlapped' = overlapped \cup
                        (IF Others(c) = {} THEN {} ELSE {n} \cup {mine[d] : d \in Others(c)})
                 /\ Goto(c, "clear")

\* Mutant: self.done is not looked at again under the lock.
TakeBlindly(c) == /\ At(c, "take")
                  /\ LetThrough(c)
                  /\ UNCHANGED <<maker, on, got, fired, response, error, watching, streams, process>>

\* Under self.lock, where others can only activate self.done.
Take(c) == /\ At(c, "take")
           /\ \/ /\ done \in fired
                 /\ LetThrough(c)
              \/ /\ done \notin fired
                 /\ Goto(c, "look")
                 /\ UNCHANGED <<todo, mine, kind, done, overlapped>>
           /\ UNCHANGED <<maker, on, got, fired, response, error, watching, streams, process>>

\* Mutant: what the call before has left is not cleared.
ClearNothing(c) == /\ At(c, "clear")
                   /\ Goto(c, "send")
                   /\ UNCHANGED <<maker, todo, mine, on, got, shared, watching, streams, process>>

Clear(c) == /\ At(c, "clear")
            /\ response' = 0
            /\ error' = 0
            /\ Goto(c, "send")
            /\ UNCHANGED <<maker, todo, mine, on, got, kind, done, fired, overlapped, watching, streams, process>>

\* value2json() may raise, which leaves self.done as it is: nobody will activate
\* it.  A forced add() asks neither for space nor whether the queue is closed, so
\* that the command for a worker that has ended is appended like any other.
Send(c) == /\ At(c, "send")
           /\ IF kind[mine[c]] = "unsendable"
                THEN /\ Goto(c, "idle")
                     /\ UNCHANGED input
                ELSE /\ Goto(c, "lookagain")
                     /\ input' = Append(input, mine[c])
           /\ UNCHANGED <<maker, todo, mine, on, got, shared, watching, output, outputClosed, process>>

ReadError(c) == /\ At(c, "read")
                /\ Goto(c, IF error # 0 THEN "raise" ELSE "return")
                /\ UNCHANGED <<maker, todo, mine, on, got, shared, watching, streams, process>>

ReadAnswer(c) == /\ pc[c] \in {"raise", "return"}
                 /\ got' = [got EXCEPT ![c] = IF At(c, "raise") THEN error ELSE response]
                 /\ Goto(c, IF At(c, "raise") THEN "raising" ELSE "returning")
                 /\ UNCHANGED <<maker, todo, mine, on, shared, watching, streams, process>>

\* The finally clause.  stop() goes on from there, unless its call raised.
Leave(c) == /\ pc[c] \in {"raising", "returning"}
            /\ response' = 0
            /\ error' = 0
            /\ got' = [got EXCEPT ![c] = 0]
            /\ Goto(c, "idle")
            /\ IF At(c, "returning") /\ kind[mine[c]] = "stop"
                 THEN asked' = TRUE /\ told' = TRUE
                 ELSE UNCHANGED <<asked, told>>
            /\ UNCHANGED <<maker, todo, mine, on, kind, done, fired, overlapped, watcher, line, streams, worker, works, other>>

-----------------------------------------------------------------------------
(***************************************************************************)
(* _watch_stdout.                                                          *)
(***************************************************************************)
WatcherGoto(label) == watcher' = label

WatcherStops == /\ watcher = "loop"
                /\ told
                /\ WatcherGoto("done")
                /\ UNCHANGED <<maker, callers, shared, line, told, streams, process>>

WatcherPops == /\ watcher = "loop"
               /\ output # <<>>
               /\ line' = Head(output)
               /\ output' = Tail(output)
               /\ WatcherGoto("line")
               /\ UNCHANGED <<maker, callers, shared, told, input, outputClosed, process>>

\* PLEASE_STOP instead of a line.
WatcherSeesEnd == /\ watcher = "loop"
                  /\ output = <<>> /\ outputClosed
                  /\ told' = TRUE
                  /\ WatcherGoto("done")
                  /\ UNCHANGED <<maker, callers, shared, line, streams, process>>

\* Text is logged; a record for the log is written there, or ends the thread.
WatcherPasses == /\ watcher = "line"
                 /\ line.says = "other"
                 /\ \/ WatcherGoto("loop")
                    \/ WatcherGoto("failed")
                 /\ line' = NoLine
                 /\ UNCHANGED <<maker, callers, shared, told, streams, process>>

Keep == IF line.says = "out" THEN response' = line.call /\ UNCHANGED error
                             ELSE error' = line.call /\ UNCHANGED response

WatcherKeeps == /\ watcher = "line"
                /\ line.says \in {"out", "err"}
                /\ Keep
                /\ WatcherGoto("go")
                /\ UNCHANGED <<maker, callers, kind, done, fired, overlapped, line, told, streams, process>>


WatcherGoes == /\ watcher = "go"
               /\ fired' = fired \cup {done}
               /\ line' = NoLine
               /\ WatcherGoto("loop")
               /\ UNCHANGED <<maker, callers, kind, done, response, error, overlapped, told, streams, process>>

-----------------------------------------------------------------------------
(***************************************************************************)
(* The worker, and the Process around it.                                  *)
(***************************************************************************)
WorkerStarts == /\ worker = "starting"
                /\ output' = Append(output, Line("ok", 0))
                /\ worker' = "idle"
                /\ UNCHANGED <<maker, callers, shared, watching, input, outputClosed, works, other, asked>>

WorkerSaysOther == /\ worker \in {"starting", "busy"}
                   /\ other < MaxOther
                   /\ ~outputClosed
                   /\ other' = other + 1
                   /\ output' = Append(output, Line("other", 0))
                   /\ UNCHANGED <<maker, callers, shared, watching, input, outputClosed, worker, works, asked>>

WorkerReads == /\ worker = "idle"
               /\ input # <<>>
               /\ worker' = "busy"
               /\ works' = Head(input)
               /\ input' = Tail(input)
               /\ UNCHANGED <<maker, callers, shared, watching, output, outputClosed, other, asked>>

Answer(n) == CASE kind[n] \in {"works", "stop"} -> <<Line("out", n)>>
               [] kind[n] = "fails" -> <<Line("err", n)>>
               [] kind[n] = "garbles" -> <<Line("other", 0)>>
               [] OTHER -> <<>>

\* What is written after the reader has left goes nowhere.
WorkerAnswers ==
    /\ worker = "busy"
    /\ output' = IF outputClosed THEN output ELSE output \o Answer(works)
    /\ worker' = IF kind[works] = "stop" THEN "ended" ELSE "idle"
    /\ works' = 0
    /\ UNCHANGED <<maker, callers, shared, watching, input, outputClosed, other, asked>>

\* At any time, or a command brings it down.
Crash == /\ worker # "ended"
         /\ worker' = "ended"
         /\ works' = 0
         /\ UNCHANGED <<maker, callers, shared, watching, streams, other, asked>>

WindsUp == worker = "ended" \/ asked

OutputEnds == /\ WindsUp
              /\ ~outputClosed
              /\ outputClosed' = TRUE
              /\ \E n \in 0..Len(output) : output' = SubSeq(output, 1, n)
              /\ UNCHANGED <<maker, callers, shared, watching, input, process>>

-----------------------------------------------------------------------------
Goes(c) == \/ Look(c) \/ Wait(c) \/ Take(c) \/ Clear(c) \/ Send(c)
           \/ ReadError(c) \/ ReadAnswer(c) \/ Leave(c)
Watch == WatcherStops \/ WatcherPops \/ WatcherSeesEnd \/ WatcherPasses \/ WatcherKeeps \/ WatcherGoes

Next == \/ \E c \in Callers : Call(c) \/ Goes(c)
        \/ MakerPops \/ Watch
        \/ WorkerStarts \/ WorkerSaysOther \/ WorkerReads \/ WorkerAnswers \/ Crash
        \/ OutputEnds

\* The threads run, each command comes to an end, and a Process whose program
\* has ended winds up (see Processes).  Nobody has to call.
Fairness == /\ \A c \in Callers : WF_vars(Goes(c))
            /\ WF_vars(MakerPops) /\ WF_vars(Watch)
            /\ WF_vars(WorkerReads \/ WorkerAnswers)
            /\ WF_vars(OutputEnds)

Spec == Init /\ [][Next]_vars /\ Fairness
-----------------------------------------------------------------------------
Calls == 1..Len(kind)

TypeOK == /\ maker \in {"starting", "ready", "failed"}
          /\ pc \in [Callers -> {"idle", "look", "wait", "take"} \cup Inside]
          /\ todo \in [Callers -> Seq(AllKinds)]
          /\ kind \in Seq(AllKinds)
          /\ mine \in [Callers -> Calls \cup {0}]
          /\ on \in [Callers -> Calls \cup {0}]
          /\ got \in [Callers -> Calls \cup {0}]
          /\ {done, response, error} \subseteq Calls \cup {0}
          /\ fired \subseteq Calls \cup {0}
          /\ overlapped \subseteq Calls
          /\ watcher \in {"unborn", "loop", "line", "go", "failed", "done"}
          /\ line \in [says : {"none", "ok", "other", "out", "err"}, call : Calls \cup {0}]
          /\ input \in Seq(Calls)
          /\ output \in Seq([says : {"ok", "other", "out", "err"}, call : Calls \cup {0}])
          /\ told \in BOOLEAN
          /\ outputClosed \in BOOLEAN /\ asked \in BOOLEAN
          /\ worker \in {"starting", "idle", "busy", "ended"}
          /\ works \in Calls \cup {0}
          /\ other \in 0..MaxOther

IsAnswer(l) == l.says \in {"out", "err"}

\* The calls on their way, from the Queue to the Signal that is activated for
\* them.
Pending == watcher \in {"line", "go"} /\ IsAnswer(line)
Traffic == {<<"input", i, input[i]>> : i \in DOMAIN input}
     \cup (IF worker = "busy" THEN {<<"worker", 1, works>>} ELSE {})
     \cup {<<"output", i, output[i].call>> : i \in {k \in DOMAIN output : IsAnswer(output[k])}}
     \cup (IF Pending THEN {<<"watcher", 1, line.call>>} ELSE {})

\* However many threads call, at most one command or answer is on its way, and
\* it is that of the call whose Signal is in self.done: the worker's answers
\* need no number to be told apart (python.py:66-71).
OneOutstanding == \A x, y \in Traffic : /\ x = y
                                        /\ x[3] = done /\ done \notin fired

\* An answer is in self.response and self.error no longer than the call after
\* its own takes to begin.  So a call never has the answer of an earlier one;
\* and it has its own, raised if that is an exception, unless another call was
\* let through before it had read it (python.py:73-84).
AnswerIsMine ==
    \A c \in Callers : pc[c] \in {"raising", "returning"} =>
       /\ got[c] = 0 \/ got[c] >= mine[c]
       /\ mine[c] \notin overlapped =>
             /\ got[c] = mine[c]
             /\ At(c, "raising") <=> kind[mine[c]] = "fails"

\* What leaves self.done as it is for ever: there is no worker or no watcher, or
\* a command, of whichever caller, was not sent or not answered by a line of JSON.
Trouble == \/ worker = "ended" \/ watcher = "failed"
           \/ \E n \in Calls : kind[n] \in {"unsendable", "garbles"}

=============================================================================
