------------------------------ MODULE Command ------------------------------
(***************************************************************************)
(* The Command of src/mo_threads/commands.py: one command in a shell of    *)
(* its own.  The maker consumes what the shell says when it starts, a      *)
(* worker and a relay move the output and the errors to the Command, and   *)
(* the worker closes the shell down.  `output` and `errors` are what the   *)
(* shell wrote and nobody popped, in the pipes and in the Queues of the    *)
(* Process; when that winds up it closes its Queues and may lose the end   *)
(* of them (see Processes).                                                *)
(***************************************************************************)
EXTENDS Integers, Sequences

CONSTANTS MaxLines,   \* bound: the lines the command writes, to both streams
          Windows,    \* the shell is that of Windows
          Blank,      \* which of the lines that it writes to stderr are blank
          MaxStdout   \* the length of self.stdout and self.stderr

ASSUME CommandAssumption == /\ MaxLines \in Nat
                            /\ Windows \in BOOLEAN
                            /\ Blank \subseteq Nat
                            /\ MaxStdout \in Nat \ {0}

VARIABLES maker,     \* where __init__ is
          late,      \* start_timeout is activated
          worker,    \* where _worker is
          line,      \* the line it has popped
          raising,   \* an exception is on its way through its finally clause
          code,      \* returncode: 0 is None, 1 the greeting's, 2 the command's
          relay,     \* where _stderr_relay is
          lines,     \* the lines it has popped and has yet to add
          told,      \* which of the two has its please_stop activated
          got,       \* the lines added to self.stdout and self.stderr, ever
          read,      \* how many of those the user has popped
          closed,    \* which of the two are closed
          shell,     \* "idle", "echoed", "marked", "busy", "hung" or "ended"
          ran,       \* how far the command is
          wrote,     \* the lines it has written to each stream
          input,     \* what was sent to the shell and not read
          output, errors,
          ended,     \* the streams that the Process has closed
          asked,     \* stop() of the Process was called
          stopped    \* process.stopped

making == <<maker, late>>
working == <<worker, line, raising, code>>
relaying == <<relay, lines>>
own == <<got, read, closed>>
program == <<shell, ran, wrote, input>>
ending == <<ended, asked, stopped>>
vars == <<making, working, relaying, told, own, program, output, errors, ending>>

Says(what, n) == [says |-> what, n |-> n]
Marker == Says("marker", 0)

\* The Process has been made, and LAST_RETURN_CODE was sent to it.  What the
\* Windows shell says of the prompt that it is given before is part of the banner.
Init == /\ maker = "greet" /\ late = FALSE
        /\ worker = "unborn" /\ line = 0 /\ raising = FALSE /\ code = 0
        /\ relay = "unborn" /\ lines = <<>>
        /\ told = {}
        /\ got = [s \in {"out", "err"} |-> <<>>]
        /\ read = [s \in {"out", "err"} |-> 0]
        /\ closed = {}
        /\ shell = "idle" /\ ran = "not"
        /\ wrote = [s \in {"out", "err"} |-> 0]
        /\ input = <<"ask">>
        /\ output \in {<<>>, <<Says("banner", 0)>>}
        /\ errors = <<>>
        /\ ended = {} /\ asked = FALSE /\ stopped = FALSE

OutputOver == output = <<>> /\ "out" \in ended
HasRoom(s) == Len(got[s]) - read[s] < MaxStdout
Deliver(s, n) == got' = [got EXCEPT ![s] = Append(@, n)]
-----------------------------------------------------------------------------
(***************************************************************************)
(* __init__.                                                               *)
(***************************************************************************)
StartTimesOut == /\ maker \in {"greet", "greetcode"}
                 /\ ~late
                 /\ late' = TRUE
                 /\ UNCHANGED <<maker, working, relaying, told, own, program, output, errors, ending>>

\* The lines up to the marker are the banner of the shell.
GreetPops == /\ maker = "greet"
             /\ output # <<>>
             /\ output' = Tail(output)
             /\ maker' = IF Head(output) = Marker THEN "greetcode" ELSE "greet"
             /\ UNCHANGED <<late, working, relaying, told, own, program, errors, ending>>

\* PLEASE_STOP: the shell is killed, and joined.
GreetEnds == /\ maker = "greet"
             /\ OutputOver
             /\ maker' = "giveup"
             /\ shell' = "ended"
             /\ UNCHANGED <<late, working, relaying, told, own, ran, wrote, input, output, errors, ending>>

GreetLate == /\ maker = "greet"
             /\ late
             /\ maker' = "greetcode"
             /\ UNCHANGED <<late, working, relaying, told, own, program, output, errors, ending>>

\* Mutant: the error level of the greeting is left in the queue.
GreetCodeLeft == /\ maker = "greetcode"
                 /\ maker' = "threads"
                 /\ UNCHANGED <<late, working, relaying, told, own, program, output, errors, ending>>

\* Whatever comes, also PLEASE_STOP or None, is taken for the error level.
GreetCode == /\ maker = "greetcode"
             /\ \/ output # <<>> /\ output' = Tail(output)
                \/ (OutputOver \/ late) /\ output' = output
             /\ IF late THEN maker' = "giveup" /\ shell' = "ended"
                        ELSE maker' = "threads" /\ shell' = shell
             /\ UNCHANGED <<late, working, relaying, told, own, ran, wrote, input, errors, ending>>

GivenUp == /\ maker = "giveup"
           /\ stopped
           /\ maker' = "failed"
           /\ UNCHANGED <<late, working, relaying, told, own, program, output, errors, ending>>

RunThreads == /\ maker = "threads"
              /\ maker' = "send"
              /\ relay' = "loop"
              /\ worker' = "loop"
              /\ UNCHANGED <<late, line, raising, code, lines, told, own, program, output, errors, ending>>

\* The command, an empty line and the request for the marker, one after the
\* other.  add() raises when stdin is closed; the threads are there already.
Send(label, text, next) ==
    /\ maker = label
    /\ IF "in" \in ended
         THEN maker' = "failed" /\ UNCHANGED input
         ELSE maker' = next /\ input' = Append(input, text)
    /\ UNCHANGED <<late, working, relaying, told, own, shell, ran, wrote, output, errors, ending>>

SendCommand == \/ Send("send", "command", "sendblank")
               \/ Send("sendblank", "blank", "sendask")
               \/ Send("sendask", "ask", "made")

\* stop() of the Command, or of the thread that made it.
Stop == /\ worker # "unborn"
        /\ \E which \in {{"worker"}, {"worker", "relay"}} :
              /\ ~(which \subseteq told)
              /\ told' = told \cup which
        /\ UNCHANGED <<making, working, relaying, own, program, output, errors, ending>>

\* The user pops from self.stdout or self.stderr.
Read(s) == /\ read[s] < Len(got[s])
           /\ read' = [read EXCEPT ![s] = @ + 1]
           /\ UNCHANGED <<making, working, relaying, told, got, closed, program, output, errors, ending>>

-----------------------------------------------------------------------------
(***************************************************************************)
(* _worker.                                                                *)
(***************************************************************************)
WorkerGoto(label) == worker' = label

WorkerLoops == /\ worker = "loop"
               /\ WorkerGoto(IF "worker" \in told THEN "close" ELSE "pop")
               /\ UNCHANGED <<making, line, raising, code, relaying, told, own, program, output, errors, ending>>

WorkerPops == /\ worker = "pop"
              /\ output # <<>>
              /\ output' = Tail(output)
              /\ line' = Head(output).n
              /\ CASE Head(output).says = "marker"  -> WorkerGoto("code") /\ UNCHANGED raising
                   [] Head(output).says = "prompt"  -> WorkerGoto("loop") /\ UNCHANGED raising
                   [] Head(output).says = "unknown" -> WorkerGoto("close") /\ raising' = TRUE
                   [] OTHER                         -> WorkerGoto("add") /\ UNCHANGED raising
              /\ UNCHANGED <<making, code, relaying, told, own, program, errors, ending>>

\* None, as please_stop was activated meanwhile.
WorkerPopsNone == /\ worker = "pop"
                  /\ "worker" \in told
                  /\ WorkerGoto("loop")
                  /\ UNCHANGED <<making, line, raising, code, relaying, told, own, program, output, errors, ending>>

\* Mutant: PLEASE_STOP is passed over like None.
MissesEnd == /\ worker = "pop"
             /\ OutputOver
             /\ WorkerGoto("loop")
             /\ UNCHANGED <<making, line, raising, code, relaying, told, own, program, output, errors, ending>>

WorkerSeesEnd == /\ worker = "pop"
                 /\ OutputOver
                 /\ WorkerGoto("close")
                 /\ UNCHANGED <<making, line, raising, code, relaying, told, own, program, output, errors, ending>>

\* A full queue makes the worker wait, for ten minutes at most.
WorkerAdds == /\ worker = "add"
              /\ \/ /\ HasRoom("out")
                    /\ Deliver("out", line)
                    /\ WorkerGoto("loop")
                    /\ UNCHANGED raising
                 \/ /\ ~HasRoom("out")
                    /\ WorkerGoto("close")
                    /\ raising' = TRUE
                    /\ UNCHANGED got
              /\ UNCHANGED <<making, line, code, relaying, told, read, closed, program, output, errors, ending>>

\* int() of the line after the marker, or of what else pop() returns.
WorkerGetsCode == /\ worker = "code"
                  /\ \/ /\ output # <<>>
                        /\ output' = Tail(output)
                        /\ IF Head(output).says = "code"
                             THEN code' = Head(output).n /\ UNCHANGED raising
                             ELSE raising' = TRUE /\ UNCHANGED code
                     \/ /\ OutputOver \/ "worker" \in told
                        /\ raising' = TRUE
                        /\ UNCHANGED <<output, code>>
                  /\ WorkerGoto("close")
                  /\ UNCHANGED <<making, line, relaying, told, own, program, errors, ending>>

\* Mutant: PLEASE_STOP is added as one more value.
AddsStop == /\ worker = "close"
            /\ Deliver("out", 0)
            /\ told' = told \cup {"relay"}
            /\ WorkerGoto("joinrelay")
            /\ UNCHANGED <<making, line, raising, code, relaying, read, closed, program, output, errors, ending>>

\* The finally clause.
CloseStdout == /\ worker = "close"
               /\ closed' = closed \cup {"out"}
               /\ told' = told \cup {"relay"}
               /\ WorkerGoto("joinrelay")
               /\ UNCHANGED <<making, line, raising, code, relaying, got, read, program, output, errors, ending>>

\* A relay that failed ends the clause: the shell is left.
JoinRelay == /\ worker = "joinrelay"
             /\ relay \in {"done", "failed"}
             /\ WorkerGoto(IF relay = "done" THEN "exit" ELSE "failed")
             /\ UNCHANGED <<making, line, raising, code, relaying, told, own, program, output, errors, ending>>

\* Mutant: the shell is asked to exit, and not waited for.
AskExitOnly == /\ worker = "exit"
               /\ input' = IF "in" \in ended THEN input ELSE Append(input, "exit")
               /\ WorkerGoto("done")
               /\ UNCHANGED <<making, line, raising, code, relaying, told, own, shell, ran, wrote, output, errors, ending>>

AskExit == /\ worker = "exit"
           /\ input' = IF "in" \in ended THEN input ELSE Append(input, "exit")
           /\ WorkerGoto("joinshell")
           /\ UNCHANGED <<making, line, raising, code, relaying, told, own, shell, ran, wrote, output, errors, ending>>

\* Process.join() kills what is left; its complaints are dropped.  The kill is
\* taken to succeed here, as in GreetEnds: it is of a shell of one's own.
JoinShell == /\ worker = "joinshell"
             /\ stopped
             /\ shell' = "ended"
             /\ WorkerGoto(IF raising THEN "failed" ELSE "done")
             /\ UNCHANGED <<making, line, raising, code, relaying, told, own, ran, wrote, input, output, errors, ending>>

-----------------------------------------------------------------------------
(***************************************************************************)
(* _stderr_relay.                                                          *)
(***************************************************************************)
RelayGoto(label) == relay' = label

RelayLoops == /\ relay = "loop"
              /\ RelayGoto(IF "relay" \in told THEN "popall" ELSE "pop")
              /\ UNCHANGED <<making, working, lines, told, own, program, output, errors, ending>>

RelayPops == /\ relay = "pop"
             /\ errors # <<>>
             /\ errors' = Tail(errors)
             /\ lines' = <<Head(errors)>>
             /\ RelayGoto("add")
             /\ UNCHANGED <<making, working, told, own, program, output, ending>>

RelayPopsNone == /\ relay = "pop"
                 /\ "relay" \in told
                 /\ RelayGoto("loop")
                 /\ UNCHANGED <<making, working, lines, told, own, program, output, errors, ending>>

RelaySeesEnd == /\ relay = "pop"
                /\ errors = <<>> /\ "err" \in ended
                /\ RelayGoto("popall")
                /\ UNCHANGED <<making, working, lines, told, own, program, output, errors, ending>>

\* What the Process has not read from the pipe yet stays behind.
RelayPopsAll == /\ relay = "popall"
                /\ \E n \in 0..Len(errors) :
                      /\ "err" \in ended => n = Len(errors)
                      /\ lines' = SubSeq(errors, 1, n)
                      /\ errors' = SubSeq(errors, n + 1, Len(errors))
                /\ RelayGoto("addall")
                /\ UNCHANGED <<making, working, told, own, program, output, ending>>

\* A blank line is passed over.
RelaySkips == /\ relay \in {"add", "addall"}
              /\ lines # <<>> /\ Head(lines) \in Blank
              /\ lines' = Tail(lines)
              /\ RelayGoto(IF relay = "add" THEN "loop" ELSE "addall")
              /\ UNCHANGED <<making, working, told, own, program, output, errors, ending>>

\* The others are added as the worker does, but an exception ends the thread.
RelayAdds == /\ relay \in {"add", "addall"}
             /\ lines # <<>> /\ Head(lines) \notin Blank
             /\ \/ /\ HasRoom("err")
                   /\ Deliver("err", Head(lines))
                   /\ lines' = Tail(lines)
                   /\ RelayGoto(IF relay = "add" THEN "loop" ELSE "addall")
                \/ /\ ~HasRoom("err")
                   /\ RelayGoto("failed")
                   /\ UNCHANGED <<got, lines>>
             /\ UNCHANGED <<making, working, told, read, closed, program, output, errors, ending>>

RelayCloses == /\ relay = "addall"
               /\ lines = <<>>
               /\ closed' = closed \cup {"err"}
               /\ RelayGoto("done")
               /\ UNCHANGED <<making, working, lines, told, got, read, program, output, errors, ending>>

-----------------------------------------------------------------------------
(***************************************************************************)
(* The shell, and the Process around it.                                   *)
(***************************************************************************)
\* The Windows shell has a prompt, and says again what it reads, behind it.
\* The number of that is the number of the line before it.
ShellEchoes == /\ Windows
               /\ shell = "idle" /\ input # <<>>
               /\ shell' = "echoed"
               /\ output' = IF "out" \in ended THEN output
                              ELSE Append(output, Says("prompt", wrote["out"]))
               /\ UNCHANGED <<making, working, relaying, told, own, ran, wrote, input, errors, ending>>

Idle == /\ shell = IF Windows THEN "echoed" ELSE "idle"
        /\ input # <<>>

ShellAsked == /\ Idle
              /\ Head(input) = "ask"
              /\ shell' = "marked"
              /\ input' = Tail(input)
              /\ output' = IF "out" \in ended THEN output ELSE Append(output, Marker)
              /\ UNCHANGED <<making, working, relaying, told, own, ran, wrote, errors, ending>>

ShellSaysCode == /\ shell = "marked"
                 /\ shell' = "idle"
                 /\ output' = IF "out" \in ended THEN output
                                ELSE Append(output, Says("code", IF ran = "not" THEN 1 ELSE 2))
                 /\ UNCHANGED <<making, working, relaying, told, own, ran, wrote, input, errors, ending>>

\* The Windows shell says of a command it does not know that it does not.
ShellRuns == /\ Idle
             /\ Head(input) = "command"
             /\ input' = Tail(input)
             /\ \/ /\ shell' = "busy" /\ ran' = "running"
                   /\ UNCHANGED output
                \/ /\ Windows
                   /\ shell' = "idle" /\ ran' = "ended"
                   /\ output' = IF "out" \in ended THEN output ELSE Append(output, Says("unknown", 0))
             /\ UNCHANGED <<making, working, relaying, told, own, wrote, errors, ending>>

ShellSkips == /\ Idle
              /\ Head(input) = "blank"
              /\ input' = Tail(input)
              /\ shell' = "idle"
              /\ UNCHANGED <<making, working, relaying, told, own, ran, wrote, output, errors, ending>>

ShellExits == /\ Idle
              /\ Head(input) = "exit"
              /\ input' = Tail(input)
              /\ shell' = "ended"
              /\ UNCHANGED <<making, working, relaying, told, own, ran, wrote, output, errors, ending>>

Writes(s) == /\ shell = "busy"
             /\ wrote["out"] + wrote["err"] < MaxLines
             /\ wrote' = [wrote EXCEPT ![s] = @ + 1]
             /\ output' = IF s = "out" /\ s \notin ended
                            THEN Append(output, Says("line", wrote'[s])) ELSE output
             /\ errors' = IF s = "err" /\ s \notin ended THEN Append(errors, wrote'[s]) ELSE errors
             /\ UNCHANGED <<making, working, relaying, told, own, shell, ran, input, ending>>

\* A command that reads its input gets what is meant for the shell.
Eats == /\ shell = "busy"
        /\ input # <<>>
        /\ input' = Tail(input)
        /\ UNCHANGED <<making, working, relaying, told, own, shell, ran, wrote, output, errors, ending>>

CommandEnds == /\ shell = "busy"
               /\ \/ shell' = "idle" /\ ran' = "ended"
                  \/ shell' = "hung" /\ UNCHANGED ran
               /\ UNCHANGED <<making, working, relaying, told, own, wrote, input, output, errors, ending>>

\* The monitor kills a shell that has been silent for too long, or something
\* else ends it.
ShellDies == /\ shell # "ended"
             /\ shell' = "ended"
             /\ UNCHANGED <<making, working, relaying, told, own, ran, wrote, input, output, errors, ending>>

\* The main thread is shut down.
StopProcess == /\ ~asked
               /\ asked' = TRUE
               /\ UNCHANGED <<making, working, relaying, told, own, program, output, errors, ended, stopped>>

StreamEnds(s) == /\ shell = "ended" \/ asked
                 /\ s \notin ended
                 /\ s = "in" => {"out", "err"} \subseteq ended
                 /\ ended' = ended \cup {s}
                 /\ IF s = "out" THEN \E n \in 0..Len(output) : output' = SubSeq(output, 1, n)
                                 ELSE UNCHANGED output
                 /\ IF s = "err" THEN \E n \in 0..Len(errors) : errors' = SubSeq(errors, 1, n)
                                 ELSE UNCHANGED errors
                 /\ UNCHANGED <<making, working, relaying, told, own, program, asked, stopped>>

ProcessStops == /\ ended = {"in", "out", "err"}
                /\ ~stopped
                /\ stopped' = TRUE
                /\ UNCHANGED <<making, working, relaying, told, own, program, output, errors, ended, asked>>

-----------------------------------------------------------------------------
Make == \/ StartTimesOut \/ GreetPops \/ GreetEnds \/ GreetLate \/ GreetCode
        \/ GivenUp \/ RunThreads \/ SendCommand
Work == \/ WorkerLoops \/ WorkerPops \/ WorkerPopsNone \/ WorkerSeesEnd \/ WorkerAdds \/ WorkerGetsCode
        \/ CloseStdout \/ JoinRelay \/ AskExit \/ JoinShell
Relay == \/ RelayLoops \/ RelayPops \/ RelayPopsNone \/ RelaySeesEnd
         \/ RelayPopsAll \/ RelaySkips \/ RelayAdds \/ RelayCloses
WindUp == ProcessStops \/ \E s \in {"in", "out", "err"} : StreamEnds(s)

Next == \/ Make \/ Work \/ Relay \/ Stop \/ WindUp
        \/ \E s \in {"out", "err"} : Read(s) \/ Writes(s)
        \/ ShellEchoes \/ ShellAsked \/ ShellSaysCode \/ ShellRuns \/ ShellSkips \/ ShellExits
        \/ Eats \/ CommandEnds \/ ShellDies \/ StopProcess

\* The threads run, the Process winds up, and a shell that stays for ever is
\* silent sooner or later.  Nobody has to read the lines.
Fairness == /\ WF_vars(Make) /\ WF_vars(Work) /\ WF_vars(Relay)
            /\ WF_vars(WindUp) /\ WF_vars(ShellDies)

Spec == Init /\ [][Next]_vars /\ Fairness
-----------------------------------------------------------------------------
Lines == Seq(1..MaxLines)
Said == [says : {"banner", "prompt", "marker", "code", "unknown", "line"}, n : 0..MaxLines \cup 0..2]

TypeOK == /\ maker \in {"greet", "greetcode", "giveup", "threads", "send",
                        "sendblank", "sendask", "made", "failed"}
          /\ {late, raising, asked, stopped} \subseteq BOOLEAN
          /\ worker \in {"unborn", "loop", "pop", "add", "code", "close",
                         "joinrelay", "exit", "joinshell", "done", "failed"}
          /\ relay \in {"unborn", "loop", "pop", "add", "popall", "addall", "done", "failed"}
          /\ line \in 0..MaxLines \cup 0..2
          /\ code \in 0..2
          /\ lines \in Lines
          /\ told \subseteq {"worker", "relay"}
          /\ got \in [{"out", "err"} -> Lines]
          /\ read \in [{"out", "err"} -> 0..MaxLines]
          /\ closed \subseteq {"out", "err"}
          /\ shell \in {"idle", "echoed", "marked", "busy", "hung", "ended"}
          /\ ran \in {"not", "running", "ended"}
          /\ wrote \in [{"out", "err"} -> 0..MaxLines]
          /\ input \in Seq({"ask", "command", "blank", "exit"})
          /\ output \in Seq(Said)
          /\ errors \in Lines
          /\ ended \subseteq {"in", "out", "err"}

WorkerOver == worker \in {"done", "failed"}

\* "The shell is gone by the time join() returns" (commands.py:31), however the
\* command, the shell and the two threads came to their end, and whoever pops
\* from self.stdout or self.stderr comes to the end of it; unless the relay has
\* failed, as its exception ends the clause in which the shell is stopped.  (A
\* shell whose kill raises would be left too, see JoinShell and Processes.)
ShellGone == WorkerOver /\ relay # "failed" =>
                /\ shell = "ended"
                /\ closed = {"out", "err"}

\* What the user gets is what the command wrote to that stream, each line once
\* and in order, up to some point: all lines of stdout, and those of stderr that
\* are not blank; and nothing of what the shell said on its own.  A return code
\* is that of the command, never that of the greeting, and then none of the
\* output is missing (commands.py:63-71, 125-144, 155-163).
LinesExact == /\ \A s \in {"out", "err"} :
                    /\ \A i, j \in DOMAIN got[s] : i < j => got[s][i] < got[s][j]
                    /\ \E n \in 0..wrote[s] :
                          {got[s][i] : i \in DOMAIN got[s]} =
                             {k \in 1..n : s = "err" => k \notin Blank}
              /\ code # 0 => code = 2 /\ Len(got["out"]) = wrote["out"]

\* A worker that was started comes to its end, which join() waits for, also when
\* nobody reads the lines and the command hangs: from every state on, a state is
\* reached in which it is over, or not started yet, to which it never returns.
WorkerEnds == []<>(worker = "unborn" \/ WorkerOver)
=============================================================================
