---------------------------- MODULE CommandProofs ----------------------------
(***************************************************************************)
(* For any number of lines and any length of the queues: the shell is gone *)
(* when the worker of a Command is over, and the lines are those of the    *)
(* command, up to the last one when there is a return code.                *)
(***************************************************************************)
EXTENDS Command, SequenceTheorems, TLAPS

-----------------------------------------------------------------------------
\* Where the greeting, the worker and the finally clause are.

Greeting == {"greet", "greetcode"}
Looping == {"unborn", "loop", "pop", "add"}
Last == {"close", "joinrelay", "exit", "joinshell", "done", "failed"}

\* The greeting is over, and was not given up.
Begun == maker = "threads" \/ worker # "unborn"

\* The lines that the worker has taken off the output.
Taken == Len(got["out"]) + (IF worker = "add" THEN 1 ELSE 0)

\* Lines and echoes, and the number of the last line before the i-th of them,
\* where the n-th comes before the first.
LinesUpTo(q, n) == \A k \in 1..n : q[k].says \in {"line", "prompt"}
Before(q, n, i) == IF i = 1 THEN n ELSE q[i - 1].n

\* The threads are born together, and until then there is nothing to move.
BornInv == /\ worker = "unborn" <=> relay = "unborn"
           /\ worker # "unborn" => maker \notin Greeting \cup {"giveup", "threads"}
           /\ maker \in {"send", "sendblank", "sendask", "made"} => worker # "unborn"
           /\ worker = "unborn" => /\ code = 0 /\ lines = <<>>
                                   /\ got = [s \in {"out", "err"} |-> <<>>]
           /\ \A s \in {"out", "err"} : read[s] <= Len(got[s])

\* The command is sent once, and runs once.
CommandInv == /\ \A i \in DOMAIN input : input[i] = "command" => ran = "not"
              /\ \A i, k \in DOMAIN input : input[i] = "command" /\ input[k] = "command" => i = k
              /\ maker \in Greeting \cup {"giveup", "threads", "send"} =>
                    ran = "not" /\ \A i \in DOMAIN input : input[i] # "command"
              /\ maker \in {"sendblank", "sendask"} /\ ran = "not" =>
                    \E i \in DOMAIN input : input[i] = "command"
              /\ ran = "not" => wrote = [s \in {"out", "err"} |-> 0]
              /\ shell = "busy" => ran = "running"
              /\ ran = "running" => shell \in {"busy", "hung", "ended"}

\* The maker consumes what the shell answers to its first request, and no less.
GreetInv == /\ worker = "unborn" => input \in {<<>>, <<"ask">>}
            /\ maker = "greet" =>
                  \A i \in DOMAIN output : output[i] = Marker =>
                     /\ input = <<>>
                     /\ Len(output) = i \/ (Len(output) = i + 1 /\ shell # "marked")
            /\ maker = "greetcode" /\ ~late =>
                  /\ input = <<>>
                  /\ output = <<>> \/ (Len(output) = 1 /\ shell # "marked")

\* The second request follows the command, and so does what the shell answers.
AskInv == Begun /\ "out" \notin ended =>
             /\ ran = "not" => \A i \in DOMAIN input : input[i] = "ask" =>
                                  \E k \in DOMAIN input : k < i /\ input[k] = "command"
             /\ shell = "marked" => ran = "ended"

\* What the worker has taken is the beginning of what the command wrote.
GotInv == /\ Len(got["out"]) <= wrote["out"]
          /\ \A i \in DOMAIN got["out"] : got["out"][i] = i
          /\ worker = "add" => line = Len(got["out"]) + 1 /\ line <= wrote["out"]

\* What the shell says on its own, after the greeting, is about the command.
SaidInv == Begun =>
             /\ \A i \in DOMAIN output : output[i].says = "code" => output[i].n = 2
             /\ \A i \in DOMAIN output : output[i].says = "marker" => ran = "ended"

\* What the i-th thing in the output is, when lines and echoes come before it.
FitsAt(i) == LET k == Before(output, Taken, i) IN
                /\ output[i].says \in {"line", "prompt", "unknown", "marker"}
                /\ output[i].says = "line" => output[i].n = k + 1 /\ k + 1 <= wrote["out"]
                /\ output[i].says = "prompt" => output[i].n = k
                /\ output[i].says = "marker" => k = wrote["out"]

\* While the worker moves lines, they are the next ones, and nothing but a
\* marker, or the refusal of the command, comes after them.
NextInv == Begun /\ worker \in Looping =>
             /\ \A i \in DOMAIN output : LinesUpTo(output, i - 1) => FitsAt(i)
             /\ "out" \notin ended /\ LinesUpTo(output, Len(output)) =>
                   /\ Before(output, Taken, Len(output) + 1) = wrote["out"]
                   /\ shell # "marked"

\* A return code comes after all lines.
CodeInv == /\ worker = "code" => Len(got["out"]) = wrote["out"] /\ ran = "ended"
           /\ code # 0 => /\ code = 2
                          /\ Len(got["out"]) = wrote["out"]
                          /\ ran = "ended"
                          /\ worker \in Last

\* The lines that come after the n-th.
After(n, q) == \A i \in DOMAIN q : q[i] = n + i

\* Of the first f lines all but the blank ones, in order.
Kept(q, f) == /\ Len(q) <= f
              /\ \A i \in DOMAIN q : q[i] \in 1..f /\ q[i] \notin Blank
              /\ \A i, j \in DOMAIN q : i < j => q[i] < q[j]
              /\ \A k \in 1..f : k \in Blank \/ \E i \in DOMAIN q : q[i] = k

\* The relay is done with f of the errors, and the others are on their way in
\* the order in which they were written.
Moved(f) == /\ Kept(got["err"], f)
            /\ After(f, lines)
            /\ After(f + Len(lines), errors)
            /\ f + Len(lines) + Len(errors) <= wrote["err"]
            /\ "err" \notin ended => f + Len(lines) + Len(errors) = wrote["err"]

ErrInv == /\ \E f \in Nat : Moved(f)
          /\ relay \in {"loop", "pop", "popall"} => lines = <<>>
          /\ relay = "add" => Len(lines) = 1

\* What the finally clause has gone past is closed.
GoneInv == /\ worker \in Last \ {"close"} => "out" \in closed
           /\ relay = "done" => "err" \in closed
           /\ worker \in {"exit", "joinshell", "done"} => relay = "done"
           /\ worker = "done" => shell = "ended"
           /\ worker = "failed" => relay = "failed" \/ (relay = "done" /\ shell = "ended")

IndInv == TypeOK /\ BornInv /\ CommandInv /\ GreetInv /\ AskInv /\ GotInv /\ SaidInv /\ NextInv /\ CodeInv /\ ErrInv /\ GoneInv

-----------------------------------------------------------------------------
\* A sequence with one more element at the end.
LEMMA Appended ==
  ASSUME NEW S, NEW q \in Seq(S), NEW e \in S
  PROVE  /\ Append(q, e) \in Seq(S)
         /\ Len(q) \in Nat
         /\ DOMAIN q = 1..Len(q)
         /\ Len(Append(q, e)) = Len(q) + 1
         /\ DOMAIN Append(q, e) = 1..(Len(q) + 1)
         /\ \A i \in 1..Len(q) : Append(q, e)[i] = q[i]
         /\ Append(q, e)[Len(q) + 1] = e
  OBVIOUS

\* A sequence without its first element.
LEMMA Shifted ==
  ASSUME NEW S, NEW q \in Seq(S), q # <<>>
  PROVE  /\ Tail(q) \in Seq(S)
         /\ Len(q) \in Nat \ {0}
         /\ DOMAIN q = 1..Len(q)
         /\ Head(q) = q[1]
         /\ q[1] \in S
         /\ Len(Tail(q)) = Len(q) - 1
         /\ DOMAIN Tail(q) = 1..(Len(q) - 1)
         /\ \A i \in 1..(Len(q) - 1) : Tail(q)[i] = q[i + 1]
<1>1. Len(q) \in Nat \ {0}
  BY EmptySeq
<1> QED
  BY <1>1

\* The beginning of a sequence.
LEMMA Begins ==
  ASSUME NEW S, NEW q \in Seq(S), NEW n \in 0..Len(q)
  PROVE  /\ SubSeq(q, 1, n) \in Seq(S)
         /\ Len(q) \in Nat
         /\ DOMAIN q = 1..Len(q)
         /\ Len(SubSeq(q, 1, n)) = n
         /\ DOMAIN SubSeq(q, 1, n) = 1..n
         /\ \A i \in 1..n : SubSeq(q, 1, n)[i] = q[i]
  BY SubSeqProperties

\* The rest of a sequence.
LEMMA Rests ==
  ASSUME NEW S, NEW q \in Seq(S), NEW n \in 0..Len(q)
  PROVE  /\ SubSeq(q, n + 1, Len(q)) \in Seq(S)
         /\ Len(SubSeq(q, n + 1, Len(q))) = Len(q) - n
         /\ DOMAIN SubSeq(q, n + 1, Len(q)) = 1..(Len(q) - n)
         /\ \A i \in 1..(Len(q) - n) : SubSeq(q, n + 1, Len(q))[i] = q[n + i]
  BY SubSeqProperties

\* What the members of the sequences are, and how many there can be.
LEMMA Typed ==
  ASSUME TypeOK
  PROVE  /\ \A s \in {"out", "err"} : /\ got[s] \in Seq(1..MaxLines) /\ Len(got[s]) \in Nat
                                       /\ DOMAIN got[s] = 1..Len(got[s])
                                       /\ wrote[s] \in 0..MaxLines /\ read[s] \in 0..MaxLines
         /\ output \in Seq(Said) /\ Len(output) \in Nat /\ DOMAIN output = 1..Len(output)
         /\ errors \in Seq(1..MaxLines) /\ Len(errors) \in Nat /\ DOMAIN errors = 1..Len(errors)
         /\ lines \in Seq(1..MaxLines) /\ Len(lines) \in Nat /\ DOMAIN lines = 1..Len(lines)
         /\ Len(input) \in Nat /\ DOMAIN input = 1..Len(input)
         /\ input \in Seq({"ask", "command", "blank", "exit"})
         /\ MaxLines \in Nat /\ MaxStdout \in Nat \ {0}
<1>1. \A s \in {"out", "err"} : /\ got[s] \in Seq(1..MaxLines)
                                /\ wrote[s] \in 0..MaxLines /\ read[s] \in 0..MaxLines
  BY DEF TypeOK, Lines
<1>2. \A s \in {"out", "err"} : Len(got[s]) \in Nat /\ DOMAIN got[s] = 1..Len(got[s])
  BY <1>1
<1> QED
  BY <1>1, <1>2, CommandAssumption DEF TypeOK, Lines, CommandAssumption

\* The counts are numbers, and what has been popped is counted too.
LEMMA Counts ==
  ASSUME TypeOK
  PROVE  /\ MaxLines \in Nat
         /\ wrote["out"] \in Nat /\ wrote["err"] \in Nat
         /\ \A s \in {"out", "err"} : Len(got[s]) \in Nat /\ read[s] \in Nat
  BY Typed

\* The command writes one line, within the bound.
LEMMA OneMore ==
  ASSUME TypeOK, NEW s \in {"out", "err"}, Writes(s)
  PROVE  wrote'[s] = wrote[s] + 1 /\ wrote'[s] \in 1..MaxLines
<1>1. wrote["out"] + wrote["err"] < MaxLines /\ wrote'[s] = wrote[s] + 1
  BY DEF Writes, TypeOK
<1>2. wrote["out"] + 1 \in 1..MaxLines /\ wrote["err"] + 1 \in 1..MaxLines
  BY <1>1, Counts
<1> QED
  BY <1>1, <1>2

\* What the shell says has a number.
LEMMA Numbered ==
  ASSUME TypeOK
  PROVE  \A i \in DOMAIN output : output[i] \in Said /\ output[i].n \in Nat
<1>1. \A e \in Said : e.n \in Nat
  BY CommandAssumption DEF Said, CommandAssumption
<1>2. \A i \in DOMAIN output : output[i] \in Said
  BY DEF TypeOK
<1> QED
  BY <1>1, <1>2

-----------------------------------------------------------------------------
\* The threads are born together, when the greeting is over.
LEMMA NextBorn == TypeOK /\ BornInv /\ [Next]_vars => BornInv'
<1> SUFFICES ASSUME TypeOK, BornInv, [Next]_vars
             PROVE  BornInv'
  OBVIOUS
<1> USE DEF BornInv, Greeting, making, working, relaying, own, program, ending
<1>1. CASE GreetPops \/ GreetEnds \/ GreetLate \/ GreetCode
  <2>1. /\ maker \in Greeting
        /\ maker' \in Greeting \cup {"giveup", "threads"}
        /\ UNCHANGED <<worker, relay, code, lines, got, read>>
    BY <1>1 DEF GreetPops, GreetEnds, GreetLate, GreetCode
  <2> QED
    BY <2>1
<1>2. CASE GivenUp \/ RunThreads
  BY <1>2 DEF GivenUp, RunThreads
<1>3. CASE SendCommand
  <2>1. /\ maker \in {"send", "sendblank", "sendask"}
        /\ maker' \in {"failed", "sendblank", "sendask", "made"}
        /\ UNCHANGED <<worker, relay, code, lines, got, read>>
    BY <1>3 DEF SendCommand, Send
  <2> QED
    BY <2>1
<1>4. ASSUME NEW s \in {"out", "err"}, Read(s)
      PROVE  BornInv'
  <2>1. /\ read[s] < Len(got[s]) /\ read' = [read EXCEPT ![s] = @ + 1]
        /\ UNCHANGED <<worker, relay, maker, code, lines, got>>
    BY <1>4 DEF Read
  <2>2. \A r \in {"out", "err"} : read'[r] = IF r = s THEN read[r] + 1 ELSE read[r]
    BY <2>1, Typed DEF TypeOK
  <2>3. \A r \in {"out", "err"} : read'[r] <= Len(got'[r])
    BY <2>1, <2>2, Counts
  <2> QED
    BY <2>1, <2>3
<1>5. CASE WorkerLoops \/ WorkerPops \/ WorkerPopsNone \/ WorkerSeesEnd \/ WorkerGetsCode
           \/ CloseStdout \/ JoinRelay \/ AskExit \/ JoinShell
  <2>1. /\ worker # "unborn" /\ worker' # "unborn"
        /\ UNCHANGED <<maker, relay, lines, got, read>>
    BY <1>5 DEF WorkerLoops, WorkerPops, WorkerPopsNone, WorkerSeesEnd, WorkerGetsCode,
       CloseStdout, JoinRelay, AskExit, JoinShell, WorkerGoto
  <2> QED
    BY <2>1
<1>6. CASE WorkerAdds
  <2>1. /\ worker # "unborn" /\ worker' # "unborn"
        /\ UNCHANGED <<maker, relay, lines, read>>
        /\ got' = got \/ got' = [got EXCEPT !["out"] = Append(@, line)]
    BY <1>6 DEF WorkerAdds, WorkerGoto, Deliver
  <2>2. \A r \in {"out", "err"} : Len(got'[r]) \in {Len(got[r]), Len(got[r]) + 1}
    <3>1. got \in [{"out", "err"} -> Seq(1..MaxLines)]
      BY DEF TypeOK, Lines
    <3>2. \A r \in {"out", "err"} : Len(Append(got[r], line)) = Len(got[r]) + 1
      BY <3>1
    <3> QED
      BY <2>1, <3>1, <3>2
  <2>3. \A r \in {"out", "err"} : read'[r] <= Len(got'[r])
    BY <2>1, <2>2, Counts
  <2> QED
    BY <2>1, <2>3
<1>7. CASE RelayAdds
  <2>1. /\ relay # "unborn" /\ relay' # "unborn"
        /\ UNCHANGED <<maker, worker, read, code>>
        /\ got' = got \/ got' = [got EXCEPT !["err"] = Append(@, Head(lines))]
    BY <1>7 DEF RelayAdds, RelayGoto, Deliver
  <2>2. \A r \in {"out", "err"} : Len(got'[r]) \in {Len(got[r]), Len(got[r]) + 1}
    <3>1. got \in [{"out", "err"} -> Seq(1..MaxLines)]
      BY DEF TypeOK, Lines
    <3>2. \A r \in {"out", "err"} : Len(Append(got[r], Head(lines))) = Len(got[r]) + 1
      BY <3>1
    <3> QED
      BY <2>1, <3>1, <3>2
  <2>3. \A r \in {"out", "err"} : read'[r] <= Len(got'[r])
    BY <2>1, <2>2, Counts
  <2> QED
    BY <2>1, <2>3
<1>8. CASE RelayLoops \/ RelayPops \/ RelayPopsNone \/ RelaySeesEnd \/ RelayPopsAll \/ RelaySkips \/ RelayCloses
  <2>1. /\ relay # "unborn" /\ relay' # "unborn"
        /\ UNCHANGED <<maker, worker, got, read, code>>
    BY <1>8 DEF RelayLoops, RelayPops, RelayPopsNone, RelaySeesEnd, RelayPopsAll, RelaySkips, RelayCloses, RelayGoto
  <2> QED
    BY <2>1
<1>9. CASE \/ StartTimesOut \/ Stop \/ WindUp \/ ShellEchoes \/ ShellAsked \/ ShellSaysCode \/ ShellRuns \/ ShellSkips \/ ShellExits
           \/ Eats \/ CommandEnds \/ ShellDies \/ StopProcess \/ UNCHANGED vars
           \/ \E s \in {"out", "err"} : Writes(s)
  <2>1. UNCHANGED <<maker, worker, relay, code, lines, got, read>>
    BY <1>9 DEF StartTimesOut, Stop, WindUp, ShellEchoes, ShellAsked, ShellSaysCode, ShellRuns, ShellSkips, ShellExits,
       Eats, CommandEnds, ShellDies, StopProcess, Writes, StreamEnds, ProcessStops, vars
  <2> QED
    BY <2>1
<1> QED
  BY <1>1, <1>2, <1>3, <1>4, <1>5, <1>6, <1>7, <1>8, <1>9 DEF Next, Make, Work, Relay

\* The finally clause of the worker goes through its parts in order.
LEMMA NextGone == TypeOK /\ BornInv /\ GoneInv /\ [Next]_vars => GoneInv'
<1> SUFFICES ASSUME TypeOK, BornInv, GoneInv, [Next]_vars
             PROVE  GoneInv'
  OBVIOUS
<1> USE DEF BornInv, GoneInv, Last, making, working, relaying, own, program, ending
<1>1. CASE WorkerLoops \/ WorkerPops \/ WorkerPopsNone \/ WorkerSeesEnd \/ WorkerAdds \/ WorkerGetsCode
  <2>1. /\ worker \notin Last /\ worker' \in {"loop", "pop", "add", "code", "close"}
        /\ UNCHANGED <<relay, shell, closed>>
    BY <1>1 DEF WorkerLoops, WorkerPops, WorkerPopsNone, WorkerSeesEnd, WorkerAdds, WorkerGetsCode, WorkerGoto
  <2> QED
    BY <2>1
<1>2. CASE CloseStdout \/ JoinRelay \/ AskExit \/ JoinShell
  BY <1>2 DEF CloseStdout, JoinRelay, AskExit, JoinShell, WorkerGoto
<1>3. CASE RelayLoops \/ RelayPops \/ RelayPopsNone \/ RelaySeesEnd \/ RelayPopsAll \/ RelaySkips \/ RelayAdds
  <2>1. /\ relay \notin {"done", "failed", "unborn"} /\ relay' # "done"
        /\ UNCHANGED <<worker, shell, closed>>
    BY <1>3 DEF RelayLoops, RelayPops, RelayPopsNone, RelaySeesEnd, RelayPopsAll, RelaySkips, RelayAdds, RelayGoto
  <2> QED
    BY <2>1
<1>4. CASE RelayCloses
  BY <1>4 DEF RelayCloses, RelayGoto
<1>5. CASE RunThreads
  BY <1>5 DEF RunThreads
<1>6. CASE \/ StartTimesOut \/ GreetPops \/ GreetEnds \/ GreetLate \/ GreetCode \/ GivenUp \/ SendCommand
           \/ Stop \/ WindUp \/ ShellEchoes \/ ShellAsked \/ ShellSaysCode \/ ShellRuns \/ ShellSkips \/ ShellExits
           \/ Eats \/ CommandEnds \/ ShellDies \/ StopProcess \/ UNCHANGED vars
           \/ \E s \in {"out", "err"} : Writes(s) \/ Read(s)
  <2>1. UNCHANGED <<worker, relay, closed>> /\ (shell = "ended" => shell' = "ended")
    BY <1>6 DEF StartTimesOut, GreetPops, GreetEnds, GreetLate, GreetCode, GivenUp, SendCommand, Send, Idle,
       Stop, WindUp, ShellEchoes, ShellAsked, ShellSaysCode, ShellRuns, ShellSkips, ShellExits,
       Eats, CommandEnds, ShellDies, StopProcess, Writes, Read, StreamEnds, ProcessStops, vars
  <2> QED
    BY <2>1
<1> QED
  BY <1>1, <1>2, <1>3, <1>4, <1>5, <1>6 DEF Next, Make, Work, Relay

\* What is sent goes to the end of the input.
LEMMA InputGrows ==
  ASSUME TypeOK, NEW e \in {"ask", "command", "blank", "exit"}, input' = Append(input, e)
  PROVE  /\ DOMAIN input = 1..Len(input) /\ Len(input) \in Nat
         /\ DOMAIN input' = 1..(Len(input) + 1)
         /\ \A i \in 1..Len(input) : input'[i] = input[i]
         /\ input'[Len(input) + 1] = e
  BY Appended DEF TypeOK

\* The shell, or the command, takes from the beginning of the input.
LEMMA InputShrinks ==
  ASSUME TypeOK, input # <<>>, input' = Tail(input)
  PROVE  /\ DOMAIN input = 1..Len(input) /\ Len(input) \in Nat \ {0}
         /\ Head(input) = input[1]
         /\ DOMAIN input' = 1..(Len(input) - 1)
         /\ \A i \in 1..(Len(input) - 1) : input'[i] = input[i + 1]
  BY Shifted DEF TypeOK

\* The command is sent once, and runs once.
LEMMA NextCommand == TypeOK /\ BornInv /\ CommandInv /\ [Next]_vars => CommandInv'
<1> SUFFICES ASSUME TypeOK, BornInv, CommandInv, [Next]_vars
             PROVE  CommandInv'
  OBVIOUS
<1> USE DEF CommandInv, Greeting, making, working, relaying, own, program, ending
<1>1. CASE GreetPops \/ GreetEnds \/ GreetLate \/ GreetCode \/ RunThreads
  <2>1. /\ maker \in Greeting \cup {"threads"}
        /\ maker' \in Greeting \cup {"giveup", "threads", "send"}
        /\ UNCHANGED <<ran, wrote, input>>
        /\ shell' \in {shell, "ended"}
    BY <1>1 DEF GreetPops, GreetEnds, GreetLate, GreetCode, RunThreads
  <2> QED
    BY <2>1
<1>2. CASE GivenUp
  BY <1>2 DEF GivenUp
<1>3. CASE Send("send", "command", "sendblank")
  <2>1. CASE "in" \in ended
    BY <1>3, <2>1 DEF Send
  <2>2. CASE "in" \notin ended
    <3>1. /\ maker = "send" /\ maker' = "sendblank"
          /\ input' = Append(input, "command")
          /\ UNCHANGED <<shell, ran, wrote>>
      BY <1>3, <2>2 DEF Send
    <3>2. /\ DOMAIN input' = 1..(Len(input) + 1) /\ Len(input) \in Nat
          /\ \A i \in 1..Len(input) : input'[i] # "command"
          /\ input'[Len(input) + 1] = "command"
      BY <3>1, InputGrows
    <3> QED
      BY <3>1, <3>2
  <2> QED
    BY <2>1, <2>2
<1>4. ASSUME NEW text \in {"blank", "ask", "exit"},
             input' = Append(input, text),
             UNCHANGED <<shell, ran, wrote>>,
             maker' \in {maker, "made"} \/ (maker = "sendblank" /\ maker' = "sendask")
      PROVE  CommandInv'
  <2>1. /\ DOMAIN input = 1..Len(input) /\ Len(input) \in Nat
        /\ DOMAIN input' = 1..(Len(input) + 1)
        /\ \A i \in 1..Len(input) : input'[i] = input[i]
        /\ input'[Len(input) + 1] = text
    BY <1>4, InputGrows
  <2> QED
    BY <1>4, <2>1
<1>5. CASE Send("sendblank", "blank", "sendask") \/ Send("sendask", "ask", "made")
  <2>1. CASE "in" \in ended
    BY <1>5, <2>1 DEF Send
  <2>2. CASE "in" \notin ended
    BY <1>4, <1>5, <2>2 DEF Send
  <2> QED
    BY <2>1, <2>2
<1>6. CASE AskExit
  BY <1>4, <1>6 DEF AskExit
<1>7. ASSUME input # <<>>, input' = Tail(input), UNCHANGED <<maker, ran, wrote>>,
             shell' # "busy" \/ ran = "running",
             ran # "running" \/ shell' = shell,
             Head(input) # "command" \/ ran # "not"
      PROVE  CommandInv'
  <2>1. /\ DOMAIN input = 1..Len(input) /\ Len(input) \in Nat \ {0}
        /\ Head(input) = input[1]
        /\ DOMAIN input' = 1..(Len(input) - 1)
        /\ \A i \in 1..(Len(input) - 1) : input'[i] = input[i + 1]
    BY <1>7, InputShrinks
  <2>2. ASSUME ran = "not", NEW i \in DOMAIN input, input[i] = "command"
        PROVE  \E k \in DOMAIN input' : input'[k] = "command"
    <3>1. i # 1
      BY <1>7, <2>1, <2>2
    <3>2. i \in 2..Len(input)
      BY <2>1, <3>1
    <3>3. i - 1 \in DOMAIN input' /\ input'[i - 1] = input[i]
      BY <2>1, <3>2
    <3> QED
      BY <2>2, <3>3
  <2>3. \A i \in DOMAIN input' : i + 1 \in DOMAIN input /\ input'[i] = input[i + 1]
    BY <2>1
  <2>4. \A i, k \in DOMAIN input' : input'[i] = "command" /\ input'[k] = "command" => i = k
    BY <2>1, <2>3
  <2> QED
    BY <1>7, <2>2, <2>3, <2>4
<1>8. CASE ShellAsked \/ ShellSkips \/ ShellExits
  BY <1>7, <1>8 DEF ShellAsked, ShellSkips, ShellExits, Idle
<1>9. CASE Eats
  BY <1>7, <1>9 DEF Eats
<1>10. CASE ShellRuns
  <2>1. /\ input # <<>> /\ input' = Tail(input) /\ Head(input) = "command"
        /\ UNCHANGED <<maker, wrote>>
        /\ (shell' = "busy" /\ ran' = "running") \/ (shell' = "idle" /\ ran' = "ended")
    BY <1>10 DEF ShellRuns, Idle
  <2>2. /\ DOMAIN input = 1..Len(input) /\ Len(input) \in Nat \ {0}
        /\ input[1] = "command"
        /\ DOMAIN input' = 1..(Len(input) - 1)
        /\ \A i \in 1..(Len(input) - 1) : input'[i] = input[i + 1]
    BY <2>1, InputShrinks
  <2>3. \A i \in DOMAIN input' : input'[i] # "command"
    BY <2>2
  <2>4. maker \notin Greeting \cup {"giveup", "threads", "send"}
    BY <2>2
  <2> QED
    BY <2>1, <2>3, <2>4
<1>11. CASE ShellEchoes \/ ShellSaysCode \/ CommandEnds \/ ShellDies \/ JoinShell
  BY <1>11 DEF ShellEchoes, ShellSaysCode, CommandEnds, ShellDies, JoinShell
<1>12. ASSUME NEW s \in {"out", "err"}, Writes(s)
       PROVE  CommandInv'
  BY <1>12 DEF Writes
<1>13. CASE \/ StartTimesOut \/ Stop \/ WindUp \/ StopProcess \/ Relay \/ UNCHANGED vars
            \/ WorkerLoops \/ WorkerPops \/ WorkerPopsNone \/ WorkerSeesEnd \/ WorkerAdds \/ WorkerGetsCode
            \/ CloseStdout \/ JoinRelay \/ \E s \in {"out", "err"} : Read(s)
  <2>1. UNCHANGED <<maker, shell, ran, wrote, input>>
    BY <1>13 DEF StartTimesOut, Stop, WindUp, StopProcess, Relay, vars, WorkerLoops, WorkerPops, WorkerPopsNone,
       WorkerSeesEnd, WorkerAdds, WorkerGetsCode, CloseStdout, JoinRelay, Read, RelayLoops, RelayPops,
       RelayPopsNone, RelaySeesEnd, RelayPopsAll, RelaySkips, RelayAdds, RelayCloses, StreamEnds, ProcessStops
  <2> QED
    BY <2>1
<1> QED
  BY <1>1, <1>2, <1>3, <1>5, <1>6, <1>8, <1>9, <1>10, <1>11, <1>12, <1>13 DEF Next, Make, Work, SendCommand

-----------------------------------------------------------------------------
\* What the shell says goes to the end of the output, unless that is closed.
LEMMA OutputGrows ==
  ASSUME TypeOK, NEW e \in Said, output' = Append(output, e)
  PROVE  /\ DOMAIN output = 1..Len(output) /\ Len(output) \in Nat
         /\ Len(output') = Len(output) + 1
         /\ DOMAIN output' = 1..(Len(output) + 1)
         /\ \A i \in 1..Len(output) : output'[i] = output[i]
         /\ output'[Len(output) + 1] = e
  BY Appended DEF TypeOK

\* The maker and the worker take from the beginning of the output.
LEMMA OutputShrinks ==
  ASSUME TypeOK, output # <<>>, output' = Tail(output)
  PROVE  /\ DOMAIN output = 1..Len(output) /\ Len(output) \in Nat \ {0}
         /\ Head(output) = output[1] /\ output[1] \in Said
         /\ Len(output') = Len(output) - 1
         /\ DOMAIN output' = 1..(Len(output) - 1)
         /\ \A i \in 1..(Len(output) - 1) : output'[i] = output[i + 1]
  BY Shifted DEF TypeOK

\* A Process that closes the output may lose the end of it.
LEMMA OutputCut ==
  ASSUME TypeOK, NEW n \in 0..Len(output), output' = SubSeq(output, 1, n)
  PROVE  /\ DOMAIN output = 1..Len(output) /\ Len(output) \in Nat
         /\ Len(output') = n
         /\ DOMAIN output' = 1..n
         /\ \A i \in 1..n : output'[i] = output[i]
  BY Begins DEF TypeOK

\* The echo of what the shell reads is one of the things it says.
LEMMA EchoSaid ==
  ASSUME TypeOK
  PROVE  Says("prompt", wrote["out"]) \in Said
<1>1. wrote["out"] \in 0..MaxLines \cup 0..2
  BY DEF TypeOK
<1> QED
  BY <1>1 DEF Says, Said

\* The maker takes the whole answer to its first request, and no more.
LEMMA NextGreet == TypeOK /\ BornInv /\ CommandInv /\ GreetInv /\ [Next]_vars => GreetInv'
<1> SUFFICES ASSUME TypeOK, BornInv, CommandInv, GreetInv, [Next]_vars
             PROVE  GreetInv'
  OBVIOUS
<1> USE DEF GreetInv, making, working, relaying, own, program, ending
<1>0. ASSUME worker # "unborn", worker' = worker, maker' = maker \/ maker' = "failed"
             \/ maker' \in {"sendblank", "sendask", "made"}
      PROVE  GreetInv'
  BY <1>0 DEF BornInv, Greeting
<1>1. CASE StartTimesOut
  BY <1>1 DEF StartTimesOut
<1>2. CASE GreetPops
  <2>1. /\ DOMAIN output = 1..Len(output) /\ Len(output) \in Nat \ {0}
        /\ Head(output) = output[1]
        /\ Len(output') = Len(output) - 1
        /\ DOMAIN output' = 1..(Len(output) - 1)
        /\ \A i \in 1..(Len(output) - 1) : output'[i] = output[i + 1]
    BY <1>2, OutputShrinks DEF GreetPops
  <2>2. UNCHANGED <<worker, late, shell, input>>
    BY <1>2 DEF GreetPops
  <2>3. CASE Head(output) = Marker
    <3>1. maker' = "greetcode" /\ maker = "greet"
      BY <1>2, <2>3 DEF GreetPops
    <3>2. input = <<>> /\ (Len(output) = 1 \/ (Len(output) = 2 /\ shell # "marked"))
      BY <2>1, <2>3, <3>1
    <3>3. output' = <<>> \/ (Len(output') = 1 /\ shell' # "marked")
      <4>1. Len(output') = 0 => output' = <<>>
        BY <1>2, EmptySeq, Shifted DEF GreetPops, TypeOK
      <4> QED
        BY <2>1, <2>2, <3>2, <4>1
    <3> QED
      BY <2>2, <3>1, <3>2, <3>3
  <2>4. CASE Head(output) # Marker
    <3>1. maker' = "greet" /\ maker = "greet"
      BY <1>2, <2>4 DEF GreetPops
    <3>2. ASSUME NEW i \in DOMAIN output', output'[i] = Marker
          PROVE  /\ input' = <<>>
                 /\ Len(output') = i \/ (Len(output') = i + 1 /\ shell' # "marked")
      <4>1. i + 1 \in DOMAIN output /\ output[i + 1] = Marker
        BY <2>1, <3>2
      <4>2. /\ input = <<>>
            /\ Len(output) = i + 1 \/ (Len(output) = (i + 1) + 1 /\ shell # "marked")
        BY <3>1, <4>1
      <4>3. i \in Nat
        BY <2>1, <3>2
      <4> QED
        BY <2>1, <2>2, <4>2, <4>3
    <3> QED
      BY <2>2, <3>1, <3>2
  <2> QED
    BY <2>3, <2>4
<1>3. CASE GreetEnds \/ GreetCode \/ GivenUp
  <2>1. maker' \notin {"greet", "greetcode"} /\ UNCHANGED <<worker, input>>
    BY <1>3 DEF GreetEnds, GreetCode, GivenUp
  <2> QED
    BY <2>1
<1>4. CASE GreetLate
  BY <1>4 DEF GreetLate
<1>5. CASE RunThreads
  BY <1>5 DEF RunThreads
<1>6. CASE SendCommand
  <2>1. /\ maker \in {"send", "sendblank", "sendask"} /\ worker' = worker
        /\ maker' \in {"failed", "sendblank", "sendask", "made"}
    BY <1>6 DEF SendCommand, Send
  <2> QED
    BY <1>0, <2>1 DEF BornInv
<1>7. CASE Work
  <2>1. worker # "unborn" /\ worker' # "unborn" /\ maker' = maker
    BY <1>7 DEF Work, WorkerLoops, WorkerPops, WorkerPopsNone, WorkerSeesEnd, WorkerAdds, WorkerGetsCode,
       CloseStdout, JoinRelay, AskExit, JoinShell, WorkerGoto
  <2> QED
    BY <2>1 DEF BornInv, Greeting
<1>8. CASE ShellAsked
  <2>1. CASE worker # "unborn"
    BY <1>0, <1>8, <2>1 DEF ShellAsked
  <2>2. CASE worker = "unborn"
    <3>1. input = <<"ask">> /\ input' = <<>> /\ UNCHANGED <<maker, worker, late>> /\ shell' = "marked"
      <4>1. input = <<"ask">> /\ input' = Tail(input)
        BY <1>8, <2>2 DEF ShellAsked, Idle
      <4>2. Tail(<<"ask">>) = <<>>
        OBVIOUS
      <4> QED
        BY <1>8, <4>1, <4>2 DEF ShellAsked
    <3>2. CASE "out" \in ended
      <4>1. output' = output
        BY <1>8, <3>2 DEF ShellAsked
      <4>2. maker = "greet" => \A i \in DOMAIN output : output[i] # Marker
        BY <3>1
      <4>3. ~(maker = "greetcode" /\ ~late)
        BY <3>1
      <4> QED
        BY <3>1, <4>1, <4>2, <4>3
    <3>3. CASE "out" \notin ended
      <4>1. output' = Append(output, Marker) /\ Marker \in Said
        BY <1>8, <3>3 DEF ShellAsked, Marker, Says, Said
      <4>2. /\ DOMAIN output = 1..Len(output) /\ Len(output) \in Nat
            /\ Len(output') = Len(output) + 1
            /\ DOMAIN output' = 1..(Len(output) + 1)
            /\ \A i \in 1..Len(output) : output'[i] = output[i]
        BY <4>1, OutputGrows
      <4>3. maker = "greet" => \A i \in DOMAIN output : output[i] # Marker
        BY <3>1
      <4>4. ~(maker = "greetcode" /\ ~late)
        BY <3>1
      <4>5. maker = "greet" => \A i \in DOMAIN output' : output'[i] = Marker => i = Len(output')
        BY <4>2, <4>3
      <4> QED
        BY <3>1, <4>4, <4>5
    <3> QED
      BY <3>2, <3>3
  <2> QED
    BY <2>1, <2>2
<1>15. CASE ShellEchoes
  <2>1. CASE worker # "unborn"
    BY <1>0, <1>15, <2>1 DEF ShellEchoes
  <2>2. CASE worker = "unborn"
    <3>1. input # <<>> /\ UNCHANGED <<maker, worker, late, input>>
      BY <1>15 DEF ShellEchoes
    <3>2. ~(maker = "greetcode" /\ ~late)
      BY <3>1
    <3>3. maker = "greet" => \A i \in DOMAIN output : output[i] # Marker
      BY <3>1
    <3>4. maker = "greet" => \A i \in DOMAIN output' : output'[i] # Marker
      <4>1. CASE "out" \in ended
        BY <1>15, <3>3, <4>1 DEF ShellEchoes
      <4>2. CASE "out" \notin ended
        <5> DEFINE e == Says("prompt", wrote["out"])
        <5>1. output' = Append(output, e)
          BY <1>15, <4>2 DEF ShellEchoes
        <5>2. e \in Said
          BY EchoSaid
        <5>3. e # Marker
          BY DEF Says, Marker
        <5> HIDE DEF e
        <5>4. /\ DOMAIN output = 1..Len(output) /\ Len(output) \in Nat
              /\ DOMAIN output' = 1..(Len(output) + 1)
              /\ \A i \in 1..Len(output) : output'[i] = output[i]
              /\ output'[Len(output) + 1] = e
          BY <5>1, <5>2, OutputGrows
        <5> QED
          BY <3>3, <5>3, <5>4
      <4> QED
        BY <4>1, <4>2
    <3> QED
      BY <2>2, <3>1, <3>2, <3>4
  <2> QED
    BY <2>1, <2>2
<1>9. CASE ShellSaysCode
  <2>1. /\ shell = "marked" /\ shell' = "idle"
        /\ UNCHANGED <<maker, worker, late, input>>
    BY <1>9 DEF ShellSaysCode
  <2>2. CASE "out" \in ended
    <3>1. output' = output
      BY <1>9, <2>2 DEF ShellSaysCode
    <3> QED
      BY <2>1, <3>1
  <2>3. CASE "out" \notin ended
    <3> DEFINE e == Says("code", IF ran = "not" THEN 1 ELSE 2)
    <3>1. output' = Append(output, e) /\ e \in Said /\ e # Marker
      BY <1>9, <2>3 DEF ShellSaysCode, Marker, Says, Said
    <3>2. /\ DOMAIN output = 1..Len(output) /\ Len(output) \in Nat
          /\ Len(output') = Len(output) + 1
          /\ DOMAIN output' = 1..(Len(output) + 1)
          /\ \A i \in 1..Len(output) : output'[i] = output[i]
          /\ output'[Len(output) + 1] = e
      BY <3>1, OutputGrows
    <3>3. maker = "greet" => \A i \in DOMAIN output' : output'[i] = Marker =>
                                input = <<>> /\ i = Len(output)
      BY <2>1, <3>1, <3>2
    <3>4. maker = "greetcode" /\ ~late => input = <<>> /\ Len(output') = 1
      BY <2>1, <3>2
    <3> QED
      BY <2>1, <3>2, <3>3, <3>4
  <2> QED
    BY <2>2, <2>3
<1>10. CASE ShellRuns \/ ShellSkips \/ ShellExits
  <2>1. CASE worker # "unborn"
    BY <1>0, <1>10, <2>1 DEF ShellRuns, ShellSkips, ShellExits
  <2>2. CASE worker = "unborn"
    BY <1>10, <2>2 DEF ShellRuns, ShellSkips, ShellExits, Idle
  <2> QED
    BY <2>1, <2>2
<1>11. CASE Eats \/ CommandEnds \/ \E s \in {"out", "err"} : Writes(s)
  <2>1. shell = "busy" /\ UNCHANGED <<maker, worker>>
    BY <1>11 DEF Eats, CommandEnds, Writes
  <2>2. maker \notin Greeting \cup {"giveup", "threads", "send"}
    BY <2>1 DEF CommandInv
  <2>3. CASE worker # "unborn"
    BY <1>0, <2>1, <2>3
  <2>4. CASE worker = "unborn"
    <3>1. input' \in {<<>>, <<"ask">>}
      <4>1. input \in {<<>>, <<"ask">>} /\ (input' = input \/ (input # <<>> /\ input' = Tail(input)))
        BY <1>11, <2>4 DEF Eats, CommandEnds, Writes
      <4>2. Tail(<<"ask">>) = <<>>
        OBVIOUS
      <4> QED
        BY <4>1, <4>2
    <3> QED
      BY <2>1, <2>2, <3>1 DEF Greeting
  <2> QED
    BY <2>3, <2>4
<1>12. CASE ShellDies
  BY <1>12 DEF ShellDies
<1>13. ASSUME NEW s \in {"in", "out", "err"}, StreamEnds(s)
       PROVE  GreetInv'
  <2>1. UNCHANGED <<maker, worker, late, input, shell>>
    BY <1>13 DEF StreamEnds
  <2>2. CASE s # "out"
    <3>1. output' = output
      BY <1>13, <2>2 DEF StreamEnds
    <3> QED
      BY <2>1, <3>1
  <2>3. CASE s = "out"
    <3>1. PICK n \in 0..Len(output) : output' = SubSeq(output, 1, n)
      BY <1>13, <2>3 DEF StreamEnds
    <3>2. /\ DOMAIN output = 1..Len(output) /\ Len(output) \in Nat
          /\ Len(output') = n
          /\ DOMAIN output' = 1..n
          /\ \A i \in 1..n : output'[i] = output[i]
      BY <3>1, OutputCut
    <3>3. maker = "greet" => \A i \in DOMAIN output' : output'[i] = Marker =>
                                /\ input = <<>>
                                /\ n = i \/ (n = i + 1 /\ shell # "marked")
      BY <3>2
    <3>4. maker = "greetcode" /\ ~late => input = <<>> /\ (n = 0 \/ (n = 1 /\ shell # "marked"))
      BY <3>2
    <3>5. n = 0 => output' = <<>>
      BY <3>1, <3>2, EmptySeq, Begins DEF TypeOK
    <3> QED
      BY <2>1, <3>2, <3>3, <3>4, <3>5
  <2> QED
    BY <2>2, <2>3
<1>14. CASE Stop \/ StopProcess \/ ProcessStops \/ Relay \/ UNCHANGED vars \/ \E s \in {"out", "err"} : Read(s)
  <2>1. UNCHANGED <<maker, worker, late, input, output, shell>>
    BY <1>14 DEF Stop, StopProcess, ProcessStops, Relay, Read, vars, RelayLoops, RelayPops, RelayPopsNone,
       RelaySeesEnd, RelayPopsAll, RelaySkips, RelayAdds, RelayCloses
  <2> QED
    BY <2>1
<1> QED
  BY <1>1, <1>2, <1>3, <1>4, <1>5, <1>6, <1>7, <1>8, <1>9, <1>10, <1>11, <1>12, <1>13, <1>14, <1>15
     DEF Next, Make, WindUp

\* The command has begun its life when the greeting is over.
LEMMA GreetingOver ==
  ASSUME TypeOK, BornInv, CommandInv, GreetInv, GreetCode, maker' = "threads"
  PROVE  /\ worker = "unborn" /\ worker' = "unborn"
         /\ input' = <<>> /\ output' = <<>>
         /\ ran' = "not"
         /\ "out" \notin ended' => shell' # "marked"
         /\ UNCHANGED <<shell, ran, wrote, got, line, code, ended>>
<1> USE DEF making, working, relaying, own, program, ending
<1>1. maker = "greetcode" /\ ~late /\ UNCHANGED <<worker, input, shell, ran, wrote, got, line, code, ended>>
  BY DEF GreetCode
<1>2. worker = "unborn" /\ ran = "not" /\ input = <<>>
  BY <1>1 DEF BornInv, CommandInv, GreetInv, Greeting
<1>3. output = <<>> \/ (Len(output) = 1 /\ shell # "marked")
  BY <1>1 DEF GreetInv
<1>4. CASE output # <<>> /\ output' = Tail(output)
  <2>1. Len(output) = 1 /\ shell # "marked"
    BY <1>3, <1>4
  <2>2. output' \in Seq(Said) /\ Len(output') = 0
    BY <1>4, <2>1, Shifted DEF TypeOK
  <2>3. output' = <<>>
    BY <2>2, EmptySeq
  <2> QED
    BY <1>1, <1>2, <2>1, <2>3
<1>5. CASE OutputOver /\ output' = output
  BY <1>1, <1>2, <1>5 DEF OutputOver
<1> QED
  BY <1>1, <1>4, <1>5 DEF GreetCode

\* The second request is sent after the command, and answered after it.
LEMMA NextAsk == TypeOK /\ BornInv /\ CommandInv /\ GreetInv /\ AskInv /\ [Next]_vars => AskInv'
<1> SUFFICES ASSUME TypeOK, BornInv, CommandInv, GreetInv, AskInv, [Next]_vars
             PROVE  AskInv'
  OBVIOUS
<1> USE DEF making, working, relaying, own, program, ending
<1>0. ASSUME UNCHANGED <<ran, input>>, Begun' => Begun, ended \subseteq ended',
             shell' # "marked" \/ shell' = shell
      PROVE  AskInv'
  BY <1>0 DEF AskInv
<1>1. CASE GreetPops \/ GreetEnds \/ GreetLate
  <2>1. /\ maker' \in Greeting \cup {"giveup"} /\ worker' = worker
        /\ UNCHANGED <<ran, input, ended>> /\ shell' \in {shell, "ended"}
    BY <1>1 DEF GreetPops, GreetEnds, GreetLate, Greeting
  <2>2. Begun' => Begun
    BY <2>1 DEF Begun, Greeting
  <2> QED
    BY <1>0, <2>1, <2>2
<1>2. CASE GreetCode
  <2>1. CASE maker' = "threads"
    <3>1. input' = <<>> /\ ("out" \notin ended' => shell' # "marked")
      BY <1>2, <2>1, GreetingOver
    <3>2. DOMAIN input' = {}
      BY <3>1
    <3> QED
      BY <3>1, <3>2 DEF AskInv
  <2>2. CASE maker' # "threads"
    <3>1. UNCHANGED <<ran, input, ended, worker>> /\ shell' \in {shell, "ended"}
      BY <1>2 DEF GreetCode
    <3>2. Begun' => Begun
      BY <2>2, <3>1 DEF Begun
    <3> QED
      BY <1>0, <3>1, <3>2
  <2> QED
    BY <2>1, <2>2
<1>3. CASE RunThreads
  <2>1. UNCHANGED <<ran, input, ended, shell>> /\ maker = "threads"
    BY <1>3 DEF RunThreads
  <2> QED
    BY <1>0, <2>1 DEF Begun
<1>4. ASSUME NEW text \in {"command", "blank", "ask", "exit"},
             input' = Append(input, text),
             UNCHANGED <<shell, ran, ended>>, Begun,
             text # "ask" \/ "out" \in ended \/ ran # "not" \/ \E k \in DOMAIN input : input[k] = "command"
      PROVE  AskInv'
  <2>1. /\ DOMAIN input = 1..Len(input) /\ Len(input) \in Nat
        /\ DOMAIN input' = 1..(Len(input) + 1)
        /\ \A i \in 1..Len(input) : input'[i] = input[i]
        /\ input'[Len(input) + 1] = text
    BY <1>4, InputGrows
  <2>2. ASSUME "out" \notin ended, ran = "not", NEW i \in DOMAIN input', input'[i] = "ask"
        PROVE  \E k \in DOMAIN input' : k < i /\ input'[k] = "command"
    <3>1. CASE i \in DOMAIN input
      <4>1. PICK k \in DOMAIN input : k < i /\ input[k] = "command"
        BY <1>4, <2>1, <2>2, <3>1 DEF AskInv
      <4> QED
        BY <2>1, <4>1
    <3>2. CASE i \notin DOMAIN input
      <4>1. i = Len(input) + 1 /\ text = "ask"
        BY <2>1, <2>2, <3>2
      <4>2. PICK k \in DOMAIN input : input[k] = "command"
        BY <1>4, <2>2, <4>1
      <4> QED
        BY <2>1, <4>1, <4>2
    <3> QED
      BY <3>1, <3>2
  <2> QED
    BY <1>4, <2>2 DEF AskInv
<1>5. CASE GivenUp
  BY <1>0, <1>5 DEF GivenUp, Begun
<1>6. ASSUME NEW text \in {"command", "blank", "ask"}, NEW label \in {"send", "sendblank", "sendask"},
             NEW next \in {"sendblank", "sendask", "made"}, Send(label, text, next),
             text = "ask" => label = "sendask"
      PROVE  AskInv'
  <2>1. Begun
    BY <1>6 DEF Send, Begun, BornInv
  <2>2. CASE "in" \in ended
    <3>1. UNCHANGED <<ran, input, ended, worker, shell>> /\ maker' = "failed"
      BY <1>6, <2>2 DEF Send
    <3> QED
      BY <1>0, <2>1, <3>1
  <2>3. CASE "in" \notin ended
    <3>1. UNCHANGED <<ran, ended, shell>> /\ input' = Append(input, text) /\ maker = label
      BY <1>6, <2>3 DEF Send
    <3>2. text # "ask" \/ ran # "not" \/ \E k \in DOMAIN input : input[k] = "command"
      BY <1>6, <3>1 DEF CommandInv
    <3> QED
      BY <1>4, <2>1, <3>1, <3>2
  <2> QED
    BY <2>2, <2>3
<1>7. CASE SendCommand
  BY <1>6, <1>7 DEF SendCommand
<1>8. CASE AskExit
  <2>1. UNCHANGED <<ran, ended, shell>> /\ Begun
    BY <1>8 DEF AskExit, Begun
  <2>2. CASE "in" \in ended
    <3>1. input' = input
      BY <1>8, <2>2 DEF AskExit
    <3> QED
      BY <1>0, <2>1, <3>1
  <2>3. CASE "in" \notin ended
    <3>1. input' = Append(input, "exit")
      BY <1>8, <2>3 DEF AskExit
    <3> QED
      BY <1>4, <2>1, <3>1
  <2> QED
    BY <2>2, <2>3
<1>9. CASE JoinShell
  <2>1. UNCHANGED <<ran, ended, input>> /\ Begun /\ shell' = "ended"
    BY <1>9 DEF JoinShell, Begun
  <2> QED
    BY <1>0, <2>1
<1>10. CASE WorkerLoops \/ WorkerPops \/ WorkerPopsNone \/ WorkerSeesEnd \/ WorkerAdds \/ WorkerGetsCode
            \/ CloseStdout \/ JoinRelay
  <2>1. UNCHANGED <<ran, ended, input, shell>> /\ Begun
    BY <1>10 DEF WorkerLoops, WorkerPops, WorkerPopsNone, WorkerSeesEnd, WorkerAdds, WorkerGetsCode,
       CloseStdout, JoinRelay, Begun
  <2> QED
    BY <1>0, <2>1
<1>11. ASSUME input # <<>>, input' = Tail(input), UNCHANGED <<maker, worker, ended>>,
              ran' = "not" => ran = "not",
              ran' = "not" => Head(input) # "command",
              shell' = "marked" => ran' = "ended" \/ "out" \in ended \/ ~Begun
       PROVE  AskInv'
  <2>1. /\ DOMAIN input = 1..Len(input) /\ Len(input) \in Nat \ {0}
        /\ Head(input) = input[1]
        /\ DOMAIN input' = 1..(Len(input) - 1)
        /\ \A i \in 1..(Len(input) - 1) : input'[i] = input[i + 1]
    BY <1>11, InputShrinks
  <2>2. ASSUME Begun, "out" \notin ended, ran' = "not", NEW i \in DOMAIN input', input'[i] = "ask"
        PROVE  \E k \in DOMAIN input' : k < i /\ input'[k] = "command"
    <3>1. i + 1 \in DOMAIN input /\ input[i + 1] = "ask" /\ i \in Nat
      BY <2>1, <2>2
    <3>2. PICK k \in DOMAIN input : k < i + 1 /\ input[k] = "command"
      BY <1>11, <2>2, <3>1 DEF AskInv
    <3>3. k # 1
      BY <1>11, <2>1, <2>2, <3>2
    <3>4. k \in 2..Len(input)
      BY <2>1, <3>2, <3>3
    <3>5. k - 1 \in DOMAIN input' /\ k - 1 < i /\ input'[k - 1] = input[k]
      BY <2>1, <3>1, <3>2, <3>4
    <3> QED
      BY <3>2, <3>5
  <2>3. Begun' <=> Begun
    BY <1>11 DEF Begun
  <2> QED
    BY <1>11, <2>2, <2>3 DEF AskInv
<1>12. CASE ShellAsked
  <2>1. /\ input # <<>> /\ input' = Tail(input) /\ Head(input) = "ask" /\ shell \in {"idle", "echoed"}
        /\ UNCHANGED <<maker, worker, ended, ran>> /\ shell' = "marked"
    BY <1>12 DEF ShellAsked, Idle
  <2>2. /\ DOMAIN input = 1..Len(input) /\ Len(input) \in Nat \ {0}
        /\ input[1] = "ask"
    BY <2>1, InputShrinks
  <2>3. ASSUME Begun, "out" \notin ended
        PROVE  ran = "ended"
    <3>1. ~\E k \in DOMAIN input : k < 1
      BY <2>2
    <3>2. 1 \in DOMAIN input
      BY <2>2
    <3>3. ran # "not"
      BY <2>2, <2>3, <3>1, <3>2 DEF AskInv
    <3>4. ran # "running"
      BY <2>1 DEF CommandInv
    <3> QED
      BY <3>3, <3>4 DEF TypeOK
  <2> QED
    BY <1>11, <2>1, <2>3
<1>13. CASE ShellRuns
  BY <1>11, <1>13 DEF ShellRuns, Idle
<1>14. CASE ShellSkips \/ ShellExits
  BY <1>11, <1>14 DEF ShellSkips, ShellExits, Idle
<1>15. CASE Eats
  <2>1. ran = "running"
    BY <1>15 DEF Eats, CommandInv
  <2> QED
    BY <1>11, <1>15, <2>1 DEF Eats
<1>16. CASE CommandEnds
  <2>1. UNCHANGED <<maker, worker, ended, input>> /\ shell' # "marked" /\ shell = "busy"
    BY <1>16 DEF CommandEnds
  <2>2. ran' # "not"
    BY <1>16, <2>1 DEF CommandEnds, CommandInv
  <2> QED
    BY <2>1, <2>2 DEF AskInv
<1>17. CASE ShellEchoes \/ ShellSaysCode \/ ShellDies
  BY <1>0, <1>17 DEF ShellEchoes, ShellSaysCode, ShellDies, Begun
<1>18. CASE \/ StartTimesOut \/ Stop \/ WindUp \/ StopProcess \/ Relay \/ UNCHANGED vars
            \/ \E s \in {"out", "err"} : Writes(s) \/ Read(s)
  <2>1. UNCHANGED <<maker, worker, shell, ran, input>>
    BY <1>18 DEF StartTimesOut, Stop, WindUp, StopProcess, Relay, vars, Read, Writes, RelayLoops, RelayPops,
       RelayPopsNone, RelaySeesEnd, RelayPopsAll, RelaySkips, RelayAdds, RelayCloses, StreamEnds, ProcessStops
  <2>2. ended \subseteq ended'
    BY <1>18 DEF StartTimesOut, Stop, WindUp, StopProcess, Relay, vars, Read, Writes, RelayLoops, RelayPops,
       RelayPopsNone, RelaySeesEnd, RelayPopsAll, RelaySkips, RelayAdds, RelayCloses, StreamEnds, ProcessStops
  <2> QED
    BY <1>0, <2>1, <2>2 DEF Begun
<1> QED
  BY <1>1, <1>2, <1>3, <1>5, <1>7, <1>8, <1>9, <1>10, <1>12, <1>13, <1>14, <1>15, <1>16, <1>17, <1>18
     DEF Next, Make, Work

-----------------------------------------------------------------------------
\* A step that leaves the output, and where the worker is with it.
LEMMA OutStays ==
  ASSUME TypeOK, GotInv, SaidInv, NextInv,
         UNCHANGED <<output, line>>, got'["out"] = got["out"],
         \/ wrote'["out"] = wrote["out"]
         \/ wrote'["out"] = wrote["out"] + 1 /\ "out" \in ended /\ ran # "ended",
         ran = "ended" => ran' = "ended",
         ended \subseteq ended', Begun' => Begun,
         shell' = shell \/ shell' # "marked" \/ "out" \in ended,
         worker' = "add" => worker = "add",
         worker' \in Looping => worker \in Looping /\ (worker = "add" => worker' = "add")
  PROVE  GotInv' /\ SaidInv' /\ NextInv'
<1>1. GotInv'
  <2>1. /\ wrote["out"] \in Int /\ wrote'["out"] \in Int /\ wrote'["out"] >= wrote["out"]
        /\ Len(got["out"]) \in Int
    BY Counts
  <2> QED
    BY <2>1 DEF GotInv
<1>2. SaidInv'
  BY DEF SaidInv
<1>3. worker' \in Looping => Taken' = Taken
  BY DEF Taken
<1>4. wrote'["out"] >= wrote["out"] /\ wrote["out"] \in Int /\ wrote'["out"] \in Int
  BY Counts
<1>5. ASSUME Begun', worker' \in Looping, NEW i \in DOMAIN output', LinesUpTo(output', i - 1)
      PROVE  FitsAt(i)'
  <2>1. Begun /\ worker \in Looping /\ i \in DOMAIN output /\ LinesUpTo(output, i - 1)
    BY <1>5
  <2>2. FitsAt(i)
    BY <2>1 DEF NextInv
  <2>3. output[i].says = "marker" => wrote'["out"] = wrote["out"]
    BY <2>1 DEF SaidInv
  <2>4. output[i].says = "line" => output[i].n <= wrote'["out"]
    <3>1. output[i].n \in Int
      BY <2>1, Numbered
    <3> QED
      BY <1>4, <2>2, <3>1 DEF FitsAt
  <2>5. Before(output', Taken', i) = Before(output, Taken, i)
    BY <1>3, <1>5
  <2> QED
    BY <2>2, <2>3, <2>4, <2>5 DEF FitsAt
<1>6. ASSUME Begun', worker' \in Looping, "out" \notin ended', LinesUpTo(output', Len(output'))
      PROVE  Before(output', Taken', Len(output') + 1) = wrote'["out"] /\ shell' # "marked"
  BY <1>3, <1>6 DEF NextInv
<1> QED
  BY <1>1, <1>2, <1>5, <1>6 DEF NextInv

\* A step that puts one more thing at the end of the output.
LEMMA OutGrows ==
  ASSUME TypeOK, GotInv, SaidInv, NextInv, Begun,
         NEW e \in Said, output' = Append(output, e),
         UNCHANGED <<worker, line, got>>,
         \/ wrote'["out"] = wrote["out"]
         \/ wrote'["out"] = wrote["out"] + 1 /\ ran # "ended",
         ran = "ended" => ran' = "ended",
         "out" \notin ended,
         e.says = "line" => /\ e.n = wrote'["out"] /\ wrote'["out"] = wrote["out"] + 1
                            /\ (shell # "marked" => shell' # "marked"),
         e.says = "code" => e.n = 2 /\ shell = "marked",
         e.says = "marker" => ran' = "ended",
         e.says = "prompt" => e.n = wrote["out"] /\ (shell # "marked" => shell' # "marked"),
         e.says \in {"prompt", "marker", "unknown"} => wrote'["out"] = wrote["out"],
         e.says # "banner"
  PROVE  GotInv' /\ SaidInv' /\ NextInv'
<1>0. /\ DOMAIN output = 1..Len(output) /\ Len(output) \in Nat
      /\ Len(output') = Len(output) + 1
      /\ DOMAIN output' = 1..(Len(output) + 1)
      /\ \A i \in 1..Len(output) : output'[i] = output[i]
      /\ output'[Len(output) + 1] = e
  BY OutputGrows
<1>1. /\ wrote["out"] \in Int /\ wrote'["out"] \in Int /\ wrote'["out"] >= wrote["out"]
      /\ Len(got["out"]) \in Int
  BY Counts
<1>2. GotInv'
  BY <1>1 DEF GotInv
<1>3. SaidInv'
  <2>1. ASSUME NEW i \in DOMAIN output', output'[i].says = "code"
        PROVE  output'[i].n = 2
    <3>1. i \in DOMAIN output \/ output'[i] = e
      BY <1>0
    <3> QED
      BY <1>0, <2>1, <3>1 DEF SaidInv
  <2>2. ASSUME NEW i \in DOMAIN output', output'[i].says = "marker"
        PROVE  ran' = "ended"
    <3>1. i \in DOMAIN output \/ output'[i] = e
      BY <1>0
    <3> QED
      BY <1>0, <2>2, <3>1 DEF SaidInv
  <2> QED
    BY <2>1, <2>2 DEF SaidInv
<1>4. Taken' = Taken /\ Taken \in Int
  BY <1>1 DEF Taken
<1>5. \A i \in 0..Len(output) : LinesUpTo(output', i) <=> LinesUpTo(output, i)
  BY <1>0 DEF LinesUpTo
<1>8. \A i \in 1..(Len(output) + 1) : Before(output', Taken', i) = Before(output, Taken, i)
  BY <1>0, <1>4 DEF Before
<1>6. ASSUME worker \in Looping, NEW i \in DOMAIN output', LinesUpTo(output', i - 1)
      PROVE  FitsAt(i)'
  <2>1. /\ LinesUpTo(output, i - 1) /\ i \in 1..(Len(output) + 1)
        /\ Before(output', Taken', i) = Before(output, Taken, i)
    BY <1>0, <1>5, <1>6, <1>8
  <2>2. CASE i \in DOMAIN output
    <3>1. FitsAt(i)
      BY <1>6, <2>1, <2>2 DEF NextInv
    <3>2. output[i].says = "marker" => wrote'["out"] = wrote["out"]
      BY <2>2 DEF SaidInv
    <3>3. output[i].n \in Nat
      BY <2>2, Numbered
    <3>4. output[i].says = "line" => output[i].n <= wrote'["out"]
      BY <1>1, <3>1, <3>3 DEF FitsAt
    <3>5. output'[i] = output[i]
      BY <1>0, <2>2
    <3> QED
      BY <2>1, <3>1, <3>2, <3>4, <3>5 DEF FitsAt
  <2>3. CASE i = Len(output) + 1
    <3>1. LinesUpTo(output, Len(output))
      BY <1>0, <2>1, <2>3
    <3>2. Before(output, Taken, i) = wrote["out"] /\ shell # "marked"
      BY <1>6, <2>3, <3>1 DEF NextInv
    <3>3. e.says \in {"line", "prompt", "unknown", "marker"}
      BY <3>2 DEF Said
    <3>4. output'[i] = e
      BY <1>0, <2>3
    <3> QED
      BY <1>1, <2>1, <3>2, <3>3, <3>4 DEF FitsAt
  <2> QED
    BY <1>0, <2>2, <2>3
<1>7. ASSUME worker \in Looping, LinesUpTo(output', Len(output'))
      PROVE  Before(output', Taken', Len(output') + 1) = wrote'["out"] /\ shell' # "marked"
  <2>1. e.says \in {"line", "prompt"}
    BY <1>0, <1>7 DEF LinesUpTo
  <2>2. LinesUpTo(output, Len(output))
    BY <1>0, <1>7 DEF LinesUpTo
  <2>3. shell # "marked"
    BY <1>7, <2>2 DEF NextInv
  <2>4. Before(output', Taken', Len(output') + 1) = e.n
    BY <1>0 DEF Before
  <2> QED
    BY <2>1, <2>3, <2>4
<1> QED
  BY <1>2, <1>3, <1>6, <1>7 DEF NextInv

\* A step of the worker that takes something from the output.
LEMMA OutShrinks ==
  ASSUME TypeOK, GotInv, SaidInv, NextInv, Begun,
         output # <<>>, output' = Tail(output),
         UNCHANGED <<got, wrote, ran, shell, ended>>,
         worker # "add",
         worker' = "add" => /\ Head(output).says \notin {"prompt", "marker", "unknown"}
                            /\ worker = "pop" /\ line' = Head(output).n,
         worker' = "loop" => Head(output).says = "prompt" /\ worker = "pop",
         worker' \in Looping => worker' \in {"add", "loop"}
  PROVE  GotInv' /\ SaidInv' /\ NextInv'
<1>0. /\ DOMAIN output = 1..Len(output) /\ Len(output) \in Nat \ {0}
      /\ Head(output) = output[1] /\ output[1] \in Said
      /\ Len(output') = Len(output) - 1
      /\ DOMAIN output' = 1..(Len(output) - 1)
      /\ \A i \in 1..(Len(output) - 1) : output'[i] = output[i + 1]
  BY OutputShrinks
<1>1. wrote["out"] \in Int /\ Len(got["out"]) \in Int
  BY Counts
<1>2. ASSUME worker' \in Looping
      PROVE  /\ worker \in Looping /\ Taken = Len(got["out"])
             /\ \/ output[1].says = "line" /\ worker' = "add"
                \/ output[1].says = "prompt" /\ worker' = "loop"
             /\ output[1].says = "line" => output[1].n = Taken + 1 /\ Taken + 1 <= wrote["out"]
             /\ output[1].says = "prompt" => output[1].n = Taken
  <2>1. LinesUpTo(output, 0)
    BY DEF LinesUpTo
  <2>2. Taken = Len(got["out"]) /\ worker \in Looping
    BY <1>1, <1>2 DEF Taken, Looping
  <2>3. FitsAt(1)
    <3>1. 1 \in DOMAIN output /\ 1 - 1 = 0
      BY <1>0
    <3> QED
      BY <2>1, <2>2, <3>1 DEF NextInv
  <2>4. Before(output, Taken, 1) = Taken
    BY DEF Before
  <2>5. \/ output[1].says = "line" /\ worker' = "add"
        \/ output[1].says = "prompt" /\ worker' = "loop"
    BY <1>0, <1>2, <2>3 DEF FitsAt
  <2> QED
    BY <2>2, <2>3, <2>4, <2>5 DEF FitsAt
<1>3. GotInv'
  <2>1. worker' = "add" => line' = Len(got["out"]) + 1 /\ line' <= wrote["out"]
    BY <1>0, <1>1, <1>2 DEF Looping
  <2> QED
    BY <1>1, <2>1 DEF GotInv
<1>4. \A i \in DOMAIN output' : i + 1 \in DOMAIN output /\ output'[i] = output[i + 1] /\ i \in Nat
  BY <1>0
<1>5. SaidInv'
  BY <1>4 DEF SaidInv
<1>6. ASSUME worker' \in Looping
      PROVE  /\ Taken' = output[1].n
             /\ \A i \in 0..(Len(output) - 1) : LinesUpTo(output', i) => LinesUpTo(output, i + 1)
  <2>1. Taken' = output[1].n
    <3>1. CASE worker' = "add"
      <4>1. Taken' = Len(got["out"]) + 1
        BY <3>1 DEF Taken
      <4> QED
        BY <1>2, <1>6, <3>1, <4>1
    <3>2. CASE worker' = "loop"
      <4>1. Taken' = Len(got["out"]) + 0
        BY <3>2 DEF Taken
      <4> QED
        BY <1>1, <1>2, <1>6, <3>2, <4>1
    <3> QED
      BY <1>6, <3>1, <3>2
  <2>2. ASSUME NEW i \in 0..(Len(output) - 1), LinesUpTo(output', i), NEW k \in 1..(i + 1)
        PROVE  output[k].says \in {"line", "prompt"}
    <3>1. CASE k = 1
      BY <1>2, <1>6, <3>1
    <3>2. CASE k # 1
      <4>1. k - 1 \in 1..i /\ k - 1 \in 1..(Len(output) - 1) /\ (k - 1) + 1 = k
        BY <1>0, <3>2
      <4> QED
        BY <1>0, <2>2, <4>1 DEF LinesUpTo
    <3> QED
      BY <3>1, <3>2
  <2> QED
    BY <2>1, <2>2 DEF LinesUpTo
<1>9. ASSUME worker' \in Looping, NEW i \in 1..Len(output)
      PROVE  Before(output', Taken', i) = Before(output, Taken, i + 1)
  <2>1. CASE i = 1
    BY <1>6, <1>9, <2>1 DEF Before
  <2>2. CASE i # 1
    <3>1. i - 1 \in 1..(Len(output) - 1) /\ (i - 1) + 1 = (i + 1) - 1 /\ i + 1 # 1
      BY <1>0, <2>2
    <3>2. output'[i - 1] = output[(i + 1) - 1]
      BY <1>0, <3>1
    <3> QED
      BY <2>2, <3>1, <3>2 DEF Before
  <2> QED
    BY <2>1, <2>2
<1>7. ASSUME worker' \in Looping, Begun', NEW i \in DOMAIN output', LinesUpTo(output', i - 1)
      PROVE  FitsAt(i)'
  <2>1. i \in Nat /\ i + 1 \in DOMAIN output /\ output'[i] = output[i + 1] /\ i \in 1..Len(output)
    BY <1>0, <1>4
  <2>2. LinesUpTo(output, (i + 1) - 1)
    <3>1. i - 1 \in 0..(Len(output) - 1) /\ (i - 1) + 1 = (i + 1) - 1
      BY <1>0, <2>1
    <3> QED
      BY <1>6, <1>7, <3>1
  <2>3. FitsAt(i + 1)
    BY <1>2, <1>7, <2>1, <2>2 DEF NextInv
  <2>4. Before(output', Taken', i) = Before(output, Taken, i + 1)
    BY <1>7, <1>9, <2>1
  <2> QED
    BY <2>1, <2>3, <2>4 DEF FitsAt
<1>8. ASSUME worker' \in Looping, "out" \notin ended', LinesUpTo(output', Len(output'))
      PROVE  Before(output', Taken', Len(output') + 1) = wrote'["out"] /\ shell' # "marked"
  <2>1. LinesUpTo(output, Len(output))
    <3>1. Len(output') \in 0..(Len(output) - 1) /\ Len(output') + 1 = Len(output)
      BY <1>0
    <3> QED
      BY <1>6, <1>8, <3>1
  <2>2. Before(output, Taken, Len(output) + 1) = wrote["out"] /\ shell # "marked"
    BY <1>2, <1>8, <2>1 DEF NextInv
  <2>3. Len(output') + 1 = Len(output) /\ Len(output) \in 1..Len(output)
    BY <1>0
  <2>4. Before(output', Taken', Len(output') + 1) = Before(output, Taken, Len(output) + 1)
    BY <1>8, <1>9, <2>3
  <2> QED
    BY <2>2, <2>4
<1> QED
  BY <1>3, <1>5, <1>7, <1>8 DEF NextInv

\* The Process closes the output, and loses the end of it.
LEMMA OutCut ==
  ASSUME TypeOK, GotInv, SaidInv, NextInv, StreamEnds("out")
  PROVE  GotInv' /\ SaidInv' /\ NextInv'
<1> USE DEF making, working, relaying, own, program
<1>1. UNCHANGED <<maker, worker, line, got, wrote, ran, shell>> /\ "out" \in ended'
  BY DEF StreamEnds
<1>2. PICK n \in 0..Len(output) : output' = SubSeq(output, 1, n)
  BY DEF StreamEnds
<1>3. /\ DOMAIN output = 1..Len(output) /\ Len(output) \in Nat
      /\ DOMAIN output' = 1..n
      /\ \A i \in 1..n : output'[i] = output[i]
  BY <1>2, OutputCut
<1>4. \A i \in DOMAIN output' : i \in DOMAIN output /\ output'[i] = output[i] /\ i \in Nat
  BY <1>3
<1>5. GotInv'
  BY <1>1 DEF GotInv
<1>6. Begun' = Begun /\ Taken' = Taken
  BY <1>1 DEF Begun, Taken
<1>7. SaidInv'
  BY <1>1, <1>4, <1>6 DEF SaidInv
<1>8. ASSUME Begun, worker \in Looping, NEW i \in DOMAIN output', LinesUpTo(output', i - 1)
      PROVE  FitsAt(i)'
  <2>1. LinesUpTo(output, i - 1)
    BY <1>3, <1>8 DEF LinesUpTo
  <2>2. FitsAt(i)
    BY <1>4, <1>8, <2>1 DEF NextInv
  <2>3. Before(output', Taken', i) = Before(output, Taken, i)
    <3>1. i = 1 \/ output'[i - 1] = output[i - 1]
      BY <1>3
    <3> QED
      BY <1>6, <3>1 DEF Before
  <2> QED
    BY <1>1, <1>4, <2>2, <2>3 DEF FitsAt
<1> QED
  BY <1>1, <1>5, <1>6, <1>7, <1>8 DEF NextInv

\* Until the greeting is over, nobody has taken a line.
LEMMA OutEarly ==
  ASSUME TypeOK, GotInv, ~Begun', UNCHANGED <<worker, got, line>>,
         wrote'["out"] \in {wrote["out"], wrote["out"] + 1}
  PROVE  GotInv' /\ SaidInv' /\ NextInv'
<1>1. /\ wrote["out"] \in Int /\ wrote'["out"] \in Int /\ wrote'["out"] >= wrote["out"]
      /\ Len(got["out"]) \in Int
  BY Counts
<1> QED
  BY <1>1 DEF GotInv, SaidInv, NextInv, Begun

\* The lines taken, and those still in the output, are the next ones.
LEMMA NextOut ==
  TypeOK /\ BornInv /\ CommandInv /\ GreetInv /\ AskInv /\ GotInv /\ SaidInv /\ NextInv /\ [Next]_vars
     => GotInv' /\ SaidInv' /\ NextInv'
<1> SUFFICES ASSUME TypeOK, BornInv, CommandInv, GreetInv, AskInv, GotInv, SaidInv, NextInv, [Next]_vars
             PROVE  GotInv' /\ SaidInv' /\ NextInv'
  OBVIOUS
<1> USE DEF making, working, relaying, own, program, ending
<1>1. CASE GreetPops \/ GreetEnds \/ GreetLate
  <2>1. /\ maker' \in Greeting \cup {"giveup"} /\ UNCHANGED <<worker, got, wrote, line>>
        /\ maker \in Greeting
    BY <1>1 DEF GreetPops, GreetEnds, GreetLate, Greeting
  <2>2. ~Begun'
    BY <2>1 DEF Begun, Greeting, BornInv
  <2> QED
    BY <2>1, <2>2, OutEarly
<1>2. CASE GreetCode
  <2>1. UNCHANGED <<worker, got, wrote, line>> /\ maker = "greetcode" /\ maker' \in {"threads", "giveup"}
    BY <1>2 DEF GreetCode
  <2>2. CASE maker' = "threads"
    <3>1. /\ worker = "unborn" /\ worker' = "unborn" /\ output' = <<>> /\ ran' = "not"
          /\ "out" \notin ended' => shell' # "marked"
          /\ UNCHANGED <<ran, wrote, got>>
      BY <1>2, <2>2, GreetingOver
    <3>2. wrote["out"] = 0 /\ Len(got["out"]) = 0
      BY <3>1 DEF CommandInv, BornInv
    <3>3. Before(output', Taken', Len(output') + 1) = 0 /\ DOMAIN output' = {}
      BY <3>1, <3>2 DEF Taken, Before
    <3>4. GotInv'
      BY <2>1 DEF GotInv
    <3> QED
      BY <3>1, <3>2, <3>3, <3>4 DEF SaidInv, NextInv
  <2>3. CASE maker' = "giveup"
    <3>1. ~Begun'
      BY <2>1, <2>3 DEF Begun, BornInv, Greeting
    <3> QED
      BY <2>1, <3>1, OutEarly
  <2> QED
    BY <2>1, <2>2, <2>3
<1>3. CASE RunThreads
  <2>1. Begun /\ worker \in Looping /\ worker # "add" /\ worker' = "loop"
    BY <1>3 DEF RunThreads, Begun, BornInv, Looping
  <2>2. UNCHANGED <<output, line, got, wrote, ran, ended, shell>>
    BY <1>3 DEF RunThreads
  <2> QED
    BY <2>1, <2>2, OutStays
<1>4. CASE StartTimesOut \/ GivenUp \/ SendCommand \/ AskExit \/ JoinShell \/ JoinRelay \/ CloseStdout
  <2>1. UNCHANGED <<output, line, got, wrote, ran, ended>>
    BY <1>4 DEF StartTimesOut, GivenUp, SendCommand, Send, AskExit, JoinShell, JoinRelay, CloseStdout
  <2>2. shell' = shell \/ shell' # "marked"
    BY <1>4 DEF StartTimesOut, GivenUp, SendCommand, Send, AskExit, JoinShell, JoinRelay, CloseStdout
  <2>3. /\ maker' = maker \/ maker' # "threads"
        /\ worker' = worker \/ (worker # "unborn" /\ worker' \notin Looping)
    BY <1>4 DEF StartTimesOut, GivenUp, SendCommand, Send, AskExit, JoinShell, JoinRelay, CloseStdout,
       WorkerGoto, Looping
  <2>4. Begun' => Begun
    BY <2>3 DEF Begun
  <2>5. /\ worker' = "add" => worker = "add"
        /\ worker' \in Looping => worker \in Looping /\ (worker = "add" => worker' = "add")
    BY <2>3 DEF Looping
  <2> QED
    BY <2>1, <2>2, <2>4, <2>5, OutStays
<1>5. CASE WorkerLoops \/ WorkerPopsNone \/ WorkerSeesEnd
  <2>1. UNCHANGED <<output, line, got, wrote, ran, ended, shell>>
    BY <1>5 DEF WorkerLoops, WorkerPopsNone, WorkerSeesEnd
  <2>2. worker \in {"loop", "pop"} /\ worker' \in {"loop", "pop", "close"}
    BY <1>5 DEF WorkerLoops, WorkerPopsNone, WorkerSeesEnd, WorkerGoto
  <2> QED
    BY <2>1, <2>2, OutStays DEF Begun, Looping
<1>6. CASE WorkerPops
  <2>1. /\ output # <<>> /\ output' = Tail(output) /\ UNCHANGED <<got, wrote, ran, shell, ended>>
        /\ worker = "pop" /\ line' = Head(output).n
        /\ worker' \in {"code", "close", "loop", "add"}
        /\ worker' = "loop" => Head(output).says = "prompt"
        /\ worker' = "add" => Head(output).says \notin {"prompt", "marker", "unknown"}
    BY <1>6 DEF WorkerPops, WorkerGoto
  <2>2. Begun
    BY <2>1 DEF Begun
  <2> QED
    BY <2>1, <2>2, OutShrinks DEF Looping
<1>7. CASE WorkerGetsCode
  <2>1. /\ worker = "code" /\ worker' = "close" /\ UNCHANGED <<got, wrote, ran, shell, ended, line>>
        /\ \/ output # <<>> /\ output' = Tail(output)
           \/ output' = output
    BY <1>7 DEF WorkerGetsCode, WorkerGoto
  <2>2. Begun
    BY <2>1 DEF Begun
  <2>3. CASE output # <<>> /\ output' = Tail(output)
    BY <2>1, <2>2, <2>3, OutShrinks DEF Looping
  <2>4. CASE output' = output
    BY <2>1, <2>2, <2>4, OutStays DEF Looping
  <2> QED
    BY <2>1, <2>3, <2>4
<1>8. CASE WorkerAdds
  <2>1. UNCHANGED <<maker, output, line, wrote, ran, ended, shell>> /\ worker = "add"
    BY <1>8 DEF WorkerAdds
  <2>2. CASE HasRoom("out") /\ Deliver("out", line) /\ WorkerGoto("loop")
    <3>1. /\ line = Len(got["out"]) + 1 /\ line <= wrote["out"]
          /\ Len(got["out"]) \in Nat /\ wrote["out"] \in 0..MaxLines /\ MaxLines \in Nat
      BY <2>1, Typed DEF GotInv
    <3>2. line \in 1..MaxLines
      BY <3>1
    <3>3. got["out"] \in Seq(1..MaxLines) /\ got'["out"] = Append(got["out"], line)
      BY <2>2, Typed DEF Deliver, TypeOK
    <3>4. /\ Len(got'["out"]) = Len(got["out"]) + 1
          /\ DOMAIN got["out"] = 1..Len(got["out"])
          /\ DOMAIN got'["out"] = 1..(Len(got["out"]) + 1)
          /\ \A i \in 1..Len(got["out"]) : got'["out"][i] = got["out"][i]
          /\ got'["out"][Len(got["out"]) + 1] = line
      BY <3>2, <3>3, Appended
    <3>5. worker' = "loop"
      BY <2>2 DEF WorkerGoto
    <3>6. GotInv'
      <4>1. Len(got'["out"]) <= wrote'["out"]
        BY <2>1, <3>1, <3>4
      <4>2. \A i \in DOMAIN got'["out"] : got'["out"][i] = i
        BY <3>1, <3>4 DEF GotInv
      <4> QED
        BY <3>5, <4>1, <4>2 DEF GotInv
    <3>7. Begun /\ Begun' /\ worker \in Looping /\ worker' \in Looping
      BY <2>1, <3>5 DEF Begun, Looping
    <3>8. Taken' = Taken
      <4>1. Taken = Len(got["out"]) + 1 /\ Taken' = Len(got'["out"]) + 0
        BY <2>1, <3>5 DEF Taken
      <4> QED
        BY <3>1, <3>4, <4>1
    <3>9. SaidInv'
      BY <2>1, <3>7 DEF SaidInv
    <3>10. NextInv'
      BY <2>1, <3>7, <3>8 DEF NextInv, FitsAt
    <3> QED
      BY <3>6, <3>9, <3>10
  <2>3. CASE WorkerGoto("close") /\ UNCHANGED got
    <3>1. worker' = "close"
      BY <2>3 DEF WorkerGoto
    <3> QED
      BY <2>1, <2>3, <3>1, OutStays DEF Begun, Looping
  <2> QED
    BY <1>8, <2>2, <2>3 DEF WorkerAdds
<1>9. CASE ~Begun /\ \/ ShellEchoes \/ ShellAsked \/ ShellSaysCode \/ ShellRuns \/ ShellSkips \/ ShellExits
                     \/ Eats \/ CommandEnds \/ ShellDies
  <2>1. UNCHANGED <<maker, worker, got, wrote, line>>
    BY <1>9 DEF ShellEchoes, ShellAsked, ShellSaysCode, ShellRuns, ShellSkips, ShellExits, Eats, CommandEnds, ShellDies
  <2>2. ~Begun'
    BY <1>9, <2>1 DEF Begun
  <2> QED
    BY <2>1, <2>2, OutEarly
<1>10. CASE Begun /\ ShellAsked
  <2>1. /\ UNCHANGED <<maker, worker, got, wrote, line, ended, ran>>
        /\ output' = IF "out" \in ended THEN output ELSE Append(output, Marker)
        /\ shell' = "marked"
    BY <1>10 DEF ShellAsked, Idle
  <2>2. CASE "out" \in ended
    BY <2>1, <2>2, OutStays DEF Begun
  <2>3. CASE "out" \notin ended
    <3>1. output' = Append(output, Marker) /\ Marker \in Said /\ Marker.says = "marker"
      BY <2>1, <2>3 DEF Marker, Says, Said
    <3>2. ran' = "ended"
      <4>1. AskInv' /\ Begun' /\ "out" \notin ended'
        BY <1>10, <2>1, <2>3, NextAsk DEF Begun
      <4> QED
        BY <2>1, <4>1 DEF AskInv
    <3> QED
      BY <1>10, <2>1, <2>3, <3>1, <3>2, OutGrows
  <2> QED
    BY <2>2, <2>3
<1>11. CASE Begun /\ ShellSaysCode
  <2> DEFINE e == Says("code", IF ran = "not" THEN 1 ELSE 2)
  <2>1. /\ UNCHANGED <<maker, worker, got, wrote, line, ended, ran>>
        /\ output' = IF "out" \in ended THEN output ELSE Append(output, e)
        /\ shell' = "idle" /\ shell = "marked"
    BY <1>11 DEF ShellSaysCode
  <2>2. CASE "out" \in ended
    BY <2>1, <2>2, OutStays DEF Begun
  <2>3. CASE "out" \notin ended
    <3>1. ran = "ended"
      BY <1>11, <2>1, <2>3 DEF AskInv
    <3>2. e = Says("code", 2) /\ e \in Said
      BY <3>1 DEF Says, Said
    <3>3. e.says = "code" /\ e.n = 2
      BY <3>2 DEF Says
    <3>4. output' = Append(output, e)
      BY <2>1, <2>3
    <3> HIDE DEF e
    <3> QED
      BY <1>11, <2>1, <2>3, <3>1, <3>2, <3>3, <3>4, OutGrows
  <2> QED
    BY <2>2, <2>3
<1>12. CASE Begun /\ ShellRuns
  <2>1. /\ UNCHANGED <<maker, worker, got, wrote, line, ended>>
        /\ input # <<>> /\ Head(input) = "command" /\ input' = Tail(input)
        /\ shell' # "marked"
        /\ \/ output' = output /\ ran' = "running"
           \/ ran' = "ended" /\ output' = IF "out" \in ended THEN output ELSE Append(output, Says("unknown", 0))
    BY <1>12 DEF ShellRuns, Idle
  <2>2. ran = "not"
    <3>1. input[1] = "command" /\ 1 \in DOMAIN input
      BY <2>1, InputShrinks
    <3> QED
      BY <3>1 DEF CommandInv
  <2>3. CASE output' = output
    BY <2>1, <2>2, <2>3, OutStays DEF Begun
  <2>4. CASE "out" \notin ended /\ ran' = "ended" /\ output' = Append(output, Says("unknown", 0))
    <3>1. Says("unknown", 0) \in Said /\ Says("unknown", 0).says = "unknown"
      BY DEF Says, Said
    <3> QED
      BY <1>12, <2>1, <2>2, <2>4, <3>1, OutGrows
  <2> QED
    BY <2>1, <2>3, <2>4
<1>13. CASE Begun /\ (ShellSkips \/ ShellExits \/ Eats \/ CommandEnds \/ ShellDies)
  <2>1. UNCHANGED <<maker, worker, got, wrote, line, ended, output>>
    BY <1>13 DEF ShellSkips, ShellExits, Eats, CommandEnds, ShellDies
  <2>2. (ran' = ran \/ ran' = "ended") /\ (shell' = shell \/ shell' # "marked")
    BY <1>13 DEF ShellSkips, ShellExits, Eats, CommandEnds, ShellDies
  <2> QED
    BY <2>1, <2>2, OutStays DEF Begun
<1>14. ASSUME NEW s \in {"out", "err"}, Writes(s)
       PROVE  GotInv' /\ SaidInv' /\ NextInv'
  <2>1. /\ UNCHANGED <<maker, worker, got, line, ended, ran, shell>>
        /\ shell = "busy" /\ wrote' = [wrote EXCEPT ![s] = @ + 1]
        /\ wrote["out"] + wrote["err"] < MaxLines
    BY <1>14 DEF Writes
  <2>2. ran = "running"
    BY <2>1 DEF CommandInv
  <2>3. CASE s = "err"
    <3>1. wrote'["out"] = wrote["out"] /\ output' = output
      BY <1>14, <2>1, <2>3 DEF Writes, TypeOK
    <3> QED
      BY <2>1, <2>2, <3>1, OutStays DEF Begun
  <2>4. CASE s = "out"
    <3>1. wrote'["out"] = wrote["out"] + 1 /\ wrote'["out"] \in 0..MaxLines
      <4>1. wrote'["out"] = wrote["out"] + 1 /\ wrote'["out"] \in 1..MaxLines
        BY <1>14, <2>4, OneMore
      <4> QED
        BY <4>1
    <3>2. CASE "out" \in ended
      <4>1. output' = output
        BY <1>14, <2>4, <3>2 DEF Writes
      <4> QED
        BY <2>1, <2>2, <3>1, <3>2, <4>1, OutStays DEF Begun
    <3>3. CASE "out" \notin ended
      <4> DEFINE e == Says("line", wrote'["out"])
      <4>1. output' = Append(output, e)
        BY <1>14, <2>4, <3>3 DEF Writes
      <4>2. e \in Said /\ e.says = "line" /\ e.n = wrote'["out"]
        BY <3>1 DEF Says, Said
      <4>3. CASE ~Begun
        <5>1. ~Begun'
          BY <2>1, <4>3 DEF Begun
        <5> QED
          BY <2>1, <3>1, <5>1, OutEarly
      <4> HIDE DEF e
      <4>4. CASE Begun
        BY <2>1, <2>2, <3>1, <3>3, <4>1, <4>2, <4>4, OutGrows
      <4> QED
        BY <4>3, <4>4
    <3> QED
      BY <3>2, <3>3
  <2> QED
    BY <2>3, <2>4
<1>15. ASSUME NEW s \in {"in", "out", "err"}, StreamEnds(s)
       PROVE  GotInv' /\ SaidInv' /\ NextInv'
  <2>1. CASE s = "out"
    BY <1>15, <2>1, OutCut
  <2>2. CASE s # "out"
    <3>1. UNCHANGED <<maker, worker, got, wrote, line, ran, shell, output>> /\ ended \subseteq ended'
      BY <1>15, <2>2 DEF StreamEnds
    <3> QED
      BY <3>1, OutStays DEF Begun
  <2> QED
    BY <2>1, <2>2
<1>16. CASE RelayAdds
  <2>1. UNCHANGED <<maker, worker, wrote, line, ran, shell, output, ended>>
    BY <1>16 DEF RelayAdds
  <2>2. got'["out"] = got["out"]
    BY <1>16 DEF RelayAdds, Deliver, TypeOK
  <2> QED
    BY <2>1, <2>2, OutStays DEF Begun
<1>17. CASE \/ Stop \/ StopProcess \/ ProcessStops \/ UNCHANGED vars \/ \E s \in {"out", "err"} : Read(s)
            \/ RelayLoops \/ RelayPops \/ RelayPopsNone \/ RelaySeesEnd \/ RelayPopsAll \/ RelaySkips \/ RelayCloses
  <2>1. UNCHANGED <<maker, worker, got, wrote, line, ran, shell, output, ended>>
    BY <1>17 DEF Stop, StopProcess, ProcessStops, Read, vars, RelayLoops, RelayPops, RelayPopsNone,
       RelaySeesEnd, RelayPopsAll, RelaySkips, RelayCloses
  <2> QED
    BY <2>1, OutStays DEF Begun
<1>19. CASE Begun /\ ShellEchoes
  <2> DEFINE e == Says("prompt", wrote["out"])
  <2>1. /\ UNCHANGED <<maker, worker, got, wrote, line, ended, ran>>
        /\ output' = IF "out" \in ended THEN output ELSE Append(output, e)
        /\ shell' # "marked"
    BY <1>19 DEF ShellEchoes
  <2>2. CASE "out" \in ended
    BY <2>1, <2>2, OutStays DEF Begun
  <2>3. CASE "out" \notin ended
    <3>1. e \in Said
      BY EchoSaid
    <3>2. e.says = "prompt" /\ e.n = wrote["out"]
      BY DEF Says
    <3>3. output' = Append(output, e)
      BY <2>1, <2>3
    <3> HIDE DEF e
    <3> QED
      BY <1>19, <2>1, <2>3, <3>1, <3>2, <3>3, OutGrows
  <2> QED
    BY <2>2, <2>3
<1>18. CASE ShellEchoes \/ ShellAsked \/ ShellSaysCode \/ ShellRuns \/ ShellSkips \/ ShellExits \/ Eats \/ CommandEnds \/ ShellDies
  BY <1>9, <1>10, <1>11, <1>12, <1>13, <1>18, <1>19
<1> QED
  BY <1>1, <1>2, <1>3, <1>4, <1>5, <1>6, <1>7, <1>8, <1>14, <1>15, <1>16, <1>17, <1>18
     DEF Next, Make, Work, Relay, WindUp

-----------------------------------------------------------------------------
\* A return code is there only when no line of the output is missing.
LEMMA NextCode ==
  TypeOK /\ BornInv /\ CommandInv /\ GotInv /\ SaidInv /\ NextInv /\ CodeInv /\ [Next]_vars => CodeInv'
<1> SUFFICES ASSUME TypeOK, BornInv, CommandInv, GotInv, SaidInv, NextInv, CodeInv, [Next]_vars
             PROVE  CodeInv'
  OBVIOUS
<1> USE DEF CodeInv, Last, making, working, relaying, own, program, ending
<1>0. ASSUME got'["out"] = got["out"], wrote'["out"] = wrote["out"] \/ ran = "running",
             ran = "ended" => ran' = "ended", code' = code,
             worker' = "code" => worker = "code", worker \in Last => worker' \in Last
      PROVE  CodeInv'
  BY <1>0
<1>1. CASE WorkerPops
  <2>1. /\ worker = "pop" /\ output # <<>> /\ UNCHANGED <<got, wrote, ran, code>>
        /\ worker' = "code" => Head(output).says = "marker"
    BY <1>1 DEF WorkerPops, WorkerGoto
  <2>2. ASSUME Head(output).says = "marker"
        PROVE  Len(got["out"]) = wrote["out"] /\ ran = "ended"
    <3>1. 1 \in DOMAIN output /\ Head(output) = output[1] /\ 1 - 1 = 0
      BY <2>1, Shifted DEF TypeOK
    <3>2. LinesUpTo(output, 1 - 1)
      BY DEF LinesUpTo
    <3>3. Begun /\ worker \in Looping
      BY <2>1 DEF Begun, Looping
    <3>4. Taken = wrote["out"]
      <4>1. FitsAt(1)
        BY <3>1, <3>2, <3>3 DEF NextInv
      <4> QED
        BY <2>2, <3>1, <4>1 DEF FitsAt, Before
    <3>5. Taken = Len(got["out"]) + 0
      BY <2>1 DEF Taken
    <3>6. ran = "ended"
      BY <2>2, <3>1, <3>3 DEF SaidInv
    <3> QED
      BY <3>4, <3>5, <3>6, Typed
  <2>3. code = 0
    BY <2>1
  <2> QED
    BY <2>1, <2>2, <2>3
<1>2. CASE WorkerGetsCode
  <2>1. /\ worker = "code" /\ worker' = "close" /\ UNCHANGED <<got, wrote, ran>>
        /\ code' = code \/ (output # <<>> /\ Head(output).says = "code" /\ code' = Head(output).n)
    BY <1>2 DEF WorkerGetsCode, WorkerGoto
  <2>2. ASSUME output # <<>>, Head(output).says = "code"
        PROVE  Head(output).n = 2
    <3>1. 1 \in DOMAIN output /\ Head(output) = output[1]
      BY <2>2, Shifted DEF TypeOK
    <3>2. Begun
      BY <2>1 DEF Begun
    <3> QED
      BY <2>2, <3>1, <3>2 DEF SaidInv
  <2> QED
    BY <2>1, <2>2
<1>3. CASE WorkerAdds
  <2>1. worker = "add" /\ worker' \in {"loop", "close"} /\ code' = code
    BY <1>3 DEF WorkerAdds, WorkerGoto
  <2>2. code = 0
    BY <2>1
  <2> QED
    BY <2>1, <2>2
<1>4. CASE \/ WorkerLoops \/ WorkerPopsNone \/ WorkerSeesEnd \/ CloseStdout \/ JoinRelay \/ AskExit \/ JoinShell
  <2>1. UNCHANGED <<got, wrote, ran, code>>
    BY <1>4 DEF WorkerLoops, WorkerPopsNone, WorkerSeesEnd, CloseStdout, JoinRelay, AskExit, JoinShell
  <2>2. worker' # "code" /\ (worker \in Last => worker' \in Last)
    BY <1>4 DEF WorkerLoops, WorkerPopsNone, WorkerSeesEnd, CloseStdout, JoinRelay, AskExit, JoinShell, WorkerGoto
  <2> QED
    BY <1>0, <2>1, <2>2
<1>5. CASE RunThreads
  <2>1. worker = "unborn" /\ worker' = "loop" /\ UNCHANGED <<got, wrote, ran, code>>
    BY <1>5 DEF RunThreads, BornInv
  <2> QED
    BY <1>0, <2>1
<1>6. CASE RelayAdds
  <2>1. got'["out"] = got["out"] /\ UNCHANGED <<wrote, ran, code, worker>>
    BY <1>6 DEF RelayAdds, Deliver, TypeOK
  <2> QED
    BY <1>0, <2>1
<1>7. CASE ShellRuns
  <2>1. /\ UNCHANGED <<got, wrote, code, worker>>
        /\ input # <<>> /\ Head(input) = "command" /\ input' = Tail(input)
    BY <1>7 DEF ShellRuns, Idle
  <2>2. input[1] = "command" /\ 1 \in DOMAIN input
    BY <2>1, InputShrinks
  <2>3. ran = "not"
    BY <2>2 DEF CommandInv
  <2> QED
    BY <1>0, <2>1, <2>3
<1>8. ASSUME NEW s \in {"out", "err"}, Writes(s)
      PROVE  CodeInv'
  <2>1. UNCHANGED <<got, ran, code, worker>> /\ shell = "busy"
    BY <1>8 DEF Writes
  <2>2. ran = "running"
    BY <2>1 DEF CommandInv
  <2> QED
    BY <1>0, <2>1, <2>2
<1>9. CASE CommandEnds
  BY <1>9 DEF CommandEnds
<1>10. CASE \/ StartTimesOut \/ GreetPops \/ GreetEnds \/ GreetLate \/ GreetCode \/ GivenUp \/ SendCommand
            \/ Stop \/ WindUp \/ ShellEchoes \/ ShellAsked \/ ShellSaysCode \/ ShellSkips \/ ShellExits \/ Eats
            \/ ShellDies \/ StopProcess \/ UNCHANGED vars \/ \E s \in {"out", "err"} : Read(s)
            \/ RelayLoops \/ RelayPops \/ RelayPopsNone \/ RelaySeesEnd \/ RelayPopsAll \/ RelaySkips \/ RelayCloses
  <2>1. UNCHANGED <<got, wrote, ran, code, worker>>
    BY <1>10 DEF StartTimesOut, GreetPops, GreetEnds, GreetLate, GreetCode, GivenUp, SendCommand, Send,
       Stop, WindUp, ShellEchoes, ShellAsked, ShellSaysCode, ShellSkips, ShellExits, Eats, ShellDies, StopProcess, vars,
       Read, RelayLoops, RelayPops, RelayPopsNone, RelaySeesEnd, RelayPopsAll, RelaySkips, RelayCloses, StreamEnds,
       ProcessStops
  <2> QED
    BY <1>0, <2>1
<1> QED
  BY <1>1, <1>2, <1>3, <1>4, <1>5, <1>6, <1>7, <1>8, <1>9, <1>10 DEF Next, Make, Work, Relay

\* The lines after the n-th, with the next one at their end.
LEMMA AfterAppend ==
  ASSUME NEW n \in Nat, NEW q \in Seq(1..MaxLines), After(n, q),
         NEW e \in 1..MaxLines, e = n + Len(q) + 1
  PROVE  After(n, Append(q, e))
<1>1. /\ Len(q) \in Nat /\ DOMAIN q = 1..Len(q)
      /\ DOMAIN Append(q, e) = 1..(Len(q) + 1)
      /\ \A i \in 1..Len(q) : Append(q, e)[i] = q[i]
      /\ Append(q, e)[Len(q) + 1] = e
  BY Appended
<1>2. SUFFICES ASSUME NEW i \in 1..(Len(q) + 1)
               PROVE  Append(q, e)[i] = n + i
  BY <1>1 DEF After
<1>3. CASE i \in 1..Len(q)
  BY <1>1, <1>3 DEF After
<1>4. CASE i = Len(q) + 1
  <2>1. e = n + i
    BY <1>1, <1>4
  <2> QED
    BY <1>1, <1>4, <2>1
<1> QED
  BY <1>1, <1>3, <1>4

\* The first of the lines after the n-th, and the others.
LEMMA AfterTail ==
  ASSUME NEW n \in Nat, NEW q \in Seq(1..MaxLines), After(n, q), q # <<>>
  PROVE  Head(q) = n + 1 /\ After(n + 1, Tail(q))
<1>1. /\ Len(q) \in Nat \ {0} /\ DOMAIN q = 1..Len(q)
      /\ Head(q) = q[1]
      /\ DOMAIN Tail(q) = 1..(Len(q) - 1)
      /\ \A i \in 1..(Len(q) - 1) : Tail(q)[i] = q[i + 1]
  BY Shifted
<1>2. Head(q) = n + 1
  BY <1>1 DEF After
<1>3. SUFFICES ASSUME NEW i \in 1..(Len(q) - 1)
               PROVE  Tail(q)[i] = n + 1 + i
  BY <1>1, <1>2 DEF After
<1>4. i + 1 \in DOMAIN q
  BY <1>1
<1>5. q[i + 1] = n + (i + 1)
  BY <1>4 DEF After
<1>6. n + (i + 1) = n + 1 + i
  OBVIOUS
<1> QED
  BY <1>1, <1>5, <1>6

\* The lines after the n-th, up to the m-th of them and from there on.
LEMMA AfterSplit ==
  ASSUME NEW n \in Nat, NEW q \in Seq(1..MaxLines), After(n, q), NEW m \in 0..Len(q)
  PROVE  After(n, SubSeq(q, 1, m)) /\ After(n + m, SubSeq(q, m + 1, Len(q)))
<1>1. /\ Len(q) \in Nat /\ DOMAIN q = 1..Len(q)
      /\ DOMAIN SubSeq(q, 1, m) = 1..m
      /\ \A i \in 1..m : SubSeq(q, 1, m)[i] = q[i]
  BY Begins
<1>2. /\ DOMAIN SubSeq(q, m + 1, Len(q)) = 1..(Len(q) - m)
      /\ \A i \in 1..(Len(q) - m) : SubSeq(q, m + 1, Len(q))[i] = q[m + i]
  BY Rests
<1>3. After(n, SubSeq(q, 1, m))
  BY <1>1 DEF After
<1>4. ASSUME NEW i \in 1..(Len(q) - m)
      PROVE  SubSeq(q, m + 1, Len(q))[i] = n + m + i
  <2>1. m + i \in DOMAIN q
    BY <1>1
  <2>2. q[m + i] = n + (m + i)
    BY <2>1 DEF After
  <2>3. n + (m + i) = n + m + i
    BY <1>1
  <2> QED
    BY <1>2, <2>2, <2>3
<1> QED
  BY <1>2, <1>3, <1>4 DEF After

\* One more line is kept, when it is not blank.
LEMMA KeptAppend ==
  ASSUME NEW f \in Nat, NEW q \in Seq(1..MaxLines), f + 1 \in 1..MaxLines,
         Kept(q, f), f + 1 \notin Blank
  PROVE  Kept(Append(q, f + 1), f + 1)
<1> DEFINE p == Append(q, f + 1)
<1>1. /\ Len(q) \in Nat /\ DOMAIN q = 1..Len(q)
      /\ Len(p) = Len(q) + 1 /\ DOMAIN p = 1..(Len(q) + 1)
      /\ \A i \in 1..Len(q) : p[i] = q[i]
      /\ p[Len(q) + 1] = f + 1
  BY Appended
<1> HIDE DEF p
<1>2. /\ Len(q) <= f
      /\ \A i \in 1..Len(q) : q[i] \in 1..f /\ q[i] \notin Blank
      /\ \A i, j \in 1..Len(q) : i < j => q[i] < q[j]
      /\ \A k \in 1..f : k \in Blank \/ \E i \in 1..Len(q) : q[i] = k
  BY <1>1 DEF Kept
<1>3. Len(p) <= f + 1
  BY <1>1, <1>2
<1>4. ASSUME NEW i \in 1..(Len(q) + 1)
      PROVE  p[i] \in 1..(f + 1) /\ p[i] \notin Blank
  <2>1. CASE i \in 1..Len(q)
    BY <1>1, <1>2, <2>1
  <2>2. CASE i = Len(q) + 1
    BY <1>1, <2>2
  <2> QED
    BY <1>1, <2>1, <2>2
<1>5. ASSUME NEW i \in 1..(Len(q) + 1), NEW j \in 1..(Len(q) + 1), i < j
      PROVE  p[i] < p[j]
  <2>1. i \in 1..Len(q) /\ p[i] = q[i] /\ q[i] \in 1..f
    BY <1>1, <1>2, <1>5
  <2>2. CASE j \in 1..Len(q)
    BY <1>1, <1>2, <1>5, <2>1, <2>2
  <2>3. CASE j = Len(q) + 1
    BY <1>1, <2>1, <2>3
  <2> QED
    BY <1>1, <2>2, <2>3
<1>6. ASSUME NEW k \in 1..(f + 1), k \notin Blank
      PROVE  \E i \in 1..(Len(q) + 1) : p[i] = k
  <2>1. CASE k \in 1..f
    <3>1. PICK i \in 1..Len(q) : q[i] = k
      BY <1>2, <1>6, <2>1
    <3>2. p[i] = k /\ i \in 1..(Len(q) + 1)
      BY <1>1, <3>1
    <3> QED
      BY <3>2
  <2>2. CASE k = f + 1
    <3>1. Len(q) + 1 \in 1..(Len(q) + 1)
      BY <1>1
    <3> QED
      BY <1>1, <2>2, <3>1
  <2> QED
    BY <2>1, <2>2
<1>7. Kept(p, f + 1)
  BY <1>1, <1>3, <1>4, <1>5, <1>6 DEF Kept
<1> QED
  BY <1>7 DEF p

\* A blank line is not kept.
LEMMA KeptSkip ==
  ASSUME NEW f \in Nat, NEW q \in Seq(1..MaxLines), Kept(q, f), f + 1 \in Blank
  PROVE  Kept(q, f + 1)
<1>1. /\ Len(q) \in Nat /\ Len(q) <= f
      /\ \A i \in DOMAIN q : q[i] \in 1..f /\ q[i] \notin Blank
      /\ \A i, j \in DOMAIN q : i < j => q[i] < q[j]
      /\ \A k \in 1..f : k \in Blank \/ \E i \in DOMAIN q : q[i] = k
  BY DEF Kept
<1>2. Len(q) <= f + 1 /\ 1..f \subseteq 1..(f + 1)
  BY <1>1
<1>3. ASSUME NEW k \in 1..(f + 1)
      PROVE  k \in Blank \/ \E i \in DOMAIN q : q[i] = k
  BY <1>1, <1>3
<1> QED
  BY <1>1, <1>2, <1>3 DEF Kept

\* The lines of stderr are in their order wherever they are.
LEMMA NextErr == TypeOK /\ BornInv /\ ErrInv /\ [Next]_vars => ErrInv'
<1> SUFFICES ASSUME TypeOK, BornInv, ErrInv, [Next]_vars
             PROVE  ErrInv'
  OBVIOUS
<1> USE DEF making, working, relaying, own, program, ending
<1>a. /\ Len(lines) \in Nat /\ lines \in Seq(1..MaxLines)
      /\ Len(errors) \in Nat /\ errors \in Seq(1..MaxLines)
      /\ Len(got["err"]) \in Nat /\ got["err"] \in Seq(1..MaxLines)
      /\ wrote["err"] \in 0..MaxLines /\ MaxLines \in Nat
  BY Typed
<1>f. PICK f \in Nat : Moved(f)
  BY DEF ErrInv
<1>b. /\ Kept(got["err"], f)
      /\ After(f, lines)
      /\ After(f + Len(lines), errors)
  BY <1>f DEF Moved
<1>c. /\ f + Len(lines) + Len(errors) <= wrote["err"]
      /\ "err" \notin ended => f + Len(lines) + Len(errors) = wrote["err"]
  BY <1>f DEF Moved
<1>d. /\ relay \in {"loop", "pop", "popall"} => lines = <<>>
      /\ relay = "add" => Len(lines) = 1
  BY DEF ErrInv
<1>z. ASSUME NEW g \in Nat, Moved(g)',
             relay' \in {"loop", "pop", "popall"} => lines' = <<>>,
             relay' = "add" => Len(lines') = 1
      PROVE  ErrInv'
  BY <1>z DEF ErrInv
<1>m. ASSUME got'["err"] = got["err"], wrote'["err"] = wrote["err"], UNCHANGED <<lines, errors>>,
             ended \subseteq ended'
      PROVE  Moved(f)'
  BY <1>b, <1>c, <1>m DEF Moved
<1>0. ASSUME got'["err"] = got["err"], wrote'["err"] = wrote["err"], UNCHANGED <<lines, errors, relay>>,
             ended \subseteq ended'
      PROVE  ErrInv'
  BY <1>0, <1>d, <1>m, <1>z
<1>1. CASE RelayLoops \/ RelayPopsNone \/ RelaySeesEnd \/ RelayCloses \/ RunThreads
  <2>1. UNCHANGED <<got, wrote, lines, errors, ended>> /\ relay' # "add"
    BY <1>1 DEF RelayLoops, RelayPopsNone, RelaySeesEnd, RelayCloses, RunThreads, RelayGoto
  <2>2. relay' \in {"loop", "pop", "popall"} => lines = <<>>
    BY <1>1, <1>d DEF RelayLoops, RelayPopsNone, RelaySeesEnd, RelayCloses, RunThreads, RelayGoto, BornInv
  <2> QED
    BY <1>m, <1>z, <2>1, <2>2
<1>2. CASE RelayPops
  <2>1. /\ relay = "pop" /\ relay' = "add" /\ UNCHANGED <<got, wrote, ended>>
        /\ errors # <<>> /\ errors' = Tail(errors) /\ lines' = <<Head(errors)>>
    BY <1>2 DEF RelayPops, RelayGoto
  <2>2. lines = <<>> /\ Len(lines) = 0
    BY <1>d, <2>1
  <2>3. Len(errors) \in Nat \ {0} /\ Len(errors') = Len(errors) - 1
    BY <1>a, <2>1, Shifted
  <2>4. Len(lines') = 1 /\ DOMAIN lines' = {1} /\ lines'[1] = Head(errors)
    <3>1. lines' = <<Head(errors)>>
      BY <2>1
    <3> QED
      BY <3>1
  <2>5. f + Len(lines) = f
    BY <1>a, <2>2
  <2>6. Head(errors) = f + 1 /\ After(f + 1, errors')
    <3>1. After(f, errors)
      BY <1>b, <2>5
    <3> QED
      BY <1>a, <2>1, <3>1, AfterTail
  <2>7. After(f, lines') /\ After(f + Len(lines'), errors')
    BY <2>1, <2>4, <2>6 DEF After
  <2>8. f + Len(lines') + Len(errors') = f + Len(lines) + Len(errors)
    BY <1>a, <2>1, <2>2, <2>3, <2>4
  <2>9. Moved(f)'
    BY <1>b, <1>c, <2>1, <2>7, <2>8 DEF Moved
  <2> QED
    BY <1>z, <2>1, <2>4, <2>9
<1>3. CASE RelayPopsAll
  <2>1. /\ relay = "popall" /\ relay' = "addall" /\ UNCHANGED <<got, wrote, ended>>
        /\ lines = <<>> /\ Len(lines) = 0
    BY <1>3, <1>d DEF RelayPopsAll, RelayGoto
  <2>2. PICK n \in 0..Len(errors) : /\ lines' = SubSeq(errors, 1, n)
                                    /\ errors' = SubSeq(errors, n + 1, Len(errors))
    BY <1>3 DEF RelayPopsAll
  <2>3. Len(lines') = n
    BY <1>a, <2>2, Begins
  <2>4. Len(errors') = Len(errors) - n
    BY <1>a, <2>2, Rests
  <2>5. f + Len(lines) = f
    BY <1>a, <2>1
  <2>6. After(f, lines') /\ After(f + n, errors')
    BY <1>a, <1>b, <2>2, <2>5, AfterSplit
  <2>7. f + Len(lines') + Len(errors') = f + Len(lines) + Len(errors)
    BY <1>a, <2>1, <2>3, <2>4
  <2>8. Moved(f)'
    BY <1>b, <1>c, <2>1, <2>3, <2>6, <2>7 DEF Moved
  <2> QED
    BY <1>z, <2>1, <2>8
<1>x. ASSUME relay \in {"add", "addall"}, lines # <<>>, UNCHANGED <<wrote, errors, ended>>,
             lines' = Tail(lines), relay' = (IF relay = "add" THEN "loop" ELSE "addall"),
             Kept(got'["err"], f + 1)
      PROVE  ErrInv'
  <2>1. /\ Len(lines) \in Nat \ {0} /\ Len(lines') = Len(lines) - 1 /\ lines' \in Seq(1..MaxLines)
    BY <1>a, <1>x, Shifted
  <2>2. After(f + 1, lines')
    BY <1>a, <1>b, <1>x, AfterTail
  <2>3. (f + 1) + Len(lines') = f + Len(lines)
    BY <2>1
  <2>4. Moved(f + 1)'
    BY <1>b, <1>c, <1>x, <2>2, <2>3 DEF Moved
  <2>5. relay' \in {"loop", "pop", "popall"} => lines' = <<>>
    <3>1. relay' \in {"loop", "pop", "popall"} => Len(lines) = 1
      BY <1>d, <1>x
    <3>2. Len(lines) = 1 => Len(lines') = 0
      BY <2>1
    <3> QED
      BY <2>1, <3>1, <3>2, EmptySeq
  <2>6. relay' # "add" /\ f + 1 \in Nat
    BY <1>x
  <2> QED
    BY <1>z, <2>4, <2>5, <2>6
<1>h. lines # <<>> => Head(lines) = f + 1 /\ f + 1 \in 1..MaxLines
  <2>1. lines # <<>> => Head(lines) \in 1..MaxLines
    BY <1>a, Shifted
  <2> QED
    BY <1>a, <1>b, <2>1, AfterTail
<1>10. CASE RelaySkips
  <2>1. /\ relay \in {"add", "addall"} /\ lines # <<>> /\ Head(lines) \in Blank
        /\ UNCHANGED <<wrote, errors, ended, got>>
        /\ lines' = Tail(lines)
        /\ relay' = (IF relay = "add" THEN "loop" ELSE "addall")
    BY <1>10 DEF RelaySkips, RelayGoto
  <2>2. Kept(got'["err"], f + 1)
    BY <1>a, <1>b, <1>h, <2>1, KeptSkip
  <2> QED
    BY <1>x, <2>1, <2>2
<1>4. CASE RelayAdds
  <2>1. /\ relay \in {"add", "addall"} /\ lines # <<>> /\ Head(lines) \notin Blank
        /\ UNCHANGED <<wrote, errors, ended>>
        /\ \/ /\ got' = [got EXCEPT !["err"] = Append(@, Head(lines))]
              /\ lines' = Tail(lines)
              /\ relay' = (IF relay = "add" THEN "loop" ELSE "addall")
           \/ relay' = "failed" /\ UNCHANGED <<got, lines>>
    BY <1>4 DEF RelayAdds, Deliver, RelayGoto
  <2>2. CASE relay' = "failed" /\ UNCHANGED <<got, lines>>
    BY <1>m, <1>z, <2>1, <2>2
  <2>3. CASE /\ got' = [got EXCEPT !["err"] = Append(@, Head(lines))]
             /\ lines' = Tail(lines)
             /\ relay' = (IF relay = "add" THEN "loop" ELSE "addall")
    <3>1. got'["err"] = Append(got["err"], f + 1)
      BY <1>h, <2>1, <2>3 DEF TypeOK
    <3>2. Kept(got'["err"], f + 1)
      BY <1>a, <1>b, <1>h, <2>1, <3>1, KeptAppend
    <3> QED
      BY <1>x, <2>1, <2>3, <3>2
  <2> QED
    BY <2>1, <2>2, <2>3
<1>5. CASE WorkerAdds
  <2>1. got'["err"] = got["err"] /\ UNCHANGED <<wrote, lines, errors, relay, ended>>
    BY <1>5 DEF WorkerAdds, Deliver, TypeOK
  <2> QED
    BY <1>0, <2>1
<1>6. ASSUME NEW s \in {"out", "err"}, Writes(s)
      PROVE  ErrInv'
  <2>1. /\ UNCHANGED <<got, lines, relay, ended>>
        /\ wrote' = [wrote EXCEPT ![s] = @ + 1]
        /\ wrote["out"] + wrote["err"] < MaxLines
        /\ errors' = IF s = "err" /\ s \notin ended THEN Append(errors, wrote'[s]) ELSE errors
    BY <1>6 DEF Writes
  <2>2. CASE s = "out"
    <3>1. wrote'["err"] = wrote["err"] /\ errors' = errors
      BY <2>1, <2>2 DEF TypeOK
    <3> QED
      BY <1>0, <2>1, <3>1
  <2>3. CASE s = "err"
    <3>1. wrote'["err"] = wrote["err"] + 1 /\ wrote'["err"] \in 1..MaxLines
      BY <1>6, <2>3, OneMore
    <3>2. CASE "err" \in ended
      <4>1. UNCHANGED <<got, lines, relay, ended, errors>>
        BY <2>1, <3>2
      <4>2. f + Len(lines) + Len(errors) <= wrote'["err"]
        BY <1>a, <1>c, <3>1
      <4>3. Moved(f)'
        BY <1>b, <3>2, <4>1, <4>2 DEF Moved
      <4> QED
        BY <1>d, <1>z, <4>1, <4>3
    <3>3. CASE "err" \notin ended
      <4>1. errors' = Append(errors, wrote'["err"])
        BY <2>1, <2>3, <3>3
      <4>2. Len(errors') = Len(errors) + 1
        BY <1>a, <3>1, <4>1, Appended
      <4>3. wrote["err"] = f + Len(lines) + Len(errors)
        BY <1>c, <3>3
      <4>4. After(f + Len(lines), errors')
        <5>1. f + Len(lines) \in Nat
          BY <1>a
        <5>2. wrote'["err"] = (f + Len(lines)) + Len(errors) + 1
          BY <3>1, <4>3
        <5> QED
          BY <1>a, <1>b, <3>1, <4>1, <5>1, <5>2, AfterAppend
      <4>5. f + Len(lines) + Len(errors') = wrote'["err"]
        <5>1. \A m, n \in Nat : m + (n + 1) = (m + n) + 1
          OBVIOUS
        <5>2. f + Len(lines) \in Nat
          BY <1>a
        <5>3. f + Len(lines) + (Len(errors) + 1) = wrote["err"] + 1
          BY <1>a, <4>3, <5>1, <5>2
        <5> QED
          BY <3>1, <4>2, <5>3
      <4>6. wrote'["err"] <= wrote'["err"]
        BY <3>1
      <4>7. Moved(f)'
        BY <1>b, <2>1, <4>4, <4>5, <4>6 DEF Moved
      <4> QED
        BY <1>d, <1>z, <2>1, <4>7
    <3> QED
      BY <3>2, <3>3
  <2> QED
    BY <2>2, <2>3
<1>7. ASSUME NEW s \in {"in", "out", "err"}, StreamEnds(s)
      PROVE  ErrInv'
  <2>1. UNCHANGED <<got, lines, relay, wrote>> /\ ended' = ended \cup {s}
    BY <1>7 DEF StreamEnds
  <2>2. CASE s # "err"
    <3>1. errors' = errors
      BY <1>7, <2>2 DEF StreamEnds
    <3> QED
      BY <1>0, <2>1, <3>1
  <2>3. CASE s = "err"
    <3>1. PICK n \in 0..Len(errors) : errors' = SubSeq(errors, 1, n)
      BY <1>7, <2>3 DEF StreamEnds
    <3>2. Len(errors') = n
      BY <1>a, <3>1, Begins
    <3>3. After(f + Len(lines), errors')
      <4>1. f + Len(lines) \in Nat
        BY <1>a
      <4> QED
        BY <1>a, <1>b, <3>1, <4>1, AfterSplit
    <3>4. f + Len(lines) + Len(errors') <= wrote["err"]
      BY <1>a, <1>c, <3>2
    <3>5. Moved(f)'
      BY <1>b, <2>1, <2>3, <3>3, <3>4 DEF Moved
    <3> QED
      BY <1>d, <1>z, <2>1, <3>5
  <2> QED
    BY <2>2, <2>3
<1>8. CASE \/ StartTimesOut \/ GreetPops \/ GreetEnds \/ GreetLate \/ GreetCode \/ GivenUp \/ SendCommand
           \/ WorkerLoops \/ WorkerPops \/ WorkerPopsNone \/ WorkerSeesEnd \/ WorkerGetsCode
           \/ CloseStdout \/ JoinRelay \/ AskExit \/ JoinShell
  <2>1. UNCHANGED <<got, wrote, lines, errors, relay, ended>>
    BY <1>8 DEF StartTimesOut, GreetPops, GreetEnds, GreetLate, GreetCode, GivenUp, SendCommand, Send,
       WorkerLoops, WorkerPops, WorkerPopsNone, WorkerSeesEnd, WorkerGetsCode,
       CloseStdout, JoinRelay, AskExit, JoinShell
  <2> QED
    BY <1>0, <2>1
<1>9. CASE \/ Stop \/ ProcessStops \/ ShellEchoes \/ ShellAsked \/ ShellSaysCode \/ ShellRuns \/ ShellSkips \/ ShellExits \/ Eats
           \/ CommandEnds \/ ShellDies \/ StopProcess \/ UNCHANGED vars \/ \E s \in {"out", "err"} : Read(s)
  <2>1. UNCHANGED <<got, wrote, lines, errors, relay, ended>>
    BY <1>9 DEF Stop, ProcessStops, ShellEchoes, ShellAsked, ShellSaysCode, ShellRuns, ShellSkips, ShellExits, Eats, CommandEnds,
       ShellDies, StopProcess, vars, Read
  <2> QED
    BY <1>0, <2>1
<1> QED
  BY <1>1, <1>2, <1>3, <1>4, <1>5, <1>6, <1>7, <1>8, <1>9, <1>10 DEF Next, Make, Work, Relay, WindUp

-----------------------------------------------------------------------------
\* The parts of the type invariant.
Places == /\ maker \in {"greet", "greetcode", "giveup", "threads", "send",
                        "sendblank", "sendask", "made", "failed"}
          /\ worker \in {"unborn", "loop", "pop", "add", "code", "close",
                         "joinrelay", "exit", "joinshell", "done", "failed"}
          /\ relay \in {"unborn", "loop", "pop", "add", "popall", "addall", "done", "failed"}
          /\ shell \in {"idle", "echoed", "marked", "busy", "hung", "ended"}
          /\ ran \in {"not", "running", "ended"}

Flags == /\ late \in BOOLEAN /\ raising \in BOOLEAN /\ asked \in BOOLEAN /\ stopped \in BOOLEAN
         /\ told \subseteq {"worker", "relay"}
         /\ closed \subseteq {"out", "err"}
         /\ ended \subseteq {"in", "out", "err"}

Numbers == /\ line \in 0..MaxLines \cup 0..2 /\ code \in 0..2
           /\ got \in [{"out", "err"} -> Lines]
           /\ read \in [{"out", "err"} -> 0..MaxLines]
           /\ wrote \in [{"out", "err"} -> 0..MaxLines]

Texts == /\ lines \in Lines /\ errors \in Lines
         /\ output \in Seq(Said)
         /\ input \in Seq({"ask", "command", "blank", "exit"})

\* The types of the variables, in four parts.
LEMMA TypeParts == TypeOK <=> Places /\ Flags /\ Numbers /\ Texts
<1>1. {late, raising, asked, stopped} \subseteq BOOLEAN
        <=> late \in BOOLEAN /\ raising \in BOOLEAN /\ asked \in BOOLEAN /\ stopped \in BOOLEAN
  OBVIOUS
<1> QED
  BY <1>1 DEF TypeOK, Places, Flags, Numbers, Texts

\* What is done to lines leaves lines.
LEMMA LinesStay ==
  ASSUME NEW q \in Lines
  PROVE  /\ \A e \in 1..MaxLines : Append(q, e) \in Lines
         /\ q # <<>> => Tail(q) \in Lines /\ Head(q) \in 1..MaxLines
         /\ \A n \in 0..Len(q) : SubSeq(q, 1, n) \in Lines /\ SubSeq(q, n + 1, Len(q)) \in Lines
<1>1. \A e \in 1..MaxLines : Append(q, e) \in Lines
  BY Appended DEF Lines
<1>2. q # <<>> => Tail(q) \in Lines /\ Head(q) \in 1..MaxLines
  BY Shifted DEF Lines
<1>3. \A n \in 0..Len(q) : SubSeq(q, 1, n) \in Lines /\ SubSeq(q, n + 1, Len(q)) \in Lines
  BY Begins, Rests DEF Lines
<1> QED
  BY <1>1, <1>2, <1>3

\* Every thread is at a place of its code.
LEMMA NextPlaces == TypeOK /\ [Next]_vars => Places'
<1> SUFFICES ASSUME TypeOK, Places, [Next]_vars
             PROVE  Places'
  BY TypeParts
<1> USE DEF making, working, relaying, own, program, ending
<1>1. CASE Make \/ Stop
  <2>1. /\ maker' \in {maker, "greet", "greetcode", "giveup", "threads", "send", "sendblank", "sendask", "made", "failed"}
        /\ worker' \in {worker, "loop"} /\ relay' \in {relay, "loop"}
        /\ shell' \in {shell, "ended"} /\ ran' = ran
    BY <1>1 DEF Make, StartTimesOut, GreetPops, GreetEnds, GreetLate, GreetCode, GivenUp, RunThreads,
       SendCommand, Send, Stop
  <2> QED
    BY <2>1 DEF Places
<1>2. CASE Work
  <2>1. /\ worker' \in {"loop", "pop", "add", "code", "close", "joinrelay", "exit", "joinshell", "done", "failed"}
        /\ shell' \in {shell, "ended"} /\ UNCHANGED <<maker, relay, ran>>
    BY <1>2 DEF Work, WorkerLoops, WorkerPops, WorkerPopsNone, WorkerSeesEnd, WorkerAdds, WorkerGetsCode,
       CloseStdout, JoinRelay, AskExit, JoinShell, WorkerGoto
  <2> QED
    BY <2>1 DEF Places
<1>3. CASE Relay
  <2>1. /\ relay' \in {"loop", "pop", "add", "popall", "addall", "done", "failed"}
        /\ UNCHANGED <<maker, worker, shell, ran>>
    BY <1>3 DEF Relay, RelayLoops, RelayPops, RelayPopsNone, RelaySeesEnd, RelayPopsAll, RelaySkips, RelayAdds,
       RelayCloses, RelayGoto
  <2> QED
    BY <2>1 DEF Places
<1>4. CASE WindUp \/ StopProcess \/ UNCHANGED vars \/ \E s \in {"out", "err"} : Read(s) \/ Writes(s)
  <2>1. UNCHANGED <<maker, worker, relay, shell, ran>>
    BY <1>4 DEF WindUp, StreamEnds, ProcessStops, StopProcess, vars, Read, Writes
  <2> QED
    BY <2>1 DEF Places
<1>5. CASE ShellEchoes \/ ShellAsked \/ ShellSaysCode \/ ShellRuns \/ ShellSkips \/ ShellExits \/ Eats \/ CommandEnds \/ ShellDies
  <2>1. /\ shell' \in {shell, "idle", "echoed", "marked", "busy", "hung", "ended"}
        /\ ran' \in {ran, "running", "ended"}
        /\ UNCHANGED <<maker, worker, relay>>
    BY <1>5 DEF ShellEchoes, ShellAsked, ShellSaysCode, ShellRuns, ShellSkips, ShellExits, Eats, CommandEnds, ShellDies
  <2> QED
    BY <2>1 DEF Places
<1> QED
  BY <1>1, <1>2, <1>3, <1>4, <1>5 DEF Next

\* The flags stay flags.
LEMMA NextFlags == TypeOK /\ [Next]_vars => Flags'
<1> SUFFICES ASSUME TypeOK, Flags, [Next]_vars
             PROVE  Flags'
  BY TypeParts
<1> USE DEF making, working, relaying, own, program, ending
<1>0. ASSUME late' = late \/ late' = TRUE, raising' = raising \/ raising' = TRUE,
             asked' = asked \/ asked' = TRUE, stopped' = stopped \/ stopped' = TRUE,
             told' \subseteq told \cup {"worker", "relay"},
             closed' \subseteq closed \cup {"out", "err"},
             ended' \subseteq ended \cup {"in", "out", "err"}
      PROVE  Flags'
  BY <1>0 DEF Flags
<1>1. CASE Make
  <2>1. (late' = late \/ late' = TRUE) /\ UNCHANGED <<raising, asked, stopped, told, closed, ended>>
    BY <1>1 DEF Make, StartTimesOut, GreetPops, GreetEnds, GreetLate, GreetCode, GivenUp, RunThreads,
       SendCommand, Send
  <2> QED
    BY <1>0, <2>1
<1>2. CASE Work
  <2>1. (raising' = raising \/ raising' = TRUE) /\ UNCHANGED <<late, asked, stopped, ended>>
    BY <1>2 DEF Work, WorkerLoops, WorkerPops, WorkerPopsNone, WorkerSeesEnd, WorkerAdds, WorkerGetsCode,
       CloseStdout, JoinRelay, AskExit, JoinShell
  <2>2. (told' = told \/ told' = told \cup {"relay"}) /\ (closed' = closed \/ closed' = closed \cup {"out"})
    BY <1>2 DEF Work, WorkerLoops, WorkerPops, WorkerPopsNone, WorkerSeesEnd, WorkerAdds, WorkerGetsCode,
       CloseStdout, JoinRelay, AskExit, JoinShell
  <2>3. told' \subseteq told \cup {"worker", "relay"} /\ closed' \subseteq closed \cup {"out", "err"}
    BY <2>2
  <2> QED
    BY <1>0, <2>1, <2>3
<1>3. CASE Relay
  <2>1. UNCHANGED <<late, raising, asked, stopped, told, ended>> /\ (closed' = closed \/ closed' = closed \cup {"err"})
    BY <1>3 DEF Relay, RelayLoops, RelayPops, RelayPopsNone, RelaySeesEnd, RelayPopsAll, RelaySkips, RelayAdds, RelayCloses
  <2>2. closed' \subseteq closed \cup {"out", "err"}
    BY <2>1
  <2> QED
    BY <1>0, <2>1, <2>2
<1>4. CASE Stop
  <2>1. told' \subseteq told \cup {"worker", "relay"}
    BY <1>4 DEF Stop
  <2>2. UNCHANGED <<late, raising, asked, stopped, closed, ended>>
    BY <1>4 DEF Stop
  <2> QED
    BY <1>0, <2>1, <2>2
<1>5. CASE WindUp
  <2>1. ended' \subseteq ended \cup {"in", "out", "err"}
    BY <1>5 DEF WindUp, ProcessStops, StreamEnds
  <2>2. (stopped' = stopped \/ stopped' = TRUE) /\ UNCHANGED <<late, raising, asked, told, closed>>
    BY <1>5 DEF WindUp, ProcessStops, StreamEnds
  <2> QED
    BY <1>0, <2>1, <2>2
<1>6. CASE \/ StopProcess \/ UNCHANGED vars \/ \E s \in {"out", "err"} : Read(s) \/ Writes(s)
           \/ ShellEchoes \/ ShellAsked \/ ShellSaysCode \/ ShellRuns \/ ShellSkips \/ ShellExits \/ Eats \/ CommandEnds \/ ShellDies
  <2>1. (asked' = asked \/ asked' = TRUE) /\ UNCHANGED <<late, raising, stopped, told, closed, ended>>
    BY <1>6 DEF StopProcess, vars, Read, Writes, ShellEchoes, ShellAsked, ShellSaysCode, ShellRuns, ShellSkips, ShellExits,
       Eats, CommandEnds, ShellDies
  <2> QED
    BY <1>0, <2>1
<1> QED
  BY <1>1, <1>2, <1>3, <1>4, <1>5, <1>6 DEF Next

\* No line has a number that the command did not write.
LEMMA NextNumbers == TypeOK /\ GotInv /\ SaidInv /\ ErrInv /\ [Next]_vars => Numbers'
<1> SUFFICES ASSUME TypeOK, Numbers, GotInv, SaidInv, ErrInv, [Next]_vars
             PROVE  Numbers'
  BY TypeParts
<1> USE DEF making, working, relaying, own, program, ending
<1>0. ASSUME UNCHANGED <<line, code, got, read, wrote>>
      PROVE  Numbers'
  BY <1>0 DEF Numbers
<1>1. CASE WorkerPops
  <2>1. output # <<>> /\ line' = Head(output).n /\ UNCHANGED <<code, got, read, wrote>>
    BY <1>1 DEF WorkerPops
  <2>2. Head(output) \in Said
    BY <2>1, Shifted DEF TypeOK
  <2>3. line' \in 0..MaxLines \cup 0..2
    BY <2>1, <2>2 DEF Said
  <2> QED
    BY <2>1, <2>3 DEF Numbers
<1>2. CASE WorkerGetsCode
  <2>1. /\ UNCHANGED <<line, got, read, wrote>> /\ worker = "code"
        /\ \/ code' = code
           \/ output # <<>> /\ Head(output).says = "code" /\ code' = Head(output).n
    BY <1>2 DEF WorkerGetsCode
  <2>2. ASSUME output # <<>>, Head(output).says = "code"
        PROVE  Head(output).n = 2
    <3>1. 1 \in DOMAIN output /\ Head(output) = output[1]
      BY <2>2, Shifted DEF TypeOK
    <3>2. Begun
      BY <2>1 DEF Begun
    <3> QED
      BY <2>2, <3>1, <3>2 DEF SaidInv
  <2>3. code' \in {code, 2}
    BY <2>1, <2>2
  <2> QED
    BY <2>1, <2>3 DEF Numbers
<1>3. CASE WorkerAdds
  <2>1. /\ UNCHANGED <<line, code, read, wrote>> /\ worker = "add"
        /\ got' = got \/ got' = [got EXCEPT !["out"] = Append(@, line)]
    BY <1>3 DEF WorkerAdds, Deliver
  <2>2. line \in 1..MaxLines
    <3>1. /\ line = Len(got["out"]) + 1 /\ line <= wrote["out"]
          /\ Len(got["out"]) \in Nat /\ wrote["out"] \in 0..MaxLines /\ MaxLines \in Nat
      BY <2>1, Typed DEF GotInv
    <3> QED
      BY <3>1
  <2>3. Append(got["out"], line) \in Lines
    BY <2>2, LinesStay DEF Numbers
  <2>4. got' \in [{"out", "err"} -> Lines]
    BY <2>1, <2>3 DEF Numbers
  <2> QED
    BY <2>1, <2>4 DEF Numbers
<1>4. CASE RelayAdds
  <2>1. /\ UNCHANGED <<line, code, read, wrote>> /\ lines # <<>>
        /\ got' = got \/ got' = [got EXCEPT !["err"] = Append(@, Head(lines))]
    BY <1>4 DEF RelayAdds, Deliver
  <2>2. Head(lines) \in 1..MaxLines
    BY <2>1, LinesStay DEF TypeOK
  <2>3. Append(got["err"], Head(lines)) \in Lines
    BY <2>2, LinesStay DEF Numbers
  <2>4. got' \in [{"out", "err"} -> Lines]
    BY <2>1, <2>3 DEF Numbers
  <2> QED
    BY <2>1, <2>4 DEF Numbers
<1>5. ASSUME NEW s \in {"out", "err"}, Read(s)
      PROVE  Numbers'
  <2>1. /\ UNCHANGED <<line, code, got, wrote>>
        /\ read' = [read EXCEPT ![s] = @ + 1] /\ read[s] < Len(got[s])
    BY <1>5 DEF Read
  <2>2. /\ Len(got[s]) <= wrote[s] /\ Len(got[s]) \in Nat /\ read[s] \in 0..MaxLines
        /\ wrote[s] \in 0..MaxLines /\ MaxLines \in Nat
    <3>1. /\ Len(got[s]) \in Nat /\ read[s] \in 0..MaxLines /\ wrote[s] \in 0..MaxLines /\ MaxLines \in Nat
      BY Typed
    <3>2. CASE s = "out"
      BY <3>1, <3>2 DEF GotInv
    <3>3. CASE s = "err"
      <4>1. PICK f \in Nat : Moved(f)
        BY DEF ErrInv
      <4>2. Len(lines) \in Nat /\ Len(errors) \in Nat
        BY Typed
      <4>3. Len(got["err"]) <= f /\ f + Len(lines) + Len(errors) <= wrote["err"]
        BY <4>1 DEF Moved, Kept
      <4> QED
        BY <3>1, <3>3, <4>2, <4>3
    <3> QED
      BY <3>1, <3>2, <3>3
  <2>3. read[s] + 1 \in 0..MaxLines
    BY <2>1, <2>2
  <2>4. read' \in [{"out", "err"} -> 0..MaxLines]
    BY <2>1, <2>3 DEF Numbers
  <2> QED
    BY <2>1, <2>4 DEF Numbers
<1>6. ASSUME NEW s \in {"out", "err"}, Writes(s)
      PROVE  Numbers'
  <2>1. /\ UNCHANGED <<line, code, got, read>>
        /\ wrote' = [wrote EXCEPT ![s] = @ + 1]
        /\ wrote["out"] + wrote["err"] < MaxLines
    BY <1>6 DEF Writes
  <2>2. wrote[s] + 1 \in 0..MaxLines
    BY <1>6, OneMore
  <2>3. wrote' \in [{"out", "err"} -> 0..MaxLines]
    BY <2>1, <2>2 DEF Numbers
  <2> QED
    BY <2>1, <2>3 DEF Numbers
<1>7. CASE Make \/ Stop \/ WindUp \/ StopProcess \/ UNCHANGED vars
  <2>1. UNCHANGED <<line, code, got, read, wrote>>
    BY <1>7 DEF Make, StartTimesOut, GreetPops, GreetEnds, GreetLate, GreetCode, GivenUp, RunThreads,
       SendCommand, Send, Stop, WindUp, StreamEnds, ProcessStops, StopProcess, vars
  <2> QED
    BY <1>0, <2>1
<1>8. CASE \/ ShellEchoes \/ ShellAsked \/ ShellSaysCode \/ ShellRuns \/ ShellSkips \/ ShellExits
           \/ Eats \/ CommandEnds \/ ShellDies
  <2>1. UNCHANGED <<line, code, got, read, wrote>>
    BY <1>8 DEF ShellEchoes, ShellAsked, ShellSaysCode, ShellRuns, ShellSkips, ShellExits, Eats, CommandEnds, ShellDies
  <2> QED
    BY <1>0, <2>1
<1>9. CASE \/ WorkerLoops \/ WorkerPopsNone \/ WorkerSeesEnd \/ CloseStdout \/ JoinRelay \/ AskExit \/ JoinShell
           \/ RelayLoops \/ RelayPops \/ RelayPopsNone \/ RelaySeesEnd \/ RelayPopsAll \/ RelaySkips \/ RelayCloses
  <2>1. UNCHANGED <<line, code, got, read, wrote>>
    BY <1>9 DEF WorkerLoops, WorkerPopsNone, WorkerSeesEnd, CloseStdout, JoinRelay, AskExit, JoinShell,
       RelayLoops, RelayPops, RelayPopsNone, RelaySeesEnd, RelayPopsAll, RelaySkips, RelayCloses
  <2> QED
    BY <1>0, <2>1
<1> QED
  BY <1>1, <1>2, <1>3, <1>4, <1>5, <1>6, <1>7, <1>8, <1>9 DEF Next, Work, Relay

\* The streams hold what can be said on them.
LEMMA NextTexts == TypeOK /\ [Next]_vars => Texts'
<1> SUFFICES ASSUME TypeOK, Texts, [Next]_vars
             PROVE  Texts'
  BY TypeParts
<1> USE DEF making, working, relaying, own, program, ending
<1>0. ASSUME UNCHANGED <<lines, errors, output, input>>
      PROVE  Texts'
  BY <1>0 DEF Texts
<1>1. ASSUME NEW text \in {"ask", "command", "blank", "exit"}, UNCHANGED <<lines, errors, output>>,
             input' = Append(input, text)
      PROVE  Texts'
  BY <1>1, Appended DEF Texts
<1>2. ASSUME NEW e \in Said, UNCHANGED <<lines, errors>>, input' = input \/ (input # <<>> /\ input' = Tail(input)),
             output' = output \/ output' = Append(output, e)
      PROVE  Texts'
  <2>1. output \in Seq(Said) /\ input \in Seq({"ask", "command", "blank", "exit"})
    BY DEF Texts
  <2>2. output' \in Seq(Said)
    <3>1. Append(output, e) \in Seq(Said)
      BY <2>1, Appended
    <3> QED
      BY <1>2, <2>1, <3>1
  <2>3. input' \in Seq({"ask", "command", "blank", "exit"})
    <3>1. input # <<>> => Tail(input) \in Seq({"ask", "command", "blank", "exit"})
      BY <2>1, Shifted
    <3> QED
      BY <1>2, <2>1, <3>1
  <2> QED
    BY <1>2, <2>2, <2>3 DEF Texts
<1>3. ASSUME output # <<>>, output' = Tail(output), UNCHANGED <<lines, errors, input>>
      PROVE  Texts'
  BY <1>3, Shifted DEF Texts
<1>4. CASE \/ StartTimesOut \/ GreetEnds \/ GreetLate \/ GivenUp \/ RunThreads \/ Stop \/ ProcessStops
           \/ StopProcess \/ UNCHANGED vars \/ \E s \in {"out", "err"} : Read(s)
  <2>1. UNCHANGED <<lines, errors, output, input>>
    BY <1>4 DEF StartTimesOut, GreetEnds, GreetLate, GivenUp, RunThreads, Stop, ProcessStops, StopProcess, vars, Read
  <2> QED
    BY <1>0, <2>1
<1>5. CASE GreetPops \/ GreetCode \/ WorkerPops \/ WorkerGetsCode
  <2>1. /\ UNCHANGED <<lines, errors, input>>
        /\ \/ output' = output
           \/ output # <<>> /\ output' = Tail(output)
    BY <1>5 DEF GreetPops, GreetCode, WorkerPops, WorkerGetsCode
  <2> QED
    BY <1>0, <1>3, <2>1
<1>6. CASE SendCommand \/ AskExit
  <2>1. /\ UNCHANGED <<lines, errors, output>>
        /\ \/ input' = input
           \/ \E text \in {"ask", "command", "blank", "exit"} : input' = Append(input, text)
    BY <1>6 DEF SendCommand, Send, AskExit
  <2> QED
    BY <1>0, <1>1, <2>1
<1>7. CASE \/ WorkerLoops \/ WorkerPopsNone \/ WorkerSeesEnd \/ WorkerAdds \/ CloseStdout \/ JoinRelay \/ JoinShell
           \/ RelayLoops \/ RelayPopsNone \/ RelaySeesEnd \/ RelayCloses
  <2>1. UNCHANGED <<lines, errors, output, input>>
    BY <1>7 DEF WorkerLoops, WorkerPopsNone, WorkerSeesEnd, WorkerAdds, CloseStdout, JoinRelay, JoinShell,
       RelayLoops, RelayPopsNone, RelaySeesEnd, RelayCloses
  <2> QED
    BY <1>0, <2>1
<1>8. CASE RelayPops
  <2>1. /\ errors # <<>> /\ errors' = Tail(errors) /\ lines' = <<Head(errors)>>
        /\ UNCHANGED <<output, input>>
    BY <1>8 DEF RelayPops
  <2>2. errors' \in Lines /\ Head(errors) \in 1..MaxLines
    BY <2>1, LinesStay DEF Texts
  <2>3. <<Head(errors)>> \in Lines
    BY <2>2 DEF Lines
  <2> QED
    BY <2>1, <2>2, <2>3 DEF Texts
<1>9. CASE RelayPopsAll
  <2>1. UNCHANGED <<output, input>>
    BY <1>9 DEF RelayPopsAll
  <2>2. PICK n \in 0..Len(errors) : lines' = SubSeq(errors, 1, n) /\ errors' = SubSeq(errors, n + 1, Len(errors))
    BY <1>9 DEF RelayPopsAll
  <2>3. lines' \in Lines /\ errors' \in Lines
    BY <2>2, LinesStay DEF Texts
  <2> QED
    BY <2>1, <2>3 DEF Texts
<1>10. CASE RelaySkips \/ RelayAdds
  <2>1. /\ UNCHANGED <<errors, output, input>>
        /\ lines' = lines \/ (lines # <<>> /\ lines' = Tail(lines))
    BY <1>10 DEF RelaySkips, RelayAdds
  <2>2. lines' \in Lines
    BY <2>1, LinesStay DEF Texts
  <2> QED
    BY <2>1, <2>2 DEF Texts
<1>11. CASE ShellAsked
  <2>1. /\ UNCHANGED <<lines, errors>> /\ input # <<>> /\ input' = Tail(input)
        /\ output' = output \/ output' = Append(output, Marker)
    BY <1>11 DEF ShellAsked, Idle
  <2>2. Marker \in Said
    BY DEF Marker, Says, Said
  <2> QED
    BY <1>2, <2>1, <2>2
<1>17. CASE ShellEchoes
  <2>1. /\ UNCHANGED <<lines, errors, input>>
        /\ output' = output \/ output' = Append(output, Says("prompt", wrote["out"]))
    BY <1>17 DEF ShellEchoes
  <2> QED
    BY <1>2, <2>1, EchoSaid
<1>12. CASE ShellSaysCode
  <2> DEFINE e == Says("code", IF ran = "not" THEN 1 ELSE 2)
  <2>1. UNCHANGED <<lines, errors, input>> /\ (output' = output \/ output' = Append(output, e))
    BY <1>12 DEF ShellSaysCode
  <2>2. e \in Said
    BY DEF Says, Said
  <2> QED
    BY <1>2, <2>1, <2>2
<1>13. CASE ShellRuns
  <2>1. /\ UNCHANGED <<lines, errors>> /\ input # <<>> /\ input' = Tail(input)
        /\ output' = output \/ output' = Append(output, Says("unknown", 0))
    BY <1>13 DEF ShellRuns, Idle
  <2>2. Says("unknown", 0) \in Said
    BY DEF Says, Said
  <2> QED
    BY <1>2, <2>1, <2>2
<1>14. CASE ShellSkips \/ ShellExits \/ Eats \/ CommandEnds \/ ShellDies
  <2>1. /\ UNCHANGED <<lines, errors, output>>
        /\ input' = input \/ (input # <<>> /\ input' = Tail(input))
    BY <1>14 DEF ShellSkips, ShellExits, Eats, CommandEnds, ShellDies, Idle
  <2>2. Marker \in Said
    BY DEF Marker, Says, Said
  <2> QED
    BY <1>2, <2>1, <2>2
<1>15. ASSUME NEW s \in {"out", "err"}, Writes(s)
       PROVE  Texts'
  <2>1. /\ UNCHANGED <<lines, input>> /\ wrote' = [wrote EXCEPT ![s] = @ + 1]
        /\ wrote["out"] + wrote["err"] < MaxLines
        /\ output' = output \/ output' = Append(output, Says("line", wrote'[s]))
        /\ errors' = errors \/ errors' = Append(errors, wrote'[s])
    BY <1>15 DEF Writes
  <2>2. wrote'[s] \in 1..MaxLines
    BY <1>15, OneMore
  <2>3. Says("line", wrote'[s]) \in Said
    <3>1. wrote'[s] \in 0..MaxLines \cup 0..2
      BY <2>2
    <3> QED
      BY <3>1 DEF Says, Said
  <2>4. output' \in Seq(Said)
    <3>1. output \in Seq(Said)
      BY DEF Texts
    <3>2. Append(output, Says("line", wrote'[s])) \in Seq(Said)
      BY <2>3, <3>1, Appended
    <3> QED
      BY <2>1, <3>1, <3>2
  <2>5. errors' \in Lines
    BY <2>1, <2>2, LinesStay DEF Texts
  <2> QED
    BY <2>1, <2>4, <2>5 DEF Texts
<1>16. ASSUME NEW s \in {"in", "out", "err"}, StreamEnds(s)
       PROVE  Texts'
  <2>1. /\ UNCHANGED <<lines, input>>
        /\ output' = output \/ \E n \in 0..Len(output) : output' = SubSeq(output, 1, n)
        /\ errors' = errors \/ \E n \in 0..Len(errors) : errors' = SubSeq(errors, 1, n)
    BY <1>16 DEF StreamEnds
  <2>2. output' \in Seq(Said)
    BY <2>1, Begins DEF Texts
  <2>3. errors' \in Lines
    BY <2>1, LinesStay DEF Texts
  <2> QED
    BY <2>1, <2>2, <2>3 DEF Texts
<1> QED
  BY <1>4, <1>5, <1>6, <1>7, <1>8, <1>9, <1>10, <1>11, <1>12, <1>13, <1>14, <1>15, <1>16, <1>17
     DEF Next, Make, Work, Relay, WindUp

-----------------------------------------------------------------------------
\* A Command that has just sent its first request satisfies all of it.
LEMMA InitIndInv == Init => IndInv
<1> SUFFICES ASSUME Init
             PROVE  IndInv
  OBVIOUS
<1>1. TypeOK
  <2>1. Places /\ Flags
    BY DEF Init, Places, Flags
  <2>2. Numbers
    <3>1. <<>> \in Lines
      BY DEF Lines
    <3> QED
      BY <3>1, CommandAssumption DEF Init, Numbers, CommandAssumption
  <2>3. Texts
    <3>1. Says("banner", 0) \in Said
      BY DEF Says, Said
    <3>2. <<>> \in Seq(Said) /\ <<Says("banner", 0)>> \in Seq(Said)
      BY <3>1
    <3>3. <<>> \in Lines
      BY DEF Lines
    <3>4. <<"ask">> \in Seq({"ask", "command", "blank", "exit"})
      OBVIOUS
    <3> QED
      BY <3>2, <3>3, <3>4 DEF Init, Texts
  <2> QED
    BY <2>1, <2>2, <2>3, TypeParts
<1>2. BornInv /\ GoneInv
  BY DEF Init, BornInv, GoneInv, Greeting, Last
<1>3. CommandInv
  <2>1. DOMAIN input = {1} /\ input[1] = "ask"
    BY DEF Init
  <2> QED
    BY <2>1 DEF Init, CommandInv
<1>4. GreetInv
  <2>1. \A i \in DOMAIN output : output[i] # Marker
    BY DEF Init, Marker, Says
  <2> QED
    BY <2>1 DEF Init, GreetInv
<1>5. ~Begun
  BY DEF Init, Begun
<1>6. AskInv /\ SaidInv /\ NextInv
  BY <1>5 DEF AskInv, SaidInv, NextInv
<1>7. GotInv /\ CodeInv
  BY DEF Init, GotInv, CodeInv
<1>8. ErrInv
  <2>1. Moved(0)
    BY DEF Init, Moved, Kept, After
  <2> QED
    BY <2>1 DEF Init, ErrInv
<1> QED
  BY <1>1, <1>2, <1>3, <1>4, <1>6, <1>7, <1>8 DEF IndInv

\* Every step of the maker, the worker, the relay, the shell and the Process
\* keeps it.
LEMMA NextIndInv == IndInv /\ [Next]_vars => IndInv'
<1> SUFFICES ASSUME IndInv, [Next]_vars
             PROVE  IndInv'
  OBVIOUS
<1>1. /\ TypeOK /\ BornInv /\ CommandInv /\ GreetInv /\ AskInv
      /\ GotInv /\ SaidInv /\ NextInv /\ CodeInv /\ ErrInv /\ GoneInv
  BY DEF IndInv
<1>2. TypeOK'
  <2>1. Places' /\ Flags' /\ Numbers' /\ Texts'
    BY <1>1, NextPlaces, NextFlags, NextNumbers, NextTexts
  <2>2. {late, raising, asked, stopped}' \subseteq BOOLEAN
    BY <2>1 DEF Flags
  <2> QED
    BY <2>1, <2>2 DEF TypeOK, Places, Flags, Numbers, Texts
<1>3. BornInv' /\ GoneInv' /\ CommandInv'
  BY <1>1, NextBorn, NextGone, NextCommand
<1>4. GreetInv' /\ AskInv'
  BY <1>1, NextGreet, NextAsk
<1>5. GotInv' /\ SaidInv' /\ NextInv'
  BY <1>1, NextOut
<1>6. CodeInv' /\ ErrInv'
  BY <1>1, NextCode, NextErr
<1> QED
  BY <1>2, <1>3, <1>4, <1>5, <1>6 DEF IndInv

\* It holds for ever.
LEMMA Invariance == Spec => []IndInv
  BY InitIndInv, NextIndInv, PTL DEF Spec

\* All variables have their types, whatever the command writes and when.
THEOREM TypeCorrect == Spec => []TypeOK
<1>1. IndInv => TypeOK
  BY DEF IndInv
<1> QED
  BY <1>1, Invariance, PTL

\* "The shell is gone by the time join() returns" (commands.py:31): when the
\* worker is over the shell has ended and both queues are closed, unless the
\* relay has failed.
THEOREM ShellIsGone == Spec => []ShellGone
<1>1. IndInv => ShellGone
  BY DEF IndInv, TypeOK, GoneInv, ShellGone, WorkerOver, Last
<1> QED
  BY <1>1, Invariance, PTL

\* The lines of self.stdout and self.stderr are those of the command, each once
\* and in order, up to some point: all of stdout, those of stderr that are not
\* blank, none of the shell.  The return code is that of the command, and comes
\* when none of its output is missing (commands.py:63-71, 125-144, 155-163).
THEOREM LinesAreExact == Spec => []LinesExact
<1>1. ASSUME IndInv
      PROVE  LinesExact
  <2>1. TypeOK /\ GotInv /\ CodeInv /\ ErrInv
    BY <1>1 DEF IndInv
  <2> DEFINE Exact(s) == /\ \A i, j \in DOMAIN got[s] : i < j => got[s][i] < got[s][j]
                         /\ \E n \in 0..wrote[s] :
                               {got[s][i] : i \in DOMAIN got[s]} =
                                  {k \in 1..n : s = "err" => k \notin Blank}
  <2>2. Exact("out")
    <3>1. /\ DOMAIN got["out"] = 1..Len(got["out"]) /\ Len(got["out"]) \in 0..wrote["out"]
          /\ \A i \in DOMAIN got["out"] : got["out"][i] = i
      BY <2>1, Typed DEF GotInv
    <3>2. {got["out"][i] : i \in DOMAIN got["out"]} = 1..Len(got["out"])
      BY <3>1
    <3> QED
      BY <3>1, <3>2
  <2>3. Exact("err")
    <3>1. PICK f \in Nat : Moved(f)
      BY <2>1 DEF ErrInv
    <3>2. Kept(got["err"], f)
      BY <3>1 DEF Moved
    <3>3. f \in 0..wrote["err"]
      <4>1. f + Len(lines) + Len(errors) <= wrote["err"]
        BY <3>1 DEF Moved
      <4>2. Len(lines) \in Nat /\ Len(errors) \in Nat /\ wrote["err"] \in Nat
        BY <2>1, Typed
      <4> QED
        BY <4>1, <4>2
    <3>4. {got["err"][i] : i \in DOMAIN got["err"]} = {k \in 1..f : k \notin Blank}
      BY <3>2 DEF Kept
    <3> QED
      BY <3>2, <3>3, <3>4 DEF Kept
  <2>4. code # 0 => code = 2 /\ Len(got["out"]) = wrote["out"]
    BY <2>1 DEF CodeInv
  <2>5. \A s \in {"out", "err"} : Exact(s)
    BY <2>2, <2>3
  <2> QED
    BY <2>4, <2>5 DEF LinesExact
<1> QED
  BY <1>1, Invariance, PTL
=============================================================================
