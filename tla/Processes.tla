----------------------------- MODULE Processes -----------------------------
(***************************************************************************)
(* The Process of src/mo_threads/processes.py: a program run by the        *)
(* operating system and the four threads around it.  Two readers move the  *)
(* lines of its output to queues, a writer moves lines to its input, and a *)
(* monitor polls it, kills it when it is silent for too long, and winds    *)
(* up.  All four share one please_stop.  Lines are counted, not named, and *)
(* a queue of output may be full whenever a reader adds to it.             *)
(***************************************************************************)
EXTENDS Integers

CONSTANTS MaxLines,  \* bounds: the lines the program writes to each stream
          MaxInput   \* bound: the lines it is sent

Streams == {"stdout", "stderr"}

ASSUME ProcessAssumption == /\ MaxLines \in [Streams -> Nat]
                            /\ MaxInput \in Nat

VARIABLES proc,           \* the program: "running", or how it ended
          returncode,     \* service.returncode, "none" until polled
          written,        \* lines the program wrote to each stream
          pipe,           \* lines in each output pipe
          open,           \* the streams someone can still write to
          stdin,          \* lines in self.stdin
          sent,           \* history: the lines put there
          closed,         \* the queues that are closed
          pleaseStop,     \* self.please_stop
          stopRequested,  \* self.stop_requested
          stopped,        \* self.stopped
          reader, writer, monitor,  \* where the threads are
          waitLimit,      \* the monitor's timer of one second: is it over?
          survived,       \* history: the kill() of join() raised
          caller          \* who joins the process: "waits", or what it was told

program == <<proc, returncode, written, pipe, open>>
queues == <<stdin, sent, closed>>
signals == <<pleaseStop, stopRequested, stopped>>
threads == <<reader, writer, monitor>>
joining == <<survived, caller>>
processVars == <<program, queues, signals, threads, waitLimit, joining>>

ProcessInit == /\ proc = "running"
               /\ returncode = "none"
               /\ written = [s \in Streams |-> 0]
               /\ pipe = [s \in Streams |-> 0]
               /\ open = Streams
               /\ stdin = 0
               /\ sent = 0
               /\ closed = {}
               /\ pleaseStop = FALSE
               /\ stopRequested = FALSE
               /\ stopped = FALSE
               /\ reader = [s \in Streams |-> "loop"]
               /\ writer = "loop"
               /\ monitor = "loop"
               /\ waitLimit = FALSE
               /\ survived = FALSE
               /\ caller = "waits"

-----------------------------------------------------------------------------
(***************************************************************************)
(* The program.  A stream is closed some time after it has ended, or never *)
(* if a process it has started keeps it open; it may also close a stream   *)
(* and go on.                                                              *)
(***************************************************************************)
WriteLine(s) == /\ proc = "running"
                /\ s \in open
                /\ written[s] < MaxLines[s]
                /\ written' = [written EXCEPT ![s] = @ + 1]
                /\ pipe' = [pipe EXCEPT ![s] = @ + 1]
                /\ UNCHANGED <<proc, returncode, open, queues, signals, threads, waitLimit, joining>>

CloseStream(s) == /\ s \in open
                  /\ open' = open \ {s}
                  /\ UNCHANGED <<proc, returncode, written, pipe, queues, signals, threads, waitLimit, joining>>

ProgramEnds(code) == /\ proc = "running"
                     /\ proc' = code
                     /\ UNCHANGED <<returncode, written, pipe, open, queues, signals, threads, waitLimit, joining>>

-----------------------------------------------------------------------------
(***************************************************************************)
(* _reader.                                                                *)
(***************************************************************************)
ReaderAt(s, label) == reader[s] = label
ReaderGoto(s, label) == reader' = [reader EXCEPT ![s] = label]

ReaderLoop(s) == /\ ReaderAt(s, "loop")
                 /\ ReaderGoto(s, IF pleaseStop \/ returncode # "none" THEN "signal" ELSE "read")
                 /\ UNCHANGED <<program, queues, signals, writer, monitor, waitLimit, joining>>

\* readline() returns a line, or nothing at the end of the stream.
ReadLine(s) == /\ ReaderAt(s, "read")
               /\ \/ /\ pipe[s] > 0
                     /\ pipe' = [pipe EXCEPT ![s] = @ - 1]
                     /\ ReaderGoto(s, "add")
                  \/ /\ pipe[s] = 0 /\ s \notin open
                     /\ ReaderGoto(s, "signal")
                     /\ UNCHANGED pipe
               /\ UNCHANGED <<proc, returncode, written, open, queues, signals, writer, monitor, waitLimit, joining>>

\* receive.add() raises if the queue is closed, and after ten minutes if it
\* is full; the reader ends then.
AddLine(s) == /\ ReaderAt(s, "add")
              /\ \/ s \notin closed /\ ReaderGoto(s, "loop")
                 \/ ReaderGoto(s, "signal")
              /\ UNCHANGED <<program, queues, signals, writer, monitor, waitLimit, joining>>

ReaderSignals(s) == /\ ReaderAt(s, "signal")
                    /\ pleaseStop' = TRUE
                    /\ ReaderGoto(s, "close")
                    /\ UNCHANGED <<program, queues, stopRequested, stopped, writer, monitor, waitLimit, joining>>

\* Mutant: the queue is left open.
ReaderLeaves(s) == /\ ReaderAt(s, "close")
                   /\ ReaderGoto(s, "done")
                   /\ UNCHANGED <<program, queues, signals, writer, monitor, waitLimit, joining>>

ReaderCloses(s) == /\ ReaderAt(s, "close")
                   /\ closed' = closed \cup {s}
                   /\ ReaderGoto(s, "done")
                   /\ UNCHANGED <<program, stdin, sent, signals, writer, monitor, waitLimit, joining>>

-----------------------------------------------------------------------------
(***************************************************************************)
(* _writer.                                                                *)
(***************************************************************************)
\* The head of the loop, and the pop() that waits for a line, for the end of
\* the queue or for please_stop.
WriterPops ==
    /\ writer = "loop"
    /\ \/ /\ pleaseStop
          /\ writer' = "done"
          /\ UNCHANGED <<stdin, pleaseStop>>
       \/ /\ ~pleaseStop /\ stdin > 0
          /\ stdin' = stdin - 1
          /\ writer' = "write"
          /\ UNCHANGED pleaseStop
       \/ /\ ~pleaseStop /\ stdin = 0 /\ "stdin" \in closed
          /\ pleaseStop' = TRUE
          /\ writer' = "done"
          /\ UNCHANGED stdin
    /\ UNCHANGED <<program, sent, closed, stopRequested, stopped, reader, monitor, waitLimit, joining>>

\* The write() returns when the program reads, and raises when it has ended.
LineWritten == /\ writer = "write"
               /\ writer' = IF proc = "running" THEN "loop" ELSE "done"
               /\ UNCHANGED <<program, queues, signals, reader, monitor, waitLimit, joining>>

-----------------------------------------------------------------------------
(***************************************************************************)
(* _monitor.                                                               *)
(***************************************************************************)
MonitorGoto(label) == monitor' = label

MonitorStops == /\ monitor = "loop"
                /\ pleaseStop
                /\ MonitorGoto("stdout")
                /\ UNCHANGED <<program, queues, signals, reader, writer, waitLimit, joining>>

MonitorPolls == /\ monitor = "loop"
                /\ ~pleaseStop
                /\ MonitorGoto("poll")
                /\ UNCHANGED <<program, queues, signals, reader, writer, waitLimit, joining>>

Code == IF proc = "zero" THEN "zero" ELSE "nonzero"

\* service.wait() for half a second.
Polled == /\ monitor = "poll"
          /\ \/ /\ proc = "running"
                /\ MonitorGoto("loop")
                /\ UNCHANGED returncode
             \/ /\ proc # "running"
                /\ returncode' = Code
                /\ MonitorGoto("stdout")
          /\ UNCHANGED <<proc, written, pipe, open, queues, signals, reader, writer, waitLimit, joining>>

\* kill(): nothing is done if the return code is known.  A kill that raises is
\* only warned about.
Kill(raises) == IF returncode = "none" /\ proc = "running" /\ ~raises
                  THEN proc' = "killed"
                  ELSE UNCHANGED proc

\* Nothing was read for longer than the timeout.
FoundSilent == /\ monitor = "loop"
               /\ ~pleaseStop
               /\ \E raises \in BOOLEAN : Kill(raises)
               /\ MonitorGoto("stdout")
               /\ UNCHANGED <<returncode, written, pipe, open, queues, signals, reader, writer, waitLimit, joining>>

After(s) == IF s = "stdout" THEN "stderr" ELSE "stdin"

\* Mutant: the monitor waits for a reader that may never come back.
JoinReaderPatiently(s) == /\ monitor = s
                          /\ ReaderAt(s, "done")
                          /\ MonitorGoto(After(s))
                          /\ UNCHANGED <<program, queues, signals, reader, writer, waitLimit, joining>>

\* The join of a reader, and what is done when it is late.
JoinReader(s) == /\ monitor = s
                 /\ \/ /\ ReaderAt(s, "done")
                       /\ UNCHANGED closed
                    \/ /\ ~ReaderAt(s, "done")
                       /\ waitLimit
                       /\ closed' = closed \cup {s}
                 /\ MonitorGoto(After(s))
                 /\ UNCHANGED <<program, stdin, sent, signals, reader, writer, waitLimit, joining>>

WaitLimitFires == /\ monitor \in Streams
                  /\ ~waitLimit
                  /\ waitLimit' = TRUE
                  /\ UNCHANGED <<program, queues, signals, threads, joining>>

CloseStdin == /\ monitor = "stdin"
              /\ closed' = closed \cup {"stdin"}
              /\ MonitorGoto("writer")
              /\ UNCHANGED <<program, stdin, sent, signals, reader, writer, waitLimit, joining>>

JoinWriter == /\ monitor = "writer"
              /\ writer = "done"
              /\ stopped' = TRUE
              /\ MonitorGoto("done")
              /\ UNCHANGED <<program, queues, pleaseStop, stopRequested, reader, writer, waitLimit, joining>>

-----------------------------------------------------------------------------
(***************************************************************************)
(* The users of the process.  One of them is in join() from the beginning, *)
(* where it does nothing before `stopped` is activated, or its till if it  *)
(* has one.                                                                *)
(***************************************************************************)
SendLine == /\ "stdin" \notin closed
            /\ sent < MaxInput
            /\ sent' = sent + 1
            /\ stdin' = stdin + 1
            /\ UNCHANGED <<program, closed, signals, threads, waitLimit, joining>>

NoMoreInput == /\ "stdin" \notin closed
               /\ closed' = closed \cup {"stdin"}
               /\ UNCHANGED <<program, stdin, sent, signals, threads, waitLimit, joining>>

Stop == /\ ~stopRequested
        /\ stopRequested' = TRUE
        /\ pleaseStop' = TRUE
        /\ UNCHANGED <<program, queues, stopped, threads, waitLimit, joining>>

\* Mutant: a program without a return code is taken for dead.
LeavesRunning == /\ caller = "waits"
                 /\ caller' = CASE returncode = "none" -> IF stopRequested THEN "ok" ELSE "timeout"
                                [] returncode = "zero" -> "ok"
                                [] OTHER -> "failed"
                 /\ UNCHANGED <<program, queues, signals, threads, waitLimit, survived>>

\* What join() does when it has waited.
Concludes == /\ caller = "waits"
             /\ \/ /\ returncode = "none"
                   /\ \E raises \in BOOLEAN : Kill(raises) /\ survived' = raises
                   /\ caller' = IF stopRequested THEN "ok" ELSE "timeout"
                \/ /\ returncode # "none"
                   /\ caller' = IF returncode = "zero" THEN "ok" ELSE "failed"
                   /\ UNCHANGED <<proc, survived>>
             /\ UNCHANGED <<returncode, written, pipe, open, queues, signals, threads, waitLimit>>

JoinEnds == stopped /\ Concludes

\* The till of the join(), if it has one, fires first.
JoinGivesUp == ~stopped /\ Concludes

-----------------------------------------------------------------------------
Reader(s) == ReaderLoop(s) \/ ReadLine(s) \/ AddLine(s) \/ ReaderSignals(s) \/ ReaderCloses(s)
Monitor == MonitorStops \/ MonitorPolls \/ Polled \/ FoundSilent \/ CloseStdin \/ JoinWriter
             \/ \E s \in Streams : JoinReader(s)

ProcessNext == \/ \E s \in Streams : WriteLine(s) \/ CloseStream(s) \/ Reader(s)
               \/ \E code \in {"zero", "nonzero"} : ProgramEnds(code)
               \/ WriterPops \/ LineWritten \/ Monitor \/ WaitLimitFires
               \/ SendLine \/ NoMoreInput \/ Stop \/ JoinEnds \/ JoinGivesUp

\* The threads run, timers fire, a program that stays silent is found out in
\* the end, and a write to a program that has ended fails.  Nothing is assumed
\* of a running program, which need not read, write or end, nor of a till of
\* join(), which need not be there.
ProcessFairness == /\ \A s \in Streams : WF_processVars(Reader(s))
                   /\ WF_processVars(WriterPops)
                   /\ WF_processVars(proc # "running" /\ LineWritten)
                   /\ WF_processVars(Monitor) /\ SF_processVars(FoundSilent)
                   /\ WF_processVars(WaitLimitFires)
                   /\ WF_processVars(JoinEnds)

ProcessSpec == ProcessInit /\ [][ProcessNext]_processVars /\ ProcessFairness
-----------------------------------------------------------------------------
ProcessTypeOK == /\ {DOMAIN written, DOMAIN pipe} = {Streams}
                 /\ proc \in {"running", "zero", "nonzero", "killed"}
                 /\ returncode \in {"none", "zero", "nonzero"}
                 /\ \A s \in Streams : written[s] \in 0..MaxLines[s] /\ pipe[s] \in 0..written[s]
                 /\ open \subseteq Streams
                 /\ stdin \in 0..MaxInput
                 /\ sent \in 0..MaxInput
                 /\ closed \subseteq Streams \cup {"stdin"}
                 /\ {pleaseStop, stopRequested, stopped, waitLimit, survived} \subseteq BOOLEAN
                 /\ reader \in [Streams -> {"loop", "read", "add", "signal", "close", "done"}]
                 /\ writer \in {"loop", "write", "done"}
                 /\ monitor \in {"loop", "poll", "stdin", "writer", "done"} \cup Streams
                 /\ caller \in {"waits", "ok", "timeout", "failed"}

\* When a process says it is stopped, whoever pops from its output comes to an
\* end, and nobody writes to its input any more: all its queues are closed,
\* also that of a reader that is stuck on its pipe (processes.py:242-268).
StoppedMeansClosed == stopped => closed = Streams \cup {"stdin"} /\ writer = "done"

\* A program survives its join() only if the kill() of that very join() raised
\* and was warned about: otherwise it has ended or was killed, also when the
\* monitor broke off on please_stop and left it running, when the monitor's own
\* kill() failed, and when the till ended join() before any of the four threads
\* was over (processes.py:176-184, 327-341).
JoinLeavesNone ==
    caller \in {"ok", "timeout", "failed"} => proc # "running" \/ survived

\* The writer is in a write() that the program does not take.
StuckWriting == writer = "write" /\ proc = "running"

\* Whatever ends the process, join() gets through, unless the writer is stuck:
\* a reader that never comes back does not hold it up (processes.py:239-266).
\* A silent program ends it too, whether or not the monitor's kill() succeeds.
StopsInTheEnd == caller = "waits" ~> caller # "waits" \/ StuckWriting
=============================================================================
