---------------------------- MODULE PythonProofs ----------------------------
(***************************************************************************)
(* Python and Process.  Of a Python, for any number of callers and         *)
(* commands: one command is on its way at most, and the answer a call      *)
(* comes back with is its own.  Of a Process, for any number of lines:     *)
(* when it says it is stopped it has closed its queues and its writer has  *)
(* left, and no program survives a join().  The two specifications share   *)
(* no variable, and every theorem is about one of them.                    *)
(***************************************************************************)
EXTENDS Python, Processes, TLAPS

\* The call whose Signal is in self.done is the last one let through, and the
\* watcher is started when __init__ is through.
LastInv == /\ done = Len(kind) /\ 0 \in fired
           /\ maker = "starting" => watcher = "unborn"

\* A command is where it was sent to, and nowhere else.
NoAnswer == \A i \in DOMAIN output : ~IsAnswer(output[i])
Quiet == input = <<>> /\ worker # "busy" /\ NoAnswer /\ ~Pending
InputInv == input # <<>> =>
               Len(input) = 1 /\ input[1] = done /\ worker # "busy" /\ NoAnswer /\ ~Pending
BusyInv == worker = "busy" => works = done /\ NoAnswer /\ ~Pending
OutputInv == \A i \in DOMAIN output : IsAnswer(output[i]) =>
                /\ output[i].call = done
                /\ output[i].says = "err" <=> kind[done] = "fails"
                /\ ~Pending
                /\ \A k \in DOMAIN output : IsAnswer(output[k]) => i = k
LineInv == /\ watcher = "go" => IsAnswer(line)
           /\ Pending => line.call = done /\ (line.says = "err" <=> kind[done] = "fails")
TrafficInv == InputInv /\ BusyInv /\ OutputInv /\ LineInv /\ (done \in fired => Quiet)

\* A caller that was let through has a number of its own, and has sent nothing
\* before it has cleared what was left.
CallerInv == /\ \A c \in Callers : pc[c] \in {"look", "wait", "take"} => todo[c] # <<>>
             /\ \A c \in Callers : pc[c] \in Inside => mine[c] \in Calls
             /\ \A c \in Callers : pc[c] \in {"clear", "send"} =>
                                      mine[c] = done /\ done \notin fired /\ Quiet
             /\ \A c, d \in Callers : mine[c] = mine[d] /\ mine[c] # 0 => c = d

\* No answer is older than a call that has cleared.
FreshInv == \A c \in Callers :
               /\ pc[c] \in Inside \ {"clear"} =>
                     (response = 0 \/ response >= mine[c]) /\ (error = 0 \/ error >= mine[c])
               /\ pc[c] \in {"raising", "returning"} => got[c] = 0 \/ got[c] >= mine[c]

\* How far the answer of done has come.
Unanswered == response = 0 /\ error = 0
Answered == IF kind[done] = "fails" THEN error = done /\ response = 0
                                    ELSE response = done /\ error = 0
Lone(c) == pc[c] \in Inside /\ mine[c] \notin overlapped
LoneHas(c) == /\ Others(c) = {} /\ mine[c] = done
              /\ pc[c] \in {"send", "lookagain", "waitagain"} =>
                    IF watcher = "go" \/ done \in fired THEN Answered ELSE Unanswered
              /\ pc[c] = "waitagain" => on[c] = done
              /\ pc[c] \in {"read", "raise", "return"} => done \in fired /\ Answered
              /\ pc[c] = "raise" => kind[done] = "fails"
              /\ pc[c] = "return" => kind[done] # "fails"
              /\ pc[c] \in {"raising", "returning"} =>
                    got[c] = mine[c] /\ (pc[c] = "raising" <=> kind[done] = "fails")
LoneInv == \A c \in Callers : Lone(c) => LoneHas(c)

IndInv == TypeOK /\ LastInv /\ TrafficInv /\ CallerInv /\ FreshInv /\ LoneInv
-----------------------------------------------------------------------------
\* The initial state satisfies the inductive invariant.
LEMMA InitIndInv == Init => IndInv
<1> SUFFICES ASSUME Init PROVE IndInv
    OBVIOUS
<1> USE PythonAssumption DEF PythonAssumption, Init, vars
<1>0. told \in BOOLEAN /\ outputClosed \in BOOLEAN /\ asked \in BOOLEAN
    OBVIOUS
<1>1. todo \in [Callers -> Seq(AllKinds)]
    OBVIOUS
<1>2. TypeOK
    BY <1>0, <1>1 DEF TypeOK, Inside, NoLine, Calls
<1>3. LastInv
    BY DEF LastInv
<1>4. TrafficInv
    BY DEF TrafficInv, InputInv, BusyInv, OutputInv, LineInv, Quiet, NoAnswer, Pending
<1>5. CallerInv /\ FreshInv /\ LoneInv
    BY DEF CallerInv, FreshInv, LoneInv, Lone, Inside
<1> QED
    BY <1>2, <1>3, <1>4, <1>5 DEF IndInv

\* Every step keeps the type invariant.
LEMMA TypeNext == TypeOK /\ LastInv /\ TrafficInv /\ CallerInv /\ [Next]_vars => TypeOK'
<1> SUFFICES ASSUME TypeOK, LastInv, TrafficInv, CallerInv, [Next]_vars
             PROVE  TypeOK'
    OBVIOUS
<1> DEFINE Lines == [says : {"ok", "other", "out", "err"}, call : Calls \cup {0}]
<1> USE DEF TypeOK, Goto, At, Inside, Calls, WatcherGoto, callers, shared, watching, streams, process
<1>0. output \in Seq(Lines)
    OBVIOUS
<1>1. ASSUME NEW c \in Callers, Call(c) PROVE TypeOK'
    BY <1>1 DEF Call
<1>2. ASSUME NEW c \in Callers, Look(c) PROVE TypeOK'
    BY <1>2 DEF Look
<1>3. ASSUME NEW c \in Callers, Wait(c) PROVE TypeOK'
    BY <1>3 DEF Wait
<1>4. ASSUME NEW c \in Callers, Take(c) PROVE TypeOK'
  <2>1. CASE kind' = kind
    <3>1. done \notin fired
      BY <1>4, <2>1 DEF Take, LetThrough
    <3>2. /\ pc' = [pc EXCEPT ![c] = "look"]
          /\ UNCHANGED <<todo, mine, kind, done, overlapped>>
      BY <1>4, <3>1 DEF Take
    <3> QED
      BY <1>4, <3>2 DEF Take
  <2>2. CASE kind' # kind
    <3>1. /\ todo[c] # <<>> /\ Head(todo[c]) \in AllKinds /\ Tail(todo[c]) \in Seq(AllKinds)
          /\ kind' = Append(kind, Head(todo[c])) /\ Len(kind') = Len(kind) + 1
          /\ todo' = [todo EXCEPT ![c] = Tail(todo[c])]
          /\ done' = Len(kind) + 1 /\ mine' = [mine EXCEPT ![c] = Len(kind) + 1]
          /\ pc' = [pc EXCEPT ![c] = "clear"]
      BY <1>4, <2>2 DEF Take, LetThrough, CallerInv
    <3>2. Calls \subseteq Calls' /\ Len(kind) + 1 \in Calls'
      BY <3>1
    <3>3. overlapped' \subseteq Calls'
      <4>1. {mine[d] : d \in Others(c)} \subseteq Calls
        BY DEF Others, CallerInv
      <4> QED
        BY <4>1, <3>2, <1>4, <2>2 DEF Take, LetThrough
    <3>4. input' \in Seq(Calls') /\ works' \in Calls' \cup {0}
      BY <1>4, <3>2 DEF Take
    <3>5. /\ output' \in Seq([says : {"ok", "other", "out", "err"}, call : Calls' \cup {0}])
          /\ line' \in [says : {"none", "ok", "other", "out", "err"}, call : Calls' \cup {0}]
      <4> DEFINE New == [says : {"ok", "other", "out", "err"}, call : Calls' \cup {0}]
      <4>1. Lines \subseteq New
        BY <3>2
      <4> HIDE DEF Lines, New
      <4>2. output' \in Seq(New)
        BY <1>0, <1>4, <4>1 DEF Take
      <4>3. line' = line /\ line \in [says : {"none", "ok", "other", "out", "err"}, call : Calls \cup {0}]
        BY <1>4 DEF Take
      <4> USE DEF New
      <4> HIDE DEF Calls
      <4> QED
        BY <4>2, <4>3, <3>2
    <3>6. /\ response' \in Calls' \cup {0} /\ error' \in Calls' \cup {0} /\ done' \in Calls' \cup {0}
          /\ fired' \subseteq Calls' \cup {0}
      BY <1>4, <3>1, <3>2 DEF Take
    <3>7. /\ on' \in [Callers -> Calls' \cup {0}] /\ got' \in [Callers -> Calls' \cup {0}]
          /\ mine' \in [Callers -> Calls' \cup {0}]
      BY <1>4, <3>1, <3>2 DEF Take
    <3>8. /\ kind' \in Seq(AllKinds) /\ todo' \in [Callers -> Seq(AllKinds)]
          /\ pc' \in [Callers -> {"idle", "look", "wait", "take"} \cup Inside]
      BY <3>1
    <3>9. told' \in BOOLEAN /\ outputClosed' \in BOOLEAN /\ asked' \in BOOLEAN
      BY <1>4 DEF Take
    <3>10. /\ maker' \in {"starting", "ready", "failed"}
           /\ watcher' \in {"unborn", "loop", "line", "go", "failed", "done"}
           /\ worker' \in {"starting", "idle", "busy", "ended"}
           /\ other' \in 0..MaxOther
      BY <1>4 DEF Take
    <3> HIDE DEF Calls, Inside
    <3> QED
      BY <3>3, <3>4, <3>5, <3>6, <3>7, <3>8, <3>9, <3>10
  <2> QED
    BY <2>1, <2>2
<1>5. ASSUME NEW c \in Callers, Clear(c) PROVE TypeOK'
    BY <1>5 DEF Clear
<1>6. ASSUME NEW c \in Callers, Send(c) PROVE TypeOK'
  <2>1. pc' \in [Callers -> {"idle", "look", "wait", "take"} \cup Inside]
    <3>1. pc' = [pc EXCEPT ![c] = "idle"] \/ pc' = [pc EXCEPT ![c] = "lookagain"]
      BY <1>6 DEF Send
    <3> QED
      BY <3>1
  <2>2. input' \in Seq(Calls)
    <3>1. mine[c] \in Calls
      BY <1>6 DEF Send, CallerInv
    <3>2. input' = input \/ input' = Append(input, mine[c])
      BY <1>6 DEF Send
    <3>3. input \in Seq(Calls)
      OBVIOUS
    <3> HIDE DEF Calls, TypeOK
    <3> QED
      BY <3>1, <3>2, <3>3
  <2>3. /\ UNCHANGED <<maker, todo, mine, on, got, shared, watching, output, process>>
        /\ outputClosed' \in BOOLEAN
    BY <1>6 DEF Send
  <2> QED
    BY <2>1, <2>2, <2>3
<1>7. ASSUME NEW c \in Callers, ReadError(c) PROVE TypeOK'
    BY <1>7 DEF ReadError
<1>8. ASSUME NEW c \in Callers, ReadAnswer(c) PROVE TypeOK'
    BY <1>8 DEF ReadAnswer
<1>9. ASSUME NEW c \in Callers, Leave(c) PROVE TypeOK'
  <2>1. pc' \in [Callers -> {"idle", "look", "wait", "take"} \cup Inside]
    BY <1>9 DEF Leave
  <2>2. asked' \in BOOLEAN /\ told' \in BOOLEAN
    BY <1>9 DEF Leave
  <2>3. outputClosed' \in BOOLEAN
    BY <1>9 DEF Leave
  <2>4. kind' = kind
    BY <1>9 DEF Leave
  <2> QED
    BY <1>9, <2>1, <2>2, <2>3, <2>4 DEF Leave
<1>10. CASE MakerPops
  <2>1. output' \in Seq(Lines)
    <3> HIDE DEF Lines, TypeOK
    <3>1. output' = output \/ (output # <<>> /\ output' = Tail(output))
      BY <1>10 DEF MakerPops
    <3> QED
      BY <1>0, <3>1
  <2>2. maker' \in {"starting", "ready", "failed"} /\ watcher' \in {"unborn", "loop", "line", "go", "failed", "done"}
    BY <1>10 DEF MakerPops
  <2>3. UNCHANGED <<callers, shared, line, told, input, outputClosed, process>>
    BY <1>10 DEF MakerPops
  <2> QED
    BY <2>1, <2>2, <2>3
<1>11. CASE WatcherStops
    BY <1>11 DEF WatcherStops
<1>12. CASE WatcherPops
  <2>1. output' \in Seq(Lines) /\ line' \in Lines
    <3> HIDE DEF Lines
    <3> QED
      BY <1>0, <1>12 DEF WatcherPops
  <2> QED
    BY <2>1, <1>12 DEF WatcherPops
<1>13. CASE WatcherSeesEnd
    BY <1>13 DEF WatcherSeesEnd
<1>14. CASE WatcherPasses
    BY <1>14 DEF WatcherPasses, NoLine
<1>15. CASE WatcherKeeps
    BY <1>15, SMTT(30) DEF WatcherKeeps, Keep
<1>16. CASE WatcherGoes
    BY <1>16, ZenonT(40) DEF WatcherGoes, NoLine
<1>17. CASE WorkerStarts
    BY <1>17 DEF WorkerStarts, Line
<1>18. CASE WorkerSaysOther
  <2>1. Line("other", 0) \in Lines
    BY DEF Line
  <2>2. output' \in Seq(Lines)
    <3> HIDE DEF Lines
    <3> QED
      BY <1>0, <1>18, <2>1 DEF WorkerSaysOther
  <2>3. other' \in 0..MaxOther
    BY <1>18, PythonAssumption DEF WorkerSaysOther, PythonAssumption
  <2> QED
    BY <2>2, <2>3, <1>18 DEF WorkerSaysOther
<1>19. CASE WorkerReads
    BY <1>19 DEF WorkerReads
<1>20. CASE WorkerAnswers
  <2>1. Answer(works) \in Seq(Lines)
    <3>1. /\ Line("out", works) \in Lines /\ Line("err", works) \in Lines
          /\ Line("other", 0) \in Lines
      BY DEF Line
    <3>2. \/ Answer(works) = <<Line("out", works)>> \/ Answer(works) = <<Line("err", works)>>
          \/ Answer(works) = <<Line("other", 0)>> \/ Answer(works) = <<>>
      BY DEF Answer
    <3> HIDE DEF Lines, TypeOK
    <3>3. \A l \in Lines : <<l>> \in Seq(Lines)
      OBVIOUS
    <3>4. <<>> \in Seq(Lines)
      OBVIOUS
    <3> QED
      BY <3>1, <3>2, <3>3, <3>4, Zenon
  <2>2. output' \in Seq(Lines)
    <3> HIDE DEF Lines
    <3> QED
      BY <1>0, <1>20, <2>1 DEF WorkerAnswers
  <2>3. works' \in Calls' \cup {0} /\ worker' \in {"starting", "idle", "busy", "ended"}
    BY <1>20 DEF WorkerAnswers
  <2>4. UNCHANGED <<maker, callers, shared, watching, input, outputClosed, other, asked>>
    BY <1>20 DEF WorkerAnswers
  <2> QED
    BY <2>2, <2>3, <2>4
<1>21. CASE Crash
    BY <1>21 DEF Crash
<1>22. CASE OutputEnds
  <2>1. output' \in Seq(Lines)
    <3> HIDE DEF Lines
    <3>1. PICK n \in 0..Len(output) : output' = SubSeq(output, 1, n)
      BY <1>22 DEF OutputEnds
    <3> QED
      BY <1>0, <3>1
  <2>2. outputClosed' \in BOOLEAN
    BY <1>22 DEF OutputEnds
  <2>3. UNCHANGED <<maker, callers, shared, watching, input, process>>
    BY <1>22 DEF OutputEnds
  <2> QED
    BY <2>1, <2>2, <2>3
<1>23. CASE UNCHANGED vars
    BY <1>23 DEF vars
<1> QED
    BY <1>1, <1>2, <1>3, <1>4, <1>5, <1>6, <1>7, <1>8, <1>9, <1>10, <1>11, <1>12, <1>13, <1>14,
       <1>15, <1>16, <1>17, <1>18, <1>19, <1>20, <1>21, <1>22, <1>23
       DEF Next, Goes, Watch

\* What stands still for a command on its way.
Still == /\ kind' = kind /\ done' = done /\ fired' = fired
         /\ input' = input /\ worker' = worker /\ works' = works
         /\ output' = output /\ watcher' = watcher /\ line' = line

\* A caller lets a command in at one end, when the one before has left at the
\* other, and everything between passes it on or drops it.
LEMMA TrafficNext == TypeOK /\ LastInv /\ TrafficInv /\ CallerInv /\ [Next]_vars => TrafficInv'
<1> SUFFICES ASSUME TypeOK, LastInv, TrafficInv, CallerInv, [Next]_vars
             PROVE  TrafficInv'
    OBVIOUS
<1> USE DEF At, WatcherGoto, callers, shared, watching, streams, process, IsAnswer
<1>0. /\ output \in Seq([says : {"ok", "other", "out", "err"}, call : Calls \cup {0}])
      /\ input \in Seq(Calls)
      /\ line \in [says : {"none", "ok", "other", "out", "err"}, call : Calls \cup {0}]
      /\ watcher \in {"unborn", "loop", "line", "go", "failed", "done"}
    BY DEF TypeOK
<1>1. CASE Still
    BY <1>1 DEF Still, TrafficInv, InputInv, BusyInv, OutputInv, LineInv, Quiet, NoAnswer, Pending
<1>2. ASSUME NEW c \in Callers, Take(c) PROVE TrafficInv'
  <2>1. CASE done \notin fired
    BY <1>1, <1>2, <2>1 DEF Take, LetThrough, Still
  <2>2. CASE done \in fired
    <3>1. Quiet
      BY <2>2 DEF TrafficInv
    <3>2. CASE kind' = kind /\ done' = done
      BY <1>1, <1>2, <3>2 DEF Take, LetThrough, Still
    <3>3. CASE ~(kind' = kind /\ done' = done)
      <4>1. done' = Len(kind) + 1 /\ fired' = fired
        BY <1>2, <3>3 DEF Take, LetThrough
      <4>2. done' \notin fired'
        BY <4>1 DEF TypeOK, Calls
      <4>3. input' = input /\ worker' = worker /\ output' = output /\ watcher' = watcher /\ line' = line
        BY <1>2 DEF Take
      <4> QED
        BY <3>1, <4>2, <4>3
           DEF TrafficInv, InputInv, BusyInv, OutputInv, LineInv, Quiet, NoAnswer, Pending
    <3> QED
      BY <3>2, <3>3
  <2> QED
    BY <2>1, <2>2
<1>3. ASSUME NEW c \in Callers, Send(c) PROVE TrafficInv'
  <2>1. CASE input' = input
    BY <1>1, <1>3, <2>1 DEF Send, Still
  <2>2. CASE input' # input
    <3>1. pc[c] = "send" /\ mine[c] = done /\ done \notin fired /\ Quiet
      BY <1>3 DEF Send, CallerInv
    <3>2. /\ input' = Append(input, done)
          /\ kind' = kind /\ done' = done /\ fired' = fired
          /\ worker' = worker /\ output' = output /\ watcher' = watcher /\ line' = line
      BY <1>3, <2>2, <3>1 DEF Send
    <3>3. Len(input') = 1 /\ input'[1] = done
      BY <1>0, <3>1, <3>2 DEF Quiet
    <3> QED
      BY <3>1, <3>2, <3>3
         DEF TrafficInv, InputInv, BusyInv, OutputInv, LineInv, Quiet, NoAnswer, Pending
  <2> QED
    BY <2>1, <2>2
<1>4. ASSUME NEW c \in Callers,
             Call(c) \/ Look(c) \/ Wait(c) \/ Clear(c) \/ ReadError(c) \/ ReadAnswer(c) \/ Leave(c)
      PROVE  TrafficInv'
    BY <1>1, <1>4 DEF Call, Look, Wait, Clear, ReadError, ReadAnswer, Leave, Still
<1>5. CASE WorkerReads
  <2>1. /\ Len(input) = 1 /\ input[1] = done /\ NoAnswer /\ ~Pending /\ done \notin fired
        /\ input' = Tail(input) /\ works' = Head(input)
        /\ output' = output /\ watcher' = watcher /\ line' = line
        /\ kind' = kind /\ done' = done /\ fired' = fired
    BY <1>5 DEF WorkerReads, TrafficInv, InputInv, Quiet
  <2>2. input' = <<>> /\ works' = done
    BY <1>0, <2>1
  <2> QED
    BY <2>1, <2>2 DEF TrafficInv, InputInv, BusyInv, OutputInv, LineInv, Quiet, NoAnswer, Pending
<1>6. CASE WorkerAnswers
  <2>1. /\ input = <<>> /\ works = done /\ NoAnswer /\ ~Pending /\ done \notin fired
        /\ worker' # "busy" /\ input' = input /\ watcher' = watcher /\ line' = line
        /\ kind' = kind /\ done' = done /\ fired' = fired
    BY <1>6 DEF WorkerAnswers, TrafficInv, InputInv, BusyInv, Quiet
  <2>2. CASE output' = output
    BY <2>1, <2>2 DEF TrafficInv, InputInv, BusyInv, OutputInv, LineInv, Quiet, NoAnswer, Pending
  <2>3. ASSUME NEW says \in {"out", "err"}, says = "err" <=> kind[done] = "fails",
               output' = Append(output, Line(says, done))
        PROVE  TrafficInv'
    <3>1. /\ Len(output') = Len(output) + 1
          /\ \A i \in 1..Len(output) : output'[i] = output[i]
          /\ output'[Len(output) + 1].call = done
          /\ output'[Len(output) + 1].says = says
      BY <1>0, <2>3 DEF Line
    <3>2. \A i \in DOMAIN output' : IsAnswer(output'[i]) <=> i = Len(output) + 1
      BY <1>0, <2>1, <3>1 DEF NoAnswer
    <3>3. OutputInv'
      BY <2>1, <2>3, <3>1, <3>2 DEF OutputInv, Pending
    <3> QED
      BY <2>1, <3>3 DEF TrafficInv, InputInv, BusyInv, LineInv, Quiet, Pending
  <2>4. ASSUME output' = Append(output, Line("other", 0)) PROVE TrafficInv'
    <3>1. /\ Len(output') = Len(output) + 1
          /\ \A i \in 1..Len(output) : output'[i] = output[i]
          /\ output'[Len(output) + 1].says = "other"
      BY <1>0, <2>4 DEF Line
    <3>2. NoAnswer'
      BY <1>0, <2>1, <3>1 DEF NoAnswer
    <3> QED
      BY <2>1, <3>2 DEF TrafficInv, InputInv, BusyInv, OutputInv, LineInv, Quiet, NoAnswer, Pending
  <2>5. \/ output' = output
        \/ kind[done] # "fails" /\ output' = output \o <<Line("out", done)>>
        \/ kind[done] = "fails" /\ output' = output \o <<Line("err", done)>>
        \/ output' = output \o <<Line("other", 0)>>
        \/ output' = output \o <<>>
    BY <1>6, <2>1 DEF WorkerAnswers, Answer
  <2>6. output \o <<>> = output
    BY <1>0
  <2>7. /\ output \o <<Line("out", done)>> = Append(output, Line("out", done))
        /\ output \o <<Line("err", done)>> = Append(output, Line("err", done))
        /\ output \o <<Line("other", 0)>> = Append(output, Line("other", 0))
    BY <1>0 DEF Line
  <2> QED
    BY <2>2, <2>3, <2>4, <2>5, <2>6, <2>7
<1>7. CASE WatcherPops
  <2>1. /\ ~Pending /\ watcher' = "line" /\ output # <<>>
        /\ line' = Head(output) /\ output' = Tail(output)
        /\ input' = input /\ worker' = worker /\ works' = works
        /\ kind' = kind /\ done' = done /\ fired' = fired
    BY <1>7 DEF WatcherPops, Pending
  <2>2. /\ line' = output[1] /\ 1 \in DOMAIN output
        /\ \A i \in DOMAIN output' : i + 1 \in DOMAIN output /\ i + 1 # 1 /\ output'[i] = output[i + 1]
    BY <1>0, <2>1
  <2>3. CASE IsAnswer(output[1])
    <3>1. NoAnswer'
      BY <2>2, <2>3 DEF TrafficInv, OutputInv, NoAnswer
    <3>2. /\ output[1].call = done /\ done \notin fired
          /\ output[1].says = "err" <=> kind[done] = "fails"
          /\ input = <<>> /\ worker # "busy"
      BY <2>2, <2>3 DEF TrafficInv, OutputInv, NoAnswer, InputInv, BusyInv, Quiet
    <3> QED
      BY <2>1, <2>2, <3>1, <3>2 DEF TrafficInv, InputInv, BusyInv, OutputInv, LineInv, NoAnswer, Pending
  <2>4. CASE ~IsAnswer(output[1])
    <3>1. ~Pending' /\ watcher' # "go"
      BY <2>1, <2>2, <2>4 DEF Pending
    <3>2. NoAnswer => NoAnswer'
      BY <2>2 DEF NoAnswer
    <3>3. OutputInv'
      BY <2>1, <2>2, <3>1 DEF TrafficInv, OutputInv
    <3> QED
      BY <2>1, <3>1, <3>2, <3>3 DEF TrafficInv, InputInv, BusyInv, LineInv, Quiet
  <2> QED
    BY <2>3, <2>4
<1>8. CASE WatcherGoes
  <2>1. Pending /\ input = <<>> /\ worker # "busy" /\ NoAnswer
    BY <1>8 DEF WatcherGoes, TrafficInv, InputInv, BusyInv, OutputInv, LineInv, NoAnswer, Pending
  <2>2. /\ ~Pending' /\ watcher' = "loop" /\ input' = input /\ worker' = worker /\ output' = output
    BY <1>8 DEF WatcherGoes, Pending
  <2> QED
    BY <2>1, <2>2 DEF TrafficInv, InputInv, BusyInv, OutputInv, LineInv, NoAnswer, Quiet
<1>9. CASE WatcherKeeps
  <2>1. /\ watcher = "line" /\ watcher' = "go" /\ IsAnswer(line) /\ line' = line
        /\ input' = input /\ worker' = worker /\ works' = works /\ output' = output
        /\ kind' = kind /\ done' = done /\ fired' = fired
    BY <1>9 DEF WatcherKeeps
  <2> QED
    BY <2>1 DEF TrafficInv, InputInv, BusyInv, OutputInv, LineInv, NoAnswer, Quiet, Pending
<1>10. ASSUME kind' = kind, done' = done, fired' = fired, input' = input,
              worker' = worker \/ worker' # "busy", works' = works \/ worker' # "busy",
              NoAnswer => NoAnswer',
              OutputInv => \A i \in DOMAIN output' : IsAnswer(output'[i]) =>
                  /\ output'[i].call = done
                  /\ output'[i].says = "err" <=> kind[done] = "fails"
                  /\ ~Pending
                  /\ \A k \in DOMAIN output' : IsAnswer(output'[k]) => i = k,
              \/ watcher' = watcher /\ line' = line
              \/ watcher' \notin {"line", "go"}
       PROVE  TrafficInv'
  <2>1. Pending' => Pending /\ line' = line
    BY <1>10 DEF Pending
  <2>2. OutputInv'
    BY <1>10, <2>1 DEF TrafficInv, OutputInv
  <2>3. LineInv'
    BY <1>10, <2>1 DEF TrafficInv, LineInv
  <2>4. InputInv' /\ BusyInv'
    BY <1>10, <2>1 DEF TrafficInv, InputInv, BusyInv
  <2>5. done' \in fired' => Quiet'
    BY <1>10, <2>1 DEF TrafficInv, Quiet
  <2> QED
    BY <2>2, <2>3, <2>4, <2>5 DEF TrafficInv
<1>11. ASSUME output' = output
       PROVE  /\ NoAnswer => NoAnswer'
              /\ OutputInv => \A i \in DOMAIN output' : IsAnswer(output'[i]) =>
                  /\ output'[i].call = done
                  /\ output'[i].says = "err" <=> kind[done] = "fails"
                  /\ ~Pending
                  /\ \A k \in DOMAIN output' : IsAnswer(output'[k]) => i = k
    BY <1>11 DEF NoAnswer, OutputInv
<1>12. CASE WatcherStops \/ WatcherSeesEnd \/ WatcherPasses \/ Crash \/ UNCHANGED vars
  <2>1. /\ kind' = kind /\ done' = done /\ fired' = fired /\ input' = input /\ output' = output
        /\ worker' = worker \/ worker' # "busy"
        /\ works' = works \/ worker' # "busy"
        /\ \/ watcher' = watcher /\ line' = line
           \/ watcher' \notin {"line", "go"}
    BY <1>12 DEF WatcherStops, WatcherSeesEnd, WatcherPasses, Crash, vars
  <2> QED
    BY <1>10, <1>11, <2>1
<1>13. ASSUME NEW l, ~IsAnswer(l), output' = Append(output, l)
       PROVE  /\ NoAnswer => NoAnswer'
              /\ OutputInv => \A i \in DOMAIN output' : IsAnswer(output'[i]) =>
                  /\ output'[i].call = done
                  /\ output'[i].says = "err" <=> kind[done] = "fails"
                  /\ ~Pending
                  /\ \A k \in DOMAIN output' : IsAnswer(output'[k]) => i = k
  <2>1. /\ DOMAIN output' = 1..Len(output) + 1 /\ DOMAIN output = 1..Len(output) /\ Len(output) \in Nat
        /\ output'[Len(output) + 1] = l
        /\ \A i \in 1..Len(output) : output'[i] = output[i]
    BY <1>0, <1>13
  <2>2. \A i \in DOMAIN output' : IsAnswer(output'[i]) => i \in DOMAIN output /\ output'[i] = output[i]
    BY <1>13, <2>1
  <2> HIDE DEF IsAnswer
  <2> QED
    BY <2>2 DEF NoAnswer, OutputInv
<1>14. CASE WorkerStarts \/ WorkerSaysOther
  <2>1. PICK l \in {Line("ok", 0), Line("other", 0)} : output' = Append(output, l)
    BY <1>14 DEF WorkerStarts, WorkerSaysOther
  <2>2. ~IsAnswer(l)
    BY DEF Line
  <2>3. /\ kind' = kind /\ done' = done /\ fired' = fired /\ input' = input
        /\ worker' = worker \/ worker' # "busy"
        /\ works' = works
        /\ watcher' = watcher /\ line' = line
    BY <1>14 DEF WorkerStarts, WorkerSaysOther
  <2> QED
    BY <1>10, <1>13, <2>1, <2>2, <2>3
<1>15. ASSUME NEW k \in {0, 1}, \A i \in DOMAIN output' : i + k \in DOMAIN output /\ output'[i] = output[i + k],
              DOMAIN output' \subseteq Nat
       PROVE  /\ NoAnswer => NoAnswer'
              /\ OutputInv => \A i \in DOMAIN output' : IsAnswer(output'[i]) =>
                  /\ output'[i].call = done
                  /\ output'[i].says = "err" <=> kind[done] = "fails"
                  /\ ~Pending
                  /\ \A j \in DOMAIN output' : IsAnswer(output'[j]) => i = j
  <2>1. NoAnswer => NoAnswer'
    BY <1>15 DEF NoAnswer
  <2>2. ASSUME OutputInv, NEW i \in DOMAIN output', IsAnswer(output'[i])
        PROVE  /\ output'[i].call = done
               /\ output'[i].says = "err" <=> kind[done] = "fails"
               /\ ~Pending
               /\ \A j \in DOMAIN output' : IsAnswer(output'[j]) => i = j
    <3>1. i + k \in DOMAIN output /\ IsAnswer(output[i + k]) /\ output'[i] = output[i + k]
      BY <1>15, <2>2
    <3>2. ASSUME NEW j \in DOMAIN output', IsAnswer(output'[j]) PROVE i = j
      <4>1. j + k \in DOMAIN output /\ IsAnswer(output[j + k])
        BY <1>15, <3>2
      <4>2. i + k = j + k
        BY <2>2, <3>1, <4>1 DEF OutputInv
      <4> QED
        BY <1>15, <4>2
    <3> QED
      BY <2>2, <3>1, <3>2 DEF OutputInv
  <2> QED
    BY <2>1, <2>2
<1>16. CASE OutputEnds
  <2>1. PICK n \in 0..Len(output) : output' = SubSeq(output, 1, n)
    BY <1>16 DEF OutputEnds
  <2>2. /\ DOMAIN output' \subseteq Nat
        /\ \A i \in DOMAIN output' : i + 0 \in DOMAIN output /\ output'[i] = output[i + 0]
    BY <1>0, <2>1
  <2>3. /\ kind' = kind /\ done' = done /\ fired' = fired /\ input' = input
        /\ worker' = worker /\ works' = works /\ watcher' = watcher /\ line' = line
    BY <1>16 DEF OutputEnds
  <2> QED
    BY <1>10, <1>15, <2>2, <2>3
<1>17. CASE MakerPops
  <2>1. output' = output \/ (output # <<>> /\ output' = Tail(output))
    BY <1>17 DEF MakerPops
  <2>2. \E k \in {0, 1} : \A i \in DOMAIN output' : i + k \in DOMAIN output /\ output'[i] = output[i + k]
    <3>1. CASE output' = output
      BY <1>0, <3>1
    <3>2. CASE output # <<>> /\ output' = Tail(output)
      BY <1>0, <3>2
    <3> QED
      BY <2>1, <3>1, <3>2
  <2>3. DOMAIN output' \subseteq Nat
    BY <1>0, <2>1
  <2>4. /\ kind' = kind /\ done' = done /\ fired' = fired /\ input' = input
        /\ worker' = worker /\ works' = works
        /\ \/ watcher' = watcher /\ line' = line
           \/ watcher' \notin {"line", "go"}
    BY <1>17 DEF MakerPops
  <2> QED
    BY <1>10, <1>15, <2>2, <2>3, <2>4
<1> QED
    BY <1>2, <1>3, <1>4, <1>5, <1>6, <1>7, <1>8, <1>9, <1>12, <1>14, <1>16, <1>17
       DEF Next, Goes, Watch

\* Before its command is sent, nothing a caller let through can be disturbed by
\* the other threads.
LEMMA QuietStays ==
    ASSUME TypeOK, TrafficInv, Quiet,
           MakerPops \/ Watch \/ WorkerStarts \/ WorkerSaysOther \/ WorkerReads
             \/ WorkerAnswers \/ Crash \/ OutputEnds \/ UNCHANGED vars
    PROVE  Quiet' /\ fired' = fired
<1> USE DEF At, WatcherGoto, callers, shared, watching, streams, process, IsAnswer
<1>0. /\ output \in Seq([says : {"ok", "other", "out", "err"}, call : Calls \cup {0}])
      /\ DOMAIN output = 1..Len(output) /\ Len(output) \in Nat
    BY DEF TypeOK
<1>1. CASE MakerPops
  <2>1. output' = output \/ (output # <<>> /\ output' = Tail(output))
    BY <1>1 DEF MakerPops
  <2>2. NoAnswer'
    BY <1>0, <2>1 DEF Quiet, NoAnswer
  <2>3. /\ input' = input /\ worker' = worker /\ line' = line /\ fired' = fired
        /\ watcher' = watcher \/ watcher' = "loop"
    BY <1>1 DEF MakerPops
  <2> QED
    BY <2>2, <2>3 DEF Quiet, Pending
<1>2. CASE WatcherPops
  <2>1. /\ line' = Head(output) /\ output' = Tail(output) /\ output # <<>>
        /\ input' = input /\ worker' = worker /\ fired' = fired
    BY <1>2 DEF WatcherPops
  <2>2. NoAnswer' /\ ~IsAnswer(line')
    BY <1>0, <2>1 DEF Quiet, NoAnswer
  <2> QED
    BY <2>1, <2>2 DEF Quiet, Pending
<1>3. CASE WatcherGoes \/ WatcherKeeps
    BY <1>3 DEF WatcherGoes, WatcherKeeps, Quiet, Pending, TrafficInv, LineInv
<1>4. CASE WatcherStops \/ WatcherSeesEnd \/ WatcherPasses \/ Crash \/ UNCHANGED vars
  <2>1. /\ input' = input /\ output' = output /\ fired' = fired
        /\ worker' # "busy" \/ worker' = worker
        /\ \/ watcher' = watcher /\ line' = line
           \/ watcher' \notin {"line", "go"}
    BY <1>4 DEF WatcherStops, WatcherSeesEnd, WatcherPasses, Crash, vars
  <2> QED
    BY <2>1 DEF Quiet, NoAnswer, Pending
<1>5. CASE WorkerStarts \/ WorkerSaysOther
  <2>1. PICK l \in {Line("ok", 0), Line("other", 0)} : output' = Append(output, l)
    BY <1>5 DEF WorkerStarts, WorkerSaysOther
  <2>2. NoAnswer'
    BY <1>0, <2>1 DEF Quiet, NoAnswer, Line
  <2>3. /\ input' = input /\ watcher' = watcher /\ line' = line /\ fired' = fired
        /\ worker' # "busy" \/ worker' = worker
    BY <1>5 DEF WorkerStarts, WorkerSaysOther
  <2> QED
    BY <2>2, <2>3 DEF Quiet, Pending
<1>6. CASE WorkerReads \/ WorkerAnswers
    BY <1>6 DEF WorkerReads, WorkerAnswers, Quiet
<1>7. CASE OutputEnds
  <2>1. PICK n \in 0..Len(output) : output' = SubSeq(output, 1, n)
    BY <1>7 DEF OutputEnds
  <2>2. NoAnswer'
    BY <1>0, <2>1 DEF Quiet, NoAnswer
  <2>3. input' = input /\ watcher' = watcher /\ line' = line /\ fired' = fired /\ worker' = worker
    BY <1>7 DEF OutputEnds
  <2> QED
    BY <2>2, <2>3 DEF Quiet, Pending
<1> QED
    BY <1>1, <1>2, <1>3, <1>4, <1>5, <1>6, <1>7 DEF Watch

\* A caller that is let through finds nothing under way.
LEMMA CallerNext == TypeOK /\ LastInv /\ TrafficInv /\ CallerInv /\ [Next]_vars => CallerInv'
<1> SUFFICES ASSUME TypeOK, LastInv, TrafficInv, CallerInv, [Next]_vars
             PROVE  CallerInv'
    OBVIOUS
<1> USE DEF At, Goto, callers, shared, watching, streams, process
<1>0. /\ pc \in [Callers -> {"idle", "look", "wait", "take"} \cup Inside]
      /\ mine \in [Callers -> Calls \cup {0}] /\ todo \in [Callers -> Seq(AllKinds)]
    BY DEF TypeOK
<1>1. ASSUME MakerPops \/ Watch \/ WorkerStarts \/ WorkerSaysOther \/ WorkerReads
               \/ WorkerAnswers \/ Crash \/ OutputEnds \/ UNCHANGED vars
      PROVE  CallerInv'
  <2>1. pc' = pc /\ todo' = todo /\ mine' = mine /\ kind' = kind /\ done' = done
    BY <1>1 DEF MakerPops, Watch, WatcherStops, WatcherPops, WatcherSeesEnd, WatcherPasses, WatcherKeeps,
                WatcherGoes, WorkerStarts, WorkerSaysOther, WorkerReads, WorkerAnswers, Crash,
                OutputEnds, vars
  <2>2. Quiet => Quiet' /\ fired' = fired
    BY <1>1, QuietStays
  <2> QED
    BY <2>1, <2>2 DEF CallerInv, Calls
<1>2. ASSUME NEW c \in Callers, Take(c) PROVE CallerInv'
  <2>1. CASE kind' = kind /\ done' = done
    <3>1. /\ pc' = [pc EXCEPT ![c] = "look"]
          /\ UNCHANGED <<todo, mine, kind, done, fired, input, output, worker, watcher, line>>
      BY <1>2, <2>1, <1>0 DEF Take, LetThrough, TypeOK
    <3>2. todo[c] # <<>>
      BY <1>2 DEF Take, CallerInv
    <3> QED
      BY <1>0, <3>1, <3>2 DEF CallerInv, Calls, Quiet, NoAnswer, Pending, Inside
  <2>2. CASE ~(kind' = kind /\ done' = done)
    <3>1. /\ done \in fired /\ done' = Len(kind) + 1 /\ kind' = Append(kind, Head(todo[c]))
          /\ todo' = [todo EXCEPT ![c] = Tail(todo[c])]
          /\ mine' = [mine EXCEPT ![c] = Len(kind) + 1]
          /\ pc' = [pc EXCEPT ![c] = "clear"]
          /\ UNCHANGED <<fired, input, output, worker, watcher, line>>
      BY <1>2, <2>2 DEF Take, LetThrough
    <3>2. /\ Len(kind) \in Nat /\ Calls' = 1..Len(kind) + 1 /\ Calls = 1..Len(kind)
          /\ Len(kind) + 1 \notin fired
      BY <3>1, <1>0, <1>2 DEF TypeOK, Calls
    <3>3. Quiet /\ Quiet'
      BY <3>1 DEF TrafficInv, Quiet, NoAnswer, Pending
    <3>4. \A d \in Callers \ {c} : pc[d] \notin {"clear", "send"}
      BY <3>1 DEF CallerInv
    <3> QED
      BY <1>0, <3>1, <3>2, <3>3, <3>4 DEF CallerInv, Inside
  <2> QED
    BY <2>1, <2>2
<1>3. ASSUME NEW c \in Callers, Send(c) PROVE CallerInv'
  <2>1. /\ pc[c] = "send" /\ pc' \in {[pc EXCEPT ![c] = "idle"], [pc EXCEPT ![c] = "lookagain"]}
        /\ UNCHANGED <<todo, mine, kind, done, fired>>
    BY <1>3 DEF Send
  <2>2. mine[c] = done /\ done # 0
    BY <2>1 DEF CallerInv, LastInv
  <2>3. \A d \in Callers \ {c} : pc[d] \notin {"clear", "send"}
    BY <2>2 DEF CallerInv
  <2>4. \A d \in Callers : pc'[d] \notin {"clear", "send"}
    BY <1>0, <2>1, <2>3
  <2>5. \A d \in Callers : pc'[d] \in {"look", "wait", "take"} => pc[d] \in {"look", "wait", "take"}
    BY <1>0, <2>1
  <2>6. \A d \in Callers : pc'[d] \in Inside => pc[d] \in Inside
    BY <1>0, <2>1 DEF Inside
  <2> QED
    BY <2>1, <2>4, <2>5, <2>6 DEF CallerInv, Calls
<1>4. ASSUME NEW c \in Callers,
             Call(c) \/ Look(c) \/ Wait(c) \/ Clear(c) \/ ReadError(c) \/ ReadAnswer(c) \/ Leave(c)
      PROVE  CallerInv'
  <2>1. /\ UNCHANGED <<todo, mine, kind, done, fired, input, output, worker, watcher, line>>
        /\ \A d \in Callers \ {c} : pc'[d] = pc[d]
        /\ pc'[c] \in Inside => pc[c] \in Inside
        /\ pc'[c] \in {"clear", "send"} => pc[c] \in {"clear", "send"}
        /\ pc'[c] \in {"look", "wait", "take"} => todo[c] # <<>>
    BY <1>0, <1>4 DEF Call, Look, Wait, Clear, ReadError, ReadAnswer, Leave, Inside, CallerInv
  <2> QED
    BY <2>1 DEF CallerInv, Calls, Quiet, NoAnswer, Pending
<1> QED
    BY <1>1, <1>2, <1>3, <1>4 DEF Next, Goes

\* What the watcher keeps is never older than a call.
LEMMA FreshNext == TypeOK /\ LastInv /\ TrafficInv /\ CallerInv /\ FreshInv /\ [Next]_vars => FreshInv'
<1> SUFFICES ASSUME TypeOK, LastInv, TrafficInv, CallerInv, FreshInv, [Next]_vars
             PROVE  FreshInv'
    OBVIOUS
<1> USE DEF At, Goto, callers, shared, watching, streams, process
<1>0. /\ pc \in [Callers -> {"idle", "look", "wait", "take"} \cup Inside]
      /\ mine \in [Callers -> Calls \cup {0}] /\ got \in [Callers -> Calls \cup {0}]
      /\ response \in Calls \cup {0} /\ error \in Calls \cup {0} /\ Len(kind) \in Nat
    BY DEF TypeOK
<1>1. ASSUME pc' = pc, mine' = mine, got' = got, response' = response, error' = error
      PROVE  FreshInv'
    BY <1>1 DEF FreshInv
<1>2. CASE WatcherKeeps
  <2>1. line.call = done /\ done = Len(kind)
    BY <1>2 DEF WatcherKeeps, TrafficInv, LineInv, Pending, IsAnswer, LastInv
  <2>2. /\ pc' = pc /\ mine' = mine /\ got' = got
        /\ response' \in {response, done} /\ error' \in {error, done}
    BY <1>2, <2>1 DEF WatcherKeeps, Keep
  <2>3. \A c \in Callers : done >= mine[c]
    BY <1>0, <2>1 DEF Calls
  <2> QED
    BY <2>2, <2>3 DEF FreshInv
<1>3. CASE MakerPops \/ WatcherStops \/ WatcherPops \/ WatcherSeesEnd \/ WatcherPasses \/ WatcherGoes
    BY <1>1, <1>3 DEF MakerPops, WatcherStops, WatcherPops, WatcherSeesEnd, WatcherPasses, WatcherGoes
<1>4. CASE WorkerStarts \/ WorkerSaysOther \/ WorkerReads \/ WorkerAnswers \/ Crash
    BY <1>1, <1>4 DEF WorkerStarts, WorkerSaysOther, WorkerReads, WorkerAnswers, Crash
<1>5. CASE OutputEnds \/ UNCHANGED vars
    BY <1>1, <1>5 DEF OutputEnds, vars
<1>6. ASSUME NEW c \in Callers,
             \A d \in Callers \ {c} : pc'[d] = pc[d] /\ mine'[d] = mine[d] /\ got'[d] = got[d],
             response' \in {response, 0}, error' \in {error, 0},
             pc'[c] \in Inside \ {"clear"} =>
                /\ mine'[c] = mine[c]
                /\ pc[c] \in Inside \ {"clear"} \/ (response' = 0 /\ error' = 0),
             pc'[c] \in {"raising", "returning"} => got'[c] = 0 \/ got'[c] >= mine'[c]
      PROVE  FreshInv'
    BY <1>6 DEF FreshInv
<1>7. ASSUME NEW c \in Callers, Take(c) PROVE FreshInv'
  <2>1. /\ pc'[c] \in {"clear", "look"} /\ response' = response /\ error' = error
        /\ \A d \in Callers \ {c} : pc'[d] = pc[d] /\ mine'[d] = mine[d] /\ got'[d] = got[d]
    BY <1>0, <1>7 DEF Take, LetThrough
  <2> QED
    BY <1>6, <2>1 DEF Inside
<1>8. ASSUME NEW c \in Callers, ReadAnswer(c) PROVE FreshInv'
  <2>1. /\ pc[c] \in {"raise", "return"} /\ mine' = mine
        /\ got'[c] \in {error, response} /\ response' = response /\ error' = error
        /\ \A d \in Callers \ {c} : pc'[d] = pc[d] /\ mine'[d] = mine[d] /\ got'[d] = got[d]
    BY <1>0, <1>8 DEF ReadAnswer
  <2>2. pc[c] \in Inside \ {"clear"}
    BY <2>1 DEF Inside
  <2>3. got'[c] = 0 \/ got'[c] >= mine'[c]
    BY <2>1, <2>2 DEF FreshInv
  <2> QED
    BY <1>6, <2>1, <2>2, <2>3
<1>9. ASSUME NEW c \in Callers,
             Call(c) \/ Look(c) \/ Wait(c) \/ Clear(c) \/ Send(c) \/ ReadError(c) \/ Leave(c)
      PROVE  FreshInv'
  <2>1. /\ \A d \in Callers \ {c} : pc'[d] = pc[d] /\ mine'[d] = mine[d] /\ got'[d] = got[d]
        /\ mine' = mine /\ response' \in {response, 0} /\ error' \in {error, 0}
        /\ pc'[c] \notin {"raising", "returning"}
    BY <1>0, <1>9 DEF Call, Look, Wait, Clear, Send, ReadError, Leave
  <2>2. pc'[c] \in Inside \ {"clear"} =>
            pc[c] \in Inside \ {"clear"} \/ (response' = 0 /\ error' = 0)
    BY <1>0, <1>9 DEF Call, Look, Wait, Clear, Send, ReadError, Leave, Inside
  <2> QED
    BY <1>6, <2>1, <2>2
<1> QED
    BY <1>2, <1>3, <1>4, <1>5, <1>7, <1>8, <1>9 DEF Next, Goes, Watch

\* A call that no other one overlaps reads what its own answer left.
LEMMA LoneNext == TypeOK /\ LastInv /\ TrafficInv /\ CallerInv /\ LoneInv /\ [Next]_vars => LoneInv'
<1> SUFFICES ASSUME TypeOK, LastInv, TrafficInv, CallerInv, LoneInv, [Next]_vars
             PROVE  LoneInv'
    OBVIOUS
<1> USE DEF At, Goto, callers, shared, watching, streams, process
<1>0. /\ pc \in [Callers -> {"idle", "look", "wait", "take"} \cup Inside]
      /\ mine \in [Callers -> Calls \cup {0}] /\ got \in [Callers -> Calls \cup {0}]
      /\ on \in [Callers -> Calls \cup {0}] /\ Len(kind) \in Nat
    BY DEF TypeOK
<1>1. ASSUME pc' = pc, mine' = mine, got' = got, on' = on, overlapped' = overlapped, kind' = kind,
             done' = done, fired' = fired, response' = response, error' = error,
             watcher' = "go" <=> watcher = "go"
      PROVE  LoneInv'
  <2> SUFFICES ASSUME NEW c \in Callers, Lone(c)' PROVE LoneHas(c)'
    BY DEF LoneInv
  <2>1. Lone(c) /\ LoneHas(c)
    BY <1>1 DEF Lone, LoneInv
  <2>2. Answered' = Answered /\ Unanswered' = Unanswered /\ Others(c)' = Others(c)
    BY <1>1 DEF Answered, Unanswered, Others
  <2> QED
    BY <1>1, <2>1, <2>2 DEF LoneHas
<1>2. CASE \/ MakerPops \/ WatcherStops \/ WatcherPops \/ WatcherSeesEnd \/ WatcherPasses
  <2>1. watcher' = "go" <=> watcher = "go"
    BY <1>2 DEF MakerPops, WatcherStops, WatcherPops, WatcherSeesEnd, WatcherPasses, WatcherGoto, LastInv
  <2>2. UNCHANGED <<pc, mine, got, on, overlapped, kind, done, fired, response, error>>
    BY <1>2 DEF MakerPops, WatcherStops, WatcherPops, WatcherSeesEnd, WatcherPasses
  <2> QED
    BY <1>1, <2>1, <2>2
<1>3. CASE \/ WorkerStarts \/ WorkerSaysOther \/ WorkerReads \/ WorkerAnswers \/ Crash
           \/ OutputEnds \/ UNCHANGED vars
    BY <1>1, <1>3 DEF WorkerStarts, WorkerSaysOther, WorkerReads, WorkerAnswers, Crash,
                      OutputEnds, vars
<1>4. CASE WatcherKeeps
  <2> SUFFICES ASSUME NEW c \in Callers, Lone(c)' PROVE LoneHas(c)'
    BY DEF LoneInv
  <2>1. UNCHANGED <<pc, mine, got, on, overlapped, kind, done, fired>> /\ watcher = "line" /\ watcher' = "go"
    BY <1>4 DEF WatcherKeeps, WatcherGoto
  <2>2. Lone(c) /\ LoneHas(c) /\ Others(c)' = Others(c)
    BY <2>1 DEF Lone, LoneInv, Others
  <2>3. Pending /\ IsAnswer(line) /\ line.call = done /\ (line.says = "err" <=> kind[done] = "fails")
        /\ done \notin fired
    BY <1>4 DEF WatcherKeeps, TrafficInv, LineInv, Pending, IsAnswer, Quiet
  <2>4. pc[c] \in {"send", "lookagain", "waitagain"} => Unanswered
    BY <2>1, <2>2, <2>3 DEF LoneHas
  <2>5. Unanswered => Answered'
    BY <1>4, <2>1, <2>3 DEF Unanswered, Answered, WatcherKeeps, Keep, IsAnswer
  <2> QED
    BY <2>1, <2>2, <2>3, <2>4, <2>5 DEF LoneHas
<1>5. CASE WatcherGoes
  <2> SUFFICES ASSUME NEW c \in Callers, Lone(c)' PROVE LoneHas(c)'
    BY DEF LoneInv
  <2>1. /\ UNCHANGED <<pc, mine, got, on, overlapped, kind, done, response, error>>
        /\ watcher = "go" /\ fired' = fired \cup {done}
    BY <1>5 DEF WatcherGoes
  <2>2. Lone(c) /\ LoneHas(c)
    BY <2>1 DEF Lone, LoneInv
  <2>3. Answered' = Answered /\ Others(c)' = Others(c)
    BY <2>1 DEF Answered, Others
  <2> QED
    BY <2>1, <2>2, <2>3 DEF LoneHas
<1>6. ASSUME NEW c \in Callers,
             \A d \in Callers \ {c} : pc'[d] = pc[d] /\ on'[d] = on[d] /\ got'[d] = got[d],
             pc[c] \notin Inside, pc'[c] \notin Inside,
             UNCHANGED <<mine, overlapped, kind, done, fired, response, error, watcher>>
      PROVE  LoneInv'
  <2> SUFFICES ASSUME NEW d \in Callers, Lone(d)' PROVE LoneHas(d)'
    BY DEF LoneInv
  <2>1. d # c
    BY <1>6 DEF Lone
  <2>2. Lone(d) /\ LoneHas(d)
    BY <1>6, <2>1 DEF Lone, LoneInv
  <2>3. Answered' = Answered /\ Unanswered' = Unanswered /\ Others(d)' = Others(d)
    BY <1>6, <2>1 DEF Answered, Unanswered, Others
  <2> QED
    BY <1>6, <2>1, <2>2, <2>3 DEF LoneHas
<1>7. ASSUME NEW c \in Callers, pc[c] \in Inside,
             \A d \in Callers \ {c} : pc'[d] = pc[d] /\ got'[d] = got[d] /\ on'[d] = on[d],
             UNCHANGED <<mine, overlapped, kind, done, fired, watcher>>,
             Lone(c)' /\ LoneHas(c) =>
                LoneHas(c)'
      PROVE  LoneInv'
  <2> SUFFICES ASSUME NEW d \in Callers, Lone(d)' PROVE LoneHas(d)'
    BY DEF LoneInv
  <2>1. CASE d = c
    BY <1>7, <2>1 DEF Lone, LoneInv
  <2>2. CASE d # c
    <3>1. Lone(d)
      BY <1>7, <2>2 DEF Lone
    <3>2. Others(d) = {}
      BY <3>1 DEF LoneInv, LoneHas
    <3>3. c \in Others(d)
      BY <1>7, <2>2 DEF Others
    <3> QED
      BY <3>2, <3>3
  <2> QED
    BY <2>1, <2>2
<1>8. ASSUME NEW c \in Callers, Take(c) PROVE LoneInv'
  <2>1. CASE kind' = kind /\ done' = done
    <3>1. /\ pc' = [pc EXCEPT ![c] = "look"] /\ pc[c] = "take"
          /\ UNCHANGED <<on, got, mine, overlapped, kind, done, fired, response, error, watcher>>
      BY <1>8, <2>1, <1>0 DEF Take, LetThrough, TypeOK
    <3> QED
      BY <1>0, <1>6, <3>1 DEF Inside
  <2>2. CASE ~(kind' = kind /\ done' = done)
    <3>1. /\ done' = Len(kind) + 1
          /\ mine' = [mine EXCEPT ![c] = Len(kind) + 1]
          /\ pc' = [pc EXCEPT ![c] = "clear"] /\ pc[c] = "take"
          /\ overlapped' = overlapped \cup
                (IF Others(c) = {} THEN {} ELSE {Len(kind) + 1} \cup {mine[d] : d \in Others(c)})
      BY <1>8, <2>2 DEF Take, LetThrough
    <3> SUFFICES ASSUME NEW d \in Callers, Lone(d)' PROVE LoneHas(d)'
      BY DEF LoneInv
    <3>2. mine'[d] \notin overlapped' /\ pc'[d] \in Inside
      BY DEF Lone
    <3>3. d = c
      <4> SUFFICES ASSUME d # c PROVE FALSE
        OBVIOUS
      <4>1. pc[d] \in Inside /\ mine'[d] = mine[d]
        BY <1>0, <3>1, <3>2
      <4>2. d \in Others(c)
        BY <4>1 DEF Others
      <4> QED
        BY <3>1, <3>2, <4>1, <4>2
    <3>4. Others(c) = {}
      BY <1>0, <3>1, <3>2, <3>3
    <3>5. Others(c)' = {}
      BY <1>0, <3>1, <3>4 DEF Others
    <3> QED
      BY <1>0, <3>1, <3>3, <3>5 DEF LoneHas
  <2> QED
    BY <2>1, <2>2
<1>9. ASSUME NEW c \in Callers, Call(c) PROVE LoneInv'
    BY <1>0, <1>6, <1>9 DEF Call, Inside
<1>10. ASSUME NEW c \in Callers, Look(c) PROVE LoneInv'
  <2>1. CASE pc[c] = "look"
    BY <1>0, <1>6, <1>10, <2>1 DEF Look, Inside
  <2>2. CASE pc[c] = "lookagain"
    <3>1. /\ pc'[c] = "waitagain" /\ on'[c] = done
          /\ \A d \in Callers \ {c} : pc'[d] = pc[d] /\ on'[d] = on[d]
          /\ UNCHANGED <<mine, got, overlapped, kind, done, fired, response, error, watcher>>
      BY <1>0, <1>10, <2>2 DEF Look
    <3>2. Answered' = Answered /\ Unanswered' = Unanswered /\ Others(c)' = Others(c)
      BY <3>1 DEF Answered, Unanswered, Others
    <3>3. LoneHas(c) => LoneHas(c)'
      BY <2>2, <3>1, <3>2 DEF LoneHas
    <3> QED
      BY <1>7, <2>2, <3>1, <3>3 DEF Inside
  <2> QED
    BY <1>10, <2>1, <2>2 DEF Look
<1>11. ASSUME NEW c \in Callers, Wait(c) PROVE LoneInv'
  <2>1. CASE pc[c] = "wait"
    BY <1>0, <1>6, <1>11, <2>1 DEF Wait, Inside
  <2>2. CASE pc[c] = "waitagain"
    <3>1. /\ pc'[c] = "read" /\ on[c] \in fired
          /\ \A d \in Callers \ {c} : pc'[d] = pc[d] /\ on'[d] = on[d]
          /\ UNCHANGED <<mine, got, overlapped, kind, done, fired, response, error, watcher>>
      BY <1>0, <1>11, <2>2 DEF Wait
    <3>2. Answered' = Answered /\ Unanswered' = Unanswered /\ Others(c)' = Others(c)
      BY <3>1 DEF Answered, Unanswered, Others
    <3>3. LoneHas(c) => LoneHas(c)'
      BY <2>2, <3>1, <3>2 DEF LoneHas
    <3> QED
      BY <1>7, <2>2, <3>1, <3>3 DEF Inside
  <2> QED
    BY <1>11, <2>1, <2>2 DEF Wait
<1>12. ASSUME NEW c \in Callers, Clear(c) PROVE LoneInv'
  <2>1. /\ pc[c] = "clear" /\ pc'[c] = "send" /\ response' = 0 /\ error' = 0
        /\ \A d \in Callers \ {c} : pc'[d] = pc[d]
        /\ UNCHANGED <<mine, on, got, overlapped, kind, done, fired, watcher>>
    BY <1>0, <1>12 DEF Clear
  <2>2. done \notin fired /\ watcher # "go"
    BY <2>1 DEF CallerInv, Quiet, Pending, TrafficInv, LineInv
  <2>3. Others(c)' = Others(c) /\ Unanswered'
    BY <2>1 DEF Others, Unanswered
  <2>4. LoneHas(c) => LoneHas(c)'
    BY <2>1, <2>2, <2>3 DEF LoneHas
  <2> QED
    BY <1>7, <2>1, <2>4 DEF Inside
<1>13. ASSUME NEW c \in Callers, Send(c) PROVE LoneInv'
  <2>1. /\ pc[c] = "send" /\ pc'[c] \in {"idle", "lookagain"}
        /\ \A d \in Callers \ {c} : pc'[d] = pc[d]
        /\ UNCHANGED <<mine, on, got, overlapped, kind, done, fired, response, error, watcher>>
    BY <1>0, <1>13 DEF Send
  <2>2. Answered' = Answered /\ Unanswered' = Unanswered /\ Others(c)' = Others(c)
    BY <2>1 DEF Answered, Unanswered, Others
  <2>3. LoneHas(c) => LoneHas(c)'
    BY <2>1, <2>2 DEF LoneHas
  <2> QED
    BY <1>7, <2>1, <2>3 DEF Inside
<1>14. ASSUME NEW c \in Callers, ReadError(c) PROVE LoneInv'
  <2>1. /\ pc[c] = "read" /\ pc'[c] = (IF error # 0 THEN "raise" ELSE "return")
        /\ \A d \in Callers \ {c} : pc'[d] = pc[d]
        /\ UNCHANGED <<mine, on, got, overlapped, kind, done, fired, response, error, watcher>>
    BY <1>0, <1>14 DEF ReadError
  <2>2. Answered' = Answered /\ Unanswered' = Unanswered /\ Others(c)' = Others(c)
    BY <2>1 DEF Answered, Unanswered, Others
  <2>3. done # 0 \/ done \notin fired \/ ~Lone(c) \/ ~LoneHas(c)
    BY <2>1 DEF CallerInv, Lone, LoneHas, Calls, Inside
  <2>4. Lone(c) /\ LoneHas(c) => LoneHas(c)'
    BY <2>1, <2>2, <2>3 DEF LoneHas, Answered
  <2> QED
    BY <1>7, <2>1, <2>4 DEF Inside, Lone
<1>15. ASSUME NEW c \in Callers, ReadAnswer(c) PROVE LoneInv'
  <2>1. /\ pc[c] \in {"raise", "return"}
        /\ pc'[c] = (IF pc[c] = "raise" THEN "raising" ELSE "returning")
        /\ got'[c] = (IF pc[c] = "raise" THEN error ELSE response)
        /\ \A d \in Callers \ {c} : pc'[d] = pc[d] /\ got'[d] = got[d]
        /\ UNCHANGED <<mine, on, overlapped, kind, done, fired, response, error, watcher>>
    BY <1>0, <1>15 DEF ReadAnswer
  <2>2. Others(c)' = Others(c)
    BY <2>1 DEF Others
  <2>3. LoneHas(c) => LoneHas(c)'
    BY <2>1, <2>2 DEF LoneHas, Answered
  <2> QED
    BY <1>7, <2>1, <2>3 DEF Inside
<1>16. ASSUME NEW c \in Callers, Leave(c) PROVE LoneInv'
  <2>1. /\ pc[c] \in {"raising", "returning"} /\ pc'[c] = "idle"
        /\ \A d \in Callers \ {c} : pc'[d] = pc[d] /\ got'[d] = got[d]
        /\ UNCHANGED <<mine, on, overlapped, kind, done, fired, watcher>>
    BY <1>0, <1>16 DEF Leave
  <2>2. ~Lone(c)'
    BY <2>1 DEF Lone, Inside
  <2> QED
    BY <1>7, <2>1, <2>2 DEF Inside
<1> QED
    BY <1>2, <1>3, <1>4, <1>5, <1>8, <1>9, <1>10, <1>11, <1>12, <1>13, <1>14, <1>15, <1>16
       DEF Next, Goes, Watch

\* The number of the last call is that of its Signal.
LEMMA LastNext == TypeOK /\ LastInv /\ [Next]_vars => LastInv'
<1> SUFFICES ASSUME TypeOK, LastInv, [Next]_vars PROVE LastInv'
    OBVIOUS
<1> USE DEF LastInv, callers, shared, watching, streams, process
<1>1. ASSUME NEW c \in Callers, Take(c) PROVE LastInv'
    BY <1>1 DEF Take, LetThrough, TypeOK
<1>2. ASSUME NEW c \in Callers,
             Call(c) \/ Look(c) \/ Wait(c) \/ Clear(c) \/ Send(c) \/ ReadError(c) \/ ReadAnswer(c) \/ Leave(c)
      PROVE  LastInv'
    BY <1>2 DEF Call, Look, Wait, Clear, Send, ReadError, ReadAnswer, Leave
<1>3. CASE MakerPops \/ Watch
    BY <1>3 DEF MakerPops, Watch, WatcherStops, WatcherPops, WatcherSeesEnd, WatcherPasses, WatcherKeeps,
                WatcherGoes
<1>4. CASE WorkerStarts \/ WorkerSaysOther \/ WorkerReads \/ WorkerAnswers \/ Crash
           \/ OutputEnds \/ UNCHANGED vars
    BY <1>4 DEF WorkerStarts, WorkerSaysOther, WorkerReads, WorkerAnswers, Crash,
                OutputEnds, vars
<1> QED
    BY <1>1, <1>2, <1>3, <1>4 DEF Next, Goes

\* Every step keeps the inductive invariant.
LEMMA NextIndInv == IndInv /\ [Next]_vars => IndInv'
BY TypeNext, LastNext, TrafficNext, CallerNext, FreshNext, LoneNext DEF IndInv

-----------------------------------------------------------------------------
\* Type correctness.
THEOREM TypeCorrect == Spec => []TypeOK
<1>1. IndInv => TypeOK
  BY DEF IndInv
<1> QED
  BY InitIndInv, NextIndInv, <1>1, PTL DEF Spec

\* Whoever calls, dies or says what it should not: between a Queue, a pipe, the
\* worker and the watcher there is at most one command or answer, and its call
\* is the one whose Signal waits (python.py:66-71).
THEOREM AtMostOneOutstanding == Spec => []OneOutstanding
<1>1. IndInv => OneOutstanding
  <2> SUFFICES ASSUME IndInv, NEW x \in Traffic, NEW y \in Traffic
               PROVE  x = y /\ x[3] = done /\ done \notin fired
    BY DEF OneOutstanding
  <2> USE DEF IndInv, TrafficInv, InputInv, BusyInv, OutputInv, LineInv, Quiet, NoAnswer
  <2>1. CASE input # <<>>
    <3>1. DOMAIN input = {1}
      BY <2>1 DEF TypeOK
    <3>2. Traffic = {<<"input", 1, done>>}
      BY <2>1, <3>1 DEF Traffic
    <3> QED
      BY <2>1, <3>2
  <2>2. CASE input = <<>> /\ worker = "busy"
    <3>1. Traffic = {<<"worker", 1, done>>}
      BY <2>2 DEF Traffic
    <3> QED
      BY <2>2, <3>1
  <2>3. CASE input = <<>> /\ worker # "busy" /\ Pending
    <3>1. NoAnswer
      BY <2>3
    <3>2. Traffic = {<<"watcher", 1, done>>}
      BY <2>3, <3>1 DEF Traffic
    <3> QED
      BY <2>3, <3>2
  <2>4. CASE input = <<>> /\ worker # "busy" /\ ~Pending
    <3>1. Traffic = {<<"output", i, output[i].call>> : i \in {k \in DOMAIN output : IsAnswer(output[k])}}
      BY <2>4 DEF Traffic
    <3>2. PICK i \in DOMAIN output : IsAnswer(output[i]) /\ x = <<"output", i, output[i].call>>
      BY <3>1
    <3>3. PICK k \in DOMAIN output : IsAnswer(output[k]) /\ y = <<"output", k, output[k].call>>
      BY <3>1
    <3> QED
      BY <3>2, <3>3
  <2> QED
    BY <2>1, <2>2, <2>3, <2>4
<1> QED
  BY InitIndInv, NextIndInv, <1>1, PTL DEF Spec

\* No call comes back with an older answer, and one that no other overlaps comes
\* back with its own (python.py:73-84).
THEOREM AnswersAreMine == Spec => []AnswerIsMine
<1>1. IndInv => AnswerIsMine
  <2> SUFFICES ASSUME IndInv, NEW c \in Callers, pc[c] \in {"raising", "returning"}
               PROVE  /\ got[c] = 0 \/ got[c] >= mine[c]
                      /\ mine[c] \notin overlapped =>
                            got[c] = mine[c] /\ (At(c, "raising") <=> kind[mine[c]] = "fails")
    BY DEF AnswerIsMine
  <2>1. got[c] = 0 \/ got[c] >= mine[c]
    BY DEF IndInv, FreshInv
  <2>2. ASSUME mine[c] \notin overlapped
        PROVE  got[c] = mine[c] /\ (At(c, "raising") <=> kind[mine[c]] = "fails")
    <3>1. LoneHas(c)
      BY <2>2 DEF IndInv, LoneInv, Lone, Inside
    <3> QED
      BY <3>1 DEF LoneHas, At
  <2> QED
    BY <2>1, <2>2
<1> QED
  BY InitIndInv, NextIndInv, <1>1, PTL DEF Spec

-----------------------------------------------------------------------------
(***************************************************************************)
(* The Process that the worker runs in, as it is for any program.          *)
(***************************************************************************)
\* Where the threads can be, and which queues there are.
ProcessPlaces ==
    /\ reader \in [Streams -> {"loop", "read", "add", "signal", "close", "done"}]
    /\ closed \subseteq Streams \cup {"stdin"}
    /\ monitor \in {"loop", "poll", "stdin", "writer", "done"} \cup Streams

\* A reader closes its queue before it ends, and the monitor has closed what it
\* has gone past, for a reader that is late as for one that is done.
ClosedBehind ==
    /\ \A s \in Streams : reader[s] = "done" => s \in closed
    /\ monitor \in {"stderr", "stdin", "writer", "done"} => "stdout" \in closed
    /\ monitor \in {"stdin", "writer", "done"} => "stderr" \in closed
    /\ monitor \in {"writer", "done"} => "stdin" \in closed
    /\ stopped => monitor = "done" /\ writer = "done"

\* Only a program that has ended has a return code.
CodeOfEnded == returncode # "none" => proc # "running"

ProcessInv == ProcessPlaces /\ ClosedBehind /\ CodeOfEnded /\ JoinLeavesNone

\* A new process has nothing closed and nobody done.
LEMMA InitProcessInv == ProcessInit => ProcessInv
  BY DEF ProcessInit, ProcessInv, ProcessPlaces, ClosedBehind, CodeOfEnded, JoinLeavesNone, Streams

\* Every step of the program, the four threads and the users keeps it.
LEMMA NextProcessInv == ProcessInv /\ [ProcessNext]_processVars => ProcessInv'
<1> SUFFICES ASSUME ProcessInv, [ProcessNext]_processVars
             PROVE  ProcessInv'
  OBVIOUS
<1> USE DEF ProcessInv, ProcessPlaces, ClosedBehind, CodeOfEnded, JoinLeavesNone, Streams,
        program, queues, signals, threads, joining
<1>1. ASSUME NEW s \in Streams, WriteLine(s) \/ CloseStream(s)
      PROVE  ProcessInv'
  <2>1. UNCHANGED <<proc, returncode, closed, stopped, reader, writer, monitor, survived, caller>>
    BY <1>1 DEF WriteLine, CloseStream
  <2> QED
    BY <2>1
<1>2. ASSUME NEW s \in Streams, ReaderLoop(s) \/ ReadLine(s) \/ AddLine(s) \/ ReaderSignals(s)
      PROVE  ProcessInv'
  <2>1. \E label \in {"read", "add", "loop", "signal", "close"} : reader' = [reader EXCEPT ![s] = label]
    BY <1>2 DEF ReaderLoop, ReadLine, AddLine, ReaderSignals, ReaderGoto
  <2>2. UNCHANGED <<proc, returncode, closed, stopped, writer, monitor, survived, caller>>
    BY <1>2 DEF ReaderLoop, ReadLine, AddLine, ReaderSignals
  <2> QED
    BY <2>1, <2>2
<1>3. ASSUME NEW s \in Streams, ReaderCloses(s)
      PROVE  ProcessInv'
  BY <1>3 DEF ReaderCloses, ReaderGoto
<1>4. ASSUME NEW how \in {"zero", "nonzero"}, ProgramEnds(how)
      PROVE  ProcessInv'
  BY <1>4 DEF ProgramEnds
<1>5. CASE WriterPops \/ LineWritten
  <2>1. writer # "done"
    BY <1>5 DEF WriterPops, LineWritten
  <2>2. UNCHANGED <<proc, returncode, closed, stopped, reader, monitor, survived, caller>>
    BY <1>5 DEF WriterPops, LineWritten
  <2> QED
    BY <2>1, <2>2
<1>6. CASE MonitorStops \/ MonitorPolls
  <2>1. monitor = "loop" /\ monitor' \in {"stdout", "poll"}
    BY <1>6 DEF MonitorStops, MonitorPolls, MonitorGoto
  <2>2. UNCHANGED <<proc, returncode, closed, stopped, reader, writer, survived, caller>>
    BY <1>6 DEF MonitorStops, MonitorPolls
  <2> QED
    BY <2>1, <2>2
<1>7. CASE Polled
  BY <1>7 DEF Polled, MonitorGoto
<1>8. CASE FoundSilent
  BY <1>8 DEF FoundSilent, MonitorGoto, Kill
<1>9. ASSUME NEW s \in Streams, JoinReader(s)
      PROVE  ProcessInv'
  <2>1. closed' \in {closed, closed \cup {s}} /\ s \in closed'
    BY <1>9 DEF JoinReader, ReaderAt
  <2>2. monitor = s /\ monitor' = After(s)
    BY <1>9 DEF JoinReader, MonitorGoto
  <2>3. UNCHANGED <<proc, returncode, stopped, reader, writer, survived, caller>>
    BY <1>9 DEF JoinReader
  <2>4. CASE s = "stdout"
    BY <2>1, <2>2, <2>3, <2>4 DEF After
  <2>5. CASE s = "stderr"
    BY <2>1, <2>2, <2>3, <2>5 DEF After
  <2> QED
    BY <2>4, <2>5
<1>10. CASE WaitLimitFires \/ SendLine \/ Stop
  <2>1. UNCHANGED <<proc, returncode, closed, stopped, reader, writer, monitor, survived, caller>>
    BY <1>10 DEF WaitLimitFires, SendLine, Stop
  <2> QED
    BY <2>1
<1>11. CASE CloseStdin \/ NoMoreInput
  <2>1. /\ closed' = closed \cup {"stdin"}
        /\ \/ monitor' = monitor
           \/ monitor = "stdin" /\ monitor' = "writer"
    BY <1>11 DEF CloseStdin, NoMoreInput, MonitorGoto
  <2>2. UNCHANGED <<proc, returncode, stopped, reader, writer, survived, caller>>
    BY <1>11 DEF CloseStdin, NoMoreInput
  <2>3. ProcessPlaces' /\ ClosedBehind'
    BY <2>1, <2>2
  <2>4. CodeOfEnded' /\ JoinLeavesNone'
    BY <2>2
  <2> QED
    BY <2>3, <2>4
<1>12. CASE JoinWriter
  BY <1>12 DEF JoinWriter, MonitorGoto
<1>13. CASE JoinEnds \/ JoinGivesUp
  <2>1. Concludes
    BY <1>13 DEF JoinEnds, JoinGivesUp
  <2>2. UNCHANGED <<returncode, closed, stopped, reader, writer, monitor>> /\ proc' \in {proc, "killed"}
    BY <2>1 DEF Concludes, Kill
  <2>3. JoinLeavesNone'
    <3>1. CASE returncode = "none"
      <4>1. PICK raises \in BOOLEAN : Kill(raises) /\ survived' = raises
        BY <2>1, <3>1 DEF Concludes
      <4>2. CASE raises
        BY <4>1, <4>2
      <4>3. CASE ~raises
        BY <3>1, <4>1, <4>3 DEF Kill
      <4> QED
        BY <4>2, <4>3
    <3>2. CASE returncode # "none"
      BY <2>1, <3>2 DEF Concludes
    <3> QED
      BY <3>1, <3>2
  <2> QED
    BY <2>2, <2>3
<1>14. CASE UNCHANGED processVars
  BY <1>14 DEF processVars
<1> QED
  BY <1>1, <1>2, <1>3, <1>4, <1>5, <1>6, <1>7, <1>8, <1>9, <1>10, <1>11, <1>12, <1>13, <1>14
     DEF ProcessNext, Reader, Monitor

\* When a process says it is stopped all its queues are closed, that of a reader
\* stuck on its pipe included, and nobody writes to the program any more
\* (processes.py:242-268).
THEOREM QueuesClosed == ProcessSpec => []StoppedMeansClosed
<1>1. ProcessInv => StoppedMeansClosed
  BY DEF ProcessInv, ProcessPlaces, ClosedBehind, StoppedMeansClosed, Streams
<1> QED
  BY <1>1, InitProcessInv, NextProcessInv, PTL DEF ProcessSpec

\* A program has ended or was killed when its join() is over, however the
\* monitor came to its end or the till got ahead of it, unless the kill() of
\* that join() raised and was warned about (processes.py:175-199, 327-341).
THEOREM NoneSurvives == ProcessSpec => []JoinLeavesNone
<1>1. ProcessInv => JoinLeavesNone
  BY DEF ProcessInv
<1> QED
  BY <1>1, InitProcessInv, NextProcessInv, PTL DEF ProcessSpec

-----------------------------------------------------------------------------
\* What a Process counts, as functions of its streams: more is never in a pipe
\* than was written, nor in the queue of the writer than was sent.
ProcessCounts ==
    /\ written \in [Streams -> Nat] /\ pipe \in [Streams -> Nat]
    /\ \A s \in Streams : written[s] <= MaxLines[s] /\ pipe[s] <= written[s]
    /\ sent \in 0..MaxInput /\ stdin \in 0..sent
    /\ open \subseteq Streams

\* What its threads and users know.
ProcessFlags ==
    /\ proc \in {"running", "zero", "nonzero", "killed"}
    /\ returncode \in {"none", "zero", "nonzero"}
    /\ {pleaseStop, stopRequested, stopped, waitLimit, survived} \subseteq BOOLEAN
    /\ writer \in {"loop", "write", "done"}
    /\ caller \in {"waits", "ok", "timeout", "failed"}

\* Whatever the program does with its pipes, no step gets the counts wrong.
LEMMA NextProcessCounts == ProcessCounts /\ [ProcessNext]_processVars => ProcessCounts'
<1> SUFFICES ASSUME ProcessCounts, [ProcessNext]_processVars
             PROVE  ProcessCounts'
  OBVIOUS
<1> USE DEF ProcessCounts, program, queues
<1>1. ASSUME NEW s \in Streams, WriteLine(s)
      PROVE  ProcessCounts'
  <2>1. /\ MaxLines[s] \in Nat /\ written[s] < MaxLines[s]
        /\ written' = [written EXCEPT ![s] = @ + 1] /\ pipe' = [pipe EXCEPT ![s] = @ + 1]
        /\ UNCHANGED <<sent, stdin, open>>
    BY <1>1, ProcessAssumption DEF WriteLine
  <2> QED
    BY <2>1
<1>2. ASSUME NEW s \in Streams, CloseStream(s) \/ ReaderLoop(s) \/ AddLine(s) \/ ReaderSignals(s) \/ ReaderCloses(s)
      PROVE  ProcessCounts'
  <2>1. UNCHANGED <<written, pipe, sent, stdin>> /\ open' \subseteq open
    BY <1>2 DEF CloseStream, ReaderLoop, AddLine, ReaderSignals, ReaderCloses
  <2> QED
    BY <2>1
<1>3. ASSUME NEW s \in Streams, ReadLine(s)
      PROVE  ProcessCounts'
  <2>1. /\ pipe' = pipe \/ (pipe[s] > 0 /\ pipe' = [pipe EXCEPT ![s] = @ - 1])
        /\ UNCHANGED <<written, sent, stdin, open>>
    BY <1>3 DEF ReadLine
  <2> QED
    BY <2>1
<1>4. CASE WriterPops \/ SendLine
  <2>1. /\ UNCHANGED <<written, pipe, open>> /\ MaxInput \in Nat
        /\ \/ sent' = sent /\ stdin' = stdin
           \/ sent' = sent /\ stdin > 0 /\ stdin' = stdin - 1
           \/ sent < MaxInput /\ sent' = sent + 1 /\ stdin' = stdin + 1
    BY <1>4, ProcessAssumption DEF WriterPops, SendLine
  <2> QED
    BY <2>1
<1>5. CASE (\E code \in {"zero", "nonzero"} : ProgramEnds(code)) \/ LineWritten \/ Monitor \/ WaitLimitFires
           \/ NoMoreInput \/ Stop \/ JoinEnds \/ JoinGivesUp \/ UNCHANGED processVars
  <2>1. UNCHANGED <<written, pipe, sent, stdin, open>>
    BY <1>5 DEF ProgramEnds, LineWritten, Monitor, MonitorStops, MonitorPolls, Polled, FoundSilent, CloseStdin,
                JoinWriter, JoinReader, WaitLimitFires, NoMoreInput, Stop, JoinEnds, JoinGivesUp, Concludes, processVars
  <2> QED
    BY <2>1
<1> QED
  BY <1>1, <1>2, <1>3, <1>4, <1>5 DEF ProcessNext, Reader

\* Every flag stays what it may be, a program that ended what it ended with.
LEMMA NextProcessFlags == ProcessFlags /\ [ProcessNext]_processVars => ProcessFlags'
<1> SUFFICES ASSUME ProcessFlags, [ProcessNext]_processVars
             PROVE  ProcessFlags'
  OBVIOUS
<1> USE DEF ProcessFlags, program, signals, threads, joining
<1>1. ASSUME NEW s \in Streams, WriteLine(s) \/ CloseStream(s) \/ Reader(s) \/ JoinReader(s)
      PROVE  ProcessFlags'
  <2>1. /\ UNCHANGED <<proc, returncode, stopRequested, stopped, waitLimit, survived, writer, caller>>
        /\ pleaseStop' \in {pleaseStop, TRUE}
    BY <1>1 DEF WriteLine, CloseStream, Reader, ReaderLoop, ReadLine, AddLine, ReaderSignals, ReaderCloses, JoinReader
  <2> QED
    BY <2>1
<1>2. ASSUME NEW code \in {"zero", "nonzero"}, ProgramEnds(code)
      PROVE  ProcessFlags'
  BY <1>2 DEF ProgramEnds
<1>3. CASE WriterPops \/ LineWritten
  <2>1. /\ UNCHANGED <<proc, returncode, stopRequested, stopped, waitLimit, survived, caller>>
        /\ pleaseStop' \in {pleaseStop, TRUE} /\ writer' \in {"loop", "write", "done"}
    BY <1>3 DEF WriterPops, LineWritten
  <2> QED
    BY <2>1
<1>4. CASE MonitorStops \/ MonitorPolls \/ Polled \/ CloseStdin \/ JoinWriter \/ FoundSilent
  <2>1. /\ UNCHANGED <<pleaseStop, stopRequested, waitLimit, survived, writer, caller>>
        /\ proc' \in {proc, "killed"} /\ returncode' \in {returncode, "zero", "nonzero"}
        /\ stopped' \in {stopped, TRUE}
    BY <1>4 DEF MonitorStops, MonitorPolls, Polled, CloseStdin, JoinWriter, FoundSilent, Kill, Code
  <2> QED
    BY <2>1
<1>5. CASE WaitLimitFires \/ SendLine \/ NoMoreInput \/ Stop
  <2>1. /\ UNCHANGED <<proc, returncode, stopped, survived, writer, caller>>
        /\ pleaseStop' \in {pleaseStop, TRUE} /\ stopRequested' \in {stopRequested, TRUE}
        /\ waitLimit' \in {waitLimit, TRUE}
    BY <1>5 DEF WaitLimitFires, SendLine, NoMoreInput, Stop
  <2> QED
    BY <2>1
<1>6. CASE JoinEnds \/ JoinGivesUp
  <2>1. /\ UNCHANGED <<returncode, pleaseStop, stopRequested, stopped, waitLimit, writer>>
        /\ proc' \in {proc, "killed"} /\ caller' \in {"ok", "timeout", "failed"}
        /\ survived' = survived \/ survived' \in BOOLEAN
    BY <1>6 DEF JoinEnds, JoinGivesUp, Concludes, Kill
  <2> QED
    BY <2>1
<1>7. CASE UNCHANGED processVars
  BY <1>7 DEF processVars
<1> QED
  BY <1>1, <1>2, <1>3, <1>4, <1>5, <1>6, <1>7 DEF ProcessNext, Monitor

\* Type correctness of the Process: in particular no more is read from a pipe
\* than was written, and no more sent to the program than was put in its queue.
THEOREM ProcessTypes == ProcessSpec => []ProcessTypeOK
<1>1. ProcessInit => ProcessCounts /\ ProcessFlags
  <2> SUFFICES ASSUME ProcessInit
               PROVE  ProcessCounts /\ ProcessFlags
    OBVIOUS
  <2>1. \A s \in Streams : written[s] = 0 /\ pipe[s] = 0 /\ MaxLines[s] \in Nat
    BY ProcessAssumption DEF ProcessInit
  <2>2. written \in [Streams -> Nat] /\ pipe \in [Streams -> Nat]
    BY DEF ProcessInit
  <2>3. ProcessCounts
    BY <2>1, <2>2, ProcessAssumption DEF ProcessInit, ProcessCounts
  <2>4. ProcessFlags
    BY DEF ProcessInit, ProcessFlags
  <2> QED
    BY <2>3, <2>4
<1>2. ProcessCounts /\ ProcessFlags /\ ProcessInv => ProcessTypeOK
  <2> SUFFICES ASSUME ProcessCounts, ProcessFlags, ProcessInv
               PROVE  ProcessTypeOK
    OBVIOUS
  <2>1. \A s \in Streams : written[s] \in 0..MaxLines[s] /\ pipe[s] \in 0..written[s]
    BY ProcessAssumption DEF ProcessCounts
  <2>2. {DOMAIN written, DOMAIN pipe} = {Streams}
    <3>1. DOMAIN written = Streams /\ DOMAIN pipe = Streams
      BY DEF ProcessCounts
    <3> QED
      BY <3>1
  <2>3. open \subseteq Streams /\ stdin \in 0..MaxInput /\ sent \in 0..MaxInput
    BY ProcessAssumption DEF ProcessCounts
  <2>4. /\ closed \subseteq Streams \cup {"stdin"}
        /\ reader \in [Streams -> {"loop", "read", "add", "signal", "close", "done"}]
        /\ monitor \in {"loop", "poll", "stdin", "writer", "done"} \cup Streams
    BY DEF ProcessInv, ProcessPlaces
  <2> QED
    BY <2>1, <2>2, <2>3, <2>4 DEF ProcessFlags, ProcessTypeOK
<1> QED
  BY <1>1, <1>2, InitProcessInv, NextProcessInv, NextProcessCounts, NextProcessFlags, PTL DEF ProcessSpec
=============================================================================
