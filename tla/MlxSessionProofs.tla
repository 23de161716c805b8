-------------------------- MODULE MlxSessionProofs --------------------------
(* What the caller of a session can rely on, for every number of calls and   *)
(* whatever goes wrong in the helper.                                        *)
EXTENDS MlxSession, TLAPS

USE DEF caller, process, draining, reaping, HelperLeaves, ReaderLeaves, KillerLeaves,
        Fail, CloseThen, Spend, Alive, ChildDone, CallDone, Phases

\* Types of the variables of a session.
TypeOK ==
  /\ pc \in {"begin", "idle", "write", "wait", "drain", "closing", "ending", "over"}
  /\ call \in 0..MaxCalls /\ profile \in 0..Phases /\ count \in 0..Phases
  /\ last \in {"none", "ok", "start", "context", "protocol", "crash", "stop_state"}
  /\ answers \in 0..MaxCalls /\ closed \in BOOLEAN /\ input \in {"open", "closed"}
  /\ ended \subseteq {"session", "call"} /\ cancelled \in BOOLEAN
  /\ helper \in {"none", "reading", "generating", "exited", "reaped"}
  /\ job \in 0..MaxCalls /\ served \in 0..Phases /\ status \in {"ok", "bad"}
  /\ output \in Seq(Line) /\ held \in Line /\ frames \in Seq(Line)
  /\ reader \in {"scan", "send", "ended"} /\ waiter \in {"reader", "process", "done"}
  /\ killer \in {"idle", "term", "killed"} /\ waitErr \in BOOLEAN
  /\ budget \in 0..Budget

-----------------------------------------------------------------------------
(* The process and the goroutines                                            *)

\* The waiter outlasts the reader and the process, and nothing outlasts it.
\* Its verdict is that of the exit status and of the watcher.
Reaped ==
  /\ waiter # "reader" => reader = "ended"
  /\ waiter = "done" => helper \in {"none", "reaped"} /\ killer # "term"
  /\ helper = "reaped" => waiter = "done"
  /\ helper = "none" => pc \in {"begin", "over"}
  /\ helper = "reaped" /\ ~waitErr => status = "ok" /\ killer = "idle"

\* A call that still works on a request has not closed the session, and one
\* that returned after closing it has waited.
Closing ==
  /\ pc = "begin" => ~closed /\ helper = "none" /\ waiter = "done"
  /\ closed /\ pc \notin {"closing", "ending"} => waiter = "done"
  /\ pc \in {"closing", "ending"} => closed
  /\ closed => input = "closed" /\ pc \notin {"wait", "drain"}

-----------------------------------------------------------------------------
(* The answers                                                               *)

\* Where the answer to a request can be: the lines with a phase.
Answers(s) == \E i \in 1..Len(s) : s[i].phase # 0
HeldAnswer == reader = "send" /\ held.phase # 0
InTransit == Answers(output) \/ HeldAnswer \/ Answers(frames)

\* At most one answer is on its way, and it is the one to the present call.
OneAnswer ==
  /\ \A i, j \in 1..Len(output) : output[i].phase # 0 /\ output[j].phase # 0 => i = j
  /\ ~(Answers(output) /\ HeldAnswer)
  /\ ~(Answers(output) /\ Answers(frames))
  /\ ~(HeldAnswer /\ Answers(frames))
OnlyOwn ==
  /\ \A i \in 1..Len(output) : output[i].phase # 0 => output[i].of = call
  /\ HeldAnswer => held.of = call
  /\ \A i \in 1..Len(frames) : frames[i].phase # 0 => frames[i].of = call
Own == OneAnswer /\ OnlyOwn

\* While a session is open and waits for an answer, only the helper's work for
\* the present call is under way; between the calls there is none.
Transit ==
  /\ helper \in {"none", "reading", "generating"} => served < Phases
  /\ Len(frames) <= 1
  /\ pc = "wait" => Own /\ profile = count + 1
  /\ pc = "wait" /\ helper = "generating" => job = call /\ ~InTransit
  /\ pc \in {"begin", "idle", "write"} /\ ~closed /\ count < Phases =>
       helper # "generating" /\ ~InTransit
  /\ pc = "write" => profile = count + 1
  /\ pc = "drain" => count = Phases

\* What the last call returned.
Returned ==
  /\ pc = "drain" => answers = call
  /\ pc = "idle" /\ last = "ok" => answers = call
  /\ closed /\ pc \notin {"ending", "over"} => last # "ok"
  /\ pc = "idle" /\ last = "ok" /\ count = Phases => helper = "reaped" /\ ~waitErr
  /\ pc = "begin" => last = "none"

\* What is known of a session in every state.
Inv == TypeOK /\ Reaped /\ Closing /\ Transit /\ Returned

\* A session begins with nothing under way.
LEMMA InitInv == Init => Inv
<1> SUFFICES ASSUME Init PROVE Inv
  OBVIOUS
<1>1. TypeOK
  <2>1. held \in Line
    BY ConstantsOK DEF Init, Other, Line
  <2>2. closed \in BOOLEAN /\ cancelled \in BOOLEAN /\ waitErr \in BOOLEAN
    BY DEF Init
  <2>3. output \in Seq(Line) /\ frames \in Seq(Line)
    BY DEF Init
  <2>4. 0 \in 0..MaxCalls /\ budget \in 0..Budget
    BY ConstantsOK DEF Init
  <2> QED BY <2>1, <2>2, <2>3, <2>4 DEF Init, TypeOK
<1>2. Reaped /\ Closing
  BY DEF Init, Reaped, Closing
<1>3. Transit /\ Returned
  BY DEF Init, Transit, Returned, InTransit, Answers, HeldAnswer
<1> QED BY <1>1, <1>2, <1>3 DEF Inv

\* Every step keeps the types.
LEMMA TypeStep ==
  ASSUME TypeOK, Reaped, Transit, [Next]_vars
  PROVE  TypeOK'
<1> USE ConstantsOK DEF TypeOK, Transit
<1>1. ASSUME Begin PROVE TypeOK'
  BY <1>1 DEF Begin
<1>2. ASSUME BeginFails PROVE TypeOK'
  BY <1>2 DEF BeginFails
<1>3. ASSUME \E p \in 1..Phases : Generate(p) PROVE TypeOK'
  <2>1. closed' \in BOOLEAN /\ cancelled' \in BOOLEAN
    BY <1>3 DEF Generate
  <2>2. call' \in 0..MaxCalls /\ profile' \in 0..Phases
    BY <1>3 DEF Generate
  <2>3. pc' \in {"write", "closing"} /\ last' \in {last, "protocol", "context"}
    BY <1>3 DEF Generate
  <2>4. ended' \subseteq {"session", "call"} /\ input' \in {"open", "closed"}
    BY <1>3 DEF Generate
  <2>5. UNCHANGED <<count, answers, process, draining, reaping, killer, budget>>
    BY <1>3 DEF Generate
  <2> QED BY <2>1, <2>2, <2>3, <2>4, <2>5
<1>4. ASSUME Write PROVE TypeOK'
  BY <1>4 DEF Write
<1>5. ASSUME StopWaiting PROVE TypeOK'
  BY <1>5 DEF StopWaiting
<1>6. ASSUME FindClosed PROVE TypeOK'
  BY <1>6 DEF FindClosed
<1>7. ASSUME Receive PROVE TypeOK'
  <2>1. closed' \in BOOLEAN /\ cancelled' \in BOOLEAN
    BY <1>7 DEF Receive
  <2>2. Head(frames) \in Line /\ frames' \in Seq(Line)
    BY <1>7 DEF Receive
  <2>3. answers' \in 0..MaxCalls
    BY <1>7, <2>2 DEF Receive, Line
  <2> QED BY <1>7, <2>1, <2>2, <2>3 DEF Receive
<1>8. ASSUME Drained PROVE TypeOK'
  BY <1>8 DEF Drained
<1>9. ASSUME Close PROVE TypeOK'
  BY <1>9 DEF Close
<1>10. ASSUME Closed PROVE TypeOK'
  BY <1>10 DEF Closed
<1>11. ASSUME Answer PROVE TypeOK'
  BY <1>11 DEF Answer, Reply, Line
<1>12. ASSUME StopEarly PROVE TypeOK'
  BY <1>12 DEF StopEarly, Reply, Line
<1>13. ASSUME HelperEOF PROVE TypeOK'
  BY <1>13 DEF HelperEOF
<1>14. ASSUME Crash PROVE TypeOK'
  BY <1>14 DEF Crash
<1>15. ASSUME Noise PROVE TypeOK'
  BY <1>15 DEF Noise, Other, Line
<1>16. ASSUME Flood PROVE TypeOK'
  BY <1>16 DEF Flood
<1>17. ASSUME Scan PROVE TypeOK'
  <2>1. cancelled' \in BOOLEAN
    BY <1>17 DEF Scan
  <2>2. Head(output) \in Line /\ output' \in Seq(Line)
    BY <1>17 DEF Scan
  <2>3. held' \in Line
    BY <1>17, <2>2 DEF Scan
  <2>4. reader' \in {"ended", "send"}
    BY <1>17 DEF Scan
  <2>5. UNCHANGED <<caller, ended, helper, job, served, status, frames, reaping,
                    killer, budget>>
    BY <1>17 DEF Scan
  <2> QED BY <2>1, <2>2, <2>3, <2>4, <2>5
<1>18. ASSUME ReaderEOF PROVE TypeOK'
  BY <1>18 DEF ReaderEOF
<1>19. ASSUME Send PROVE TypeOK'
  BY <1>19 DEF Send
<1>20. ASSUME Quit PROVE TypeOK'
  BY <1>20 DEF Quit
<1>21. ASSUME ReaderDone PROVE TypeOK'
  BY <1>21 DEF ReaderDone
<1>22. ASSUME Reap PROVE TypeOK'
  BY <1>22 DEF Reap
<1>23. ASSUME Terminate PROVE TypeOK'
  BY <1>23 DEF Terminate
<1>24. ASSUME Kill PROVE TypeOK'
  BY <1>24 DEF Kill
<1>25. ASSUME EndContext PROVE TypeOK'
  BY <1>25 DEF EndContext
<1>26. CASE UNCHANGED vars
  BY <1>26 DEF vars
<1> QED
  BY <1>1, <1>2, <1>3, <1>4, <1>5, <1>6, <1>7, <1>8, <1>9, <1>10, <1>11, <1>12,
     <1>13, <1>14, <1>15, <1>16, <1>17, <1>18, <1>19, <1>20, <1>21, <1>22, <1>23,
     <1>24, <1>25, <1>26
  DEF Next, CallerStep, HelperStep, ReaderStep, WaiterStep, KillerStep, Over

\* Every step keeps what is known of the process and the goroutines.
LEMMA ReapStep ==
  ASSUME TypeOK, Reaped, Closing, [Next]_vars
  PROVE  Reaped' /\ Closing'
<1> USE DEF TypeOK, Reaped, Closing
<1>1. ASSUME Begin PROVE Reaped' /\ Closing'
  BY <1>1 DEF Begin
<1>2. ASSUME BeginFails PROVE Reaped' /\ Closing'
  BY <1>2 DEF BeginFails
<1>3. ASSUME \E p \in 1..Phases : Generate(p) PROVE Reaped' /\ Closing'
  BY <1>3 DEF Generate
<1>4. ASSUME Write PROVE Reaped' /\ Closing'
  BY <1>4 DEF Write
<1>5. ASSUME StopWaiting PROVE Reaped' /\ Closing'
  BY <1>5 DEF StopWaiting
<1>6. ASSUME FindClosed PROVE Reaped' /\ Closing'
  BY <1>6 DEF FindClosed
<1>7. ASSUME Receive PROVE Reaped' /\ Closing'
  BY <1>7 DEF Receive
<1>8. ASSUME Drained PROVE Reaped' /\ Closing'
  BY <1>8 DEF Drained
<1>9. ASSUME Close PROVE Reaped' /\ Closing'
  BY <1>9 DEF Close
<1>10. ASSUME Closed PROVE Reaped' /\ Closing'
  BY <1>10 DEF Closed
<1>11. ASSUME Answer PROVE Reaped' /\ Closing'
  BY <1>11 DEF Answer, Reply
<1>12. ASSUME StopEarly PROVE Reaped' /\ Closing'
  BY <1>12 DEF StopEarly, Reply
<1>13. ASSUME HelperEOF PROVE Reaped' /\ Closing'
  BY <1>13 DEF HelperEOF
<1>14. ASSUME Crash PROVE Reaped' /\ Closing'
  BY <1>14 DEF Crash
<1>15. ASSUME Noise PROVE Reaped' /\ Closing'
  BY <1>15 DEF Noise
<1>16. ASSUME Flood PROVE Reaped' /\ Closing'
  BY <1>16 DEF Flood
<1>17. ASSUME Scan PROVE Reaped' /\ Closing'
  BY <1>17 DEF Scan
<1>18. ASSUME ReaderEOF PROVE Reaped' /\ Closing'
  BY <1>18 DEF ReaderEOF
<1>19. ASSUME Send PROVE Reaped' /\ Closing'
  BY <1>19 DEF Send
<1>20. ASSUME Quit PROVE Reaped' /\ Closing'
  BY <1>20 DEF Quit
<1>21. ASSUME ReaderDone PROVE Reaped' /\ Closing'
  BY <1>21 DEF ReaderDone
<1>22. ASSUME Reap PROVE Reaped' /\ Closing'
  BY <1>22 DEF Reap
<1>23. ASSUME Terminate PROVE Reaped' /\ Closing'
  BY <1>23 DEF Terminate
<1>24. ASSUME Kill PROVE Reaped' /\ Closing'
  BY <1>24 DEF Kill
<1>25. ASSUME EndContext PROVE Reaped' /\ Closing'
  BY <1>25 DEF EndContext
<1>26. CASE UNCHANGED vars
  BY <1>26 DEF vars
<1> QED
  BY <1>1, <1>2, <1>3, <1>4, <1>5, <1>6, <1>7, <1>8, <1>9, <1>10, <1>11, <1>12,
     <1>13, <1>14, <1>15, <1>16, <1>17, <1>18, <1>19, <1>20, <1>21, <1>22, <1>23,
     <1>24, <1>25, <1>26
  DEF Next, CallerStep, HelperStep, ReaderStep, WaiterStep, KillerStep, Over

\* A line that comes or goes, and the answers among the lines.
LEMMA AnswersAppend ==
  ASSUME NEW s \in Seq(Line), NEW l \in Line
  PROVE  Answers(Append(s, l)) <=> Answers(s) \/ l.phase # 0
<1>1. /\ Len(Append(s, l)) = Len(s) + 1 /\ Append(s, l)[Len(s) + 1] = l
      /\ \A i \in 1..Len(s) : Append(s, l)[i] = s[i]
  OBVIOUS
<1>2. 1..(Len(s) + 1) = 1..Len(s) \cup {Len(s) + 1}
  OBVIOUS
<1> QED BY <1>1, <1>2 DEF Answers

\* The first line and the rest of them.
LEMMA AnswersTail ==
  ASSUME NEW s \in Seq(Line), s # <<>>
  PROVE  Answers(s) <=> Head(s).phase # 0 \/ Answers(Tail(s))
<1>1. /\ Len(Tail(s)) = Len(s) - 1 /\ Head(s) = s[1] /\ Len(s) \in Nat \ {0}
      /\ \A i \in 1..(Len(s) - 1) : Tail(s)[i] = s[i + 1]
  OBVIOUS
<1>2. ASSUME Answers(Tail(s)) PROVE Answers(s)
  BY <1>1, <1>2 DEF Answers
<1>3. ASSUME Answers(s), s[1].phase = 0 PROVE Answers(Tail(s))
  <2>1. PICK i \in 1..Len(s) : s[i].phase # 0
    BY <1>3 DEF Answers
  <2>2. i - 1 \in 1..(Len(s) - 1) /\ Tail(s)[i - 1] = s[i]
    BY <1>1, <1>3, <2>1
  <2> QED BY <1>1, <2>1, <2>2 DEF Answers
<1>4. ASSUME s[1].phase # 0 PROVE Answers(s)
  BY <1>1, <1>4 DEF Answers
<1> QED BY <1>1, <1>2, <1>3, <1>4

\* Lines that nobody touches stay what they were.
LEMMA LinesKept ==
  ASSUME UNCHANGED <<output, reader, held, frames, call>>
  PROVE  (InTransit' <=> InTransit) /\ (Own' <=> Own)
BY DEF InTransit, Own, OneAnswer, OnlyOwn, Answers, HeldAnswer

\* A call that begins with nothing under way sees its own answers only.
LEMMA NoneIsOwn ==
  ASSUME TypeOK, ~InTransit PROVE Own
BY DEF TypeOK, InTransit, Own, OneAnswer, OnlyOwn, Answers, HeldAnswer

\* What the reader does makes no answer.
LEMMA ReaderMoves ==
  ASSUME TypeOK, ReaderStep, Len(frames) <= 1
  PROVE  /\ InTransit' => InTransit
         /\ Own => Own'
         /\ Len(frames') <= 1
<1> USE DEF TypeOK, InTransit
<1>1. CASE Scan
  <2>1. /\ output # <<>> /\ output' = Tail(output) /\ reader = "scan"
        /\ frames' = frames /\ call' = call
        /\ \/ reader' = "ended"
           \/ reader' = "send" /\ held' = Head(output)
    BY <1>1 DEF Scan, ReaderLeaves
  <2>2. Answers(output) <=> Head(output).phase # 0 \/ Answers(output')
    BY <2>1, AnswersTail
  <2>3. Answers(frames') = Answers(frames)
    BY <2>1
  <2>4. HeldAnswer' => Head(output).phase # 0
    BY <2>1 DEF HeldAnswer
  <2>5. ASSUME Own PROVE Own'
    <3>1. /\ Len(output') = Len(output) - 1 /\ Head(output) = output[1]
          /\ Len(output) \in Nat \ {0}
          /\ \A i \in 1..(Len(output) - 1) : output'[i] = output[i + 1]
      BY <2>1
    <3>2. OneAnswer'
      <4>1. \A i, j \in 1..Len(output') : output'[i].phase # 0 /\ output'[j].phase # 0 => i = j
        <5> SUFFICES ASSUME NEW i \in 1..Len(output'), NEW j \in 1..Len(output'),
                            output'[i].phase # 0, output'[j].phase # 0
                     PROVE  i = j
          OBVIOUS
        <5>1. i + 1 \in 1..Len(output) /\ j + 1 \in 1..Len(output)
          BY <3>1
        <5>2. output[i + 1].phase # 0 /\ output[j + 1].phase # 0
          BY <3>1
        <5>3. i + 1 = j + 1
          BY <2>5, <5>1, <5>2 DEF Own, OneAnswer
        <5> QED BY <3>1, <5>3
      <4>2. Head(output).phase # 0 => ~Answers(output')
        <5> SUFFICES ASSUME output[1].phase # 0, NEW i \in 1..Len(output'),
                            output'[i].phase # 0
                     PROVE  FALSE
          BY <3>1 DEF Answers
        <5>1. i + 1 \in 1..Len(output) /\ 1 \in 1..Len(output) /\ output[i + 1].phase # 0
          BY <3>1
        <5>2. i + 1 = 1
          BY <2>5, <5>1 DEF Own, OneAnswer
        <5> QED BY <3>1, <5>2
      <4>3. ~(Answers(output) /\ Answers(frames))
        BY <2>5 DEF Own, OneAnswer
      <4> QED BY <2>2, <2>3, <2>4, <4>1, <4>2, <4>3 DEF OneAnswer
    <3>3. OnlyOwn'
      <4>1. \A i \in 1..Len(output) : output[i].phase # 0 => output[i].of = call
        BY <2>5 DEF Own, OnlyOwn
      <4>2. \A i \in 1..Len(output') : output'[i].phase # 0 => output'[i].of = call'
        <5> TAKE i \in 1..Len(output')
        <5>1. i + 1 \in 1..Len(output) /\ output'[i] = output[i + 1]
          BY <3>1
        <5>2. call' = call
          BY <2>1
        <5> HIDE <2>1, <2>5, <3>1
        <5> QED BY <4>1, <5>1, <5>2
      <4>3. HeldAnswer' => held'.of = call'
        <5>1. 1 \in 1..Len(output)
          BY <3>1
        <5> QED BY <2>1, <3>1, <4>1, <5>1 DEF HeldAnswer
      <4> QED BY <2>1, <2>5, <4>2, <4>3 DEF Own, OnlyOwn
    <3> QED BY <3>2, <3>3 DEF Own
  <2> QED BY <2>1, <2>2, <2>3, <2>4, <2>5
<1>2. CASE ReaderEOF \/ Quit
  <2>1. UNCHANGED <<output, frames, call, held>> /\ reader' = "ended"
    BY <1>2 DEF ReaderEOF, Quit
  <2>2. ~HeldAnswer'
    BY <2>1 DEF HeldAnswer
  <2> QED BY <2>1, <2>2 DEF Own, OneAnswer, OnlyOwn, Answers
<1>3. CASE Send
  <2>1. UNCHANGED <<output, call, held>> /\ reader = "send" /\ reader' = "scan"
        /\ frames = <<>> /\ frames' = <<held>>
    BY <1>3 DEF Send
  <2>2. ~HeldAnswer' /\ ~Answers(frames) /\ (HeldAnswer <=> held.phase # 0)
    BY <2>1 DEF HeldAnswer, Answers
  <2>3. Len(frames') = 1 /\ frames'[1] = held /\ 1..Len(frames') = {1}
    BY <2>1
  <2>4. Answers(frames') <=> HeldAnswer
    BY <2>2, <2>3 DEF Answers
  <2>5. Answers(output') <=> Answers(output)
    BY <2>1
  <2>6. ASSUME Own PROVE OneAnswer'
    BY <2>1, <2>2, <2>4, <2>5, <2>6 DEF Own, OneAnswer
  <2>7. ASSUME Own PROVE OnlyOwn'
    BY <2>1, <2>2, <2>3, <2>7 DEF Own, OnlyOwn
  <2> QED BY <2>2, <2>3, <2>4, <2>5, <2>6, <2>7 DEF Own
<1> QED BY <1>1, <1>2, <1>3 DEF ReaderStep

\* What the helper writes.
LEMMA HelperWrites ==
  ASSUME TypeOK, NEW l \in Line, output' = Append(output, l),
         UNCHANGED <<reader, held, frames, call>>
  PROVE  /\ InTransit' <=> InTransit \/ l.phase # 0
         /\ l.phase = 0 /\ Own => Own'
         /\ ~InTransit /\ l.of = call => Own'
<1>1. /\ Len(output') = Len(output) + 1 /\ output'[Len(output) + 1] = l
      /\ \A i \in 1..Len(output) : output'[i] = output[i]
      /\ 1..Len(output') = 1..Len(output) \cup {Len(output) + 1}
  BY DEF TypeOK
<1>2. /\ Answers(output') <=> Answers(output) \/ l.phase # 0
      /\ Answers(frames') <=> Answers(frames)
      /\ HeldAnswer' <=> HeldAnswer
  BY AnswersAppend DEF TypeOK, HeldAnswer
<1>3. InTransit' <=> InTransit \/ l.phase # 0
  BY <1>2 DEF InTransit
<1>4. ASSUME l.phase = 0, Own PROVE Own'
  <2>1. OneAnswer'
    BY <1>1, <1>2, <1>4 DEF Own, OneAnswer
  <2>2. OnlyOwn'
    BY <1>1, <1>2, <1>4 DEF Own, OnlyOwn
  <2> QED BY <2>1, <2>2 DEF Own
<1>5. ASSUME ~InTransit, l.of = call PROVE Own'
  <2>1. OneAnswer'
    BY <1>1, <1>2, <1>5 DEF InTransit, Answers, OneAnswer
  <2>2. OnlyOwn'
    BY <1>1, <1>2, <1>5 DEF InTransit, Answers, OnlyOwn
  <2> QED BY <2>1, <2>2 DEF Own
<1> QED BY <1>3, <1>4, <1>5

\* A sequence of one line.
LEMMA SingleLine ==
  ASSUME NEW s \in Seq(Line), s # <<>>, Len(s) <= 1
  PROVE  Len(s) = 1 /\ Head(s) = s[1] /\ Len(Tail(s)) = 0
<1>1. Len(s) \in Nat \ {0} /\ \A n \in Nat \ {0} : n <= 1 => n = 1
  OBVIOUS
<1>2. Len(s) = 1
  BY <1>1
<1>3. Head(s) = s[1] /\ Len(Tail(s)) = Len(s) - 1
  OBVIOUS
<1> QED BY <1>2, <1>3

\* The answer that is taken from the channel is the only one.
LEMMA FrameTaken ==
  ASSUME TypeOK, Own, Len(frames) <= 1, frames # <<>>, Head(frames).phase # 0,
         frames' = Tail(frames), UNCHANGED <<output, reader, held>>
  PROVE  InTransit /\ ~InTransit' /\ Head(frames).of = call
<1>1. Len(frames) = 1 /\ Head(frames) = frames[1] /\ Len(frames') = 0
  BY SingleLine DEF TypeOK
<1>2. Answers(frames) /\ ~Answers(frames')
  <2>1. 1 \in 1..Len(frames) /\ frames[1].phase # 0
    BY <1>1
  <2>2. Answers(frames)
    BY <2>1 DEF Answers
  <2>3. \A i \in 1..0 : FALSE
    OBVIOUS
  <2>4. ~Answers(frames')
    BY <1>1, <2>3 DEF Answers
  <2> QED BY <2>2, <2>4
<1>3. ~Answers(output') /\ ~HeldAnswer'
  BY <1>2 DEF Own, OneAnswer, HeldAnswer
<1> QED BY <1>1, <1>2, <1>3 DEF InTransit, Own, OnlyOwn

\* Every step keeps what is known of the requests and answers under way.
LEMMA TransitStep ==
  ASSUME TypeOK, Closing, Transit, [Next]_vars
  PROVE  Transit'
\* Steps that touch no line and let no call begin.
<1>q. ASSUME UNCHANGED <<output, reader, held, frames, call, served, job>>,
             helper' = helper \/ helper' \in {"exited", "reaped"},
             \/ UNCHANGED <<pc, closed, count, profile>>
             \/ pc' \in {"closing", "ending", "over"}
             \/ pc' = "idle" /\ (closed' \/ count' = Phases)
      PROVE  Transit'
  BY <1>q, LinesKept DEF Transit
\* The reader's.
<1>s. ASSUME ReaderStep PROVE Transit'
  <2>1. UNCHANGED <<pc, call, profile, count, closed, helper, job, served>>
    BY <1>s DEF ReaderStep, Scan, ReaderEOF, Send, Quit
  <2> QED BY <1>s, <2>1, ReaderMoves DEF Transit
\* An answer is written.
<1>r. ASSUME NEW kind \in {"completed", "stopped"}, Reply(kind), UNCHANGED closed,
             helper' \in {"reading", "exited"}, helper' = "reading" => served' < Phases
      PROVE  Transit'
  <2>1. /\ UNCHANGED <<pc, call, profile, count, reader, held, frames, job>>
        /\ helper = "generating"
        /\ output' = Append(output, [of |-> job, phase |-> served + 1, kind |-> kind])
    BY <1>r DEF Reply
  <2>2. [of |-> job, phase |-> served + 1, kind |-> kind] \in Line
    BY <2>1 DEF TypeOK, Line, Transit
  <2>3. pc = "wait" => Own'
    BY <2>1, <2>2, HelperWrites DEF Transit
  <2>4. pc \in {"begin", "idle", "write"} /\ ~closed => count >= Phases
    BY <2>1 DEF Transit, TypeOK
  <2> QED BY <1>r, <2>1, <2>3, <2>4 DEF Transit
<1>1. ASSUME Begin PROVE Transit'
  <2>1. /\ UNCHANGED <<output, held, frames, call, served, closed, count>>
        /\ reader' = "scan" /\ helper' = "reading" /\ pc = "begin" /\ pc' = "idle"
    BY <1>1 DEF Begin
  <2>2. ~HeldAnswer' /\ (Answers(output') <=> Answers(output))
        /\ (Answers(frames') <=> Answers(frames))
    BY <2>1 DEF HeldAnswer
  <2>3. InTransit' => InTransit
    BY <2>2 DEF InTransit
  <2>4. Len(frames') <= 1 /\ served' < Phases
    BY <2>1 DEF Transit, Closing
  <2>5. ~closed' /\ count' < Phases => helper' # "generating" /\ ~InTransit'
    BY <2>1, <2>3 DEF Transit
  <2> QED BY <2>1, <2>4, <2>5 DEF Transit
<1>2. ASSUME BeginFails PROVE Transit'
  BY <1>2, <1>q DEF BeginFails
<1>3. ASSUME \E p \in 1..Phases : Generate(p) PROVE Transit'
  <2>1. PICK p \in 1..Phases : Generate(p)
    BY <1>3
  <2>2. /\ UNCHANGED <<output, reader, held, frames, helper, served, count>>
        /\ pc = "idle" /\ pc' \in {"write", "closing"}
        /\ pc' = "write" => profile' = count' + 1 /\ closed' = closed
    BY <2>1 DEF Generate
  <2>3. InTransit' <=> InTransit
    BY <2>2 DEF InTransit, Answers, HeldAnswer
  <2> QED BY <2>2, <2>3 DEF Transit
<1>4. ASSUME Write PROVE Transit'
  <2>1. UNCHANGED <<output, reader, held, frames, call, served, count, profile>>
    BY <1>4 DEF Write
  <2>2. CASE pc' = "closing" /\ helper' = helper
    BY <2>1, <2>2 DEF Transit
  <2>3. CASE pc' = "wait" /\ input = "open" /\ helper = "reading" /\ job' = call
    <3>1. ~InTransit /\ profile = count + 1 /\ served < Phases
      BY <1>4, <2>3 DEF Write, Transit, Closing, TypeOK
    <3>2. ~InTransit' /\ Own'
      BY <2>1, <3>1, LinesKept, NoneIsOwn
    <3> QED BY <2>1, <2>3, <3>1, <3>2 DEF Transit
  <2> QED BY <1>4, <2>2, <2>3 DEF Write
<1>5. ASSUME StopWaiting PROVE Transit'
  BY <1>5, <1>q DEF StopWaiting
<1>6. ASSUME FindClosed PROVE Transit'
  BY <1>6, <1>q DEF FindClosed
<1>7. ASSUME Receive PROVE Transit'
  <2>1. /\ pc = "wait" /\ frames # <<>> /\ frames' = Tail(frames)
        /\ UNCHANGED <<output, reader, held, call, helper, served, profile>>
    BY <1>7 DEF Receive
  <2>2. Len(frames') <= 1
    BY <2>1 DEF Transit, TypeOK
  <2>3. CASE pc' = "closing"
    BY <2>1, <2>2, <2>3 DEF Transit
  <2>4. CASE pc' = "drain" /\ count' = Phases
    BY <2>1, <2>2, <2>4 DEF Transit
  <2>5. CASE pc' = "idle" /\ Head(frames).phase = profile
    <3>1. Own /\ profile # 0 /\ (helper = "generating" => ~InTransit)
      BY <2>1 DEF Transit, TypeOK
    <3>2. InTransit /\ ~InTransit'
      BY <2>1, <2>5, <3>1, FrameTaken DEF Transit
    <3> QED BY <2>1, <2>2, <2>5, <3>1, <3>2 DEF Transit
  <2> QED BY <1>7, <2>3, <2>4, <2>5 DEF Receive
<1>8. ASSUME Drained PROVE Transit'
  BY <1>8, <1>q DEF Drained, Transit
<1>9. ASSUME Close PROVE Transit'
  BY <1>9, <1>q DEF Close
<1>10. ASSUME Closed PROVE Transit'
  BY <1>10, <1>q DEF Closed, Closing
<1>11. ASSUME Answer PROVE Transit'
  <2>1. \E kind \in {"completed", "stopped"} : Reply(kind) /\ UNCHANGED closed
    BY <1>11 DEF Answer, Reply
  <2>2. helper' = "reading" => served' < Phases
    BY <1>11 DEF Answer, TypeOK, Reply, Transit
  <2>3. helper' \in {"reading", "exited"}
    BY <1>11 DEF Answer
  <2> QED BY <1>r, <2>1, <2>2, <2>3
<1>12. ASSUME StopEarly PROVE Transit'
  <2>1. \E kind \in {"completed", "stopped"} : Reply(kind) /\ UNCHANGED closed
    BY <1>12 DEF StopEarly, Reply
  <2>2. helper' = "reading" => served' < Phases
    BY <1>12 DEF StopEarly, TypeOK, Reply, Transit
  <2>3. helper' \in {"reading", "exited"}
    BY <1>12 DEF StopEarly
  <2> QED BY <1>r, <2>1, <2>2, <2>3
<1>13. ASSUME HelperEOF PROVE Transit'
  BY <1>13, <1>q DEF HelperEOF
<1>14. ASSUME Crash PROVE Transit'
  BY <1>14, <1>q DEF Crash
<1>15. ASSUME Noise PROVE Transit'
  <2>1. /\ UNCHANGED <<pc, call, profile, count, closed, reader, held, frames, helper,
                       job, served>>
        /\ \E kind \in {"noise", "huge"} : output' = Append(output, Other(kind))
    BY <1>15 DEF Noise
  <2>2. PICK l \in Line : l.phase = 0 /\ output' = Append(output, l)
    BY <2>1, ConstantsOK DEF Other, Line
  <2>3. (InTransit' <=> InTransit) /\ (Own => Own')
    BY <2>1, <2>2, HelperWrites
  <2> QED BY <2>1, <2>3 DEF Transit
<1>16. ASSUME Flood PROVE Transit'
  BY <1>16, <1>q DEF Flood
<1>17. ASSUME Scan PROVE Transit'
  BY <1>17, <1>s DEF ReaderStep
<1>18. ASSUME ReaderEOF PROVE Transit'
  BY <1>18, <1>s DEF ReaderStep
<1>19. ASSUME Send PROVE Transit'
  BY <1>19, <1>s DEF ReaderStep
<1>20. ASSUME Quit PROVE Transit'
  BY <1>20, <1>s DEF ReaderStep
<1>21. ASSUME ReaderDone PROVE Transit'
  BY <1>21, <1>q DEF ReaderDone
<1>22. ASSUME Reap PROVE Transit'
  BY <1>22, <1>q DEF Reap
<1>23. ASSUME Terminate PROVE Transit'
  BY <1>23, <1>q DEF Terminate
<1>24. ASSUME Kill PROVE Transit'
  BY <1>24, <1>q DEF Kill
<1>25. ASSUME EndContext PROVE Transit'
  BY <1>25, <1>q DEF EndContext
<1>26. CASE UNCHANGED vars
  BY <1>26, <1>q DEF vars
<1> QED
  BY <1>1, <1>2, <1>3, <1>4, <1>5, <1>6, <1>7, <1>8, <1>9, <1>10, <1>11, <1>12,
     <1>13, <1>14, <1>15, <1>16, <1>17, <1>18, <1>19, <1>20, <1>21, <1>22, <1>23,
     <1>24, <1>25, <1>26
  DEF Next, CallerStep, HelperStep, ReaderStep, WaiterStep, KillerStep, Over

\* Every step keeps what is known of the last call.
LEMMA ReturnStep ==
  ASSUME TypeOK, Reaped, Closing, Transit, Returned, [Next]_vars
  PROVE  Returned'
<1> USE DEF Closing, Returned
<1>1. ASSUME Begin PROVE Returned'
  BY <1>1 DEF Begin
<1>2. ASSUME BeginFails PROVE Returned'
  BY <1>2 DEF BeginFails
<1>3. ASSUME \E p \in 1..Phases : Generate(p) PROVE Returned'
  BY <1>3 DEF Generate
<1>4. ASSUME Write PROVE Returned'
  BY <1>4 DEF Write
<1>5. ASSUME StopWaiting PROVE Returned'
  BY <1>5 DEF StopWaiting
<1>6. ASSUME FindClosed PROVE Returned'
  BY <1>6 DEF FindClosed
<1>7. ASSUME Receive PROVE Returned'
  <2>1. /\ pc = "wait" /\ frames # <<>> /\ frames' = Tail(frames)
        /\ UNCHANGED <<output, reader, held, call>>
    BY <1>7 DEF Receive
  <2>2. profile \in 1..Phases /\ Own /\ Len(frames) <= 1 /\ ~closed
    BY <2>1 DEF Transit, TypeOK
  <2>3. CASE pc' = "closing" /\ last' # "ok"
    BY <2>3
  <2>4. CASE /\ Head(frames).phase = profile /\ answers' = Head(frames).of
             /\ closed' = closed
             /\ \/ pc' = "idle" /\ count' # Phases
                \/ pc' = "drain" /\ count' = Phases
    <3>1. answers' = call'
      BY <2>1, <2>2, <2>4, FrameTaken
    <3> QED BY <2>2, <2>4, <3>1
  <2> QED BY <1>7, <2>3, <2>4 DEF Receive
<1>8. ASSUME Drained PROVE Returned'
  BY <1>8 DEF Drained, Reaped
<1>9. ASSUME Close PROVE Returned'
  BY <1>9 DEF Close
<1>10. ASSUME Closed PROVE Returned'
  BY <1>10 DEF Closed
<1>11. ASSUME Answer PROVE Returned'
  BY <1>11 DEF Answer, Reply
<1>12. ASSUME StopEarly PROVE Returned'
  BY <1>12 DEF StopEarly, Reply
<1>13. ASSUME HelperEOF PROVE Returned'
  BY <1>13 DEF HelperEOF
<1>14. ASSUME Crash PROVE Returned'
  BY <1>14 DEF Crash
<1>15. ASSUME Noise PROVE Returned'
  BY <1>15 DEF Noise
<1>16. ASSUME Flood PROVE Returned'
  BY <1>16 DEF Flood
<1>17. ASSUME Scan PROVE Returned'
  BY <1>17 DEF Scan
<1>18. ASSUME ReaderEOF PROVE Returned'
  BY <1>18 DEF ReaderEOF
<1>19. ASSUME Send PROVE Returned'
  BY <1>19 DEF Send
<1>20. ASSUME Quit PROVE Returned'
  BY <1>20 DEF Quit
<1>21. ASSUME ReaderDone PROVE Returned'
  BY <1>21 DEF ReaderDone
<1>22. ASSUME Reap PROVE Returned'
  BY <1>22 DEF Reap
<1>23. ASSUME Terminate PROVE Returned'
  BY <1>23 DEF Terminate
<1>24. ASSUME Kill PROVE Returned'
  BY <1>24 DEF Kill
<1>25. ASSUME EndContext PROVE Returned'
  BY <1>25 DEF EndContext
<1>26. CASE UNCHANGED vars
  BY <1>26 DEF vars
<1> QED
  BY <1>1, <1>2, <1>3, <1>4, <1>5, <1>6, <1>7, <1>8, <1>9, <1>10, <1>11, <1>12,
     <1>13, <1>14, <1>15, <1>16, <1>17, <1>18, <1>19, <1>20, <1>21, <1>22, <1>23,
     <1>24, <1>25, <1>26
  DEF Next, CallerStep, HelperStep, ReaderStep, WaiterStep, KillerStep, Over

\* Every step keeps all of it.
LEMMA InvStep == Inv /\ [Next]_vars => Inv'
BY TypeStep, ReapStep, TransitStep, ReturnStep DEF Inv

(* The types, the goroutines, the answers under way and the last call's       *)
(* result, in every state of a session.                                      *)
THEOREM Known == Spec => []Inv
BY InitInv, InvStep, PTL DEF Spec

(* An answer that a call returns is the answer to its own request.           *)
THEOREM AnswersOwn == Spec => []OwnAnswer
<1>1. Inv => OwnAnswer
  BY DEF Inv, Returned, OwnAnswer
<1> QED BY <1>1, Known, PTL

(* Close, and a call that failed, leave neither process nor goroutine.       *)
THEOREM NothingLeft == Spec => []NoOrphan
<1>1. Inv => NoOrphan
  BY DEF Inv, Reaped, Closing, NoOrphan
<1> QED BY <1>1, Known, PTL

(* The third answer is only returned of a helper that ended well.            *)
THEOREM EndsClean == Spec => []CleanCycle
<1>1. Inv => CleanCycle
  BY DEF Inv, Reaped, Returned, CleanCycle
<1> QED BY <1>1, Known, PTL
=============================================================================
