------------------------ MODULE HistoryReaderProofs ------------------------
(* What holds of the reader for every number of workers and turns, every     *)
(* channel and every limit of a pause.                                       *)
EXTENDS HistoryReader, FiniteSetTheorems, WellFoundedInduction, TLAPS

USE DEF channel, producer, results, limits, guard, NoError, Running, ProducerOnly,
        WorkerOnly, Goto

-----------------------------------------------------------------------------
(* The parts of the inductive invariant                                      *)

\* A guard that samples has neither failed nor waited too long.
Watched ==
  /\ main = "start" => ~watching /\ ~paused /\ stall = 0
  /\ watching => main = "run" /\ ~stopped /\ stall < StallPolls

\* After a pause no more than half of the workers are admitted.
Halved == reduced /\ ~paused => ceiling <= Half

\* How far the turns have been sent, in either mode.
Sending ==
  /\ closed <=> prod = "closed"
  /\ pipeline /\ prod = "list" => sent = listed
  /\ pipeline /\ prod = "send" => listed = sent + 1
  /\ listError # NoError => prod \in {"close", "closed"}
  /\ prod = "closed" /\ listError # NoError => cancelled
  /\ prod \in {"close", "closed"} /\ listError = NoError /\ ~cancelled => sent = listed

\* Where a turn can be that was sent: in the channel, with a worker, or read.
Queued(t) == \E i \in 1 .. Len(jobs) : jobs[i] = t
Handling == {"received", "acquire", "parked", "admitted", "reading"}
InHand(t) == \E w \in Worker : task[w] = t /\ pc[w] \in Handling

\* No turn but the sent ones is anywhere, and none of those is lost unless a
\* failure ends everything.
Failing == cancelled \/ \E w \in Worker : pc[w] = "failing"
Turns ==
  /\ \A i \in 1 .. Len(jobs) : jobs[i] \in 1 .. sent
  /\ \A w \in Worker : pc[w] \in Handling => task[w] \in 1 .. sent
  /\ good \subseteq 1 .. sent
  /\ Failing \/ \A t \in 1 .. sent : t \in good \/ Queued(t) \/ InHand(t)
  /\ \A w \in Worker : pc[w] = "done" => cancelled \/ (closed /\ jobs = <<>>)

\* The result is made when everybody has finished, and nothing moves after it.
Ended == prod = "closed" /\ ~watching /\ \A w \in Worker : pc[w] = "done"
Whole == outcome.turns = [n \in 1 .. listed |-> n] /\ listError = NoError
Result ==
  /\ outcome = [status |-> outcome.status, error |-> outcome.error,
                turns |-> outcome.turns]
  /\ main \in {"start", "run"} => outcome.status = "none"
  /\ main = "merged" => /\ Ended
                        /\ ~stopped /\ firstError = "idle" => outcome.error = "idle"
  /\ main = "returned" =>
       \/ stopped /\ ~watching /\ outcome.status = "unavailable"
       \/ /\ Ended
          /\ ~stopped /\ firstError = "idle" =>
               outcome = [status |-> "unavailable", error |-> "idle", turns |-> <<>>]
  /\ outcome.status = "complete" => Whole /\ outcome.error = NoError

Inv == TypeOK /\ SlotsAccounted /\ Watched /\ Halved /\ Sending /\ Turns /\ Result

-----------------------------------------------------------------------------
(* Types                                                                     *)

LEMMA LimitType == Limit \in Nat \ {0} /\ Half \in 1 .. Limit
<1>1. Limit \in Nat \ {0}
  BY ConstantsOK, FS_CardinalityType, FS_EmptySet DEF Limit
<1>2. \A n \in Nat \ {0} : AtLeastOne(n \div 2) \in 1 .. n
  BY DEF AtLeastOne
<1> QED BY <1>1, <1>2 DEF Half

\* Waking the parked workers gives labels.
LEMMA WokenType ==
  ASSUME pc \in [Worker -> Labels]
  PROVE  Woken \in [Worker -> Labels]
BY DEF Woken, Labels

\* What a sample does to the guard.
LEMMA UpdateType ==
  ASSUME TypeOK, Watched, main = "start" \/ watching, NEW s \in Samples, Update(s)
  PROVE  /\ stopped' \in BOOLEAN /\ paused' \in BOOLEAN /\ reduced' \in BOOLEAN
         /\ ceiling' \in 1 .. Limit /\ normal' \in 0 .. 2 /\ stall' \in 0 .. StallPolls
         /\ pc' \in [Worker -> Labels]
         /\ stopped' \/ stall' < StallPolls
<1> USE ConstantsOK
<1>1. /\ ceiling \in 1 .. Limit /\ normal \in 0 .. 2 /\ stall \in 0 .. (StallPolls - 1)
      /\ active \in 0 .. Limit /\ paused \in BOOLEAN /\ reduced \in BOOLEAN
      /\ pc \in [Worker -> Labels] /\ StallPolls \in Nat \ {0}
  BY DEF TypeOK, Watched
<1>2. pc' \in [Worker -> Labels]
  BY <1>1, WokenType DEF Update
<1>3. Limit \in Nat \ {0} /\ Half \in 1 .. Limit
  BY LimitType
<1>4. stopped' \in BOOLEAN
  BY DEF Update, Stops
<1>5. ASSUME s = "low", Relax
      PROVE  /\ paused' \in BOOLEAN /\ reduced' \in BOOLEAN
             /\ ceiling' \in 1 .. Limit /\ normal' \in 0 .. 2 /\ stall' \in 0 .. StallPolls
             /\ stopped' \/ stall' < StallPolls
  <2>1. paused' \in BOOLEAN /\ reduced' \in BOOLEAN
    BY <1>1, <1>5 DEF Relax
  <2>2. ceiling' \in 1 .. Limit /\ normal' \in 0 .. 2 /\ stall' \in 0 .. StallPolls
    BY <1>1, <1>3, <1>5 DEF Relax
  <2>3. stopped' \/ stall' < StallPolls
    BY <1>1, <1>5 DEF Relax, Update, Stops
  <2> QED BY <2>1, <2>2, <2>3
<1>6. ASSUME s # "low", Tighten(s)
      PROVE  /\ paused' \in BOOLEAN /\ reduced' \in BOOLEAN
             /\ ceiling' \in 1 .. Limit /\ normal' \in 0 .. 2 /\ stall' \in 0 .. StallPolls
             /\ stopped' \/ stall' < StallPolls
  <2>1. paused' \in BOOLEAN /\ reduced' \in BOOLEAN
    BY <1>1, <1>6 DEF Tighten
  <2>2. normal' \in 0 .. 2 /\ stall' \in 0 .. StallPolls
    BY <1>1, <1>6 DEF Tighten
  <2>3. stopped' \/ stall' < StallPolls
    BY <1>1, <1>6 DEF Tighten, Update, Stops
  <2>4. ceiling' \in 1 .. Limit
    BY <1>1, <1>3, <1>6 DEF Tighten, AtLeastOne
  <2> QED BY <2>1, <2>2, <2>3, <2>4
<1>7. CASE s = "unknown" /\ UNCHANGED limits
  BY <1>1, <1>2, <1>4, <1>7
<1> QED BY <1>2, <1>4, <1>5, <1>6, <1>7 DEF Update

\* A worker that has a slot is counted.
LEMMA SlotTaken ==
  ASSUME TypeOK, SlotsAccounted, NEW w \in Worker, pc[w] \in {"admitted", "reading"}
  PROVE  active \in 1 .. Limit
<1> DEFINE S == {v \in Worker : pc[v] \in {"admitted", "reading"}}
<1>1. IsFiniteSet(S) /\ Cardinality(S) \in Nat /\ S # {}
  BY ConstantsOK, FS_Subset, FS_CardinalityType
<1>2. Cardinality(S) # 0
  BY <1>1, FS_EmptySet
<1>3. active = Cardinality(S)
  BY DEF SlotsAccounted
<1> QED BY <1>1, <1>2, <1>3, LimitType DEF TypeOK

\* Every step keeps the types.
LEMMA TypeStep ==
  ASSUME TypeOK, SlotsAccounted, Watched, Turns, Result, [Next]_vars
  PROVE  TypeOK'
<1> USE ConstantsOK, LimitType DEF TypeOK, Labels, Errors
<1>1. ASSUME StartGuard PROVE TypeOK'
  <2>1. PICK s \in Samples : Update(s)
    BY <1>1 DEF StartGuard
  <2>2. /\ stopped' \in BOOLEAN /\ paused' \in BOOLEAN /\ reduced' \in BOOLEAN
        /\ ceiling' \in 1 .. Limit /\ normal' \in 0 .. 2 /\ stall' \in 0 .. StallPolls
        /\ pc' \in [Worker -> Labels]
    BY <1>1, <2>1, UpdateType DEF StartGuard
  <2>3. watching' \in BOOLEAN
    BY <1>1 DEF StartGuard
  <2>4. outcome'.status \in {"none", "complete", "partial", "unavailable"}
    <3>1. CASE outcome' = outcome
      BY <3>1
    <3>2. CASE outcome' = [outcome EXCEPT !.status = "unavailable", !.error = "memory"]
      <4>1. outcome = [status |-> outcome.status, error |-> outcome.error,
                       turns |-> outcome.turns]
        BY DEF Result
      <4>2. outcome'.status = "unavailable"
        BY <3>2, <4>1
      <4> QED BY <4>2
    <3> QED BY <1>1, <3>1, <3>2 DEF StartGuard
  <2>5. main' \in {"run", "returned"}
    BY <1>1 DEF StartGuard
  <2>6. UNCHANGED <<pipeline, cancelled, producer, task, cause, results, active>>
    BY <1>1 DEF StartGuard
  <2> QED BY <2>2, <2>3, <2>4, <2>5, <2>6
<1>2. ASSUME Merge PROVE TypeOK'
  <2>1. outcome'.status \in {"complete", "partial", "unavailable"}
    BY <1>2 DEF Merge
  <2>2. main' = "merged" /\ watching' \in BOOLEAN
    BY <1>2 DEF Merge
  <2>3. UNCHANGED <<pipeline, cancelled, producer, pc, task, cause, results, stopped,
                    limits, active>>
    BY <1>2 DEF Merge
  <2> QED BY <2>1, <2>2, <2>3
<1>3. ASSUME Discard PROVE TypeOK'
  <2>1. outcome = [status |-> outcome.status, error |-> outcome.error,
                   turns |-> outcome.turns]
    BY DEF Result
  <2>2. outcome'.status \in {"none", "complete", "partial", "unavailable"}
    <3>1. CASE outcome' = [outcome EXCEPT !.status = "unavailable", !.turns = <<>>]
      BY <2>1, <3>1
    <3> QED BY <1>3, <3>1 DEF Discard
  <2> QED BY <1>3, <2>2 DEF Discard
<1>4. ASSUME ListTurn PROVE TypeOK'
  BY <1>4 DEF ListTurn
<1>5. ASSUME EndListing PROVE TypeOK'
  <2>1. listError' \in Errors \cup {NoError} /\ prod' \in {"close", "send"}
    BY <1>5 DEF EndListing, CallErrors
  <2> QED BY <1>5, <2>1 DEF EndListing
<1>6. ASSUME Send PROVE TypeOK'
  BY <1>6 DEF Send
<1>7. ASSUME EndSending PROVE TypeOK'
  BY <1>7 DEF EndSending
<1>8. ASSUME CloseJobs PROVE TypeOK'
  <2>1. cancelled' \in BOOLEAN /\ closed' \in BOOLEAN
    BY <1>8 DEF CloseJobs
  <2> QED BY <1>8, <2>1 DEF CloseJobs
<1>9. ASSUME Poll PROVE TypeOK'
  <2>1. PICK s \in Samples : Update(s)
    BY <1>9 DEF Poll
  <2>2. /\ stopped' \in BOOLEAN /\ paused' \in BOOLEAN /\ reduced' \in BOOLEAN
        /\ ceiling' \in 1 .. Limit /\ normal' \in 0 .. 2 /\ stall' \in 0 .. StallPolls
        /\ pc' \in [Worker -> Labels]
    BY <1>9, <2>1, UpdateType DEF Poll
  <2>3. watching' \in BOOLEAN /\ cancelled' \in BOOLEAN
    BY <1>9 DEF Poll
  <2> QED BY <1>9, <2>2, <2>3 DEF Poll
<1>10. ASSUME StopWatching PROVE TypeOK'
  <2>1. watching' \in BOOLEAN
    BY <1>10 DEF StopWatching
  <2> QED BY <1>10, <2>1 DEF StopWatching
<1>11. ASSUME CancelParent PROVE TypeOK'
  <2>1. cancelled' \in BOOLEAN
    BY <1>11 DEF CancelParent
  <2> QED BY <1>11, <2>1 DEF CancelParent
<1>12. ASSUME NEW w \in Worker, Receive(w) PROVE TypeOK'
  <2>1. jobs' \in Seq(1 .. MaxTurns) /\ Len(jobs') <= Capacity
    <3>1. CASE jobs # <<>> /\ jobs' = Tail(jobs)
      <4>1. jobs' \in Seq(1 .. MaxTurns) /\ Len(jobs') = Len(jobs) - 1 /\ Len(jobs) \in Nat
        BY <3>1
      <4>2. \A n \in Nat : n <= Capacity => n - 1 <= Capacity
        OBVIOUS
      <4> QED BY <4>1, <4>2
    <3> QED BY <1>12, <3>1 DEF Receive
  <2>2. task' \in [Worker -> 0 .. MaxTurns]
    <3>1. CASE jobs # <<>> /\ task' = [task EXCEPT ![w] = Head(jobs)]
      <4>1. Head(jobs) \in 1 .. MaxTurns
        BY <3>1
      <4>2. Head(jobs) \in 0 .. MaxTurns
        BY <4>1
      <4> QED BY <3>1, <4>2
    <3> QED BY <1>12, <3>1 DEF Receive
  <2>3. pc' \in [Worker -> Labels]
    BY <1>12 DEF Receive
  <2>4. UNCHANGED <<pipeline, cancelled, main, prod, listed, sent, closed, listError,
                    cause, results, guard, active, outcome>>
    BY <1>12 DEF Receive
  <2> QED BY <2>1, <2>2, <2>3, <2>4
<1>13. ASSUME NEW w \in Worker, CheckContext(w) PROVE TypeOK'
  BY <1>13 DEF CheckContext
<1>14. ASSUME NEW w \in Worker, Admit(w) PROVE TypeOK'
  BY <1>14 DEF Admit
<1>15. ASSUME NEW w \in Worker, Refuse(w) PROVE TypeOK'
  <2>1. pc' \in [Worker -> Labels] /\ cause' \in [Worker -> Errors \cup {NoError}]
    BY <1>15 DEF Refuse
  <2> QED BY <1>15, <2>1 DEF Refuse
<1>16. ASSUME NEW w \in Worker, Park(w) PROVE TypeOK'
  BY <1>16 DEF Park
<1>17. ASSUME NEW w \in Worker, Abandon(w) PROVE TypeOK'
  <2>1. active \in 1 .. Limit /\ Woken \in [Worker -> Labels]
    BY <1>17, SlotTaken, WokenType DEF Abandon
  <2>2. active' \in 0 .. Limit /\ pc' \in [Worker -> Labels]
    BY <1>17, <2>1 DEF Abandon, ReleaseTo
  <2> QED BY <1>17, <2>2 DEF Abandon
<1>18. ASSUME NEW w \in Worker, Connect(w) PROVE TypeOK'
  <2>1. active \in 1 .. Limit /\ Woken \in [Worker -> Labels]
    BY <1>18, SlotTaken, WokenType DEF Connect
  <2>2. active' \in 0 .. Limit /\ pc' \in [Worker -> Labels]
    <3>1. CASE Goto(w, "reading") /\ UNCHANGED active
      BY <3>1
    <3>2. CASE ReleaseTo(w, "failing")
      BY <2>1, <3>2 DEF ReleaseTo
    <3> QED BY <1>18, <3>1, <3>2 DEF Connect
  <2>3. cause' \in [Worker -> Errors \cup {NoError}]
    BY <1>18 DEF Connect, CallErrors
  <2>4. UNCHANGED <<pipeline, main, prod, listed, sent, closed, listError, guard,
                    outcome, cancelled, jobs, task, results>>
    BY <1>18 DEF Connect
  <2> QED BY <2>2, <2>3, <2>4
<1>19. ASSUME NEW w \in Worker, ReadTurn(w) PROVE TypeOK'
  <2>1. active \in 1 .. Limit /\ Woken \in [Worker -> Labels]
    BY <1>19, SlotTaken, WokenType DEF ReadTurn
  <2>2. active' \in 0 .. Limit /\ pc' \in [Worker -> Labels]
    <3>1. active' = active - 1 /\ \E next \in {"receive", "failing"} :
                                   pc' = [Woken EXCEPT ![w] = next]
      BY <1>19 DEF ReadTurn, ReleaseTo
    <3> HIDE DEF TypeOK
    <3>2. active' \in 0 .. Limit
      BY <2>1, <3>1, ConstantsOK
    <3>3. pc' \in [Worker -> Labels]
      BY <2>1, <3>1
    <3> QED BY <3>2, <3>3
  <2>3. cause' \in [Worker -> Errors \cup {NoError}]
    BY <1>19 DEF ReadTurn, CallErrors
  <2>4. task[w] \in 1 .. sent
    BY <1>19 DEF ReadTurn, Turns, Handling
  <2>5. good' \subseteq 1 .. MaxTurns /\ bad' \subseteq 1 .. MaxTurns
    <3>1. task[w] \in 1 .. MaxTurns
      BY <2>4
    <3> QED BY <1>19, <3>1 DEF ReadTurn
  <2>6. UNCHANGED <<pipeline, main, prod, listed, sent, closed, listError, guard,
                    outcome, cancelled, jobs, task, firstError>>
    BY <1>19 DEF ReadTurn
  <2> QED BY <2>2, <2>3, <2>5, <2>6
<1>20. ASSUME NEW w \in Worker, Fail(w) PROVE TypeOK'
  BY <1>20 DEF Fail
<1>21. CASE UNCHANGED vars
  BY <1>21 DEF vars
<1> QED
  BY <1>1, <1>2, <1>3, <1>4, <1>5, <1>6, <1>7, <1>8, <1>9, <1>10, <1>11, <1>12,
     <1>13, <1>14, <1>15, <1>16, <1>17, <1>18, <1>19, <1>20, <1>21
  DEF Next, Main, Produce, WorkerStep

-----------------------------------------------------------------------------
(* The slots of the guard                                                    *)

\* The workers that have one.
Slots == {w \in Worker : pc[w] \in {"admitted", "reading"}}

\* Waking gives no slot and takes none.
LEMMA WokenSlots ==
  ASSUME pc \in [Worker -> Labels]
  PROVE  \A w \in Worker : /\ Woken[w] \in {"admitted", "reading"} <=> w \in Slots
                           /\ Woken[w] = pc[w] \/ (pc[w] = "parked" /\ Woken[w] = "acquire")
<1>1. \A w \in Worker : Woken[w] = IF pc[w] = "parked" THEN "acquire" ELSE pc[w]
  BY DEF Woken
<1> QED BY <1>1 DEF Slots

\* Every step keeps the count of the slots.
LEMMA SlotsStep ==
  ASSUME TypeOK, SlotsAccounted, [Next]_vars
  PROVE  SlotsAccounted'
<1> DEFINE Goal == active' = Cardinality(Slots')
<1> SUFFICES Goal
  BY DEF SlotsAccounted, Slots
<1>a. pc \in [Worker -> Labels] /\ active = Cardinality(Slots) /\ active \in Nat
  BY DEF TypeOK, SlotsAccounted, Slots
<1>b. IsFiniteSet(Slots)
  BY ConstantsOK, FS_Subset DEF Slots
<1>q. ASSUME pc' = pc \/ pc' = Woken, active' = active PROVE Goal
  <2>1. Slots' = Slots
    BY <1>a, <1>q, WokenSlots DEF Slots
  <2> QED BY <1>a, <1>q, <2>1
<1>m. ASSUME NEW w \in Worker, active' = active,
             \E l : /\ pc' = [pc EXCEPT ![w] = l]
                    /\ l \in {"admitted", "reading"} <=> pc[w] \in {"admitted", "reading"}
      PROVE  Goal
  <2>1. Slots' = Slots
    BY <1>a, <1>m DEF Slots
  <2> QED BY <1>a, <1>m, <2>1
<1>r. ASSUME NEW w \in Worker, NEW l \in {"done", "failing", "receive"},
             pc[w] \in {"admitted", "reading"}, ReleaseTo(w, l)
      PROVE  Goal
  <2>1. active' = active - 1 /\ pc' = [Woken EXCEPT ![w] = l] /\ Woken \in [Worker -> Labels]
    BY <1>a, <1>r, WokenType DEF ReleaseTo
  <2>2. \A v \in Worker : pc'[v] = IF v = w THEN l ELSE Woken[v]
    BY <2>1
  <2>3. Slots' = Slots \ {w} /\ w \in Slots
    BY <1>a, <1>r, <2>2, WokenSlots DEF Slots
  <2>4. Cardinality(Slots') = Cardinality(Slots) - 1
    BY <1>b, <2>3, FS_RemoveElement
  <2> QED BY <1>a, <2>1, <2>4
<1> HIDE DEF Goal
<1>1. ASSUME StartGuard PROVE Goal
  <2>1. pc' = Woken /\ active' = active
    BY <1>1 DEF StartGuard, Update
  <2> QED BY <2>1, <1>q, WokenSlots
<1>2. ASSUME Merge PROVE Goal
  BY <1>2, <1>q DEF Merge
<1>3. ASSUME Discard PROVE Goal
  BY <1>3, <1>q DEF Discard
<1>4. ASSUME ListTurn PROVE Goal
  BY <1>4, <1>q DEF ListTurn
<1>5. ASSUME EndListing PROVE Goal
  BY <1>5, <1>q DEF EndListing
<1>6. ASSUME Send PROVE Goal
  BY <1>6, <1>q DEF Send
<1>7. ASSUME EndSending PROVE Goal
  BY <1>7, <1>q DEF EndSending
<1>8. ASSUME CloseJobs PROVE Goal
  BY <1>8, <1>q DEF CloseJobs
<1>9. ASSUME Poll PROVE Goal
  <2>1. pc' = Woken /\ active' = active
    BY <1>9 DEF Poll, Update
  <2> QED BY <2>1, <1>q, WokenSlots
<1>10. ASSUME StopWatching PROVE Goal
  BY <1>10, <1>q DEF StopWatching
<1>11. ASSUME CancelParent PROVE Goal
  BY <1>11, <1>q DEF CancelParent
<1>12. ASSUME NEW w \in Worker, Receive(w) PROVE Goal
  <2>1. pc[w] \in {"receive"} /\ active' = active
        /\ \E l \in {"received", "done"} : pc' = [pc EXCEPT ![w] = l]
    BY <1>12 DEF Receive
  <2> QED BY <1>m, <2>1
<1>13. ASSUME NEW w \in Worker, CheckContext(w) PROVE Goal
  <2>1. pc[w] \in {"received"} /\ active' = active
        /\ \E l \in {"acquire", "done"} : pc' = [pc EXCEPT ![w] = l]
    BY <1>13 DEF CheckContext
  <2> QED BY <1>m, <2>1
<1>14. ASSUME NEW w \in Worker, Admit(w) PROVE Goal
  <2>1. active' = active + 1 /\ pc' = [pc EXCEPT ![w] = "admitted"] /\ pc[w] = "acquire"
    BY <1>14 DEF Admit
  <2>2. Slots' = Slots \cup {w} /\ w \notin Slots
    BY <1>a, <2>1 DEF Slots
  <2>3. Cardinality(Slots') = Cardinality(Slots) + 1
    BY <1>b, <2>2, FS_AddElement
  <2> QED BY <1>a, <2>1, <2>3 DEF Goal
<1>15. ASSUME NEW w \in Worker, Refuse(w) PROVE Goal
  <2>1. pc[w] \in {"acquire", "parked"} /\ active' = active
        /\ \E l \in {"failing"} : pc' = [pc EXCEPT ![w] = l]
    BY <1>15 DEF Refuse
  <2> QED BY <1>m, <2>1
<1>16. ASSUME NEW w \in Worker, Park(w) PROVE Goal
  <2>1. pc[w] \in {"acquire"} /\ active' = active
        /\ \E l \in {"parked"} : pc' = [pc EXCEPT ![w] = l]
    BY <1>16 DEF Park
  <2> QED BY <1>m, <2>1
<1>17. ASSUME NEW w \in Worker, Abandon(w) PROVE Goal
  <2>1. pc[w] = "admitted" /\ ReleaseTo(w, "done")
    BY <1>17 DEF Abandon
  <2> QED BY <1>r, <2>1
<1>18. ASSUME NEW w \in Worker, Connect(w) PROVE Goal
  <2>1. CASE ReleaseTo(w, "failing")
    BY <1>18, <1>r, <2>1 DEF Connect
  <2>2. CASE Goto(w, "reading") /\ active' = active
    <3>1. pc[w] = "admitted"
      BY <1>18 DEF Connect
    <3> QED BY <1>m, <2>2, <3>1
  <2> QED BY <1>18, <2>1, <2>2 DEF Connect
<1>19. ASSUME NEW w \in Worker, ReadTurn(w) PROVE Goal
  <2>1. pc[w] = "reading" /\ (ReleaseTo(w, "receive") \/ ReleaseTo(w, "failing"))
    BY <1>19 DEF ReadTurn
  <2> QED BY <1>r, <2>1
<1>20. ASSUME NEW w \in Worker, Fail(w) PROVE Goal
  <2>1. pc[w] \in {"failing"} /\ active' = active
        /\ \E l \in {"done"} : pc' = [pc EXCEPT ![w] = l]
    BY <1>20 DEF Fail
  <2> QED BY <1>m, <2>1
<1>21. CASE UNCHANGED vars
  BY <1>21, <1>q DEF vars
<1> QED
  BY <1>1, <1>2, <1>3, <1>4, <1>5, <1>6, <1>7, <1>8, <1>9, <1>10, <1>11, <1>12,
     <1>13, <1>14, <1>15, <1>16, <1>17, <1>18, <1>19, <1>20, <1>21
  DEF Next, Main, Produce, WorkerStep

-----------------------------------------------------------------------------
(* The guard's limit                                                         *)

\* A sample leaves no more than half once it has ended a pause.
LEMMA SampleHalves ==
  ASSUME TypeOK, Halved, NEW s \in Samples, Update(s)
  PROVE  Halved'
<1>1. /\ ceiling \in 1 .. Limit /\ active \in 0 .. Limit /\ normal \in 0 .. 2
      /\ Limit \in Nat /\ Half \in 1 .. Limit /\ Half' = Half
  BY LimitType DEF TypeOK
<1>2. CASE Relax
  BY <1>1, <1>2 DEF Relax, Halved
<1>3. CASE Tighten(s)
  <2>1. ceiling' <= ceiling
    BY <1>1, <1>3 DEF Tighten, AtLeastOne
  <2>2. ceiling' \in Int
    BY <1>1, <1>3 DEF Tighten, AtLeastOne
  <2>3. reduced' /\ ~paused' => reduced /\ ~paused
    BY <1>3 DEF Tighten
  <2>4. \A h \in Int : ceiling <= h => ceiling' <= h
    BY <1>1, <2>1, <2>2
  <2> QED BY <1>1, <2>3, <2>4 DEF Halved
<1>4. CASE UNCHANGED limits
  BY <1>1, <1>4 DEF Halved
<1> QED BY <1>2, <1>3, <1>4 DEF Update

\* Every step keeps what is known of the guard.
LEMMA GuardStep ==
  ASSUME TypeOK, Watched, Halved, [Next]_vars
  PROVE  Watched' /\ Halved'
<1>h. Half' = Half
  OBVIOUS
<1>1. ASSUME StartGuard PROVE Watched' /\ Halved'
  <2>1. PICK s \in Samples : Update(s)
    BY <1>1 DEF StartGuard
  <2>2. main = "start" /\ (stopped' \/ stall' < StallPolls)
    BY <1>1, <2>1, UpdateType DEF StartGuard
  <2>3. Watched'
    BY <1>1, <2>2 DEF StartGuard, Watched
  <2>4. Halved'
    BY <2>1, SampleHalves
  <2> QED BY <2>3, <2>4
<1>2. ASSUME Merge PROVE Watched' /\ Halved'
  BY <1>2 DEF Merge, Watched, Halved
<1>3. ASSUME Discard PROVE Watched' /\ Halved'
  BY <1>3 DEF Discard, Watched, Halved
<1>4. ASSUME ListTurn PROVE Watched' /\ Halved'
  BY <1>4 DEF ListTurn, Watched, Halved
<1>5. ASSUME EndListing PROVE Watched' /\ Halved'
  BY <1>5 DEF EndListing, Watched, Halved
<1>6. ASSUME Send PROVE Watched' /\ Halved'
  BY <1>6 DEF Send, Watched, Halved
<1>7. ASSUME EndSending PROVE Watched' /\ Halved'
  BY <1>7 DEF EndSending, Watched, Halved
<1>8. ASSUME CloseJobs PROVE Watched' /\ Halved'
  BY <1>8 DEF CloseJobs, Watched, Halved
<1>9. ASSUME Poll PROVE Watched' /\ Halved'
  <2>1. PICK s \in Samples : Update(s)
    BY <1>9 DEF Poll
  <2>2. main' = "run" /\ stopped' \in BOOLEAN /\ (stopped' \/ stall' < StallPolls)
    BY <1>9, <2>1, UpdateType DEF Poll, Watched
  <2>3. Watched'
    BY <1>9, <2>2 DEF Poll, Watched
  <2>4. Halved'
    BY <2>1, SampleHalves
  <2> QED BY <2>3, <2>4
<1>10. ASSUME StopWatching PROVE Watched' /\ Halved'
  BY <1>10 DEF StopWatching, Watched, Halved
<1>11. ASSUME CancelParent PROVE Watched' /\ Halved'
  BY <1>11 DEF CancelParent, Watched, Halved
<1>12. ASSUME NEW w \in Worker, Receive(w) PROVE Watched' /\ Halved'
  BY <1>12 DEF Receive, Watched, Halved
<1>13. ASSUME NEW w \in Worker, CheckContext(w) PROVE Watched' /\ Halved'
  BY <1>13 DEF CheckContext, Watched, Halved
<1>14. ASSUME NEW w \in Worker, Admit(w) PROVE Watched' /\ Halved'
  BY <1>14 DEF Admit, Watched, Halved
<1>15. ASSUME NEW w \in Worker, Refuse(w) PROVE Watched' /\ Halved'
  BY <1>15 DEF Refuse, Watched, Halved
<1>16. ASSUME NEW w \in Worker, Park(w) PROVE Watched' /\ Halved'
  BY <1>16 DEF Park, Watched, Halved
<1>17. ASSUME NEW w \in Worker, Abandon(w) PROVE Watched' /\ Halved'
  BY <1>17 DEF Abandon, Watched, Halved
<1>18. ASSUME NEW w \in Worker, Connect(w) PROVE Watched' /\ Halved'
  BY <1>18 DEF Connect, Watched, Halved
<1>19. ASSUME NEW w \in Worker, ReadTurn(w) PROVE Watched' /\ Halved'
  BY <1>19 DEF ReadTurn, Watched, Halved
<1>20. ASSUME NEW w \in Worker, Fail(w) PROVE Watched' /\ Halved'
  BY <1>20 DEF Fail, Watched, Halved
<1>21. CASE UNCHANGED vars
  BY <1>21 DEF vars, Watched, Halved
<1> QED
  BY <1>1, <1>2, <1>3, <1>4, <1>5, <1>6, <1>7, <1>8, <1>9, <1>10, <1>11, <1>12,
     <1>13, <1>14, <1>15, <1>16, <1>17, <1>18, <1>19, <1>20, <1>21
  DEF Next, Main, Produce, WorkerStep

-----------------------------------------------------------------------------
(* The producer's progress                                                   *)

\* Every step keeps the relation of listed and sent turns.
LEMMA SendingStep ==
  ASSUME TypeOK, Sending, [Next]_vars
  PROVE  Sending'
<1> USE DEF TypeOK
<1>1. ASSUME StartGuard PROVE Sending'
  <2>1. UNCHANGED <<pipeline, producer>> /\ (cancelled => cancelled')
    BY <1>1 DEF StartGuard
  <2> QED BY <2>1 DEF Sending
<1>2. ASSUME Merge PROVE Sending'
  BY <1>2 DEF Merge, Sending
<1>3. ASSUME Discard PROVE Sending'
  BY <1>3 DEF Discard, Sending
<1>4. ASSUME ListTurn PROVE Sending'
  BY <1>4 DEF ListTurn, Sending
<1>5. ASSUME EndListing PROVE Sending'
  BY <1>5 DEF EndListing, Sending
<1>6. ASSUME Send PROVE Sending'
  BY <1>6 DEF Send, Sending
<1>7. ASSUME EndSending PROVE Sending'
  BY <1>7 DEF EndSending, Sending
<1>8. ASSUME CloseJobs PROVE Sending'
  BY <1>8 DEF CloseJobs, Sending
<1>9. ASSUME Poll PROVE Sending'
  <2>1. UNCHANGED <<pipeline, producer>> /\ (cancelled => cancelled')
    BY <1>9 DEF Poll
  <2> QED BY <2>1 DEF Sending
<1>10. ASSUME StopWatching PROVE Sending'
  BY <1>10 DEF StopWatching, Sending
<1>11. ASSUME CancelParent PROVE Sending'
  BY <1>11 DEF CancelParent, Sending
<1>12. ASSUME NEW w \in Worker, Receive(w) PROVE Sending'
  <2>1. UNCHANGED <<pipeline, prod, closed, listed, sent, listError, cancelled>>
    BY <1>12 DEF Receive
  <2> QED BY <2>1 DEF Sending
<1>13. ASSUME NEW w \in Worker, CheckContext(w) PROVE Sending'
  <2>1. UNCHANGED <<pipeline, prod, closed, listed, sent, listError, cancelled>>
    BY <1>13 DEF CheckContext
  <2> QED BY <2>1 DEF Sending
<1>14. ASSUME NEW w \in Worker, Admit(w) PROVE Sending'
  <2>1. UNCHANGED <<pipeline, prod, closed, listed, sent, listError, cancelled>>
    BY <1>14 DEF Admit
  <2> QED BY <2>1 DEF Sending
<1>15. ASSUME NEW w \in Worker, Refuse(w) PROVE Sending'
  <2>1. UNCHANGED <<pipeline, prod, closed, listed, sent, listError, cancelled>>
    BY <1>15 DEF Refuse
  <2> QED BY <2>1 DEF Sending
<1>16. ASSUME NEW w \in Worker, Park(w) PROVE Sending'
  <2>1. UNCHANGED <<pipeline, prod, closed, listed, sent, listError, cancelled>>
    BY <1>16 DEF Park
  <2> QED BY <2>1 DEF Sending
<1>17. ASSUME NEW w \in Worker, Abandon(w) PROVE Sending'
  <2>1. UNCHANGED <<pipeline, prod, closed, listed, sent, listError, cancelled>>
    BY <1>17 DEF Abandon
  <2> QED BY <2>1 DEF Sending
<1>18. ASSUME NEW w \in Worker, Connect(w) PROVE Sending'
  <2>1. UNCHANGED <<pipeline, prod, closed, listed, sent, listError, cancelled>>
    BY <1>18 DEF Connect
  <2> QED BY <2>1 DEF Sending
<1>19. ASSUME NEW w \in Worker, ReadTurn(w) PROVE Sending'
  <2>1. UNCHANGED <<pipeline, prod, closed, listed, sent, listError, cancelled>>
    BY <1>19 DEF ReadTurn
  <2> QED BY <2>1 DEF Sending
<1>20. ASSUME NEW w \in Worker, Fail(w) PROVE Sending'
  <2>1. UNCHANGED <<pipeline, prod, closed, listed, sent, listError>> /\ cancelled' = TRUE
    BY <1>20 DEF Fail
  <2> QED BY <2>1 DEF Sending
<1>21. CASE UNCHANGED vars
  BY <1>21 DEF vars, Sending
<1> QED
  BY <1>1, <1>2, <1>3, <1>4, <1>5, <1>6, <1>7, <1>8, <1>9, <1>10, <1>11, <1>12,
     <1>13, <1>14, <1>15, <1>16, <1>17, <1>18, <1>19, <1>20, <1>21
  DEF Next, Main, Produce, WorkerStep

-----------------------------------------------------------------------------
(* Where the turns are                                                       *)

\* Every step keeps all turns that were sent, unless a failure ends everything.
LEMMA TurnsStep ==
  ASSUME TypeOK, Sending, Turns, [Next]_vars
  PROVE  Turns'
<1>a. /\ pc \in [Worker -> Labels] /\ task \in [Worker -> 0 .. MaxTurns]
      /\ Woken \in [Worker -> Labels] /\ jobs \in Seq(1 .. MaxTurns) /\ Len(jobs) \in Nat
  BY WokenType DEF TypeOK
<1>w. \A v \in Worker : Woken[v] = IF pc[v] = "parked" THEN "acquire" ELSE pc[v]
  BY DEF Woken
<1>b. /\ \A i \in 1 .. Len(jobs) : jobs[i] \in 1 .. sent
      /\ \A v \in Worker : pc[v] \in Handling => task[v] \in 1 .. sent
      /\ good \subseteq 1 .. sent /\ sent \in Nat
      /\ Failing \/ \A t \in 1 .. sent : t \in good \/ Queued(t) \/ InHand(t)
      /\ \A v \in Worker : pc[v] = "done" => cancelled \/ (closed /\ jobs = <<>>)
  BY DEF Turns, TypeOK
\* Steps that move no worker out of the section where it has a turn.
<1>f. ASSUME cancelled => cancelled', closed => closed',
             UNCHANGED <<jobs, task, good, sent>>,
             \A v \in Worker : \/ pc'[v] = pc[v]
                               \/ pc[v] \in Handling /\ pc'[v] \in Handling
      PROVE  Turns'
  <2>1. \A v \in Worker : pc'[v] \in Handling <=> pc[v] \in Handling
    BY <1>f
  <2>2. Failing => Failing'
    BY <1>f DEF Failing, Handling
  <2>3. \A t : (Queued(t) => Queued(t)') /\ (InHand(t) => InHand(t)')
    BY <1>f, <2>1 DEF Queued, InHand
  <2>4. \A v \in Worker : pc'[v] = "done" => pc[v] = "done"
    BY <1>f DEF Handling
  <2>5. \A v \in Worker : pc'[v] = "done" => cancelled' \/ (closed' /\ jobs' = <<>>)
    BY <1>b, <1>f, <2>4
  <2> QED BY <1>b, <1>f, <2>1, <2>2, <2>3, <2>5 DEF Turns
<1>q. ASSUME cancelled => cancelled', closed => closed', pc' = pc \/ pc' = Woken,
             UNCHANGED <<jobs, task, good, sent>>
      PROVE  Turns'
  <2>1. \A v \in Worker : \/ pc'[v] = pc[v]
                          \/ pc[v] \in Handling /\ pc'[v] \in Handling
    BY <1>q, <1>w DEF Handling
  <2> QED BY <1>f, <1>q, <2>1
<1>m. ASSUME NEW w \in Worker, pc[w] \in Handling,
             \E l \in Handling : pc' = [pc EXCEPT ![w] = l],
             UNCHANGED <<jobs, task, good, sent, closed, cancelled>>
      PROVE  Turns'
  <2>1. \A v \in Worker : \/ pc'[v] = pc[v]
                          \/ pc[v] \in Handling /\ pc'[v] \in Handling
    BY <1>a, <1>m
  <2> QED BY <1>f, <1>m, <2>1
\* Steps that end something by a failure.
<1>e. ASSUME NEW w \in Worker, cancelled => cancelled',
             UNCHANGED <<jobs, task, good, sent, closed>>,
             \E l \in {"done", "failing"} :
                /\ pc' = [pc EXCEPT ![w] = l] \/ pc' = [Woken EXCEPT ![w] = l]
                /\ l = "done" => cancelled'
      PROVE  Turns'
  <2>1. PICK l \in {"done", "failing"} :
                /\ pc' = [pc EXCEPT ![w] = l] \/ pc' = [Woken EXCEPT ![w] = l]
                /\ l = "done" => cancelled'
    BY <1>e
  <2>2. \A v \in Worker : \/ v = w /\ pc'[v] = l
                          \/ v # w /\ (pc'[v] = pc[v] \/ pc'[v] = Woken[v])
    BY <1>a, <2>1
  <2>3. Failing'
    BY <2>1, <2>2 DEF Failing
  <2>4. \A v \in Worker : /\ pc'[v] \in Handling => pc[v] \in Handling
                          /\ pc'[v] = "done" => pc[v] = "done" \/ cancelled'
    BY <1>w, <2>1, <2>2 DEF Handling
  <2>5. \A v \in Worker : pc'[v] = "done" => cancelled' \/ (closed' /\ jobs' = <<>>)
    BY <1>b, <1>e, <2>4
  <2>6. \A v \in Worker : pc'[v] \in Handling => task'[v] \in 1 .. sent'
    BY <1>b, <1>e, <2>4
  <2>7. good' \subseteq 1 .. sent' /\ \A i \in 1 .. Len(jobs') : jobs'[i] \in 1 .. sent'
    BY <1>b, <1>e
  <2> QED BY <2>3, <2>5, <2>6, <2>7 DEF Turns
<1>1. ASSUME StartGuard PROVE Turns'
  <2>1. pc' = Woken /\ UNCHANGED <<jobs, task, good, sent, closed>> /\ (cancelled => cancelled')
    BY <1>1 DEF StartGuard, Update
  <2> QED BY <1>q, <2>1
<1>2. ASSUME Merge PROVE Turns'
  BY <1>2, <1>q DEF Merge
<1>3. ASSUME Discard PROVE Turns'
  BY <1>3, <1>q DEF Discard
<1>4. ASSUME ListTurn PROVE Turns'
  BY <1>4, <1>q DEF ListTurn
<1>5. ASSUME EndListing PROVE Turns'
  BY <1>5, <1>q DEF EndListing
<1>6. ASSUME Send PROVE Turns'
  <2>1. /\ jobs' = Append(jobs, sent + 1) /\ sent' = sent + 1 /\ sent \in Nat
        /\ ~closed /\ UNCHANGED <<pc, task, good, closed, cancelled>>
    BY <1>6 DEF Send, TypeOK, Sending
  <2>2. /\ Len(jobs') = Len(jobs) + 1 /\ jobs'[Len(jobs) + 1] = sent + 1
        /\ \A i \in 1 .. Len(jobs) : jobs'[i] = jobs[i]
    BY <1>a, <2>1
  <2>3. \A i \in 1 .. Len(jobs') : jobs'[i] \in 1 .. sent'
    BY <1>a, <1>b, <2>1, <2>2
  <2>4. \A v \in Worker : pc'[v] \in Handling => task'[v] \in 1 .. sent'
    BY <1>b, <2>1
  <2>5. good' \subseteq 1 .. sent'
    BY <1>b, <2>1
  <2>6. Failing => Failing'
    BY <2>1 DEF Failing
  <2>7. ASSUME ~Failing PROVE \A t \in 1 .. sent' : t \in good' \/ Queued(t)' \/ InHand(t)'
    <3>1. TAKE t \in 1 .. sent'
    <3>2. CASE t = sent + 1
      BY <1>a, <2>2, <3>2 DEF Queued
    <3>3. CASE t \in 1 .. sent
      <4>1. Queued(t) => Queued(t)'
        BY <1>a, <2>2 DEF Queued
      <4>2. InHand(t) => InHand(t)'
        BY <2>1 DEF InHand
      <4> QED BY <1>b, <2>1, <2>7, <3>3, <4>1, <4>2
    <3> QED BY <2>1, <3>2, <3>3
  <2>8. \A v \in Worker : pc'[v] = "done" => cancelled' \/ (closed' /\ jobs' = <<>>)
    BY <1>b, <2>1
  <2> QED BY <2>3, <2>4, <2>5, <2>6, <2>7, <2>8 DEF Turns
<1>7. ASSUME EndSending PROVE Turns'
  BY <1>7, <1>q DEF EndSending
<1>8. ASSUME CloseJobs PROVE Turns'
  BY <1>8, <1>q DEF CloseJobs
<1>9. ASSUME Poll PROVE Turns'
  <2>1. pc' = Woken /\ UNCHANGED <<jobs, task, good, sent, closed>> /\ (cancelled => cancelled')
    BY <1>9 DEF Poll, Update
  <2> QED BY <1>q, <2>1
<1>10. ASSUME StopWatching PROVE Turns'
  BY <1>10, <1>q DEF StopWatching
<1>11. ASSUME CancelParent PROVE Turns'
  BY <1>11, <1>q DEF CancelParent
<1>12. ASSUME NEW w \in Worker, Receive(w) PROVE Turns'
  <2>1. pc[w] = "receive" /\ UNCHANGED <<good, sent, closed, cancelled>>
    BY <1>12 DEF Receive
  <2>2. CASE jobs = <<>> /\ closed /\ pc' = [pc EXCEPT ![w] = "done"] /\ UNCHANGED <<jobs, task>>
    <3>1. \A v \in Worker : pc'[v] = IF v = w THEN "done" ELSE pc[v]
      BY <1>a, <2>2
    <3>2. \A v \in Worker : pc'[v] = "done" => cancelled' \/ (closed' /\ jobs' = <<>>)
      BY <1>b, <2>1, <2>2, <3>1
    <3>3. \A v \in Worker : pc'[v] \in Handling <=> pc[v] \in Handling
      BY <2>1, <3>1 DEF Handling
    <3>4. Failing => Failing'
      BY <2>1, <3>1 DEF Failing
    <3>5. \A t : (Queued(t) => Queued(t)') /\ (InHand(t) => InHand(t)')
      BY <2>2, <3>3 DEF Queued, InHand
    <3> QED BY <1>b, <2>1, <2>2, <3>2, <3>3, <3>4, <3>5 DEF Turns
  <2>3. CASE /\ jobs # <<>> /\ jobs' = Tail(jobs)
             /\ task' = [task EXCEPT ![w] = Head(jobs)] /\ pc' = [pc EXCEPT ![w] = "received"]
    <3>1. \A v \in Worker : /\ pc'[v] = IF v = w THEN "received" ELSE pc[v]
                            /\ task'[v] = IF v = w THEN jobs[1] ELSE task[v]
      BY <1>a, <2>3
    <3>2. /\ Len(jobs) \in Nat \ {0} /\ Len(jobs') = Len(jobs) - 1
          /\ \A i \in 1 .. Len(jobs') : jobs'[i] = jobs[i + 1]
      BY <1>a, <2>3
    <3>3. \A i \in 1 .. Len(jobs') : jobs'[i] \in 1 .. sent'
      <4>1. \A i \in 1 .. Len(jobs) : jobs[i] \in 1 .. sent
        BY <1>b
      <4>2. sent' = sent
        BY <2>1
      <4> TAKE i \in 1 .. Len(jobs')
      <4>3. i + 1 \in 1 .. Len(jobs)
        BY <3>2
      <4> QED BY <3>2, <4>1, <4>2, <4>3
    <3>4. \A v \in Worker : pc'[v] \in Handling => task'[v] \in 1 .. sent'
      <4>1. jobs[1] \in 1 .. sent
        BY <1>b, <3>2
      <4>2. sent' = sent
        BY <2>1
      <4>3. \A v \in Worker : pc[v] \in Handling => task[v] \in 1 .. sent
        BY <1>b
      <4> TAKE v \in Worker
      <4> HAVE pc'[v] \in Handling
      <4>4. CASE v = w
        BY <3>1, <4>1, <4>2, <4>4
      <4>5. CASE v # w
        BY <3>1, <4>2, <4>3, <4>5
      <4> QED BY <4>4, <4>5
    <3>5. Failing => Failing'
      BY <2>1, <3>1 DEF Failing
    <3>6. ASSUME NEW t, Queued(t) PROVE Queued(t)' \/ InHand(t)'
      <4>1. PICK i \in 1 .. Len(jobs) : jobs[i] = t
        BY <3>6 DEF Queued
      <4>2. CASE i = 1
        BY <3>1, <4>1, <4>2 DEF InHand, Handling
      <4>3. CASE i # 1
        <5>1. i - 1 \in 1 .. Len(jobs') /\ jobs'[i - 1] = t
          BY <3>2, <4>1, <4>3
        <5> QED BY <5>1 DEF Queued
      <4> QED BY <4>2, <4>3
    <3>7. \A t : InHand(t) => InHand(t)'
      BY <2>1, <3>1 DEF InHand, Handling
    <3>8. \A v \in Worker : pc'[v] = "done" => cancelled' \/ (closed' /\ jobs' = <<>>)
      BY <1>b, <2>1, <2>3, <3>1
    <3> QED BY <1>b, <2>1, <3>3, <3>4, <3>5, <3>6, <3>7, <3>8 DEF Turns
  <2> QED BY <1>12, <2>2, <2>3 DEF Receive
<1>13. ASSUME NEW w \in Worker, CheckContext(w) PROVE Turns'
  <2>1. pc[w] = "received" /\ UNCHANGED <<jobs, task, good, sent, closed, cancelled>>
    BY <1>13 DEF CheckContext
  <2>2. CASE pc' = [pc EXCEPT ![w] = "acquire"]
    BY <1>m, <2>1, <2>2 DEF Handling
  <2>3. CASE cancelled /\ pc' = [pc EXCEPT ![w] = "done"]
    BY <1>e, <2>1, <2>3
  <2> QED BY <1>13, <2>2, <2>3 DEF CheckContext
<1>14. ASSUME NEW w \in Worker, Admit(w) PROVE Turns'
  <2>1. /\ pc[w] \in {"acquire"} /\ \E l \in {"admitted"} : pc' = [pc EXCEPT ![w] = l]
        /\ UNCHANGED <<jobs, task, good, sent, closed, cancelled>>
    BY <1>14 DEF Admit
  <2> QED BY <1>m, <2>1 DEF Handling
<1>15. ASSUME NEW w \in Worker, Refuse(w) PROVE Turns'
  <2>1. /\ pc[w] \in Labels /\ pc' = [pc EXCEPT ![w] = "failing"]
        /\ UNCHANGED <<jobs, task, good, sent, closed, cancelled>>
    BY <1>15 DEF Refuse, TypeOK
  <2> QED BY <1>e, <2>1
<1>16. ASSUME NEW w \in Worker, Park(w) PROVE Turns'
  <2>1. /\ pc[w] \in {"acquire"} /\ \E l \in {"parked"} : pc' = [pc EXCEPT ![w] = l]
        /\ UNCHANGED <<jobs, task, good, sent, closed, cancelled>>
    BY <1>16 DEF Park
  <2> QED BY <1>m, <2>1 DEF Handling
<1>17. ASSUME NEW w \in Worker, Abandon(w) PROVE Turns'
  <2>1. /\ cancelled /\ pc' = [Woken EXCEPT ![w] = "done"]
        /\ UNCHANGED <<jobs, task, good, sent, closed, cancelled>>
    BY <1>17 DEF Abandon, ReleaseTo
  <2> QED BY <1>e, <2>1
<1>18. ASSUME NEW w \in Worker, Connect(w) PROVE Turns'
  <2>1. pc[w] = "admitted" /\ UNCHANGED <<jobs, task, good, sent, closed, cancelled>>
    BY <1>18 DEF Connect
  <2>2. CASE pc' = [pc EXCEPT ![w] = "reading"]
    BY <1>m, <2>1, <2>2 DEF Handling
  <2>3. CASE pc' = [Woken EXCEPT ![w] = "failing"]
    BY <1>e, <2>1, <2>3
  <2> QED BY <1>18, <2>2, <2>3 DEF Connect, ReleaseTo
<1>19. ASSUME NEW w \in Worker, ReadTurn(w) PROVE Turns'
  <2>1. pc[w] = "reading" /\ UNCHANGED <<jobs, task, sent, closed, cancelled>>
    BY <1>19 DEF ReadTurn
  <2>2. CASE good' = good /\ pc' = [Woken EXCEPT ![w] = "failing"]
    BY <1>e, <2>1, <2>2
  <2>3. CASE good' = good \cup {task[w]} /\ pc' = [Woken EXCEPT ![w] = "receive"]
    <3>1. \A v \in Worker : pc'[v] = IF v = w THEN "receive" ELSE Woken[v]
      BY <1>a, <2>3
    <3>2. good' \subseteq 1 .. sent
      BY <1>b, <2>1, <2>3 DEF Handling
    <3>3. ASSUME ~Failing PROVE \A t \in 1 .. sent : t \in good' \/ Queued(t)' \/ InHand(t)'
      <4>1. TAKE t \in 1 .. sent
      <4>2. CASE t \in good
        BY <2>3, <4>2
      <4>3. CASE Queued(t)
        BY <2>1, <4>3 DEF Queued
      <4>4. ASSUME NEW v \in Worker, task[v] = t, pc[v] \in Handling PROVE t \in good' \/ InHand(t)'
        <5>1. CASE v = w
          BY <2>3, <4>4, <5>1
        <5>2. CASE v # w
          <6>1. pc'[v] \in Handling /\ task'[v] = t
            BY <1>w, <2>1, <3>1, <4>4, <5>2 DEF Handling
          <6> QED BY <6>1 DEF InHand
        <5> QED BY <5>1, <5>2
      <4> QED BY <1>b, <3>3, <4>2, <4>3, <4>4 DEF InHand
    <3>4. Failing => Failing'
      BY <1>w, <2>1, <3>1 DEF Failing
    <3>5. \A v \in Worker : pc'[v] = "done" => cancelled' \/ (closed' /\ jobs' = <<>>)
      BY <1>b, <1>w, <2>1, <3>1
    <3>6. \A v \in Worker : pc'[v] \in Handling => task'[v] \in 1 .. sent'
      BY <1>b, <1>w, <2>1, <3>1 DEF Handling
    <3> QED BY <1>b, <2>1, <3>2, <3>3, <3>4, <3>5, <3>6 DEF Turns
  <2> QED BY <1>19, <2>2, <2>3 DEF ReadTurn, ReleaseTo
<1>20. ASSUME NEW w \in Worker, Fail(w) PROVE Turns'
  <2>1. /\ cancelled' = TRUE /\ pc' = [pc EXCEPT ![w] = "done"]
        /\ UNCHANGED <<jobs, task, good, sent, closed>>
    BY <1>20 DEF Fail
  <2> QED BY <1>e, <2>1
<1>21. CASE UNCHANGED vars
  BY <1>21, <1>q DEF vars
<1> QED
  BY <1>1, <1>2, <1>3, <1>4, <1>5, <1>6, <1>7, <1>8, <1>9, <1>10, <1>11, <1>12,
     <1>13, <1>14, <1>15, <1>16, <1>17, <1>18, <1>19, <1>20, <1>21
  DEF Next, Main, Produce, WorkerStep

-----------------------------------------------------------------------------
(* The order of the result                                                   *)

\* A set of numbers that is not empty has a least element.
LEMMA Least ==
  ASSUME NEW T \in SUBSET Nat, T # {}
  PROVE  \E x \in T : \A y \in T : ~(y < x)
<1>1. \E x \in T : \A y \in T : ~(<<y, x>> \in OpToRel(<, Nat))
  BY NatLessThanWellFounded, WFMin
<1> QED BY <1>1 DEF OpToRel

\* Sorting the turns 1 to n lists them one by one: an ascending function on
\* them can be nothing else, for the first place where it were another would
\* need a place before it where it is one already.
LEMMA Ordered ==
  ASSUME NEW n \in Nat
  PROVE  InOrder(1 .. n) = [i \in 1 .. n |-> i]
<1> DEFINE Ascending(s) == \A i, j \in DOMAIN s : i < j => s[i] < s[j]
           id == [i \in 1 .. n |-> i]
<1>1. Cardinality(1 .. n) = n
  BY FS_Interval
<1>2. id \in [1 .. n -> 1 .. n] /\ Ascending(id)
  OBVIOUS
<1>3. ASSUME NEW s \in [1 .. n -> 1 .. n], Ascending(s) PROVE s = id
  <2>1. \A i \in 1 .. n : s[i] >= i
    <3> DEFINE T == {i \in 1 .. n : s[i] < i}
    <3> SUFFICES ASSUME T # {} PROVE FALSE
      <4>1. SUFFICES ASSUME NEW i \in 1 .. n, ~(s[i] >= i) PROVE i \in T
        OBVIOUS
      <4>2. s[i] \in 1 .. n
        BY <1>3
      <4> QED BY <4>1, <4>2
    <3>0. T \in SUBSET Nat
      OBVIOUS
    <3>1. PICK i \in T : \A j \in T : ~(j < i)
      BY <3>0, Least
    <3>2. i \in 2 .. n /\ s[i] < i
      OBVIOUS
    <3>3. i - 1 \in 1 .. n /\ i - 1 \notin T
      BY <3>1, <3>2
    <3>4. s[i - 1] >= i - 1 /\ s[i - 1] < s[i]
      BY <1>3, <3>2, <3>3
    <3> QED BY <3>2, <3>3, <3>4
  <2>2. \A i \in 1 .. n : s[i] <= i
    <3> DEFINE T == {k \in 0 .. n - 1 : s[n - k] > n - k}
    <3> SUFFICES ASSUME T # {} PROVE FALSE
      <4>1. ASSUME NEW i \in 1 .. n, s[i] > i PROVE n - i \in T
        <5>1. n - (n - i) = i /\ n - i \in 0 .. n - 1
          OBVIOUS
        <5>2. s[n - (n - i)] > n - (n - i)
          BY <4>1, <5>1
        <5> QED BY <5>1, <5>2
      <4>2. T = {} => \A i \in 1 .. n : ~(s[i] > i)
        BY <4>1
      <4>3. \A i \in 1 .. n : s[i] \in Int
        OBVIOUS
      <4> QED BY <4>2, <4>3
    <3>0. T \in SUBSET Nat
      OBVIOUS
    <3>1. PICK k \in T : \A j \in T : ~(j < k)
      BY <3>0, Least
    <3>2. n - k \in 1 .. n /\ s[n - k] > n - k
      OBVIOUS
    <3>3. k # 0
      BY <3>2
    <3>4. k \in 1 .. n - 1 /\ k - 1 \in 0 .. n - 1 /\ n - (k - 1) = n - k + 1
      BY <3>3
    <3>5. n - k + 1 \in 1 .. n /\ s[n - k + 1] <= n - k + 1
      <4>1. \A j \in 0 .. n - 1 : j < k => ~(s[n - j] > n - j)
        BY <3>1
      <4>2. k - 1 < k
        BY <3>4
      <4>3. ~(s[n - (k - 1)] > n - (k - 1))
        BY <3>4, <4>1, <4>2
      <4>4. n - k + 1 \in 1 .. n /\ ~(s[n - k + 1] > n - k + 1)
        BY <3>4, <4>3
      <4> QED BY <4>4
    <3>6. s[n - k] < s[n - k + 1]
      BY <1>3, <3>2, <3>5
    <3> QED BY <3>2, <3>5, <3>6
  <2>3. \A i \in 1 .. n : s[i] = i
    BY <2>1, <2>2
  <2> QED BY <2>3
<1>4. InOrder(1 .. n) = CHOOSE s \in [1 .. n -> 1 .. n] : Ascending(s)
  BY <1>1 DEF InOrder
<1> QED BY <1>2, <1>3, <1>4

-----------------------------------------------------------------------------
(* The result                                                                *)

\* When all have finished without a failure, every listed turn has been read.
LEMMA AllRead ==
  ASSUME TypeOK, Sending, Turns, prod = "closed", \A w \in Worker : pc[w] = "done",
         ~cancelled, listError = NoError
  PROVE  Kept = 1 .. listed
<1>1. sent = listed
  BY DEF Sending
<1>2. jobs = <<>>
  BY ConstantsOK DEF Turns
<1>3. ~Failing
  BY DEF Failing
<1>4. \A t \in 1 .. sent : ~Queued(t) /\ ~InHand(t)
  BY <1>2 DEF Queued, InHand, Handling
<1>5. good = 1 .. sent
  BY <1>3, <1>4 DEF Turns
<1> QED BY <1>1, <1>5 DEF Kept

\* Every step keeps what is said of the result.
LEMMA ResultStep ==
  ASSUME TypeOK, Watched, Sending, Turns, Result, [Next]_vars
  PROVE  Result'
<1>r. outcome = [status |-> outcome.status, error |-> outcome.error,
                 turns |-> outcome.turns]
  BY DEF Result
\* A result is made by nobody but the reader itself.
<1>q. ASSUME main' = main, outcome' = outcome,
             \/ main \in {"start", "run"}
             \/ ~Ended /\ UNCHANGED <<stopped, watching>>
      PROVE  Result'
  <2>1. CASE main \in {"start", "run"}
    BY <1>q, <2>1, <1>r DEF Result
  <2>2. CASE main \notin {"start", "run"}
    <3>1. main = "returned" /\ stopped /\ ~watching /\ outcome.status = "unavailable"
      BY <1>q, <2>2 DEF Result, TypeOK
    <3> QED BY <1>q, <1>r, <3>1 DEF Result
  <2> QED BY <2>1, <2>2
<1>1. ASSUME StartGuard PROVE Result'
  <2>1. main = "start" /\ ~watching /\ outcome.status = "none"
    BY <1>1 DEF StartGuard, Result, Watched
  <2>2. CASE stopped' /\ main' = "returned" /\ UNCHANGED watching
    <3>1. outcome' = [status |-> "unavailable", error |-> "memory", turns |-> outcome.turns]
      BY <1>1, <1>r, <2>2 DEF StartGuard
    <3>2. /\ outcome'.status = "unavailable" /\ outcome'.error = "memory"
          /\ outcome'.turns = outcome.turns
      BY <3>1
    <3> QED BY <2>1, <2>2, <3>1, <3>2 DEF Result
  <2>3. CASE main' = "run" /\ UNCHANGED outcome
    BY <2>1, <2>3, <1>r DEF Result
  <2> QED BY <1>1, <2>2, <2>3 DEF StartGuard
<1>2. ASSUME Merge PROVE Result'
  <2>1. PICK e \in {FinalError} \cup (IF FinalError = NoError THEN {"filter"} ELSE {}) :
          outcome' = [turns |-> InOrder(Kept), error |-> e,
                      status |-> IF e = NoError THEN "complete"
                                 ELSE IF Kept = {} THEN "unavailable" ELSE "partial"]
    BY <1>2 DEF Merge
  <2>2. /\ outcome'.error = e /\ outcome'.turns = InOrder(Kept)
        /\ outcome'.status = IF e = NoError THEN "complete"
                             ELSE IF Kept = {} THEN "unavailable" ELSE "partial"
        /\ outcome' = [status |-> outcome'.status, error |-> outcome'.error,
                       turns |-> outcome'.turns]
    BY <2>1
  <2>3. /\ main' = "merged" /\ Ended'
        /\ UNCHANGED <<stopped, firstError, listed, listError>>
    BY <1>2 DEF Merge, Ended
  <2>4. ~stopped /\ firstError = "idle" => e = "idle"
    BY DEF FinalError
  <2>5. ASSUME e = NoError PROVE Whole'
    <3>1. FinalError = NoError
      BY <2>1, <2>5
    <3>2. ~stopped /\ ~cancelled /\ listError = NoError
      BY <3>1 DEF FinalError
    <3>3. Kept = 1 .. listed
      BY <1>2, <3>2, AllRead DEF Merge
    <3>4. listed \in Nat
      BY DEF TypeOK
    <3> QED BY <2>2, <2>3, <3>2, <3>3, <3>4, Ordered DEF Whole
  <2>6. outcome'.status = "complete" => e = NoError
    BY <2>2
  <2> QED BY <2>2, <2>3, <2>4, <2>5, <2>6 DEF Result
<1>3. ASSUME Discard PROVE Result'
  <2>1. Ended /\ (~stopped /\ firstError = "idle" => outcome.error = "idle")
    BY <1>3 DEF Discard, Result
  <2>2. main' = "returned" /\ Ended' /\ UNCHANGED <<stopped, firstError, listed, listError>>
    BY <1>3, <2>1 DEF Discard, Ended
  <2>3. CASE outcome.error = "idle"
    <3>1. outcome' = [status |-> "unavailable", error |-> "idle", turns |-> <<>>]
      BY <1>3, <1>r, <2>3 DEF Discard
    <3>2. /\ outcome'.status = "unavailable" /\ outcome'.error = "idle"
          /\ outcome'.turns = <<>>
      BY <3>1
    <3> QED BY <2>2, <3>1, <3>2 DEF Result
  <2>4. CASE outcome.error # "idle"
    <3>1. outcome' = outcome
      BY <1>3, <2>4 DEF Discard
    <3>2. ~(~stopped' /\ firstError' = "idle")
      BY <2>1, <2>2, <2>4
    <3>3. outcome'.status = "complete" => Whole' /\ outcome'.error = NoError
      BY <2>2, <3>1 DEF Result, Whole
    <3> QED BY <1>r, <2>2, <3>1, <3>2, <3>3 DEF Result
  <2> QED BY <2>3, <2>4
<1>4. ASSUME ListTurn PROVE Result'
  BY <1>4, <1>q DEF ListTurn, Ended
<1>5. ASSUME EndListing PROVE Result'
  BY <1>5, <1>q DEF EndListing, Ended
<1>6. ASSUME Send PROVE Result'
  BY <1>6, <1>q DEF Send, Ended
<1>7. ASSUME EndSending PROVE Result'
  BY <1>7, <1>q DEF EndSending, Ended
<1>8. ASSUME CloseJobs PROVE Result'
  BY <1>8, <1>q DEF CloseJobs, Ended
<1>9. ASSUME Poll PROVE Result'
  <2>1. main = "run" /\ main' = main /\ outcome' = outcome
    BY <1>9 DEF Poll, Watched
  <2> QED BY <1>q, <2>1
<1>10. ASSUME StopWatching PROVE Result'
  BY <1>10, <1>q DEF StopWatching, Watched
<1>11. ASSUME CancelParent PROVE Result'
  BY <1>11, <1>q DEF CancelParent, Ended
<1>12. ASSUME NEW w \in Worker, Receive(w) PROVE Result'
  BY <1>12, <1>q DEF Receive
<1>13. ASSUME NEW w \in Worker, CheckContext(w) PROVE Result'
  <2>1. main' = main /\ outcome' = outcome /\ UNCHANGED <<stopped, watching>> /\ pc[w] # "done"
    BY <1>13 DEF CheckContext
  <2> QED BY <1>q, <2>1 DEF Ended
<1>14. ASSUME NEW w \in Worker, Admit(w) PROVE Result'
  <2>1. main' = main /\ outcome' = outcome /\ UNCHANGED <<stopped, watching>> /\ pc[w] # "done"
    BY <1>14 DEF Admit
  <2> QED BY <1>q, <2>1 DEF Ended
<1>15. ASSUME NEW w \in Worker, Refuse(w) PROVE Result'
  <2>1. main' = main /\ outcome' = outcome /\ UNCHANGED <<stopped, watching>> /\ pc[w] # "done"
    BY <1>15 DEF Refuse
  <2> QED BY <1>q, <2>1 DEF Ended
<1>16. ASSUME NEW w \in Worker, Park(w) PROVE Result'
  <2>1. main' = main /\ outcome' = outcome /\ UNCHANGED <<stopped, watching>> /\ pc[w] # "done"
    BY <1>16 DEF Park
  <2> QED BY <1>q, <2>1 DEF Ended
<1>17. ASSUME NEW w \in Worker, Abandon(w) PROVE Result'
  <2>1. main' = main /\ outcome' = outcome /\ UNCHANGED <<stopped, watching>> /\ pc[w] # "done"
    BY <1>17 DEF Abandon
  <2> QED BY <1>q, <2>1 DEF Ended
<1>18. ASSUME NEW w \in Worker, Connect(w) PROVE Result'
  <2>1. main' = main /\ outcome' = outcome /\ UNCHANGED <<stopped, watching>> /\ pc[w] # "done"
    BY <1>18 DEF Connect
  <2> QED BY <1>q, <2>1 DEF Ended
<1>19. ASSUME NEW w \in Worker, ReadTurn(w) PROVE Result'
  <2>1. main' = main /\ outcome' = outcome /\ UNCHANGED <<stopped, watching>> /\ pc[w] # "done"
    BY <1>19 DEF ReadTurn
  <2> QED BY <1>q, <2>1 DEF Ended
<1>20. ASSUME NEW w \in Worker, Fail(w) PROVE Result'
  <2>1. main' = main /\ outcome' = outcome /\ UNCHANGED <<stopped, watching>> /\ pc[w] # "done"
    BY <1>20 DEF Fail
  <2> QED BY <1>q, <2>1 DEF Ended
<1>21. CASE UNCHANGED vars
  BY <1>21 DEF vars, Result, Ended, Whole
<1> QED
  BY <1>1, <1>2, <1>3, <1>4, <1>5, <1>6, <1>7, <1>8, <1>9, <1>10, <1>11, <1>12,
     <1>13, <1>14, <1>15, <1>16, <1>17, <1>18, <1>19, <1>20, <1>21
  DEF Next, Main, Produce, WorkerStep

-----------------------------------------------------------------------------
(* The theorems                                                              *)

LEMMA InitInv == Init => Inv
<1> SUFFICES ASSUME Init PROVE Inv
  OBVIOUS
<1>1. TypeOK
  <2>1. \A n \in Nat : 0 \in 0 .. n
    OBVIOUS
  <2>2. MaxTurns \in Nat /\ Capacity \in Nat /\ StallPolls \in Nat
    BY ConstantsOK
  <2>3. /\ listed \in 0 .. MaxTurns /\ sent \in 0 .. listed
        /\ ceiling \in 1 .. Limit /\ active \in 0 .. Limit
        /\ normal \in 0 .. 2 /\ stall \in 0 .. StallPolls
    BY <2>1, <2>2, LimitType DEF Init
  <2>4. jobs \in Seq(1 .. MaxTurns) /\ Len(jobs) <= Capacity
    BY <2>2 DEF Init
  <2>5. /\ pc \in [Worker -> Labels] /\ task \in [Worker -> 0 .. MaxTurns]
        /\ cause \in [Worker -> Errors \cup {NoError}]
    BY <2>1, <2>2 DEF Init, Labels
  <2>6. outcome.status = "none"
    BY DEF Init
  <2> QED BY <2>3, <2>4, <2>5, <2>6 DEF Init, TypeOK
<1>2. SlotsAccounted
  <2>1. {w \in Worker : pc[w] \in {"admitted", "reading"}} = {}
    BY DEF Init
  <2> QED BY <2>1, FS_EmptySet DEF Init, SlotsAccounted
<1>3. Watched /\ Halved /\ Sending
  BY ConstantsOK DEF Init, Watched, Halved, Sending
<1>4. Turns
  <2>1. /\ \A i \in 1 .. Len(jobs) : jobs[i] \in 1 .. sent
        /\ \A t \in 1 .. sent : FALSE
    BY DEF Init
  <2>2. \A w \in Worker : pc[w] = "receive"
    BY DEF Init
  <2>3. good \subseteq 1 .. sent
    BY DEF Init
  <2> QED BY <2>1, <2>2, <2>3 DEF Turns, Handling
<1>5. Result
  BY DEF Init, Result
<1> QED BY <1>1, <1>2, <1>3, <1>4, <1>5 DEF Inv

LEMMA InvStep == Inv /\ [Next]_vars => Inv'
BY TypeStep, SlotsStep, GuardStep, SendingStep, TurnsStep, ResultStep DEF Inv

\* The inductive invariant holds throughout.
THEOREM Invariant == Spec => []Inv
BY InitInv, InvStep, PTL DEF Spec

\* The reader's variables keep their types: the channel never holds more than
\* its capacity, no limit is 0 or above the number of workers, and a pause
\* that lasted too long has ended the reader.
THEOREM TypeCorrect == Spec => []TypeOK
<1>1. Inv => TypeOK
  BY DEF Inv
<1> QED BY Invariant, <1>1, PTL

\* The guard's count is the number of workers that read, through every
\* admission, failure and cancellation.
THEOREM SlotsCounted == Spec => []SlotsAccounted
<1>1. Inv => SlotsAccounted
  BY DEF Inv
<1> QED BY Invariant, <1>1, PTL

\* A history that is called complete holds all turns that were listed, in
\* their order, and its listing had no error.
THEOREM WholeOrNotComplete == Spec => []CompleteIsWhole
<1>1. Inv => CompleteIsWhole
  BY DEF Inv, Result, Whole, CompleteIsWhole
<1> QED BY Invariant, <1>1, PTL

\* A reader whose first failure was an idle timeout returns nothing, and says
\* that it stalled.
THEOREM StalledIsEmpty == Spec => []StalledContributesNothing
<1>1. Inv => StalledContributesNothing
  BY DEF Inv, Result, StalledContributesNothing
<1> QED BY Invariant, <1>1, PTL

\* Only Admit adds a slot, and the limit that it asks has been halved.
Admission == active' > active /\ reduced => active' <= Half

LEMMA AdmissionStep ==
  ASSUME Inv, [Next]_vars
  PROVE  Admission
<1>t. active \in Int /\ ceiling \in Int /\ Half \in Int /\ Halved
  BY LimitType DEF Inv, TypeOK
<1>1. ASSUME StartGuard PROVE Admission
  <2>1. active' = active
    BY <1>1 DEF StartGuard
  <2> QED BY <1>t, <2>1 DEF Admission
<1>2. ASSUME Merge PROVE Admission
  <2>1. active' = active
    BY <1>2 DEF Merge
  <2> QED BY <1>t, <2>1 DEF Admission
<1>3. ASSUME Discard PROVE Admission
  <2>1. active' = active
    BY <1>3 DEF Discard
  <2> QED BY <1>t, <2>1 DEF Admission
<1>4. ASSUME ListTurn PROVE Admission
  <2>1. active' = active
    BY <1>4 DEF ListTurn
  <2> QED BY <1>t, <2>1 DEF Admission
<1>5. ASSUME EndListing PROVE Admission
  <2>1. active' = active
    BY <1>5 DEF EndListing
  <2> QED BY <1>t, <2>1 DEF Admission
<1>6. ASSUME Send PROVE Admission
  <2>1. active' = active
    BY <1>6 DEF Send
  <2> QED BY <1>t, <2>1 DEF Admission
<1>7. ASSUME EndSending PROVE Admission
  <2>1. active' = active
    BY <1>7 DEF EndSending
  <2> QED BY <1>t, <2>1 DEF Admission
<1>8. ASSUME CloseJobs PROVE Admission
  <2>1. active' = active
    BY <1>8 DEF CloseJobs
  <2> QED BY <1>t, <2>1 DEF Admission
<1>9. ASSUME Poll PROVE Admission
  <2>1. active' = active
    BY <1>9 DEF Poll
  <2> QED BY <1>t, <2>1 DEF Admission
<1>10. ASSUME StopWatching PROVE Admission
  <2>1. active' = active
    BY <1>10 DEF StopWatching
  <2> QED BY <1>t, <2>1 DEF Admission
<1>11. ASSUME CancelParent PROVE Admission
  <2>1. active' = active
    BY <1>11 DEF CancelParent
  <2> QED BY <1>t, <2>1 DEF Admission
<1>12. ASSUME NEW w \in Worker, Receive(w) PROVE Admission
  <2>1. active' = active
    BY <1>12 DEF Receive
  <2> QED BY <1>t, <2>1 DEF Admission
<1>13. ASSUME NEW w \in Worker, CheckContext(w) PROVE Admission
  <2>1. active' = active
    BY <1>13 DEF CheckContext
  <2> QED BY <1>t, <2>1 DEF Admission
<1>14. ASSUME NEW w \in Worker, Admit(w) PROVE Admission
  <2>1. active' = active + 1 /\ ~paused /\ active < ceiling
    BY <1>14 DEF Admit
  <2> QED BY <1>t, <2>1 DEF Admission, Halved
<1>15. ASSUME NEW w \in Worker, Refuse(w) PROVE Admission
  <2>1. active' = active
    BY <1>15 DEF Refuse
  <2> QED BY <1>t, <2>1 DEF Admission
<1>16. ASSUME NEW w \in Worker, Park(w) PROVE Admission
  <2>1. active' = active
    BY <1>16 DEF Park
  <2> QED BY <1>t, <2>1 DEF Admission
<1>17. ASSUME NEW w \in Worker, Abandon(w) PROVE Admission
  <2>1. active' = active \/ active' = active - 1
    BY <1>17 DEF Abandon, ReleaseTo
  <2> QED BY <1>t, <2>1 DEF Admission
<1>18. ASSUME NEW w \in Worker, Connect(w) PROVE Admission
  <2>1. active' = active \/ active' = active - 1
    BY <1>18 DEF Connect, ReleaseTo
  <2> QED BY <1>t, <2>1 DEF Admission
<1>19. ASSUME NEW w \in Worker, ReadTurn(w) PROVE Admission
  <2>1. active' = active \/ active' = active - 1
    BY <1>19 DEF ReadTurn, ReleaseTo
  <2> QED BY <1>t, <2>1 DEF Admission
<1>20. ASSUME NEW w \in Worker, Fail(w) PROVE Admission
  <2>1. active' = active
    BY <1>20 DEF Fail
  <2> QED BY <1>t, <2>1 DEF Admission
<1>21. CASE UNCHANGED vars
  <2>1. active' = active
    BY <1>21 DEF vars
  <2> QED BY <1>t, <2>1 DEF Admission
<1> QED
  BY <1>1, <1>2, <1>3, <1>4, <1>5, <1>6, <1>7, <1>8, <1>9, <1>10, <1>11, <1>12,
     <1>13, <1>14, <1>15, <1>16, <1>17, <1>18, <1>19, <1>20, <1>21
  DEF Next, Main, Produce, WorkerStep

\* Nobody is admitted beside half of the workers once memory was short enough
\* for a pause.
THEOREM HalvedAfterPause == Spec => HalvedForGood
<1>1. Inv /\ [Next]_vars => [active' > active /\ reduced => active' <= Half]_vars
  BY AdmissionStep DEF Admission
<1> QED BY Invariant, <1>1, PTL DEF Spec, HalvedForGood
=============================================================================
