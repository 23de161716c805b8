--------------------------- MODULE HistoryReader ---------------------------
(***************************************************************************)
(* The parallel reader of the agent history,                               *)
(* internal/historyattribution/history_parallel.go, and its memory guard,  *)
(* memory_guard.go: one producer lists the turns of all threads and puts   *)
(* them into a bounded channel, workers read the turns over connections of *)
(* their own, a guard that samples memory twice a second decides how many  *)
(* may read at a time, and the results are merged in the order of the      *)
(* listing.  A failure of anyone cancels everyone.                         *)
(*                                                                         *)
(* A turn is its position in the listing.  What a turn contains, the wait  *)
(* metrics and the process ids of the connections are left out.            *)
(***************************************************************************)
EXTENDS Naturals, Sequences, FiniteSets

CONSTANTS
  Worker,
  MaxTurns,    \* bound on the turns of the history
  Capacity,    \* of the channel: 16
  StallPolls   \* samples in the 30 seconds a pause may last: 60

ASSUME ConstantsOK ==
  /\ IsFiniteSet(Worker) /\ Worker # {}
  /\ MaxTurns \in Nat /\ Capacity \in Nat \ {0} /\ StallPolls \in Nat \ {0}

VARIABLES
  pipeline,  \* turns are read while others are listed; FALSE: all are listed first
  cancelled, \* ctx.Err() # nil
  main,      \* readHistoryParallel and Collect
  prod,      \* the producer
  listed,    \* turns listed so far
  sent,      \* turns sent to the channel so far
  listError, \* out.Error
  jobs,      \* the channel
  closed,    \* the channel is closed
  pc,        \* of each worker
  task,      \* the turn each worker has received, 0 if none
  cause,     \* the error each worker is about to report
  good, bad, \* results: turns read, turns whose reading failed
  firstError,
  watching,  \* the sampling goroutine of the guard runs
  stopped,   \* g.err # nil
  paused, reduced, ceiling, active, normal,
  stall,     \* samples since pausedAt
  outcome    \* the returned History: [status, error, turns]

channel == <<listed, sent, jobs, closed>>
producer == <<prod, channel, listError>>
results == <<good, bad, firstError>>
limits == <<paused, reduced, ceiling, normal, stall>>
guard == <<watching, stopped, limits>>
vars == <<pipeline, cancelled, main, prod, listed, sent, listError, jobs, closed,
          pc, task, cause, good, bad, firstError, watching, stopped, paused,
          reduced, ceiling, active, normal, stall, outcome>>

Errors == {"rpc", "idle", "memory", "cancelled", "filter"}
NoError == "none"
Limit == Cardinality(Worker)
AtLeastOne(n) == IF n < 1 THEN 1 ELSE n
Half == AtLeastOne(Limit \div 2)

Init ==
  /\ pipeline \in BOOLEAN /\ cancelled = FALSE
  /\ main = "start" /\ prod = "list"
  /\ listed = 0 /\ sent = 0 /\ listError = NoError
  /\ jobs = <<>> /\ closed = FALSE
  /\ pc = [w \in Worker |-> "receive"] /\ task = [w \in Worker |-> 0]
  /\ cause = [w \in Worker |-> NoError]
  /\ good = {} /\ bad = {} /\ firstError = NoError
  /\ watching = FALSE /\ stopped = FALSE
  /\ paused = FALSE /\ reduced = FALSE /\ ceiling = Limit /\ active = 0
  /\ normal = 0 /\ stall = 0
  /\ outcome = [status |-> "none", error |-> NoError, turns |-> <<>>]

\* What a call can fail with: the idle timer yields to the context.
CallErrors == IF cancelled THEN {"rpc", "cancelled"} ELSE {"rpc", "idle"}
-----------------------------------------------------------------------------
(* The memory guard.                                                         *)

\* Mutant: notify wakes nobody.
NobodyWoken == pc

\* Workers parked in acquire wait for the channel that notify closes.
Woken == [w \in Worker |-> IF pc[w] = "parked" THEN "acquire" ELSE pc[w]]

\* A sample: memory is low; at the warning (1 GiB, or pressure); at 1.5 GiB;
\* at a limit that stops the reader (2 GiB, or critical pressure); unknown.
Samples == {"low", "warning", "high", "limit", "critical", "unknown"}

\* Whether a sample stops the reader: at once, or because a pause that the
\* sample does not end has lasted too long.
Stops(s) ==
  \/ s \in {"limit", "critical", "unknown"}
  \/ paused /\ ~(s = "low" /\ normal >= 1) /\ stall + 1 >= StallPolls

\* The second normal sample in a row resumes, with half of the workers if
\* there was a pause before (normal is counted to 2, all that is asked of it).
Relax ==
  /\ normal' = IF normal = 0 THEN 1 ELSE 2
  /\ IF normal >= 1
     THEN paused' = FALSE /\ stall' = 0 /\ ceiling' = IF reduced THEN Half ELSE Limit
     ELSE UNCHANGED <<paused, ceiling>> /\ stall' = IF paused THEN stall + 1 ELSE 0
  /\ UNCHANGED reduced

\* A warning admits no more than are active; 1.5 GiB pauses, too.
Tighten(s) ==
  LET high == s \in {"high", "limit"}
      lower == IF high /\ ceiling > 1 THEN ceiling - 1 ELSE ceiling
  IN  /\ normal' = 0
      /\ paused' = (paused \/ high) /\ reduced' = (reduced \/ high)
      /\ stall' = IF paused THEN stall + 1 ELSE 0
      /\ ceiling' = IF AtLeastOne(active) < lower THEN AtLeastOne(active) ELSE lower

Update(s) ==
  /\ stopped' = Stops(s)
  /\ \/ s = "low" /\ Relax
     \/ s \in {"warning", "high", "limit", "critical"} /\ Tighten(s)
     \/ s = "unknown" /\ UNCHANGED limits
  /\ pc' = Woken

\* startMemoryGuard takes the first sample before anything else starts.
StartGuard ==
  /\ main = "start"
  /\ \E s \in Samples : Update(s)
  /\ IF stopped'
     THEN /\ main' = "returned" /\ UNCHANGED watching
          /\ outcome' = [outcome EXCEPT !.status = "unavailable", !.error = "memory"]
     ELSE main' = "run" /\ watching' = TRUE /\ UNCHANGED outcome
  /\ UNCHANGED <<pipeline, cancelled, producer, task, cause, results, active>>

\* The ticker: a failed sample cancels the reader and ends the sampling.
Poll ==
  /\ watching
  /\ \E s \in Samples : Update(s)
  /\ watching' = ~stopped'
  /\ cancelled' = (cancelled \/ stopped')
  /\ UNCHANGED <<pipeline, main, producer, task, cause, results, active, outcome>>

StopWatching ==
  /\ watching /\ cancelled /\ watching' = FALSE
  /\ UNCHANGED <<pipeline, cancelled, main, producer, pc, task, cause, results,
                 stopped, limits, active, outcome>>
-----------------------------------------------------------------------------
(* The producer.                                                             *)

Running == main = "run"
ProducerOnly ==
  UNCHANGED <<pipeline, main, pc, task, cause, results, guard, active, outcome>>

ListTurn ==
  /\ Running /\ prod = "list" /\ listed < MaxTurns
  /\ listed' = listed + 1
  /\ prod' = IF pipeline THEN "send" ELSE "list"
  /\ UNCHANGED <<cancelled, sent, listError, jobs, closed>> /\ ProducerOnly

\* readHistory ends the listing, or a call of it fails.
EndListing ==
  /\ Running /\ prod = "list"
  /\ listError' \in {NoError} \cup CallErrors
  /\ prod' = IF pipeline \/ listError' # NoError THEN "close" ELSE "send"
  /\ UNCHANGED <<cancelled, channel>> /\ ProducerOnly

\* enqueue; a pipeline returns to the listing.
Send ==
  /\ prod = "send" /\ sent < listed /\ Len(jobs) < Capacity
  /\ jobs' = Append(jobs, sent + 1) /\ sent' = sent + 1
  /\ prod' = IF pipeline THEN "list" ELSE "send"
  /\ UNCHANGED <<cancelled, listed, closed, listError>> /\ ProducerOnly

\* A send gives up when the context ends, for a pipeline that is a failure of
\* the listing; a batch also ends when all turns are sent.
EndSending ==
  /\ prod = "send" /\ (cancelled \/ (~pipeline /\ sent = listed))
  /\ prod' = "close"
  /\ listError' = IF pipeline THEN "cancelled" ELSE listError
  /\ UNCHANGED <<cancelled, channel>> /\ ProducerOnly

CloseJobs ==
  /\ prod = "close" /\ prod' = "closed"
  /\ closed' = TRUE /\ cancelled' = (cancelled \/ listError # NoError)
  /\ UNCHANGED <<listed, sent, jobs, listError>> /\ ProducerOnly
-----------------------------------------------------------------------------
(* The workers.                                                              *)

Goto(w, l) == pc' = [pc EXCEPT ![w] = l]
WorkerOnly == UNCHANGED <<pipeline, main, prod, listed, sent, closed, listError,
                          guard, outcome>>

\* The next turn, or the end of the closed channel.
Receive(w) ==
  /\ Running /\ pc[w] = "receive"
  /\ \/ /\ jobs # <<>> /\ jobs' = Tail(jobs)
        /\ task' = [task EXCEPT ![w] = Head(jobs)] /\ Goto(w, "received")
     \/ jobs = <<>> /\ closed /\ Goto(w, "done") /\ UNCHANGED <<jobs, task>>
  /\ UNCHANGED <<cancelled, cause, results, active>> /\ WorkerOnly

CheckContext(w) ==
  /\ pc[w] = "received"
  /\ Goto(w, IF cancelled THEN "done" ELSE "acquire")
  /\ UNCHANGED <<cancelled, jobs, task, cause, results, active>> /\ WorkerOnly

\* acquire under the guard's mutex: admitted, refused for good, or parked.
Admit(w) ==
  /\ pc[w] = "acquire" /\ ~stopped /\ ~paused /\ active < ceiling
  /\ active' = active + 1 /\ Goto(w, "admitted")
  /\ UNCHANGED <<cancelled, jobs, task, cause, results>> /\ WorkerOnly

Refuse(w) ==
  /\ \/ pc[w] = "acquire" /\ stopped /\ cause' = [cause EXCEPT ![w] = "memory"]
     \/ pc[w] = "parked" /\ cancelled /\ cause' = [cause EXCEPT ![w] = "cancelled"]
  /\ Goto(w, "failing")
  /\ UNCHANGED <<cancelled, jobs, task, results, active>> /\ WorkerOnly

Park(w) ==
  /\ pc[w] = "acquire" /\ ~stopped /\ (paused \/ active >= ceiling)
  /\ Goto(w, "parked")
  /\ UNCHANGED <<cancelled, jobs, task, cause, results, active>> /\ WorkerOnly

\* release gives the slot back and notifies.
ReleaseTo(w, l) == active' = active - 1 /\ pc' = [Woken EXCEPT ![w] = l]

\* Mutant: a worker that finds the context cancelled keeps its slot.
AbandonSlot(w) ==
  /\ pc[w] = "admitted" /\ cancelled
  /\ Goto(w, "done") /\ UNCHANGED active
  /\ UNCHANGED <<cancelled, jobs, task, cause, results>> /\ WorkerOnly

Abandon(w) ==
  /\ pc[w] = "admitted" /\ cancelled
  /\ ReleaseTo(w, "done")
  /\ UNCHANGED <<cancelled, jobs, task, cause, results>> /\ WorkerOnly

\* The connection is there, or can be opened, or cannot.
Connect(w) ==
  /\ pc[w] = "admitted" /\ ~cancelled
  /\ \/ Goto(w, "reading") /\ UNCHANGED <<cause, active>>
     \/ /\ \E e \in CallErrors : cause' = [cause EXCEPT ![w] = e]
        /\ ReleaseTo(w, "failing")
  /\ UNCHANGED <<cancelled, jobs, task, results>> /\ WorkerOnly

\* readHistoryTurn: the result is recorded before the slot is released.
ReadTurn(w) ==
  /\ pc[w] = "reading"
  /\ \/ /\ good' = good \cup {task[w]}
        /\ ReleaseTo(w, "receive") /\ UNCHANGED <<bad, cause>>
     \/ /\ bad' = bad \cup {task[w]} /\ UNCHANGED good
        /\ \E e \in CallErrors : cause' = [cause EXCEPT ![w] = e]
        /\ ReleaseTo(w, "failing")
  /\ UNCHANGED <<cancelled, jobs, task, firstError>> /\ WorkerOnly

\* fail: the first error counts, and everybody stops.
Fail(w) ==
  /\ pc[w] = "failing" /\ Goto(w, "done")
  /\ firstError' = IF firstError = NoError THEN cause[w] ELSE firstError
  /\ cancelled' = TRUE
  /\ UNCHANGED <<jobs, task, cause, good, bad, active>> /\ WorkerOnly

WorkerStep(w) ==
  \/ Receive(w) \/ CheckContext(w) \/ Admit(w) \/ Refuse(w) \/ Park(w)
  \/ Abandon(w) \/ Connect(w) \/ ReadTurn(w) \/ Fail(w)
-----------------------------------------------------------------------------
(* The result.                                                               *)

\* A listing that failed disqualifies what a pipeline read before.
Kept == IF pipeline /\ listError # NoError THEN {} ELSE good

\* Mutant: the listing's error always counts more than a worker's.
ListingFirst ==
  LET of == IF listError # NoError THEN listError ELSE firstError
  IN  IF stopped THEN "memory"
      ELSE IF of = NoError /\ cancelled THEN "cancelled" ELSE of

\* Mutant: nobody asks the context at the end.
CancelForgotten ==
  IF stopped THEN "memory"
  ELSE IF listError # NoError /\ firstError # "idle" THEN listError
  ELSE firstError

\* The error of the whole: the guard's; the listing's unless a worker's idle
\* timeout was first; a worker's; the context's.
FinalError ==
  LET of == IF listError # NoError /\ firstError # "idle" THEN listError ELSE firstError
  IN  IF stopped THEN "memory"
      ELSE IF of = NoError /\ cancelled THEN "cancelled" ELSE of

\* sort.Ints: the turns as they were listed.
InOrder(turns) ==
  CHOOSE s \in [1 .. Cardinality(turns) -> turns] :
    \A i, j \in DOMAIN s : i < j => s[i] < s[j]

\* Evidence that was omitted as sensitive makes a complete history partial.
Merge ==
  /\ Running /\ prod = "closed" /\ \A w \in Worker : pc[w] = "done"
  /\ main' = "merged" /\ watching' = FALSE
  /\ \E e \in {FinalError} \cup (IF FinalError = NoError THEN {"filter"} ELSE {}) :
       outcome' = [turns |-> InOrder(Kept), error |-> e,
                   status |-> IF e = NoError THEN "complete"
                              ELSE IF Kept = {} THEN "unavailable" ELSE "partial"]
  /\ UNCHANGED <<pipeline, cancelled, producer, pc, task, cause, results, stopped,
                 limits, active>>

\* Collect: a stalled service contributes nothing.
Discard ==
  /\ main = "merged" /\ main' = "returned"
  /\ outcome' = IF outcome.error = "idle"
                THEN [outcome EXCEPT !.status = "unavailable", !.turns = <<>>]
                ELSE outcome
  /\ UNCHANGED <<pipeline, cancelled, producer, pc, task, cause, results, guard,
                 active>>

\* Ctrl-C, or the end of the caller's time.
CancelParent ==
  /\ main \in {"start", "run"} /\ ~cancelled /\ cancelled' = TRUE
  /\ UNCHANGED <<pipeline, main, producer, pc, task, cause, results, guard, active,
                 outcome>>

Produce == ListTurn \/ EndListing \/ Send \/ EndSending \/ CloseJobs
Main == StartGuard \/ Merge \/ Discard
Next == \/ Main \/ Produce \/ Poll \/ StopWatching \/ CancelParent
        \/ \E w \in Worker : WorkerStep(w)
Spec == Init /\ [][Next]_vars
\* Calls end (the idle timer sees to it) and samples are taken.  A worker that
\* a notification wakes looks at the guard before the next sample, half a
\* second later: it is not overtaken by pauses for ever.
FairSpec ==
  /\ Spec /\ WF_vars(Main) /\ WF_vars(Produce) /\ WF_vars(Poll)
  /\ \A w \in Worker : WF_vars(WorkerStep(w)) /\ SF_vars(Admit(w))
-----------------------------------------------------------------------------
Labels == {"receive", "received", "acquire", "parked", "admitted", "reading",
           "failing", "done"}

\* Types of the reader's variables.
TypeOK ==
  /\ pipeline \in BOOLEAN /\ cancelled \in BOOLEAN /\ closed \in BOOLEAN
  /\ main \in {"start", "run", "merged", "returned"}
  /\ prod \in {"list", "send", "close", "closed"}
  /\ listed \in 0 .. MaxTurns /\ sent \in 0 .. listed
  /\ listError \in Errors \cup {NoError} /\ firstError \in Errors \cup {NoError}
  /\ jobs \in Seq(1 .. MaxTurns) /\ Len(jobs) <= Capacity
  /\ pc \in [Worker -> Labels] /\ task \in [Worker -> 0 .. MaxTurns]
  /\ cause \in [Worker -> Errors \cup {NoError}]
  /\ good \subseteq 1 .. MaxTurns /\ bad \subseteq 1 .. MaxTurns
  /\ watching \in BOOLEAN /\ stopped \in BOOLEAN
  /\ paused \in BOOLEAN /\ reduced \in BOOLEAN
  /\ ceiling \in 1 .. Limit /\ active \in 0 .. Limit
  /\ normal \in 0 .. 2 /\ stall \in 0 .. StallPolls
  /\ outcome.status \in {"none", "complete", "partial", "unavailable"}

(* A history that is called complete holds every turn of an uncut listing,   *)
(* in its order, whoever failed, was cancelled or was stopped in between.    *)
CompleteIsWhole ==
  outcome.status = "complete" =>
    outcome.turns = [n \in 1 .. listed |-> n] /\ listError = NoError

(* A service that stalled contributes nothing, and is told apart: if an idle *)
(* timeout was the first failure and memory was not the cause of the end,    *)
(* Collect goes on without history because of it, also when the listing it   *)
(* cancelled failed differently since.                                       *)
StalledContributesNothing ==
  main = "returned" /\ ~stopped /\ firstError = "idle" =>
    outcome = [status |-> "unavailable", error |-> "idle", turns |-> <<>>]

(* The guard counts the workers that read: no slot is lost or given twice.   *)
SlotsAccounted ==
  active = Cardinality({w \in Worker : pc[w] \in {"admitted", "reading"}})

(* Once memory was short enough for a pause, no worker is ever admitted      *)
(* beside half of the others.                                                *)
HalvedForGood ==
  [][active' > active /\ reduced => active' <= Half]_vars

(* The reader returns: no worker waits for memory, no producer for a free    *)
(* place and no receiver for a turn for ever.                                *)
Finishes == <>(main = "returned")
=============================================================================
