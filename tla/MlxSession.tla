----------------------------- MODULE MlxSession -----------------------------
(***************************************************************************)
(* One session with the private MLX helper, internal/mlx/session.go: one   *)
(* child process that answers at most three requests (grouping, category,  *)
(* text) over its pipes.  Beside the goroutine that calls Generate and     *)
(* Close there are a reader of stdout, a drain of stderr, a waiter that    *)
(* reaps the process, and the watcher of os/exec that kills its process    *)
(* group when the child's context ends.                                    *)
(*                                                                         *)
(* A request is larger than a pipe, so writing it ends when the helper     *)
(* reads it (or is gone).  The helper is the loop of benchmarkMain; what   *)
(* may go wrong in it (a crash, a failed generation, other output on its   *)
(* pipes, no progress at all) is an action of its own or no fairness.      *)
(***************************************************************************)
EXTENDS Integers, Sequences

CONSTANTS
  MaxCalls,  \* bound on the calls of Generate
  Budget     \* bound on what goes wrong in the helper and at the start

ASSUME ConstantsOK == MaxCalls \in Nat /\ Budget \in Nat

Phases == 3    \* bounded-grouping, bounded-category, bounded-text

VARIABLES
  pc,        \* of the caller, in BeginSession, Generate and Close
  call,      \* number of the current call of Generate
  profile,   \* phase of its request
  count,     \* s.count
  last,      \* what the last call returned: a failure kind or "ok"
  answers,   \* call whose request the last "ok" answers
  ended,     \* contexts that ended: the session's, the current call's
  cancelled, \* s.cancel was called
  input,     \* "open" or "closed": s.stdin
  closed,    \* s.once is done
  helper,    \* the process: reading, generating, exited, reaped
  job,       \* call it generates for
  served,    \* requests it answered
  status,    \* of its exit
  output,    \* stdout, a sequence of lines
  reader,    \* goroutine: scan, send, ended
  held,      \* the line it holds
  frames,    \* s.frames, a channel of one
  waiter,    \* goroutine: reader, process, done
  killer,    \* command.Cancel: idle, term, kill
  waitErr,   \* s.waitErr # nil
  budget

caller == <<pc, call, profile, count, last, answers, closed, input>>
process == <<helper, job, served, status, output>>
draining == <<reader, held, frames>>
reaping == <<waiter, waitErr>>
vars == <<caller, ended, cancelled, process, draining, reaping, killer, budget>>

Line == [of : 0..MaxCalls, phase : 0..Phases,
         kind : {"completed", "stopped", "noise", "huge"}]
Other(kind) == [of |-> 0, phase |-> 0, kind |-> kind]

Init ==
  /\ pc = "begin" /\ call = 0 /\ profile = 0 /\ count = 0
  /\ last = "none" /\ answers = 0 /\ closed = FALSE /\ input = "open"
  /\ ended = {} /\ cancelled = FALSE
  /\ helper = "none" /\ job = 0 /\ served = 0 /\ status = "ok" /\ output = <<>>
  /\ reader = "ended" /\ held = Other("noise") /\ frames = <<>>
  /\ waiter = "done" /\ waitErr = FALSE /\ killer = "idle" /\ budget = Budget

Spend == budget > 0 /\ budget' = budget - 1
Alive == helper \in {"reading", "generating"}
\* child.Done(): the session's context, or its own cancel function.
ChildDone == cancelled \/ "session" \in ended
CallDone == "call" \in ended

-----------------------------------------------------------------------------
(* BeginSession                                                            *)

\* The pipes exist, the process runs and its three goroutines are started.
Begin ==
  /\ pc = "begin" /\ pc' = "idle"
  /\ helper' = "reading" /\ reader' = "scan" /\ waiter' = "reader"
  /\ UNCHANGED <<call, profile, count, last, answers, closed, input, ended,
                 cancelled, job, served, status, output, held, frames,
                 waitErr, killer, budget>>

\* A pipe or the process cannot be made: there is no session.
BeginFails ==
  /\ pc = "begin" /\ Spend
  /\ pc' = "over" /\ last' = "start" /\ cancelled' = TRUE /\ input' = "closed"
  /\ UNCHANGED <<call, profile, count, answers, closed, ended, process,
                 draining, reaping, killer>>

-----------------------------------------------------------------------------
(* Generate and Close                                                      *)

\* Close, up to the wait for s.done; a second one finds s.once done.
CloseThen(next) ==
  /\ closed' = TRUE /\ input' = "closed"
  /\ cancelled' = TRUE
  /\ pc' = next
Fail(kind) ==
  /\ last' = kind
  /\ CloseThen("closing")

\* Generate begins: a request out of order and one that cannot be encoded fail,
\* and so does one whose context ended already.
Generate(p) ==
  /\ pc = "idle" /\ call < MaxCalls
  /\ call' = call + 1 /\ profile' = p
  /\ \/ p = count + 1 /\ pc' = "write" /\ ended' = ended \ {"call"}
        /\ UNCHANGED <<last, closed, input, cancelled>>
     \/ Fail("protocol") /\ UNCHANGED ended
     \/ p = count + 1 /\ Fail("context") /\ ended' = ended \cup {"call"}
  /\ UNCHANGED <<count, answers, process, draining, reaping, killer, budget>>

\* writeRequest: the helper reads the line, or nobody can any more.
Write ==
  /\ pc = "write"
  /\ \/ /\ input = "open" /\ helper = "reading"
        /\ helper' = "generating" /\ job' = call
        /\ pc' = "wait"
        /\ UNCHANGED <<last, closed, input, cancelled>>
     \/ /\ input = "closed" \/ ~Alive
        /\ Fail("protocol") /\ UNCHANGED <<helper, job>>
  /\ UNCHANGED <<call, profile, count, answers, ended, served, status, output,
                 draining, reaping, killer, budget>>

\* Mutant: a call that is cancelled leaves the session open.
StopWaitingOpen ==
  /\ pc \in {"wait", "drain"} /\ CallDone
  /\ last' = "context" /\ pc' = "idle"
  /\ UNCHANGED <<call, profile, count, answers, closed, input, ended, cancelled,
                 process, draining, reaping, killer, budget>>

\* The call's context ends first, in either of the two waits.
StopWaiting ==
  /\ pc \in {"wait", "drain"} /\ CallDone
  /\ Fail("context")
  /\ UNCHANGED <<call, profile, count, answers, ended, process, draining,
                 reaping, killer, budget>>

\* The reader closed the channel.
FindClosed ==
  /\ pc = "wait" /\ frames = <<>> /\ reader = "ended"
  /\ Fail("crash")
  /\ UNCHANGED <<call, profile, count, answers, ended, process, draining,
                 reaping, killer, budget>>

\* A frame arrives and is decoded.  After the third answer Generate closes
\* stdin and waits for the process to end.
Receive ==
  /\ pc = "wait" /\ frames # <<>> /\ frames' = Tail(frames)
  /\ LET f == Head(frames)
     IN  \/ /\ f.phase # profile \/ f.kind = "completed"  \* with an empty text
            /\ Fail("protocol") /\ UNCHANGED <<count, answers>>
         \/ /\ f.phase = profile /\ f.kind = "stopped"
            /\ Fail("stop_state") /\ UNCHANGED <<count, answers>>
         \/ /\ f.phase = profile /\ f.kind = "completed"
            /\ count' = count + 1 /\ answers' = f.of
            /\ IF count' = Phases
               THEN pc' = "drain" /\ input' = "closed" /\ UNCHANGED last
               ELSE pc' = "idle" /\ last' = "ok" /\ UNCHANGED input
            /\ UNCHANGED <<closed, cancelled>>
  /\ UNCHANGED <<call, profile, ended, process, reader, held, reaping, killer,
                 budget>>

\* Mutant: the exit status of the helper is not looked at.
DrainedUnchecked ==
  /\ pc = "drain" /\ waiter = "done"
  /\ pc' = "idle" /\ last' = "ok"
  /\ UNCHANGED <<call, profile, count, answers, closed, input, ended, cancelled,
                 process, draining, reaping, killer, budget>>

\* The helper is gone after the third answer: a bad exit discards the answer.
Drained ==
  /\ pc = "drain" /\ waiter = "done"
  /\ pc' = "idle" /\ last' = IF waitErr THEN "crash" ELSE "ok"
  /\ UNCHANGED <<call, profile, count, answers, closed, input, ended, cancelled,
                 process, draining, reaping, killer, budget>>

\* The planner's deferred close of the cycle.
Close ==
  /\ pc = "idle"
  /\ CloseThen("ending")
  /\ UNCHANGED <<call, profile, count, last, answers, ended, process, draining,
                 reaping, killer, budget>>

\* Mutant: Close does not wait for the process.
ClosedAtOnce ==
  /\ pc \in {"closing", "ending"}
  /\ pc' = IF pc = "closing" THEN "idle" ELSE "over"
  /\ UNCHANGED <<call, profile, count, last, answers, closed, input, ended,
                 cancelled, process, draining, reaping, killer, budget>>

\* Close returns once s.done is closed, and the failing Generate with it.
Closed ==
  /\ pc \in {"closing", "ending"} /\ waiter = "done"
  /\ pc' = IF pc = "closing" THEN "idle" ELSE "over"
  /\ UNCHANGED <<call, profile, count, last, answers, closed, input, ended,
                 cancelled, process, draining, reaping, killer, budget>>

-----------------------------------------------------------------------------
(* The helper: benchmarkMain in its production mode                        *)

HelperLeaves == UNCHANGED <<caller, ended, draining, reaping, killer>>

\* writeResponse, under the profile of the request.
Reply(kind) ==
  /\ helper = "generating" /\ Len(output) < 2
  /\ output' = Append(output, [of |-> job, phase |-> served + 1, kind |-> kind])
  /\ served' = served + 1
  /\ UNCHANGED <<job, status, cancelled>> /\ HelperLeaves

\* The handled request is answered; the third answer ends the loop.
Answer ==
  /\ Reply("completed")
  /\ helper' = IF served' = Phases THEN "exited" ELSE "reading"
  /\ UNCHANGED budget

\* The generation did not complete: the answer names the class, the loop ends.
StopEarly == Spend /\ Reply("stopped") /\ helper' = "exited"

\* reader.next() finds the end of stdin.
HelperEOF ==
  /\ helper = "reading" /\ input = "closed"
  /\ helper' = "exited"
  /\ UNCHANGED <<job, served, status, output, cancelled, budget>> /\ HelperLeaves

\* It aborts: a Swift trap, no memory for the model.  With the last answer
\* written it may still fail on its way out.
Crash ==
  /\ Spend
  /\ \/ Alive
     \/ helper = "exited" /\ status = "ok"
  /\ helper' = "exited" /\ status' = "bad"
  /\ UNCHANGED <<job, served, output, cancelled>> /\ HelperLeaves

\* A library writes to stdout: a line that is no answer, or one over the limit.
Noise ==
  /\ Alive /\ Spend /\ Len(output) < 2
  /\ \E kind \in {"noise", "huge"} : output' = Append(output, Other(kind))
  /\ UNCHANGED <<helper, job, served, status, cancelled>> /\ HelperLeaves

\* More than defaultMaxStderrBytes on stderr: the drain cancels the session.
Flood ==
  /\ Alive /\ Spend /\ cancelled' = TRUE
  /\ UNCHANGED process /\ HelperLeaves

-----------------------------------------------------------------------------
(* The goroutines of the session and the watcher of os/exec                *)

ReaderLeaves == UNCHANGED <<caller, ended, helper, job, served, status, reaping,
                            killer, budget>>

\* A line over the limit ends the scan; one that exceeds it by the newline
\* alone cancels the session too.
Scan ==
  /\ reader = "scan" /\ output # <<>> /\ output' = Tail(output)
  /\ IF Head(output).kind = "huge"
     THEN reader' = "ended" /\ cancelled' \in {cancelled, TRUE} /\ UNCHANGED held
     ELSE reader' = "send" /\ held' = Head(output) /\ UNCHANGED cancelled
  /\ UNCHANGED frames /\ ReaderLeaves

ReaderEOF ==
  /\ reader = "scan" /\ output = <<>> /\ ~Alive
  /\ reader' = "ended"
  /\ UNCHANGED <<output, held, frames, cancelled>> /\ ReaderLeaves

Send ==
  /\ reader = "send" /\ frames = <<>>
  /\ frames' = <<held>> /\ reader' = "scan"
  /\ UNCHANGED <<output, held, cancelled>> /\ ReaderLeaves

\* The other case of its select: nobody will take the line.
Quit ==
  /\ reader = "send" /\ ChildDone
  /\ reader' = "ended"
  /\ UNCHANGED <<output, held, frames, cancelled>> /\ ReaderLeaves

\* <-readDone
ReaderDone ==
  /\ waiter = "reader" /\ reader = "ended"
  /\ waiter' = "process"
  /\ UNCHANGED <<caller, ended, cancelled, process, draining, waitErr, killer, budget>>

\* cmd.Wait: the process is gone and the watcher is not at work.  A session
\* that was cancelled before is reported as failed whatever the exit status.
Reap ==
  /\ waiter = "process" /\ helper = "exited" /\ killer # "term"
  /\ helper' = "reaped" /\ waiter' = "done"
  /\ waitErr' = (status = "bad" \/ killer # "idle")
  /\ UNCHANGED <<caller, ended, cancelled, job, served, status, output, draining,
                 killer, budget>>

KillerLeaves == UNCHANGED <<caller, ended, cancelled, job, served, output, draining,
                            reaping, budget>>

\* cancelHelperProcess: SIGTERM to the group, which may end it at once.
Terminate ==
  /\ ChildDone /\ killer = "idle" /\ waiter # "done"
  /\ killer' = "term"
  /\ \/ Alive /\ helper' = "exited" /\ status' = "bad"
     \/ UNCHANGED <<helper, status>>
  /\ KillerLeaves

\* Mutant: the second signal can be ignored like the first.
KillPolitely ==
  /\ killer = "term" /\ killer' = "killed"
  /\ UNCHANGED <<helper, status>>
  /\ KillerLeaves

\* After the grace: SIGKILL.
Kill ==
  /\ killer = "term" /\ killer' = "killed"
  /\ IF Alive THEN helper' = "exited" /\ status' = "bad"
              ELSE UNCHANGED <<helper, status>>
  /\ KillerLeaves

\* The user interrupts, or the time limit of the cycle or of a call ends.
EndContext ==
  /\ \E c \in {"session", "call"} \ ended : ended' = ended \cup {c}
  /\ UNCHANGED <<caller, cancelled, process, draining, reaping, killer, budget>>

-----------------------------------------------------------------------------
CallerStep == Begin \/ BeginFails \/ (\E p \in 1..Phases : Generate(p)) \/ Write
              \/ StopWaiting \/ FindClosed \/ Receive \/ Drained \/ Close \/ Closed
HelperStep == Answer \/ StopEarly \/ HelperEOF \/ Crash \/ Noise \/ Flood
ReaderStep == Scan \/ ReaderEOF \/ Send \/ Quit
WaiterStep == ReaderDone \/ Reap
KillerStep == Terminate \/ Kill

\* The session was closed: nothing of it is left to do.
Over == pc = "over" /\ UNCHANGED vars

Next == CallerStep \/ HelperStep \/ ReaderStep \/ WaiterStep \/ KillerStep
        \/ EndContext \/ Over

\* The goroutines run, and the 120 s of a cycle end.  The helper owes nothing:
\* a generation may never finish.  A line that nobody takes is offered again.
Fairness ==
  /\ WF_vars(Write) /\ WF_vars(StopWaiting) /\ WF_vars(FindClosed)
  /\ WF_vars(Receive) /\ WF_vars(Drained) /\ WF_vars(Closed)
  /\ WF_vars(ReaderStep) /\ WF_vars(WaiterStep) /\ WF_vars(KillerStep)
  /\ WF_vars(EndContext)

Spec == Init /\ [][Next]_vars /\ Fairness

-----------------------------------------------------------------------------
(* Properties                                                              *)

\* An answer that Generate returns is the answer to the request of that very
\* call: after a call that was given up, a late answer is never taken for the
\* answer to the next one (the frames carry no request number).
OwnAnswer == pc = "idle" /\ last = "ok" => answers = call

\* When Close returned, and when a Generate that failed returned, nothing of
\* the session is left: the process is reaped and its goroutines are done.
NoOrphan ==
  closed /\ pc \in {"idle", "over"} =>
    helper \in {"none", "reaped"} /\ reader = "ended" /\ waiter = "done"

\* The third answer is returned only of a helper that ended by itself and
\* well: a plan is never made from a session that was cut short.
CleanCycle ==
  pc = "idle" /\ last = "ok" /\ count = Phases =>
    helper = "reaped" /\ status = "ok" /\ killer = "idle"

\* A call of Generate or Close returns, whatever the helper does: the reader
\* with a line nobody takes, the full channel, the waiter and the killer never
\* wait for one another in a ring.
Returns ==
  pc \in {"write", "wait", "drain", "closing", "ending"} ~> pc \in {"idle", "over"}
=============================================================================
