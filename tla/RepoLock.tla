------------------------------ MODULE RepoLock ------------------------------
(***************************************************************************)
(* Several runs of the program in one repository, and the lock file        *)
(* commiter.lock in its common Git directory: gitstate/lock.go and         *)
(* gitstate/collect.go.  Every Collect of a run takes the lock and gives   *)
(* it back: the snapshot (which asks the user about sensitive candidates   *)
(* meanwhile), the revalidations, and the check before every commit.       *)
(***************************************************************************)
EXTENDS Naturals

CONSTANTS
  Run,         \* the processes
  Nobody,      \* no run
  MaxCollects  \* bound on the Collect calls of a run

ASSUME LockConstantsOK == Nobody \notin Run /\ MaxCollects \in Nat \ {0}

VARIABLES
  lock,      \* Nobody, or the run whose process id the file holds
  phase,     \* of each run
  collects   \* Collect calls of each run so far

lockVars == <<lock, phase, collects>>

LockInit ==
  /\ lock = Nobody
  /\ phase = [r \in Run |-> "start"]
  /\ collects = [r \in Run |-> 0]

Turn(r, l) == phase' = [phase EXCEPT ![r] = l]

\* Mutant: the file is opened without O_EXCL.
AcquireShared(r) ==
  /\ phase[r] \in {"start", "working"} /\ collects[r] < MaxCollects
  /\ collects' = [collects EXCEPT ![r] = @ + 1]
  /\ lock' = r /\ Turn(r, "opened")

\* O_CREATE|O_EXCL: at most one open succeeds, the others are told that
\* another process is using the repository.
Acquire(r) ==
  /\ phase[r] \in {"start", "working"} /\ collects[r] < MaxCollects
  /\ collects' = [collects EXCEPT ![r] = @ + 1]
  /\ \/ lock = Nobody /\ lock' = r /\ Turn(r, "opened")
     \/ lock # Nobody /\ Turn(r, "failed") /\ UNCHANGED lock

\* Mutant: the file stays.
UnwrittenKept(r) ==
  /\ phase[r] = "opened" /\ Turn(r, "failed") /\ UNCHANGED <<lock, collects>>

\* os.Remove, by name; if it fails the run fails, and the file stays.
Remove(r, next) ==
  \/ lock' = Nobody /\ Turn(r, next)
  \/ UNCHANGED lock /\ Turn(r, "stuck")

\* The process id cannot be written: the file goes away again.
Unwritten(r) == phase[r] = "opened" /\ Remove(r, "failed") /\ UNCHANGED collects

Enter(r) == phase[r] = "opened" /\ Turn(r, "collecting") /\ UNCHANGED <<lock, collects>>

\* The deferred Close removes the file by its name, whatever Collect found.
Release(r) ==
  /\ phase[r] = "collecting"
  /\ Remove(r, "working") \/ Remove(r, "failed")
  /\ UNCHANGED collects

\* Between two Collect calls a run waits for the user, verifies or commits.
End(r) ==
  /\ phase[r] = "working" /\ Turn(r, "ended") /\ UNCHANGED <<lock, collects>>

Die(r) ==
  /\ phase[r] \in {"opened", "collecting", "working"}
  /\ Turn(r, "crashed") /\ UNCHANGED <<lock, collects>>

\* Nothing but the user removes the file of a run that is gone.
RemoveStale ==
  /\ lock # Nobody /\ phase[lock] \in {"crashed", "stuck"}
  /\ lock' = Nobody
  /\ UNCHANGED <<phase, collects>>

LockStep(r) == Acquire(r) \/ Unwritten(r) \/ Enter(r) \/ Release(r) \/ End(r)
LockNext == RemoveStale \/ \E r \in Run : LockStep(r) \/ Die(r)
LockSpec == LockInit /\ [][LockNext]_lockVars
-----------------------------------------------------------------------------
InCollect(r) == phase[r] \in {"opened", "collecting"}
Phases == {"start", "opened", "collecting", "working", "failed", "stuck", "ended",
           "crashed"}

\* Types of the lock and of the runs.
LockTypeOK ==
  /\ lock \in Run \cup {Nobody} /\ phase \in [Run -> Phases]
  /\ collects \in [Run -> 0 .. MaxCollects]

(* No two runs are in Collect at a time, whatever runs crashed and whichever *)
(* stale lock was removed: the comparison of the Git state at the end of     *)
(* Collect with the one at its start is not confused by another run.         *)
CollectExclusive == \A r, s \in Run : InCollect(r) /\ InCollect(s) => r = s

(* A run that ended or failed does not leave the lock behind, and none takes *)
(* it from another: the file names a run in Collect, or one that died there  *)
(* or could not remove it.                                                   *)
NoLeak ==
  /\ lock # Nobody => InCollect(lock) \/ phase[lock] \in {"crashed", "stuck"}
  /\ \A r \in Run : InCollect(r) => lock = r

(* SR-008: one run at a time in a repository: false, two runs can verify and *)
(* commit at the same time, the lock covers the Collect calls only.          *)
OneRunAtATime == \A r, s \in Run : phase[r] = "working" /\ phase[s] = "working" => r = s
=============================================================================
