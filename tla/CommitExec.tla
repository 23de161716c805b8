----------------------------- MODULE CommitExec -----------------------------
(***************************************************************************)
(* The commit executor, internal/commitexec/executor.go: Execute turns an  *)
(* approved plan into one Git commit per plan entry while other programs   *)
(* (an editor, a hook, a second Git client) share the same worktree, index *)
(* and HEAD.                                                               *)
(*                                                                         *)
(* A tree maps every path to a content or to Absent; HEAD is the last      *)
(* commit of log, a linear history that only grows (checkouts, resets and  *)
(* amends by the user are not modelled).  File modes and types are part of *)
(* the content, and a rename is detected for equal contents.               *)
(***************************************************************************)
EXTENDS Integers, Sequences, FiniteSets

CONSTANTS
  Path,         \* the repository paths
  Content,      \* what a file can hold
  Absent,       \* no file, no index entry, no tree entry
  None,         \* a change without an old, or without a new, path (nil)
  Sensitive,    \* paths classified as sensitive candidates
  Starts,       \* initial [head, index, worktree] trees
  AnyPlan,      \* TRUE: Execute is also called with plans nobody validated
  MaxCommits,   \* bound on the length of a plan
  Budget,       \* bound on interference: edits, foreign commits, faults, ...
  Kinds,        \* the interference allowed: see Interfere
  StageAt,      \* the control points at which another program stages a path
  CommitAt      \* the control points at which another program commits

Entry == Content \cup {Absent}
Tree == [Path -> Entry]
Change == [old : Path \cup {None}, new : Path \cup {None},
           base : Entry, work : Entry]

AllKinds == {"edit", "stage", "commit", "cancel", "fault", "reject"}

ASSUME ConstantsOK ==
  /\ Absent \notin Content /\ None \notin Path /\ IsFiniteSet(Path)
  /\ Sensitive \subseteq Path
  /\ Starts \subseteq [head : Tree, index : Tree, worktree : Tree]
  /\ AnyPlan \in BOOLEAN
  /\ MaxCommits \in Nat \ {0} /\ Budget \in Nat
  /\ Kinds \subseteq AllKinds

VARIABLES
  log,       \* commits, oldest first: [tree, own]; own: made by our git commit
  index,     \* .git/index
  worktree,  \* the files
  changes,   \* Options.Changes: the analysed snapshot
  declined,  \* Options.KnownUnapprovedSensitiveChanges
  plan,      \* Options.Plan.Commits: a sequence of sets of changes
  pc,        \* control point of Execute
  k,         \* commitIndex, from 1
  original,  \* the saved index
  tmp,       \* the temporary index of stageAssignment
  toAdd,     \* paths stageAssignment has still to add
  parent,    \* HEAD before git commit, a position in log
  gitParent, \* HEAD as read by the running git commit
  assigned,  \* the changes assigned so far
  committed, \* committedPaths
  created,   \* commitCreated
  hashes,    \* result.Hashes, positions in log
  result,    \* how Execute returned
  restored,  \* Error.Restored: "no", "yes" or "unknown"
  cancelled, \* ctx.Err() # nil
  budget,    \* interference still allowed
  edited,    \* history: paths another program touched since the last verify
  unread     \* history: HEAD could not be read after a git commit

git == <<log, index, worktree>>
input == <<changes, declined, plan>>
progress == <<assigned, committed, created, hashes>>
staging == <<tmp, toAdd>>
heads == <<parent, gitParent, unread>>
outcome == <<result, restored>>
vars == <<log, index, worktree, changes, declined, plan, pc, k, original, tmp,
          toAdd, parent, gitParent, assigned, committed, created, hashes,
          result, restored, cancelled, budget, edited, unread>>

HeadTree == log[Len(log)].tree
quiet == budget = Budget
-----------------------------------------------------------------------------
(* What gitstate.Collect reports for a HEAD tree, an index and a worktree.   *)

\* HEAD holds a, the index dropped it and added b with the same content.
RenameCandidates(h, i) ==
  {r \in Path \X Path : /\ h[r[1]] # Absent /\ i[r[1]] = Absent
                        /\ h[r[2]] = Absent /\ i[r[2]] = h[r[1]]}

\* Git pairs every source and every target at most once, and as many as it can.
Matching(R) == \A r, s \in R : r[1] = s[1] <=> r[2] = s[2]
Renames(h, i) ==
  LET R == RenameCandidates(h, i)
  IN  R \cap CHOOSE M \in SUBSET R :
               Matching(M) /\ \A N \in SUBSET R : Matching(N) => ~(M \subseteq N /\ M # N)

\* A record of git status for a path that is in no rename, or that was
\* recreated, untracked, after the rename took it away.
PathChange(p, h, w, untracked) ==
  [old |-> IF h[p] = Absent \/ untracked THEN None ELSE p,
   new |-> IF w[p] = Absent THEN None ELSE p,
   base |-> IF untracked THEN Absent ELSE h[p],
   work |-> w[p]]

Detect(h, i, w) ==
  LET R == Renames(h, i)
      sources == {r[1] : r \in R}
      targets == {r[2] : r \in R}
  IN  {[old |-> r[1], new |-> r[2], base |-> h[r[1]], work |-> w[r[2]]] : r \in R}
      \cup {PathChange(p, h, w, TRUE) : p \in {q \in sources : w[q] # Absent}}
      \cup {PathChange(p, h, w, FALSE) :
              p \in {q \in Path \ (sources \cup targets) : h[q] # w[q]}}

\* A renamed file whose new path has no file cannot be inspected.
CollectFails(h, i, w) == \E r \in Renames(h, i) : w[r[2]] = Absent

Paths(c) == {c.old, c.new} \ {None}
PathsOf(C) == UNION {Paths(c) : c \in C}
Key(c) == <<c.old, c.new>>
SensitiveChange(c) == Paths(c) \cap Sensitive # {}
\* What the analysis saw at a path of a change.
Analysed(c, p) == IF p = c.new THEN c.work ELSE Absent
-----------------------------------------------------------------------------
(* The plan.                                                                 *)

PlanPaths(n) == PathsOf(plan[n])
Remaining == UNION {plan[n] : n \in k .. Len(plan)}

WellFormed(pl, C) ==
  /\ UNION {pl[n] : n \in 1 .. Len(pl)} = C
  /\ \A n \in 1 .. Len(pl) : pl[n] # {}
  /\ \A m, n \in 1 .. Len(pl) : m # n => pl[m] \cap pl[n] = {}

Plans(C) ==
  {pl \in UNION {[1 .. n -> SUBSET C] : n \in 1 .. MaxCommits} :
     AnyPlan \/ WellFormed(pl, C)}

\* The paths that differ between commit n and its parent (git diff-tree).
Differ(t, u) == {p \in Path : t[p] # u[p]}
Diff(n) == Differ(log[n - 1].tree, log[n].tree)

\* Mutant: a file the commit holds beyond its assignment is not noticed.
ExtraFilesAllowed(n, ours) == n - 1 = parent /\ ours \subseteq Diff(n)

\* validateCreatedCommit: the parent is the HEAD we saw, the file set ours.
ValidCommit(n, ours) == n - 1 = parent /\ Diff(n) = ours

\* restoreOutOfScopeIndex: the saved index with HEAD's entries for P.
Retained(P) == [p \in Path |-> IF p \in P THEN HeadTree[p] ELSE original[p]]
-----------------------------------------------------------------------------
Init ==
  /\ \E s \in Starts :
       /\ ~CollectFails(s.head, s.index, s.worktree)
       /\ log = <<[tree |-> s.head, own |-> FALSE]>>
       /\ index = s.index /\ worktree = s.worktree
       /\ LET all == Detect(s.head, s.index, s.worktree)
          IN  /\ \E D \in SUBSET {c \in all : SensitiveChange(c)} :
                   changes = all \ D /\ declined = {Key(c) : c \in D}
              /\ changes # {}
  /\ plan \in Plans(changes)
  /\ pc = "save" /\ k = 1
  /\ original = index /\ tmp = index /\ toAdd = {}
  /\ parent = 1 /\ gitParent = 1 /\ unread = FALSE
  /\ assigned = {} /\ committed = {} /\ created = FALSE /\ hashes = <<>>
  /\ result = "none" /\ restored = "no"
  /\ cancelled = FALSE /\ budget = Budget /\ edited = {}

\* Every return with an error goes through the deferred index restoration.
Fail(code) == pc' = "restore" /\ result' = code /\ UNCHANGED restored
Goto(l) == pc' = l /\ UNCHANGED outcome

\* The only interference a step of Execute can carry: one of its own git
\* commands, files or writes fails.
Fault == "fault" \in Kinds /\ budget > 0 /\ budget' = budget - 1

SaveIndex ==
  /\ pc = "save"
  /\ original' = index /\ Goto("commit")
  /\ UNCHANGED <<git, input, k, staging, heads, progress, cancelled, budget, edited>>

SaveIndexFails ==
  /\ pc = "save" /\ Fault
  /\ pc' = "done" /\ result' = "plain"
  /\ UNCHANGED <<git, input, k, original, staging, heads, progress, restored,
                 cancelled, edited>>

\* Head of the loop over the plan: cancellation, then the assignment checks.
NextCommit ==
  /\ pc = "commit" /\ ~cancelled /\ k <= Len(plan)
  /\ IF plan[k] # {} /\ plan[k] \cap assigned = {}
     THEN assigned' = assigned \cup plan[k] /\ Goto("verify")
     ELSE UNCHANGED assigned /\ Fail("safety")
  /\ UNCHANGED <<git, input, k, original, staging, heads, committed, created,
                 hashes, cancelled, budget, edited>>

Interrupted ==
  /\ pc = "commit" /\ cancelled /\ k <= Len(plan)
  /\ Fail("interrupted")
  /\ UNCHANGED <<git, input, k, original, staging, heads, progress, cancelled,
                 budget, edited>>

Finish ==
  /\ pc = "commit" /\ k > Len(plan)
  /\ IF assigned = changes
     THEN pc' = "done" /\ result' = "success" /\ UNCHANGED restored
     ELSE Fail("safety")
  /\ UNCHANGED <<git, input, k, original, staging, heads, progress, cancelled,
                 budget, edited>>

\* Mutant: the changes are looked up, but their hashes are not compared.
SameKeys ==
  LET now == {Key(c) : c \in Detect(HeadTree, index, worktree)}
  IN  ~CollectFails(HeadTree, index, worktree) /\ \A c \in Remaining : Key(c) \in now

\* verifyHashes: a fresh Collect over the planned paths must still report every
\* change of this and later commits, and no sensitive candidate nobody decided.
Unchanged ==
  LET now == {c \in Detect(HeadTree, index, worktree) :
                Paths(c) \cap PathsOf(changes) # {}}
      approved == {Key(c) : c \in {d \in changes : SensitiveChange(d)}}
      undecided == {c \in now : SensitiveChange(c) /\ Key(c) \notin approved}
  IN  /\ ~CollectFails(HeadTree, index, worktree)
      /\ \A c \in undecided : Key(c) \in declined
      /\ Remaining \subseteq now \ undecided

Verify ==
  /\ pc = "verify"
  /\ edited' = {}
  /\ \/ Unchanged /\ Goto("reset") /\ UNCHANGED budget
     \/ ~Unchanged /\ Fail("safety") /\ UNCHANGED budget
     \/ Fault /\ Fail("safety")
  /\ UNCHANGED <<git, input, k, original, staging, heads, progress, cancelled>>

\* stageAssignment writes the saved index back, ...
ResetIndex ==
  /\ pc = "reset"
  /\ \/ index' = original /\ Goto("readtree") /\ UNCHANGED budget
     \/ Fault /\ Fail("plain") /\ UNCHANGED index
  /\ UNCHANGED <<log, worktree, input, k, original, staging, heads, progress,
                 cancelled, edited>>

\* Mutant: the temporary index starts from the user's index.
KeepStaged ==
  /\ pc = "readtree"
  /\ tmp' = original /\ toAdd' = PlanPaths(k) /\ Goto("add")
  /\ UNCHANGED <<git, input, k, original, heads, progress, cancelled, budget, edited>>

\* ... loads HEAD into a temporary index, ...
ReadTree ==
  /\ pc = "readtree"
  /\ \/ tmp' = HeadTree /\ toAdd' = PlanPaths(k) /\ Goto("add") /\ UNCHANGED budget
     \/ Fault /\ Fail("plain") /\ UNCHANGED staging
  /\ UNCHANGED <<git, input, k, original, heads, progress, cancelled, edited>>

\* ... adds the assigned paths one git add at a time (a path that is neither
\* in the worktree nor in the temporary index matches nothing) ...
AddPath ==
  /\ pc = "add" /\ toAdd # {}
  /\ \E p \in toAdd :
       \/ /\ worktree[p] # Absent \/ tmp[p] # Absent
          /\ tmp' = [tmp EXCEPT ![p] = worktree[p]]
          /\ toAdd' = toAdd \ {p}
          /\ Goto("add") /\ UNCHANGED budget
       \/ /\ worktree[p] = Absent /\ tmp[p] = Absent
          /\ Fail("plain") /\ UNCHANGED <<staging, budget>>
       \/ Fault /\ Fail("plain") /\ UNCHANGED staging
  /\ UNCHANGED <<git, input, k, original, heads, progress, cancelled, edited>>

\* ... and makes the temporary index the index.
InstallIndex ==
  /\ pc = "add" /\ toAdd = {}
  /\ \/ index' = tmp /\ Goto("parent") /\ UNCHANGED budget
     \/ Fault /\ Fail("plain") /\ UNCHANGED index
  /\ UNCHANGED <<log, worktree, input, k, original, staging, heads, progress,
                 cancelled, edited>>

ReadParent ==
  /\ pc = "parent"
  /\ \/ parent' = Len(log) /\ Goto("start") /\ UNCHANGED budget
     \/ Fault /\ Fail("plain") /\ UNCHANGED parent
  /\ UNCHANGED <<git, input, k, original, staging, gitParent, unread, progress,
                 cancelled, edited>>

\* git commit reads HEAD and runs the pre-commit hook; a cancelled context
\* keeps it from starting.
StartGitCommit ==
  /\ pc = "start"
  /\ \/ ~cancelled /\ gitParent' = Len(log) /\ Goto("hook")
     \/ cancelled /\ UNCHANGED gitParent /\ Goto("failed")
  /\ UNCHANGED <<git, input, k, original, staging, parent, unread, progress,
                 cancelled, budget, edited>>

\* git commit records the index as it is after the hook, unless HEAD moved or
\* the index equals HEAD.  A kill can come after the commit was made.
CanCommit == Len(log) = gitParent /\ index # HeadTree

GitCommits ==
  /\ pc = "hook" /\ CanCommit
  /\ log' = Append(log, [tree |-> index, own |-> TRUE])
  /\ \/ Goto("head")
     \/ cancelled /\ Goto("failed")
  /\ UNCHANGED <<index, worktree, input, k, original, staging, heads, progress,
                 cancelled, budget, edited>>

\* Mutant: a failed git commit is tried again.
RetryCommit ==
  /\ pc = "hook" /\ ~CanCommit /\ Goto("parent")
  /\ UNCHANGED <<git, input, k, original, staging, heads, progress, cancelled,
                 budget, edited>>

GitCommitFails ==
  /\ pc = "hook"
  /\ \/ (~CanCommit \/ cancelled) /\ UNCHANGED budget
     \/ "reject" \in Kinds /\ budget > 0 /\ budget' = budget - 1
  /\ Goto("failed")
  /\ UNCHANGED <<git, input, k, original, staging, heads, progress, cancelled,
                 edited>>

\* Mutant: an error of git commit is taken to mean that there is no commit.
TrustExitStatus ==
  /\ pc = "failed" /\ Fail(IF cancelled THEN "interrupted" ELSE "safety")
  /\ UNCHANGED <<git, input, k, original, staging, heads, progress, cancelled,
                 budget, edited>>

\* git commit returned an error: it may have moved HEAD all the same.
AfterFailedCommit ==
  /\ pc = "failed"
  /\ \/ /\ Len(log) # parent
        /\ created' = TRUE /\ hashes' = Append(hashes, Len(log))
        /\ committed' = committed \cup PlanPaths(k)
        /\ \/ /\ Fail(IF cancelled /\ ValidCommit(Len(log), PlanPaths(k))
                   THEN "interrupted" ELSE "safety")
              /\ UNCHANGED budget
           \/ Fault /\ Fail("safety")    \* the commit could not be inspected
        /\ UNCHANGED unread
     \/ /\ \/ Len(log) = parent /\ UNCHANGED <<budget, unread>>
           \/ Fault /\ unread' = TRUE    \* HEAD could not be read
        /\ Fail(IF cancelled THEN "interrupted" ELSE "safety")
        /\ UNCHANGED <<committed, created, hashes>>
  /\ UNCHANGED <<git, input, k, original, staging, parent, gitParent, assigned,
                 cancelled, edited>>

\* git commit succeeded: read the hash and validate what it names.
AfterCommit ==
  /\ pc = "head"
  /\ created' = TRUE /\ committed' = committed \cup PlanPaths(k)
  /\ \/ /\ hashes' = Append(hashes, Len(log)) /\ UNCHANGED <<budget, unread>>
        /\ IF ValidCommit(Len(log), PlanPaths(k))
           THEN Goto("retain")
           ELSE Fail("safety")
     \/ /\ Fault /\ Fail("safety")         \* nothing, or only the hash, was read
        /\ \/ unread' = TRUE /\ UNCHANGED hashes
           \/ hashes' = Append(hashes, Len(log)) /\ UNCHANGED unread
  /\ UNCHANGED <<git, input, k, original, staging, parent, gitParent, assigned,
                 cancelled, edited>>

\* The index goes back to the saved one, except for what was committed.
RetainIndex ==
  /\ pc = "retain"
  /\ \/ index' = Retained(committed) /\ Goto("report") /\ UNCHANGED budget
     \/ Fault /\ Fail("plain") /\ UNCHANGED index
  /\ UNCHANGED <<log, worktree, input, k, original, staging, heads, progress,
                 cancelled, edited>>

\* Hook output goes to the caller's writer, which may fail.
ReportHookOutput ==
  /\ pc = "report"
  /\ \/ k' = k + 1 /\ Goto("commit") /\ UNCHANGED budget
     \/ Fault /\ Fail("safety") /\ UNCHANGED k
  /\ UNCHANGED <<git, input, original, staging, heads, progress, cancelled,
                 edited>>

\* Mutant: the commits made are forgotten.
RestoreOriginal ==
  /\ pc = "restore" /\ pc' = "done" /\ index' = original
  /\ restored' = IF result = "plain" THEN "no" ELSE "yes"
  /\ UNCHANGED <<log, worktree, input, k, original, staging, heads, progress,
                 result, cancelled, budget, edited>>

\* The deferred restoration of every failed return.
Restore ==
  /\ pc = "restore" /\ pc' = "done"
  /\ \/ /\ index' = IF created THEN Retained(committed) ELSE original
        /\ restored' = IF result = "plain" THEN "no" ELSE "yes"
        /\ UNCHANGED <<result, budget>>
     \/ /\ Fault /\ UNCHANGED index
        /\ result' = "safety" /\ restored' = "unknown"
  /\ UNCHANGED <<log, worktree, input, k, original, staging, heads, progress,
                 cancelled, edited>>

Execute ==
  \/ SaveIndex \/ SaveIndexFails \/ NextCommit \/ Interrupted \/ Finish
  \/ Verify \/ ResetIndex \/ ReadTree \/ AddPath \/ InstallIndex \/ ReadParent
  \/ StartGitCommit \/ GitCommits \/ GitCommitFails
  \/ AfterFailedCommit \/ AfterCommit \/ RetainIndex \/ ReportHookOutput
  \/ Restore
-----------------------------------------------------------------------------
(* The programs that share the repository, hooks included, and the user.     *)

Interfere(kind) ==
  /\ kind \in Kinds /\ pc # "done"
  /\ budget > 0 /\ budget' = budget - 1
  /\ UNCHANGED <<input, pc, k, original, staging, heads, progress, outcome>>

EditFile ==
  /\ Interfere("edit")
  /\ \E p \in Path, v \in Entry :
       /\ v # worktree[p]
       /\ worktree' = [worktree EXCEPT ![p] = v]
       /\ edited' = edited \cup {p}
  /\ UNCHANGED <<log, index, cancelled>>

StagePath ==
  /\ Interfere("stage") /\ pc \in StageAt
  /\ \E p \in Path :
       /\ index[p] # worktree[p]
       /\ index' = [index EXCEPT ![p] = worktree[p]]
       /\ edited' = edited \cup {p}
  /\ UNCHANGED <<log, worktree, cancelled>>

ForeignCommit ==
  /\ Interfere("commit") /\ pc \in CommitAt
  /\ index # HeadTree
  /\ log' = Append(log, [tree |-> index, own |-> FALSE])
  /\ UNCHANGED <<index, worktree, cancelled, edited>>

Cancel ==
  /\ Interfere("cancel") /\ ~cancelled
  /\ cancelled' = TRUE
  /\ UNCHANGED <<git, edited>>

Environment == EditFile \/ StagePath \/ ForeignCommit \/ Cancel

Next == Execute \/ Environment
Spec == Init /\ [][Next]_vars
\* Execute runs on; every git command and every hook returns.
FairSpec == Spec /\ WF_vars(Execute)
-----------------------------------------------------------------------------
Labels == {"save", "commit", "verify", "reset", "readtree", "add", "parent",
           "start", "hook", "failed", "head", "retain", "report", "restore",
           "done"}

\* Types of the variables of Execute and of the repository.
TypeOK ==
  /\ log \in Seq([tree : Tree, own : BOOLEAN]) /\ Len(log) >= 1
  /\ index \in Tree /\ worktree \in Tree /\ original \in Tree /\ tmp \in Tree
  /\ changes \subseteq Change /\ plan \in Seq(SUBSET changes)
  /\ pc \in Labels /\ k \in Nat \ {0}
  /\ toAdd \subseteq Path /\ committed \subseteq Path /\ edited \subseteq Path
  /\ parent \in Nat /\ gitParent \in Nat
  /\ assigned \subseteq changes
  /\ created \in BOOLEAN /\ cancelled \in BOOLEAN /\ unread \in BOOLEAN
  /\ hashes \in Seq(Nat)
  /\ result \in {"none", "plain", "safety", "interrupted", "success"}
  /\ restored \in {"no", "yes", "unknown"}
  /\ budget \in 0 .. Budget

(* However Execute returns, unless it says that the restoration is unknown,  *)
(* the index is the one the user had, except that the paths of the commits   *)
(* it made are at HEAD: no staged selection outside of them is lost.         *)
IndexAtRest ==
  pc = "done" /\ restored # "unknown" => index = Retained(committed)

(* If nobody interferes, a validated plan is carried out to its end: the     *)
(* planned paths are at HEAD as they are in the worktree, no other path      *)
(* moved.  The checks of Execute never reject their own work.                *)
QuietSucceeds ==
  pc = "done" /\ quiet /\ WellFormed(plan, changes) =>
    /\ result = "success"
    /\ HeadTree = [p \in Path |-> IF p \in PathsOf(changes)
                                  THEN worktree[p] ELSE log[1].tree[p]]

(* A plan that is not a partition of the analysed changes never succeeds.    *)
OnlyWholePlans == result = "success" => WellFormed(plan, changes)

\* The path whose worktree content the change_hash covers: for a rename that
\* is the new path only.
Hashed(c) == IF c.new = None THEN c.old ELSE c.new

(* A commit may hold, at the path a change_hash covers, something the        *)
(* analysis did not see only if that path was touched after the last         *)
(* verifyHashes: by a hook, or by an edit between verification and git add.  *)
OnlyRacedContent ==
  [][GitCommits => \A c \in plan[k] :
       index[Hashed(c)] # Analysed(c, Hashed(c)) => Hashed(c) \in edited]_vars

\* Commit n is in the result.
Reported(n) == \E i \in 1 .. Len(hashes) : hashes[i] = n

(* When Execute returns, every commit its git commit made is in the result,  *)
(* whether the return is a success, a failure or an interruption; unless     *)
(* another program committed on top of it before Execute read HEAD, or HEAD  *)
(* could not be read.                                                        *)
OwnCommitsReported ==
  pc = "done" /\ ~unread =>
    \A n \in 1 .. Len(log) :
      log[n].own => Reported(n) \/ (n < Len(log) /\ ~log[n + 1].own)

(* The commits made so far are the plan's, one by one (CommitPromise).       *)
Outcome == IF pc # "done" THEN "running"
           ELSE IF result = "success" THEN "success" ELSE "stopped"
\* commitexec.ExitSafety, 7, and ExitInterrupted; classifyCommitError gives 7
\* to every other error.
ExitCode == CASE result = "success" -> 0
              [] result = "interrupted" -> 130
              [] OTHER -> 7
Promise == INSTANCE CommitPromise WITH
  order <- [n \in 1 .. Len(plan) |-> PathsOf(plan[n])],
  made <- [i \in 1 .. Len(hashes) |-> Diff(hashes[i])],
  outcome <- Outcome
KeepsPromise == Promise!Spec

(* Execute returns, however it is disturbed.                                 *)
Returns == <>(pc = "done")

(* verifyHashes notices that the old path of a rename exists again before    *)
(* git add takes it into the commit: false, the change_hash of a rename does *)
(* not cover its old path, and the untracked file there is no planned change.*)
RenamedAwayStaysAway ==
  pc = "head" /\ log[Len(log)].own =>
    \A c \in plan[k] :
      None \notin {c.old, c.new} /\ c.old # c.new
        /\ HeadTree[c.old] # Absent => c.old \in edited

(* Left alone, Execute creates no commit whose file set is not that of its   *)
(* plan entry (FR-013): false when the old path of a staged rename exists    *)
(* again in the worktree.                                                    *)
QuietCommitsExact ==
  quiet => \A i \in 1 .. Len(hashes) : Diff(hashes[i]) = PathsOf(plan[i])

(* A file that differs from its analysis before the first commit stops the   *)
(* run as a safety-condition violation (FR-013), which has code 4 (section   *)
(* 15).  False: the executor's ExitSafety is 7, the code of commit errors.   *)
MismatchIsSafety == [][Verify /\ k = 1 /\ ~Unchanged => ExitCode' = 4]_vars
=============================================================================
