# Verification of commiter

`commiter` is a command-line program (Go, `src/internal`) that analyses the
uncommitted changes of a Git repository, lets a local language model group them
into commits, asks the user, runs the project's verification commands, makes
the commits and may push them. This directory holds TLA+ models of its core,
the TLC runs that check them and the TLAPS proofs of the results that matter
most. Paths below are relative to `src/internal` unless they say otherwise;
SRS is `src/SOFTWARE_REQUIREMENTS_SPECIFICATION_en.md`.

The program runs beside others in the same repository: an editor, hooks, other
Git clients, a second `commiter`. Its promise is that the repository is never
left in a state nobody asked for: only analysed and approved content is
committed, a staged selection survives, nothing is pushed that was not meant to
be, and the exit code says what happened. The models are about that promise and
about the concurrent machinery under it.

## 1. Inventory

| Component | State | Operations | Talks to | Hard behaviour |
|---|---|---|---|---|
| Run cycle `cli/collection.go`, `cli/planning.go`, `cli/verification.go` | snapshot, initial and later repository state, plan, approval, verdict, exit code | `runCollection`, `runCollectionCycle` | every other component, the user | anything may change between two of its steps; Ctrl-C at any time; errors compete for the exit code |
| Commit executor `commitexec` | saved index, temporary index, assigned changes, committed paths, reported hashes | `Execute`, `verifyHashes`, `stageAssignment`, `validateCreatedCommit`, `restoreOutOfScopeIndex` | Git commands, hooks, `gitstate.Collect` | races with editors and hooks, partial plans, a commit that fails after it was made, restoration of the index |
| Snapshot `gitstate` | HEAD, index and worktree digests, list of changes with `change_hash` | `Collect`, `readStatus`, `coalesceDeleteAndRecreate`, `setChangeHash` | Git, sensitive prompt | renames, recreated files, HEAD moving while the snapshot is built |
| Repository lock `gitstate/lock.go` | `commiter.lock` | `acquireLock`, `Close` | other processes | crash while it is held, stale files |
| Verification `verification` | definition and its hash, state captures, results | `Resolve`, `Authorize`, `CaptureRepositoryState`, `Run`, `RestoreIndex` | trust store, commands | commands that change the repository, edits of the manifest, interruption |
| Trust store `trust` | `trust.json` | `Matches`, `Approve`, `Revoke`, `List` | other processes | read-modify-rename without a lock |
| Push `pushexec` | none | `Execute` | remote | a failed push that arrived |
| Interaction `interaction` | the terminal | `ReviewContext`, `ReadYes`, `ResolvePushTarget` | user | a prompt that waits when the context ends |
| History attribution `historyattribution` | turns, channel, results, memory guard | `readHistoryParallel`, `startMemoryGuard`, `acquire`/`release`, `Collect`, attribution | agent's app server | producer, workers, sampler, idle timers and cancellation; queue and slot limits |
| Model store `mlxmodel` | model directory, staging and backup directories, metadata | `Plan`, `Install`, `Ready` | registry, other processes | crash between two renames, overlapping installations |
| MLX session and client `mlx`, `src/mlx-helper` | helper process, pipes, channel of one frame, pending request | `BeginSession`, `Generate`, `Close` | planner | goroutines ending in any order, time limits, shutdown |
| Planning `planning`, `llm` | groups, categories, texts, payload of the phase, answer | `ThreePhaseGenerator.Generate`, `groupingPayload`, `safePhaseHistory`, `Validate` | MLX session, attributed history | a model that answers anything, a time limit between two phases, history that is withheld or over the token budget |
| Configuration `config`, `repository` | layered settings, `.gitignore` | `Resolve`, `Init`, `PlanInitializationWithIgnore`, `ApplyInitialization` | every command | precedence, repository settings that are not trusted, edits between plan and write |
| Commands `cli/cli.go`, `cli/doctor_mlx.go` | options, exit code, what is on stdout | `Run`, `runInit`, `runSetup`, `runDoctor`, `runConfig`, `runTrust`, `runMain`, `finishMetrics` | all of the above | combinations of flags, JSON output next to errors, several invocations |
| Update check `updatecheck` | cache file | check, compare versions | GitHub | cache shared without a lock |
| Context input, relations, syntax, Codex context | none | extraction | planning | pure functions of file contents |
| Ollama, output, metrics, tools | none | HTTP, formatting, counters | | pure I/O |

What makes the modelled components correct:

- *Commit executor*: a plan is carried out exactly or stops at the first commit
  that is not its entry; every own commit is reported; the index the user had
  comes back except for the committed paths; only content raced in after the
  last check can differ from the analysis.
- *Run cycle*: commits start from one unchanged state of the repository and the
  plan that was approved for it; a verification that changed something is
  undone in the index and leads to a new analysis; the push is complete,
  confirmed where required, and made once; exit codes are truthful.
- *Lock*: Collect calls exclude each other, also after crashes.
- *Trust store*: nothing runs that was not approved for this repository.
- *History reader*: it returns; "complete" means complete; a stalled service
  contributes nothing; the memory guard's count is exact.
- *Model store*: what looks ready was verified; a ready model is never lost.
- *MLX session*: an answer belongs to its request, every call returns, and no
  helper process or goroutine outlives the session.
- *Planning*: a plan partitions the selected files, or there is none; what marks
  a commit as breaking, or a block as matched, is evidence; sensitive records
  never reach the model.
- *Attribution*: a block is matched to a turn only if that is the whole story.
- *Settings*: a repository's file cannot change what belongs to the user.
- *Commands*: each touches only its own files, never overwrites contents, and in
  JSON mode prints one document; the update check and the metrics do not decide
  how a run ends.

`PROJECT.json` lists the hazards of the code line by line, with the properties
that watch them.

## 2. Modules

| Module | Models | Composed with |
|---|---|---|
| `CommitPromise` | what commit execution promises: the abstract specification | instanced by `CommitExec` and `RunCycle` |
| `CommitExec` | `commitexec/executor.go` and what `gitstate` reports to it | refines `CommitPromise` |
| `RunCycle` | `cli/collection.go` with planning, verification, push | uses `CommitPromise` for its commits |
| `RepoLock` | `gitstate/lock.go`, `Collect` of several runs | |
| `TrustStore` | `trust/store.go`, `verification/approval.go`, `trust revoke` | |
| `HistoryReader` | `historyattribution/history_parallel.go`, `memory_guard.go` | |
| `ModelStore` | `mlxmodel/store.go`, `setup` in `cli/cli.go` | |
| `MlxSession` | `mlx/session.go`, the loop of `src/mlx-helper` behind it | |
| `PlannerPromise` | what a planner promises: the abstract specification | instanced by `ThreePhase` |
| `PhaseHistory` | `planning/grouping_history.go`, `history_safety.go`, `attributed_history_input.go`, `metadata_input.go`: what a phase is told of agent history | operators, used by `ThreePhase` and `Attribution` |
| `ThreePhase` | `planning/three_phase.go`, `validate.go` | refines `PlannerPromise`; extends `PhaseHistory` |
| `DiffBlocks` | the two parsers of diffs, `planning/grouping_input.go` and `historyattribution/model.go` | operators and recursive functions, used by `Attribution` |
| `Attribution` | `historyattribution/pipeline.go`, `mapping.go`, `commands.go`, `compare` | operators, used by `PlanFlow` |
| `PlanFlow` | `generateCommitPlan` and `attributedHistoryForPlan` in `cli` | composes `ThreePhase` and `Attribution` |
| `Settings` | `config/config.go` | operators, used by `Startup` |
| `CommandLine` | the reading of arguments in `cli/cli.go` | operators, used by `Startup` |
| `Startup` | the commands, the update check and the metrics around a run | composes `Settings` and `CommandLine`; a run and an installation are single steps |
| `MC...` | starts, settings and plans for TLC | extend the module they are named after |
| `...Proofs` | the theorems | extend the module they are named after; `StoreProofs` extends `TrustStore` and `RepoLock` |

An action is one step of the code between two points where another program, a
goroutine or a failure can come in between. Operators marked "Mutant" are wrong
variants of the definition that follows them; no specification uses them.
Replacing the definition by the variant makes the property it belongs to fail,
which shows that the property depends on that code.

### CommitExec

A tree maps each path to a content or to `Absent`; `log` is the history, whose
last entry is HEAD; `index` and `worktree` are trees. `Detect` is what `Collect`
reports for the three: staged renames paired by equal content, recreated old
paths of renames (`coalesceDeleteAndRecreate`), and every other path whose
worktree differs from HEAD. `Execute` becomes: save the index; per plan entry
check the assignment, `Verify` (a new `Collect` compared with the analysis),
write back the saved index, load HEAD into a temporary index, one `git add`
per path, install the index, read the parent, `git commit` (start, hook,
commit or failure), read and validate HEAD, restore the index outside of the
committed paths, report; and the deferred restoration of every failed return.
`Environment` edits files, stages paths, commits, and presses Ctrl-C between
any two steps; `Fault` lets any Git command or file operation fail. `edited`
and `unread` are history variables for the properties.

### RunCycle

The repository is a record of version numbers for HEAD, the index, the selected
files and the other files; a change gives a version that was never used, and
restoring the saved index brings the saved version back. The steps of a cycle
are those of `runCollectionCycle` in its order: `Collect`, the answer about
sensitive candidates, `BuildSnapshot`, `CaptureState`, `ResolveDefinition`,
`Analyse`, `Attribute`, `Generate`, `Review` or `Render`, `Authorize`,
`RunCommand`..., `PrintResults`, `CaptureAfter`, `Recheck`, `Ask`, the commits
(actions of `CommitPromise`), `ResolveTarget`, `ConfirmPush`, `PushOnce`. Every
early return with its exit code is a disjunct. `staged` and `seen` are history
variables.

### RepoLock and TrustStore

`RepoLock` is the lock file and the control point of every run, with crashes,
removals that fail and a user who removes the file of a run that is gone. `TrustStore` has the file,
and for every process its operation and its copy; `overlap = FALSE` is the
behaviour in which a process starts when the others are at rest. The two
share no names, so that one module of proofs extends both.

### HistoryReader

One producer lists turns and sends them to a channel; workers receive, pass the
context check, are admitted by the memory guard (`acquire` under its mutex:
admitted, refused or parked until a notification), connect, read and record,
and release. The guard samples: two normal samples in a row resume, a warning
freezes the number of active workers, 1.5 GiB pauses, 2 GiB, critical pressure,
a failed sample or a pause that lasts too long stop. Batch and pipeline modes
are both initial states. Connections kept or closed between turns (`retire`),
metrics and the contents of turns are left out.

### ModelStore

A directory has metadata or not and each planned file in it is as planned, of
the planned size with other bytes, or neither. `Install` is: return if ready,
make a staging directory, download `config.json`, then the other files, write
the metadata, look for something at the destination, move it away, rename the
staging directory into place, or roll back and look again. Each process has one
staging and one backup slot (they are named after a fresh temporary
directory), and a process can die between any two steps. `Ready` is one step.

### MlxSession

Six actors share the state of one session: the caller of `BeginSession`,
`Generate` and `Close`; the helper, which reads a request, generates and
answers; the reader of its stdout, which scans a line and sends it to a channel
of one place (`frames`); the waiter, which reaps the process when the reader is
done; and the killer of `os/exec`, which sends SIGTERM when the context of the
child ends and SIGKILL after the grace. The drain of stderr ends with the
process and has no state. A pipe holds less than a request, so that a write ends
when the helper reads it or is gone. `Generate` has its early returns
(`FindClosed`, the order of the profiles, the count), `StopWaiting` is the end
of one of its contexts, `Drained` the end of the helper after the third answer.
What goes wrong in the helper (`Crash`, `StopEarly`, `Noise`, `Flood`) costs
budget; that it makes no progress costs nothing, it has no fairness.

### PhaseHistory, ThreePhase, PlannerPromise

A file is its place in the natural order of the paths, a block of it a pair with
a number, a record of agent history a name whose text is safe or not. `Begin`
has the checks in front of the first request, `Prepare` the payload of the first
phase, `Invoke` the request and what of it the helper's token budget shows,
`Grouping`, `Category` and `Text` take any answer of the form the grammar
allows, `RefuseAnswer` and `ChatFails` are the others, `Finish` validates the
plan, and `Return` closes the cycle of the helper on every path. Texts are
"good" or break one rule of the subject. `PlannerPromise` says nothing of
phases: an error, or one plan that gives every selected file to one commit, in
order, with a known type and a good text.

### DiffBlocks, Attribution, PlanFlow

A diff is a sequence of lines, `DiffBlocks` cuts it into blocks as the planner
does (`GroupingBlocks`, `ProjectedBlocks`) and as the attribution does
(`ParseBlocks`, `ComparisonBlocks`). `Attribution` is the pure computation from
the operations and turns the reader returned to the history of the planner: what
may be evidence (`Retain`), comparison of a block with every operation, marks of
split and merged blocks, candidates, commands, and the loss of uniqueness when
something was left out. `PlanFlow` puts it in front of `ThreePhase`: the cache
that serves a regenerated plan, the checks of the snapshot, the exit codes.

### Settings, CommandLine, Startup

`Settings` is a function from the three layers to values and their sources, or
to a rejection; a value is a name for what the code tells apart about it.
`CommandLine` reads a sequence of words. In `Startup` each process goes through
the steps of its command; `disk` has one field for every file and for what the
other components keep (a model, a trust record, commits), so that "which
command may touch what" is a question about one record. The cache of the update
check is written as `os.WriteFile` does, truncated and then filled. The user
adds lines to `.gitignore` or writes a configuration file between any two steps,
processes die, and `Tomorrow` lets the interval of the update check pass. The
creation of a file and its one write are one step.

## 3. Runs

| Run | Question | Instance |
|---|---|---|
| `commit_quiet` | does Execute do its job when alone, for every start? | all 3-path repositories with two contents whose HEAD holds one of them, no recreated rename source, every plan of up to 2 commits, valid or not |
| `commit_disturbed` | what can races, hooks, failures and Ctrl-C do? | modified, renamed, deleted, untracked and partly staged files; valid plans of 1-2 commits; two disturbances of any kind |
| `commit_recreated` (violation) | is the file set right if the old path exists from the start? | no disturbance |
| `run_cycle` | what holds of a whole run? | two disturbances of any kind, two cycles, one command, twelve combinations of settings |
| `lock_exclusive` | do Collect calls exclude each other? | four runs, three calls each |
| `trust_file` | is only approved code authorised; is a revocation final without overlap? | three processes, two repositories, two hashes |
| `history_reader` | does the parallel reader end, and with a truthful result? | two workers, two turns, a channel of one, a pause of two samples |
| `model_store` | what do overlapping, failing and dying installations leave? | three processes, two files, five kinds of directories at the start |
| `mlx_session` | can a session mix up answers, hang, or leave a process? | four calls, two faults, every context may end at any time |
| `planning` | what can a model that answers anything, and any history, do to a plan? | up to four files, short diffs, one or two operations, the inputs of `MCPlanFlow` |
| `attribution_total` (violation) | is there a plan for every diff of Git? | the same inputs |
| `startup` | what do commands do to files, settings, stdout and the exit code? | one to three processes, four sets of scenarios in `MCStartup` |

Properties, per run:

- `commit_quiet`: `QuietSucceeds` (the checks of Execute never reject its own
  work, and its result is exactly the plan).
- `commit_disturbed`: `IndexAtRest`, `OwnCommitsReported`, `OnlyRacedContent`,
  `KeepsPromise` (refinement of `CommitPromise`), `Returns` (liveness).
- `run_cycle`: `OneState`, `IndexKept`, `PushGuarded`, `ExitTruth`,
  `OnlyTrustedDefinitions`, `StopsWhenInterrupted` (liveness).
- `lock_exclusive`: `CollectExclusive`, `NoLeak`. `trust_file`: `OnlyApproved`,
  `RevokedStaysRevoked`.
- `history_reader`: `CompleteIsWhole`, `StalledContributesNothing`,
  `SlotsAccounted`, `Finishes` (liveness).
- `model_store`: `ReadyIsVerified`, `CopyKept`, `ReadyStaysReady`,
  `UndisturbedSucceeds`.
- `mlx_session`: `OwnAnswer`, `NoOrphan`, `CleanCycle`, `Returns` (liveness).
- `planning`: `PlanOrNothing` (refinement of `PlannerPromise`), `BreakingBacked`,
  `NothingSensitive`, `HonestHistory`, `HistoryFits` (the two parsers agree on
  every diff that is attributed, and a cached history is only used for its own
  diffs), `MatchedIsUnique`.
- `startup`: `RepoCannotWeaken`, `OneGetPerDay`, `RunDecides`, `OneDocument`,
  `Footprint`, `TextKept`.

`ExitTruth` says what a code promises about the repository, and that after a
failed restoration no code of an ordinary end is given; which of the error codes
a stopped run has is where code and specification differ (section 5).

### Why the bounds are enough

*Commits.* Three paths are needed for a rename together with a file outside the
plan entry; two commits are needed for anything that concerns later commits;
two disturbances are needed for a disturbance and a failure of the code that
handles it (a fault in the deferred restoration, a cancellation and a commit).
Foreign commits and staging happen at the points where Git state is read
(`CommitAt`, `StageAt`); staging elsewhere is overwritten by the next write of
the index. *Run cycle.* Two cycles are needed to restore an index after an
earlier cycle restored one; two disturbances for a change and a failure or
Ctrl-C while it is handled. Settings that only print differently are one.
*History.* With two workers half is one, so a reduction is visible; a channel of
one place blocks the producer as one of sixteen does after sixteen turns; a
pause of two samples lets a pause both end and last too long (sixty in the
code). *Model store.* Three processes are one that dies, one that fails and one
that goes on. *Trust.* Two overlapping writers and a third that runs. *Session.* Three
requests make a cycle and the fourth call is the one too many; two faults are a
helper that misbehaves and one that does it again while the session is closed.
*Planning.* Three files in a document give groups in another order than their
first files; a fourth exceeds the limit (`MaxFiles`, four in the code). Two
operations are what a competing match, a rewriting chain or a split needs; hunks
of up to three lines have every order of context, removed and added lines, with
a missing newline at the end of either side. *Startup.* The scenarios are
`Layers` (thirteen global files, fifteen repository files, eight command lines:
every kind of key in every layer), `Words` (twenty-eight command lines on hosts
that lack a platform, helper, model or identity, with one fault), `Inits` (two
commands that write configuration or `.gitignore` at the same time, two faults
or edits) and `Checks` (three runs one after the other over two intervals, or
two at the same time, one fault).

### Fairness

Safety runs assume none. `commit_disturbed` has weak fairness of `Execute`: Git
commands and hooks return. `run_cycle` has weak fairness of `Program`: Git, the
model and the commands return, and a waiting prompt notices the end of its
context (`interaction`, `readYesContext`); nothing is assumed of the user or of
the environment. `history_reader` has weak fairness of the main goroutine, the
producer, the sampler and every worker: every call ends, because the idle timer
(`rpc_idle.go`) closes a connection that makes no progress, and the ticker
fires; and strong fairness of `Admit`: a parked worker that a notification wakes
looks at the guard long before the next sample, half a second later, so that it
is not overtaken by a new pause for ever. `mlx_session` has weak fairness of the
caller inside a call, of the goroutines and of the time limits (120 s for a
cycle): the Go scheduler runs them; the helper has none. The planner and the
commands are checked for safety only.

Deadlock checking is on in `mlx_session`, `planning` and `attribution_total`,
whose ends are steps of their own (`Over`, `Ended`), and off elsewhere: a run, an
installation or a reader that has ended stays ended.

## 4. Proofs

TLAPS checks the following for every value of the constants: any number of
processes, workers, calls, paths, contents, files, plans and commands, any
history and any answer of the model. The only assumptions are the ones named in
the modules, `ConstantsOK` (types; at least one worker, a positive capacity and
the like), `InputsOK` of `ThreePhase` (an input has its fields, its file
numbers are numbers) and `CollectedOK` of `PlanFlow`: an input whose history is
collected comes with no other history, names selected files, and the reader
returns finitely many turns and changes, each diff a sequence of lines. The code
builds it so: `cli/planning.go:92` takes the history of the generator from
`attributedHistoryForPlan` and from nowhere else, whose request names the files
of the prepared document, and the reader returns slices. Two theorems have a hypothesis of their own (below):
`IndexRestored` about where other programs write, `QuietRuns` about the renames
that are staged at the start.

| Theorem | States |
|---|---|
| `CommitExecProofs!TypeCorrect` | `Spec => []TypeOK` |
| `CommitExecProofs!IndexRestored` | `Spec => []IndexAtRest` |
| `CommitExecProofs!WholePlans` | `Spec => []OnlyWholePlans` |
| `CommitExecProofs!OwnReported` | `Spec => []OwnCommitsReported` |
| `CommitExecProofs!OnlyRaced` | `Spec => OnlyRacedContent`, an action property |
| `CommitExecProofs!QuietRuns` | `Spec => []QuietSucceeds` |
| `CommitExecProofs!Refinement` | `Spec => KeepsPromise`: the executor implements `CommitPromise` |
| `RunCycleProofs!TypeCorrect` | `Spec => []TypeOK` |
| `RunCycleProofs!PushesGuarded`, `ExitsTruthful`, `IndexLeft` | `[]PushGuarded`, `[]ExitTruth`, `[]IndexKept` |
| `RunCycleProofs!CommitsStartFromOneState`, `CommandsTrusted` | `OneState`, `OnlyTrustedDefinitions`, action properties |
| `StoreProofs!LockNotLeaked`, `Exclusion` | `LockSpec => []NoLeak`, `LockSpec => []CollectExclusive` |
| `StoreProofs!Authorized`, `Revoked` | `Spec` of `TrustStore` `=> []OnlyApproved`, `=> RevokedStaysRevoked` |
| `HistoryReaderProofs!Invariant`, `TypeCorrect` | `[]Inv`, `[]TypeOK` |
| `HistoryReaderProofs!SlotsCounted`, `WholeOrNotComplete`, `StalledIsEmpty` | `[]SlotsAccounted`, `[]CompleteIsWhole`, `[]StalledContributesNothing` |
| `HistoryReaderProofs!HalvedAfterPause` | `HalvedForGood`, an action property that is in no run |
| `ModelStoreProofs!TypeCorrect`, `OnlyVerified`, `NothingDestroyed`, `ReadyKept` | `[]TypeOK`, `[]ReadyIsVerified`, `[]CopyKept`, `ReadyStaysReady` |
| `ModelStoreProofs!Undisturbed` | `[]UndisturbedSucceeds` |
| `MlxSessionProofs!Known` | `[]Inv` |
| `MlxSessionProofs!AnswersOwn`, `NothingLeft`, `EndsClean` | `[]OwnAnswer`, `[]NoOrphan`, `[]CleanCycle` |
| `PlanFlowProofs!FlowInvariant` | `FlowSpec => []FlowInv` |
| `PlanFlowProofs!BreaksBacked`, `SecretsKept`, `HistoryHonest` | `[]BreakingBacked`, `[]NothingSensitive`, `[]HonestHistory` |
| `PlanFlowProofs!AttributionInvariant` | `FlowSpec => []AttributionInv` |
| `PlanFlowProofs!MatchesUnique`, `HistoryFitting` | `[]MatchedIsUnique`, `[]HistoryFits` |
| `PlanFlowProofs!Refinement` | `FlowSpec => PlanOrNothing`: the planner implements `PlannerPromise` |
| `StartupProofs!Invariant` | `Spec => []Inv` |
| `StartupProofs!UserDecides`, `ExitsOfRun`, `DocumentWhole` | `[]RepoCannotWeaken`, `[]RunDecides`, `[]OneDocument` |
| `StartupProofs!FilesOfStep` | `Spec => Footprint`, an action property |
| `StartupProofs!RequestsOfDay` | `[]OneGetPerDay` |
| `StartupProofs!TextStays` | `Spec => TextKept`, an action property |

Each property is a consequence of an inductive invariant that says more, and
that TLC checked on the run of its module before it was proved.

### Commit execution

- *IndexRestored.* At the end the index is `Retained(committed)`. This is no
  induction on the index, which every step of staging overwrites; it follows
  from the saved index, which never changes after `SaveIndex`, from HEAD, which
  no step after the last read of the index changes, and from an invariant
  (`IndexInv`) that ties `created` to `committed` and says which paths of HEAD
  the retained index holds at which control point. The hypothesis is that no
  other program writes the index at `save`, `commit` or `report`, the head of
  the loop: the code takes what it then finds for its own (`StageAt`).
- *OwnReported.* Not inductive as it stands: between `git commit` and the read
  of HEAD the new commit is in no list. `OwnInv` says that each commit of ours
  is reported, buried under a foreign one (`Accounted`), or at HEAD with the
  read still to come (`Pending`), which includes the read after a failed commit.
- *OnlyRaced.* `SeenInv` follows the analysed content from the comparison
  through the worktree, the temporary index and the index up to the commit:
  at each control point it is there, or the path is in `edited`. `DetectSeen`
  shows that a change which `Collect` reports has the worktree's content at the
  path its hash covers.
- *QuietRuns.* `Alone` says what HEAD, the index and the temporary index hold at
  each control point of a run that nobody disturbs: the worktree's content at the
  paths of the plan entries made so far (`Planned`), the first HEAD or the saved
  index elsewhere. That `verifyHashes` accepts this is `DetectSettled`: when some
  of the reported changes are in HEAD and in the index, `Collect` reports exactly
  the others. Changes share no path and move the worktree away from HEAD at each
  of theirs (`ChangesApart`), so every `git add` finds something, the index
  differs from HEAD before `git commit`, and the commit's file set is the entry's.
  The hypothesis (`Settling`) has two parts. No old path of a staged rename exists
  again: for those starts the promise is broken (`commit_recreated`). And the
  renames stay paired as they are when some of them are committed; which of
  several paths of equal content Git pairs is a choice the model leaves open. It
  holds for every start of the run, and wherever no two candidates share a path
  (`UnambiguousSettles`), with any number of paths. TLC checked `Alone` on the
  start states of `commit_quiet` before the proof.
- *Refinement.* The reported hashes are positions in a log that only grows, so
  a diff once reported stays what it was; as long as the executor is not on its
  way out, every reported commit passed `validateCreatedCommit` and is the plan
  entry of its number (`PlanInv`); success needs the loop to have run through.
  Each action then maps to `Make`, `Stop`, `Succeed` or a stutter.

### The run

- *PushesGuarded, ExitsTruthful* need one invariant, `EndInv`: commits are made
  at one label and from no label before it (`CommitsKnown`); a dry run reaches
  no label after its plan (`Reached`); the push is asked for where that is due,
  and ends the run (`PushKnown`); a failed restoration of the index ends it too
  (`RestoredYet`). `ExitTruth` is a conjunct, since an exit code once given must
  stay true. Of a failed restoration it says only that the code is none of an ordinary
  end, which code and specification agree on.
- *IndexLeft.* `IndexInv`: before a commit only a verification command or
  somebody else changes the index, and until the restoration the saved one is
  the user's.
- *CommitsStartFromOneState.* The comparison before the commits looks at two
  moments only. That nothing moved in between holds because versions only grow
  (`Versions`, `Grows`): what a step of the cycle saw lies between the start
  and the comparison (`SnapshotOlder`), and the ends are equal. `ApprovedYet`
  ties the plan to the one on the screen.
- *CommandsTrusted.* `TrustedYet`: as long as commands wait to be run, the
  definition resolved is the trusted one.

### Stores

- *Exclusion.* `NoLeak` is inductive: a run in Collect owns the file, and the
  file names such a run, a crashed one or one whose removal of it failed. Two runs in Collect would own one file.
- *Authorized.* Strengthened with `Approvals`: the file, and every copy a
  process has read, holds approved pairs only, and a process about to write an
  approval was told yes.
- *Revoked.* `Alone`: without overlap one process is at work, and the copy it is
  about to write is what the file still holds.
- *Model store.* What is in staging was compared with its digest and carries
  metadata only when complete (`Staged`); hence every directory that looks
  ready, backups included, is genuine or the one found (`AllGenuine`);
  `BackupOnce` says that a process that has not moved anything away has no
  backup, so `MoveAway` destroys none; `CopySafe` follows a ready copy through
  the renames; `Alone` says that without overlap at most one process is at work,
  so a destination that was not ready when `Install` looked cannot become ready
  before it is moved. `Succeeding` adds what an installation that is alone finds
  at each step: the place free when it publishes, and a rollback only after a
  failure that was not its own.

### The session

`OwnAnswer` says what was returned; the reason is where an answer can be. An
answer is in the helper's output, with the reading goroutine or in the channel.
`Transit`: while the session waits for an answer, at most one is on its way and
it is the present call's (`OneAnswer`, `OnlyOwn`), and between the calls there
is none; a session closed after a failure is never asked again (`Closing`).
`Reaped` orders the ends: the waiter outlasts the reader and the process, and
its verdict is that of the exit status and of the watcher. `Returned` ties the
results to the goroutines, for `CleanCycle`.

### The history reader

- *WholeOrNotComplete.* `Sending` says how far the listing got, in either mode;
  `Turns` says where a turn that was sent can be: in the channel, with a worker,
  read, or lost to a failure that ends everything. When all have finished the
  channel is empty and nobody holds a turn, so without a failure all are read.
  `Result` carries that to the outcome. That the merged turns are in order is
  `Ordered`: an ascending function from 1..n to 1..n is the identity, by the
  least counterexample (`Least`), since induction is not available.
- *SlotsCounted.* The count is compared with the cardinality of the workers that
  hold a slot; each action adds or removes one worker of that set or none.
- *HalvedAfterPause.* `Halved`: once a pause is over, the ceiling is at most
  half of the workers.

### Planning

- *BreaksBacked, SecretsKept, HistoryHonest* share `FlowInv`: how far the answer
  is (`Progress`), what the phases before have decided (`Chosen`), that no
  request and nothing shown holds anything withheld (`Secrets`), and that every
  block in a request is as certain and complete as the host knows it, or says
  what was left out (`Honest`). The lemmas follow a payload through each of the
  functions that withhold something; `HonestWithheld` is the one that matters:
  a block that loses a candidate is not matched any more and says so.
- *MatchesUnique, HistoryFitting* share `AttributionInv`: a run that collects
  works on its own input (`Selected`), a history it holds is one the generator
  accepts for the projected blocks (`Fitting`), and a cached history is
  `Attribute` of what was read, for files with aligned blocks (`Remembered`).
  Both properties then are facts about `Attribute`, for all diffs and all
  operations:
  - The parsers are recursive functions over the lines of a diff. That they have
    a value (`BlockValue`, `GroupingValue`) and that their blocks are sequences
    needs an induction; the library's theorems for it take an operator, so it is
    done as a least counterexample (`Smallest`, from the well-founded order of
    the numbers): `IsSeq` and `HasBlocks` hold after no line, and each case of a
    step preserves them.
  - `Attribute` runs only on files for which both parsers found equally many
    blocks (`Aligned`); hence the references of the attributed history, which come
    from one parser, are those of the input, which come from the other
    (`AttributeFits`). Binding the history to the files of the input keeps that,
    also for a cached one, whose files are equal (`BoundAccepted`, `BindFits`).
  - A block gets status "matched" in one place only, `CompareMatch`: one
    operation of those on its path holds it, once, and no other touches a line of
    it. Everything after, the context of the turn, incomplete reads, commands,
    only takes matches away (`ContextualMatch`, `BlockAlone`, `AttributeUnique`).
- *Refinement.* The groups come in the order of their first files
  (`GroupsOrdered`, with `Ranked`: each number up to the size of a finite set is
  the rank of a member). The validator's checks leave open only the order of the
  commits, and that is the order of the groups (`ValidIsPlan`).

### Invocations

- *UserDecides.* The layers are validated one after the other, so leaving one
  out could in principle make the next fail. It does not, for any files and any
  command line (`RepoAddsNothing`): a file that is absent changes nothing of a
  layer that was accepted (`AbsentLayer`), the repository's file sets none of the
  user's keys (`FileLayer`), and flags that are good over one accepted layer are
  good over every other, since `--model` brings its revision and quantization
  with it (`FlagsAnywhere`). `Resolved` ties the settings of a process to the
  files it has read.
- *ExitsOfRun, DocumentWhole.* `Known` says which command can be at which step:
  that a step which writes lines of text is never reached in JSON mode
  (`TextOnly`) is the reason for one document. `Decided` and `Printed` follow the
  exit code and stdout to the end.
- *FilesOfStep.* One lemma per group of commands; the metrics are the case that
  needs `RepoAddsNothing` again, because the setting that is read there is the
  resolved one.
- *RequestsOfDay.* `Count`: without overlap one process is at work (`OneAtATime`);
  no request is recorded for a day to come; a request of today is in the cache,
  or in the hands of the process that has just truncated it (`Counted`); who
  attempts a request found none of its day and records the attempt before
  (`Paced`). Days may pass at every step in between.
- *TextStays.* `Texts`: a `.gitignore` that is absent has no lines, so creating
  one loses none; a process that is about to append has a plan that saw the file
  (`Held`), and nobody deletes it, whatever is written between the plan and the
  step; what it appends is a sequence of lines. The last is a fact about
  `parse` and `missingGitignorePatterns`, which are recursive functions over the
  words: that they have a value, and that the value is a sequence, is proved as
  for the parsers of diffs, by a least counterexample (`ReadExists`, `ParseArgs`,
  `MissingExists`, `MissingText`). `Leads` says from where each of these steps is
  reached. `ConstantsOK` says that command lines and lines are sequences of
  strings.

### Only model-checked

- All liveness (`Returns`, `StopsWhenInterrupted`, `Finishes`): fairness and
  ENABLED are beyond the prover.
- What the recursive functions compute for every input, beyond what the theorems
  need of it (that it is there and is a sequence): an induction over data.

Every invariant and every action property of the passing runs is a theorem.

## 5. Where the code and its documents differ

Two are runs that TLC ends with a counterexample:

1. `commit_recreated`: a staged rename with an untracked file at its old path
   gives a commit with the wrong file set (SRS:279).
2. `attribution_total`: a rename that keeps the content and changes the mode has
   a block for the planner (`planning/grouping_input.go:78`) and none for the
   attribution (`historyattribution/model.go:300`), which fails: the run ends
   with `history_attribution_failed` even if there is no history at all
   (SRS:223). `docs/migrations/harness004.md:50` promises the same.

Six are properties of the modules that no run checks; adding the property to
the run named gives the counterexample:

3. `RestorationIsSafety` of `RunCycle` (`run_cycle`, one fault): an index that
   cannot be restored after the verification, before any commit, gives exit code
   7 (`cli/collection.go:199-240`); the table of section 15 has 4 for a
   restoration failure and 7 for commits and the recovery after them (SRS:577,
   SRS:580).
4. `MismatchIsSafety` of `CommitExec` (`commit_disturbed`, one edit): a change
   hash that differs before staging is "a safety-condition violation" (SRS:275),
   which has code 4 (SRS:577); the executor's `ExitSafety` is 7
   (`commitexec/executor.go:23`), and `classifyCommitError`
   (`cli/collection.go:536`) knows only 7 and 130. The property looks at the
   first commit; for later ones the code is 7 as well, which is also why
   `ExitTruth` can say that code 4 is never given after a commit.
5. `RenamedAwayStaysAway` of `CommitExec` (`commit_disturbed`, an edit): the
   change hash of a rename covers the new path only, but both are added; a file
   recreated at the old path is committed (SRS:275).
6. `OneRunAtATime` of `RepoLock` (`lock_exclusive`): the lock covers Collect
   calls and not the run (SRS:485).
7. `RevokeIsFinal` of `TrustStore` (`trust_file`): a revoked entry is written
   back by an approval for another repository (SRS:319).
8. `UpdateVerifies` of `ModelStore` (`model_store`): an update of files of the
   right size downloads and compares nothing (`cli/cli.go:219`).

Met while modelling and visible in the models, without a run of their own:

- an edit between `verifyHashes` and `git add` is committed (SRS:473;
  `OnlyRacedContent` says exactly which content that can be);
- after a post-commit hook that commits, the hash reported is the hook's commit
  (`executor.go:64`; the exception in `OwnCommitsReported`);
- scripts run by name, so a manifest edited after its approval runs in its new
  form (SRS:424);
- Ctrl-C between the answer to the re-analysis question and the next cycle's
  context is lost (SRS:567; the exception in `StopsWhenInterrupted`);
- overlapping invocations, and a result that is cut off while it is written to
  the cache, make more than one update request in 24 hours (SRS:347; the
  conditions of `OneGetPerDay`);
- metrics that cannot be written turn the exit code of a run into 1, also after
  its commits, and put a second document on stdout in JSON mode
  (`cli/cli.go:648`; the exceptions in `RunDecides` and `OneDocument`);
- `analysis.untracked` is read, shown and never used;
- overlapping installations can leave a backup directory behind, and one whose
  rename back fails as well leaves no model at the destination (a ready copy
  remains in the backup: `CopyKept`);
- in pipeline mode the failure of one worker cancels the listing, whose error
  then discards every result (`history_parallel.go:257`), so partial results
  remain only if the listing had ended.

## 6. Limits of the models

- Histories are linear; checkouts, resets, amends, branches and a repository
  without commits are not modelled. Renames are those of equal content.
- A write of the index is atomic. `Collect` is one step in `CommitExec` (its
  phases are in `RunCycle`, its lock in `RepoLock`). A crash of the process
  inside Execute is not modelled: nothing runs afterwards that could repair.
- In `RunCycle` contents are versions: a file that changes and changes back is
  not seen, in the code it is equal to the original. The plan is any plan of the
  analysed changes; `PlanFlow` says where it comes from.
- `CommitExec` assumes that every Git command and hook returns: a hook that hangs,
  and what the kill at Ctrl-C leaves of it, is not modelled.
- `HistoryReader` has no connections; whether its caller's own context has ended
  when it returns, so that `Collect` fails and the result is thrown away
  (`historyattribution/pipeline.go:93`), is not distinguished from the end of the
  reader's; the number of polls a pause may last and
  the capacity are small. The memory guard's promise that full parallelism does
  not come back after a pause (`HalvedForGood`) is proved, and in no run.
- `ModelStore` installs one model; its plan is given.
- In `MlxSession` an answer is accepted or not, an empty one is any that is
  refused; sizes are "huge" or not. The drain of stderr has no state.
- In `ThreePhase` the language rules of a text are one fact about it, and the
  token budget leaves out any set of records. In `PlanFlow` the memory guard, the
  limits and the context of the attribution are one step (`AttributionStops`).
  `Attribution` compares lines by equality; a command mentions a set of paths.
- In `Startup` a file is created and written in one step, so that a user who
  saves a file in that very moment is not seen; versions are numbers. Days only
  pass: a cache entry from a day to come counts as fresh (`ReadCache`), but no
  step sets the clock back.

### Not modelled

- *Context input, relations, syntax, Codex context*: deterministic extraction
  from file contents, no state, no failure handling that another part relies on.
- *Ollama*: an HTTP client of a backend that the settings refuse
  (`config/config.go:642`).
- *Parsing and rendering*: `git status` output, the JSON of the agent's app
  server, prompts, escaping, the answers typed at prompts, version strings.
- *Command runner*: process group, time limit and output limit of a verification
  command; a command is a step that succeeds, fails or is interrupted.
- *Benchmarks and release scripts*: not part of the program.

## 7. What is left

A module for the command runner of verification, and branches in `RunCycle`
(another branch with the same HEAD, `cli/collection.go:474`).
