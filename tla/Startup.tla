------------------------------ MODULE Startup -------------------------------
(***************************************************************************)
(* Invocations of the program, internal/cli/cli.go: the command line, the  *)
(* configuration, the commands besides the run, and what surrounds a run:  *)
(* the update check (internal/updatecheck) before it and the metrics after *)
(* it.  Several invocations of one user, the user and the calendar act on  *)
(* the same files.                                                         *)
(*                                                                         *)
(* The run itself (RunCycle) and the installation of a model (ModelStore)  *)
(* are single steps here.  The creation of a file and its one write are a  *)
(* step, except for the cache of the update check, which other invocations *)
(* read.                                                                   *)
(***************************************************************************)
EXTENDS Settings, CommandLine

CONSTANTS
  Process,
  Scenarios,   \* where the behaviours start, see Scenario
  Drafts,      \* configuration files the user may create
  RunCodes,    \* exit codes of runs
  LastDay      \* bound on the calendar, in steps of checkInterval

ASSUME ConstantsOK ==
  /\ LastDay \in Nat
  /\ \A s \in Scenarios :
       /\ s.days \in 0 .. LastDay /\ s.disk.commits \in Nat
       /\ {"cache", "commits", "ignore", "global", "repo"} \subseteq DOMAIN s.disk
       /\ s.disk.ignore \in [state : {"absent", "file", "link"}, lines : Seq(STRING)]
       /\ s.disk.ignore.state = "absent" => s.disk.ignore.lines = <<>>
       /\ \A p \in DOMAIN s.lines : s.lines[p] \in Seq(STRING)

Success == 0
Internal == 1
Usage == 2
LLM == 5
NotYet == -1
Killed == -2

VARIABLES
  start,   \* the scenario
  disk,    \* the files and what the program keeps, see CleanDisk of MCStartup
  day, gets,      \* the calendar, and the requests recorded under each day
  calm,    \* history: no result of a check was lost while it was written
  pc, me,  \* of each process: its step, and what it holds
  budget   \* faults, crashes and edits left

vars == <<start, disk, day, gets, calm, pc, me, budget>>
given == <<start, day>>
checking == <<gets, calm>>

NoPlan == [git |-> FALSE, before |-> [state |-> "absent", lines |-> <<>>],
           missing |-> <<>>]
Fresh == [opts |-> NoOptions, root |-> FALSE, global |-> Absent, repo |-> Absent,
          settings |-> Rejected, plan |-> NoPlan, saved |-> [at |-> 0, latest |-> 0],
          verdict |-> NotYet, exit |-> NotYet, out |-> <<>>, faulted |-> FALSE]

Init ==
  /\ start \in Scenarios
  /\ disk = start.disk /\ budget = start.budget
  /\ day = 0 /\ gets = [d \in 0..LastDay |-> 0] /\ calm = TRUE
  /\ pc = [p \in Process |-> IF p \in DOMAIN start.lines THEN "start" ELSE "exit"]
  /\ me = [p \in Process |-> Fresh]

Goto(p, l) == pc' = [pc EXCEPT ![p] = l]
Spend == budget > 0 /\ budget' = budget - 1

\* The process ends.  In JSON mode out is what it wrote to stdout.
Exit(p, code, printed) ==
  /\ Goto(p, "exit")
  /\ me' = [me EXCEPT ![p].exit = code,
                      ![p].out = IF JSON(me[p].opts) THEN @ \o printed ELSE @]
\* fail: an error is a document of its own, or a line on stderr.
Fail(p, code) == Exit(p, code, <<"json">>)
OutputFault(p) ==
  /\ Spend /\ Goto(p, "exit")
  /\ me' = [me EXCEPT ![p].exit = Internal, ![p].faulted = TRUE]
\* Printer.Lines and Printer.Value, and the end of the command.
Lines(p, code) == (Exit(p, code, <<"text">>) /\ UNCHANGED budget) \/ OutputFault(p)
Value(p, code) == (Exit(p, code, <<"json">>) /\ UNCHANGED budget) \/ OutputFault(p)
OrFault(p, step, code) == (step /\ UNCHANGED budget) \/ (Spend /\ Fail(p, code))

AtRest(p) == pc[p] \in {"start", "exit"}

Begin(p) ==
  /\ pc[p] = "start"
  /\ start.overlap \/ \A q \in Process : AtRest(q)
  /\ me' = [me EXCEPT ![p].opts = Parse(start.lines[p])]
  /\ Goto(p, "dispatch")
  /\ UNCHANGED <<given, checking, disk, budget>>

\* The first step of a command that needs no repository, "root" of the others.
First(o) ==
  CASE o.command \in {"version", "init"} -> o.command
    [] o.command = "trust" -> Command(o)
    [] Of(o, "config", "init") /\ Target(o) = "global" -> "create"
    [] Of(o, "config", "path") /\ Target(o) = "global" -> "path"
    [] OTHER -> "root"

Dispatch(p) ==
  LET o == me[p].opts IN
  /\ pc[p] = "dispatch"
  /\ IF o.reading = "error" THEN Fail(p, Usage) /\ UNCHANGED budget
     ELSE IF "--help" \in o.flags THEN Value(p, Success)
     ELSE IF JSONAllowed(o) /\ WellFormed(o)
          THEN Goto(p, First(o)) /\ UNCHANGED <<me, budget>>
          ELSE Fail(p, Usage) /\ UNCHANGED budget
  /\ UNCHANGED <<given, checking, disk>>

\* version, config path: nothing but output.
PrintOnly(p) ==
  /\ pc[p] \in {"version", "path"} /\ Value(p, Success)
  /\ UNCHANGED <<given, checking, disk>>
-----------------------------------------------------------------------------
\* The repository and the configuration files.

\* repository.Root; config show and doctor go on without one.
FindRoot(p) ==
  LET o == me[p].opts IN
  /\ pc[p] = "root"
  /\ IF disk.git = "repo" \/ o.command = "doctor" \/ Command(o) = "show"
     THEN /\ me' = [me EXCEPT ![p].root = disk.git = "repo"]
          /\ Goto(p, CASE Of(o, "config", "init") -> "create"
                       [] Command(o) = "path" -> "path"
                       [] o.command = "doctor" /\ disk.git # "repo" -> "doctor"
                       [] OTHER -> "global")
     ELSE Fail(p, Usage)
  /\ UNCHANGED <<given, checking, disk, budget>>

ReadGlobal(p) ==
  /\ pc[p] = "global"
  /\ me' = [me EXCEPT ![p].global = disk.global]
  /\ Goto(p, "repo")
  /\ UNCHANGED <<given, checking, disk, budget>>

\* What the files and the flags resolve to decides how the command goes on.
ReadRepo(p) ==
  LET o == me[p].opts
      repo == IF me[p].root THEN disk.repo ELSE Absent
      s == Resolve(me[p].global, repo, Overrides(o))
      resolved == [me[p] EXCEPT !.repo = repo, !.settings = s]
  IN
  /\ pc[p] = "repo"
  /\ IF s.ok \/ o.command = "doctor"
     THEN /\ Goto(p, IF o.command = "" THEN "check" ELSE Command(o))
          /\ me' = [me EXCEPT ![p] = resolved]
     ELSE Fail(p, Usage)
  /\ UNCHANGED <<given, checking, disk, budget>>

Show(p) ==
  /\ pc[p] = "show" /\ Value(p, Success)
  /\ UNCHANGED <<given, checking, disk>>

Template(source) ==
  Table([k \in Allowed(source) \ {"verification.commands"} |-> DefaultValue(k)])

\* configInit: O_EXCL; a write that fails leaves an empty file.
CreateConfig(p) ==
  LET target == Target(me[p].opts) IN
  /\ pc[p] = "create"
  /\ \/ /\ disk[target].state = "absent"
        /\ \/ disk' = [disk EXCEPT ![target] = Template(target)] /\ Lines(p, Success)
           \/ /\ disk' = [disk EXCEPT ![target] = Table(<<>>)]
              /\ Spend /\ Fail(p, Usage)
     \/ /\ disk[target].state # "absent"
        /\ Fail(p, Usage) /\ UNCHANGED <<disk, budget>>
  /\ UNCHANGED <<given, checking>>

TrustList(p) ==
  /\ pc[p] = "list"
  /\ Value(p, Success) \/ (Spend /\ Fail(p, Internal))
  /\ UNCHANGED <<given, checking, disk>>

\* trust revoke; TrustStore has its steps.
TrustRevoke(p) ==
  /\ pc[p] = "revoke"
  /\ \/ disk' = [disk EXCEPT !.trust = FALSE] /\ Lines(p, Success)
     \/ Spend /\ Fail(p, Internal) /\ UNCHANGED disk
  /\ UNCHANGED <<given, checking>>
-----------------------------------------------------------------------------
\* setup and doctor.

\* doctorMLXFor: what is checked depends on what was found before.
DoctorMLX ==
  LET helper == start.host.platform /\ start.host.helper
      model == helper /\ disk.model
      probe == model /\ start.host.probe = "ok"
  IN [mlx_backend |-> start.host.platform,
      mlx_helper |-> helper /\ (model => start.host.probe # "start"),
      mlx_model |-> model, mlx_model_runtime |-> probe,
      mlx_json_schema_grammar |-> probe, mlx_constrained_generation |-> probe]

\* Without a repository or a valid configuration the MLX checks are skipped.
Healthy(p) ==
  /\ me[p].root /\ me[p].settings.ok /\ start.host.identity
  /\ \A c \in DOMAIN DoctorMLX : DoctorMLX[c]

Doctor(p) ==
  /\ pc[p] = "doctor"
  /\ Value(p, IF Healthy(p) THEN Success ELSE LLM) \/ (Spend /\ Exit(p, LLM, <<"json">>))
  /\ UNCHANGED <<given, checking, disk>>

\* The end of setup: the capability check of the model.
Capability(p) ==
  IF start.host.probe = "ok" THEN Lines(p, Success)
                             ELSE Fail(p, LLM) /\ UNCHANGED budget

\* Platform and helper first; a ready model is checked, another one planned.
Setup(p) ==
  /\ pc[p] = "setup"
  /\ IF ~start.host.platform \/ ~start.host.helper
     THEN Fail(p, LLM) /\ UNCHANGED budget
     ELSE IF disk.model /\ me[p].opts.args = <<>>
          THEN Capability(p)
          ELSE OrFault(p, Goto(p, "download") /\ UNCHANGED me, LLM) \/ OutputFault(p)
  /\ UNCHANGED <<given, checking, disk>>

\* The question, and Install, see ModelStore.
Download(p) ==
  /\ pc[p] = "download"
  /\ \/ Lines(p, Success) /\ UNCHANGED disk
     \/ disk' = [disk EXCEPT !.model = TRUE] /\ Capability(p)
     \/ Spend /\ Fail(p, LLM) /\ UNCHANGED disk
  /\ UNCHANGED <<given, checking>>
-----------------------------------------------------------------------------
\* init: plan, ask, plan again, git init, .gitignore.

Plan(args) ==
  [git |-> disk.git # "repo", before |-> disk.ignore,
   missing |-> Missing(args, disk.ignore.lines)]
Creates(plan) == plan.before.state = "absent"
\* Bare repositories, invalid metadata and symbolic links are refused.
Refuses == disk.git \in {"bare", "invalid"} \/ disk.ignore.state = "link"

PlanInit(p) ==
  LET plan == Plan(me[p].opts.args) IN
  /\ pc[p] = "init"
  /\ IF Refuses THEN Fail(p, Usage) /\ UNCHANGED budget
     ELSE IF plan.git \/ Creates(plan) \/ plan.missing # <<>>
          THEN \/ /\ me' = [me EXCEPT ![p].plan = plan]
                  /\ Goto(p, "confirm") /\ UNCHANGED budget
               \/ OutputFault(p)
          ELSE Lines(p, Success)
  /\ UNCHANGED <<given, checking, disk>>

Confirm(p) ==
  /\ pc[p] = "confirm"
  /\ Lines(p, Success) \/ (Goto(p, "again") /\ UNCHANGED <<me, budget>>)
  /\ UNCHANGED <<given, checking, disk>>

\* ApplyInitialization: what was shown must still be so.
PlanAgain(p) ==
  LET plan == me[p].plan IN
  /\ pc[p] = "again"
  /\ IF ~Refuses /\ plan.git = (disk.git # "repo") /\ plan.before = disk.ignore
     THEN Goto(p, "git") /\ UNCHANGED me
     ELSE Fail(p, Usage)
  /\ UNCHANGED <<given, checking, disk, budget>>

GitInit(p) ==
  LET plan == me[p].plan
      goes(l) == IF l = "done" THEN Lines(p, Success)
                 ELSE Goto(p, l) /\ UNCHANGED <<me, budget>>
  IN
  /\ pc[p] = "git"
  /\ \/ /\ disk' = IF plan.git THEN [disk EXCEPT !.git = "repo"] ELSE disk
        /\ goes(IF Creates(plan) THEN "write"
                ELSE IF plan.missing # <<>> THEN "compare" ELSE "done")
     \/ plan.git /\ Spend /\ Fail(p, Usage) /\ UNCHANGED disk
  /\ UNCHANGED <<given, checking>>

\* An existing .gitignore is opened for appending and read once more.
CompareIgnore(p) ==
  /\ pc[p] = "compare"
  /\ OrFault(p, IF disk.ignore = me[p].plan.before
                THEN Goto(p, "append") /\ UNCHANGED me
                ELSE Fail(p, Usage), Usage)
  /\ UNCHANGED <<given, checking, disk>>

AppendIgnore(p) ==
  /\ pc[p] = "append"
  /\ \/ /\ disk' = [disk EXCEPT !.ignore.lines = @ \o me[p].plan.missing]
        /\ Lines(p, Success)
     \/ Spend /\ Fail(p, Usage) /\ UNCHANGED disk
  /\ UNCHANGED <<given, checking>>

Written(lines) == [disk EXCEPT !.ignore = [state |-> "file", lines |-> lines]]

\* Mutant: opened without O_EXCL.
CreateOver(p) ==
  /\ pc[p] = "write"
  /\ \/ disk' = Written(me[p].plan.missing) /\ Lines(p, Success)
     \/ disk' = Written(<<>>) /\ Spend /\ Fail(p, Usage)
  /\ UNCHANGED <<given, checking>>

\* A new .gitignore is created with O_EXCL.
CreateIgnore(p) ==
  /\ pc[p] = "write"
  /\ \/ /\ disk.ignore.state = "absent"
        /\ \/ disk' = Written(me[p].plan.missing) /\ Lines(p, Success)
           \/ disk' = Written(<<>>) /\ Spend /\ Fail(p, Usage)
     \/ /\ disk.ignore.state # "absent"
        /\ Fail(p, Usage) /\ UNCHANGED <<disk, budget>>
  /\ UNCHANGED <<given, checking>>
-----------------------------------------------------------------------------
\* runMain: the update check, the run, the metrics.

\* Mutant: JSON output does not skip the check.
CheckAnyway(p) ==
  /\ pc[p] = "check"
  /\ Goto(p, IF start.host.interactive /\ start.current > 0 THEN "cached" ELSE "run")
  /\ UNCHANGED <<given, checking, disk, me, budget>>

\* No check for JSON output, in CI, or for a version that is not one.
Check(p) ==
  /\ pc[p] = "check"
  /\ Goto(p, IF /\ ~JSON(me[p].opts) /\ start.host.interactive
                /\ start.current > 0
             THEN "cached" ELSE "run")
  /\ UNCHANGED <<given, checking, disk, me, budget>>

\* The user is told of a newer version.
Notify(p, latest) ==
  \/ Goto(p, "run") /\ UNCHANGED <<me, budget>>
  \/ latest > start.current /\ OutputFault(p)

\* A cache less than checkInterval old, or from a day to come, is the answer,
\* without a request.
ReadCache(p) ==
  LET c == disk.cache IN
  /\ pc[p] = "cached"
  /\ IF c.state = "ok" /\ c.at >= day THEN Notify(p, c.latest)
     ELSE /\ me' = [me EXCEPT ![p].saved =
                      [at |-> day, latest |-> IF c.state = "ok" THEN c.latest ELSE 0]]
          /\ Goto(p, "attempt") /\ UNCHANGED budget
  /\ UNCHANGED <<given, checking, disk>>

\* Mutant: an error of the check ends the run.
TruncateOrFail(p, next) ==
  \/ /\ disk' = [disk EXCEPT !.cache.state = "torn"]
     /\ Goto(p, next) /\ UNCHANGED <<me, budget>>
  \/ Spend /\ Fail(p, Internal) /\ UNCHANGED disk

\* os.WriteFile truncates the file, then writes it; an error ends the check.
Truncate(p, next) ==
  \/ /\ disk' = [disk EXCEPT !.cache.state = "torn"]
     /\ Goto(p, next) /\ UNCHANGED <<me, budget>>
  \/ Spend /\ Goto(p, "run") /\ UNCHANGED <<disk, me>>
Store(p) == disk' = [disk EXCEPT !.cache =
              [state |-> "ok", at |-> me[p].saved.at, latest |-> me[p].saved.latest]]

\* Mutant: the request goes first, only its result is recorded.
BeginUnrecorded(p) ==
  /\ pc[p] = "attempt" /\ Goto(p, "get")
  /\ UNCHANGED <<given, checking, disk, me, budget>>

\* The attempt is recorded before the request.
BeginAttempt(p) ==
  /\ pc[p] = "attempt" /\ Truncate(p, "record")
  /\ UNCHANGED <<given, checking>>

RecordAttempt(p) ==
  /\ pc[p] = "record"
  /\ \/ Store(p) /\ Goto(p, "get") /\ UNCHANGED <<me, budget>>
     \/ Spend /\ Goto(p, "run") /\ UNCHANGED me /\ (Store(p) \/ UNCHANGED disk)
  /\ UNCHANGED <<given, checking>>

\* An answer that is late, malformed or no stable release is no answer.
Get(p) ==
  /\ pc[p] = "get"
  /\ gets' = [gets EXCEPT ![me[p].saved.at] = @ + 1]
  /\ \/ /\ start.released > 0
        /\ me' = [me EXCEPT ![p].saved.latest = start.released]
        /\ Goto(p, "result")
     \/ Goto(p, "run") /\ UNCHANGED me
  /\ UNCHANGED <<given, calm, disk, budget>>

BeginResult(p) ==
  /\ pc[p] = "result" /\ Truncate(p, "store")
  /\ UNCHANGED <<given, checking>>

StoreResult(p) ==
  /\ pc[p] = "store"
  /\ \/ Store(p) /\ Notify(p, me[p].saved.latest) /\ UNCHANGED calm
     \/ Spend /\ Goto(p, "run") /\ calm' = FALSE /\ UNCHANGED <<disk, me>>
  /\ UNCHANGED <<given, gets>>

\* runCollection: RunCycle; without --dry-run it may commit and trust.
Run(p) ==
  LET o == me[p].opts IN
  /\ pc[p] = "run"
  /\ \E code \in RunCodes, made \in 0..1, trusts \in BOOLEAN :
       /\ DryRun(o) => made = 0 /\ trusts = disk.trust
       /\ disk.trust => trusts
       /\ disk' = [disk EXCEPT !.commits = @ + made, !.trust = trusts]
       /\ me' = [me EXCEPT ![p].verdict = code,
                           ![p].out = IF JSON(o) THEN Append(@, "json") ELSE @]
  /\ Goto(p, "report")
  /\ UNCHANGED <<given, checking, budget>>

\* reportMetrics: lines on stdout, or a document on stderr.
Report(p) ==
  /\ pc[p] = "report"
  /\ \/ Goto(p, "persist") /\ UNCHANGED <<me, budget>>
     \/ OutputFault(p)
  /\ UNCHANGED <<given, checking, disk>>

\* Write: one line at the end of metrics.jsonl, if asked for.
Persist(p) ==
  /\ pc[p] = "persist"
  /\ IF me[p].settings.values["metrics.persist"] = "true"
     THEN \/ /\ disk' = [disk EXCEPT !.metrics =
                           Append(@, [by |-> p, exit |-> me[p].verdict])]
             /\ Exit(p, me[p].verdict, <<>>) /\ UNCHANGED budget
          \/ OutputFault(p) /\ UNCHANGED disk
     ELSE Exit(p, me[p].verdict, <<>>) /\ UNCHANGED <<disk, budget>>
  /\ UNCHANGED <<given, checking>>
-----------------------------------------------------------------------------
\* The environment.

\* The process is killed.
Crash(p) ==
  /\ ~AtRest(p) /\ Spend /\ Goto(p, "exit")
  /\ me' = [me EXCEPT ![p].exit = Killed]
  /\ calm' = (calm /\ pc[p] # "store")
  /\ UNCHANGED <<given, gets, disk>>

\* The user adds a line to .gitignore, or creates a configuration file.
EditIgnore ==
  /\ start.edits /\ Spend /\ disk.ignore.state # "link"
  /\ disk' = Written(Append(disk.ignore.lines, "typed"))
  /\ UNCHANGED <<given, checking, pc, me>>
EditConfig ==
  /\ start.edits /\ Spend
  /\ \E target \in {"global", "repo"}, draft \in Drafts :
       /\ disk[target].state = "absent"
       /\ disk' = [disk EXCEPT ![target] = draft]
  /\ UNCHANGED <<given, checking, pc, me>>

\* checkInterval passes.
Tomorrow ==
  /\ day < start.days /\ day' = day + 1
  /\ UNCHANGED <<start, disk, checking, pc, me, budget>>

Step(p) ==
  \/ Begin(p) \/ Dispatch(p) \/ PrintOnly(p) \/ FindRoot(p) \/ ReadGlobal(p)
  \/ ReadRepo(p) \/ Show(p) \/ CreateConfig(p) \/ TrustList(p) \/ TrustRevoke(p)
  \/ Doctor(p) \/ Setup(p) \/ Download(p) \/ PlanInit(p) \/ Confirm(p)
  \/ PlanAgain(p) \/ GitInit(p) \/ CompareIgnore(p) \/ AppendIgnore(p)
  \/ CreateIgnore(p) \/ Check(p) \/ ReadCache(p) \/ BeginAttempt(p)
  \/ RecordAttempt(p) \/ Get(p) \/ BeginResult(p) \/ StoreResult(p) \/ Run(p)
  \/ Report(p) \/ Persist(p)
Next == (\E p \in Process : Step(p) \/ Crash(p)) \/ EditIgnore \/ EditConfig \/ Tomorrow
Spec == Init /\ [][Next]_vars
-----------------------------------------------------------------------------
Ended(p) == pc[p] = "exit" /\ me[p].exit \notin {NotYet, Killed}

(* Section 8 of the requirements: confirmation, push, untracked files,       *)
(* persistence of metrics and sensitive patterns are the user's.  Whatever   *)
(* the repository's file says, and whoever writes files meanwhile, they are  *)
(* what they would be without it.                                            *)
RepoCannotWeaken ==
  \A p \in Process : me[p].settings.ok =>
    LET without == Resolve(me[p].global, Absent, Overrides(me[p].opts)) IN
    without.ok /\ \A k \in UserKeys : me[p].settings.values[k] = without.values[k]

(* FR-025: at most one request in checkInterval, failed requests and crashes *)
(* included, as long as invocations do not overlap and the answer of a       *)
(* request is not cut off while it is written to the cache.                  *)
OneGetPerDay == ~start.overlap /\ calm => \A d \in DOMAIN gets : gets[d] <= 1

(* What a step of an invocation may touch: nothing for read-only commands,   *)
(* no commit in a dry run, no update check with JSON output, no metrics      *)
(* unless the user's own file or flag asks for them.                         *)
Touches(p) ==
  LET o == me[p].opts
      asked == \/ "--record-metrics" \in o.flags
               \/ /\ "metrics.persist" \in DOMAIN me[p].global.entries
                  /\ me[p].global.entries["metrics.persist"] = "true"
  IN CASE o.command = "" -> (IF DryRun(o) THEN {} ELSE {"commits", "trust"})
                            \cup (IF JSON(o) THEN {} ELSE {"cache"})
                            \cup (IF asked THEN {"metrics"} ELSE {})
       [] o.command = "init" -> {"git", "ignore"}
       [] o.command = "setup" -> {"model"}
       [] Of(o, "config", "init") -> {Target(o)}
       [] Of(o, "trust", "revoke") -> {"trust"}
       [] OTHER -> {}
Footprint ==
  [][\A p \in Process : pc'[p] # pc[p] =>
       \A f \in DOMAIN disk : disk'[f] # disk[f] => f \in Touches(p)]_vars

(* Lines of .gitignore and configuration files that have contents stay as    *)
(* they are, also when the user or another invocation writes them between    *)
(* the plan of an initialization and its steps.                              *)
TextKept ==
  [][/\ IsPrefix(disk.ignore.lines, disk'.ignore.lines)
     /\ \A f \in {"global", "repo"} :
          disk[f].state = "absent" \/ disk'[f] = disk[f]]_vars

(* FR-025: the update check never decides how a run ends, nor do the metrics *)
(* unless they, or a line of output, cannot be written.                      *)
RunDecides ==
  \A p \in Process : Ended(p) /\ me[p].opts.command = "" /\ me[p].settings.ok =>
    me[p].exit = me[p].verdict \/ (me[p].faulted /\ me[p].exit = Internal)

(* output.go: in JSON mode stdout holds one document and nothing else,       *)
(* whatever the command and whether it fails or not; only when the metrics,  *)
(* or the output itself, cannot be written is it none or two.                *)
OneDocument ==
  \A p \in Process :
    Ended(p) /\ JSON(me[p].opts) /\ ~me[p].faulted => me[p].out = <<"json">>
=============================================================================
