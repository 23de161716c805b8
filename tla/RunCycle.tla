------------------------------ MODULE RunCycle ------------------------------
(***************************************************************************)
(* One run of the command without arguments, internal/cli/collection.go:   *)
(* analyse the repository, let the user approve a plan, run the            *)
(* verification commands, check that nothing moved, commit, push.  A run   *)
(* is a sequence of cycles: a verification that changed the repository     *)
(* sends it back to the analysis.                                          *)
(*                                                                         *)
(* The repository is a record of version numbers.  Whoever changes a part  *)
(* gives it a version nobody used before, as content hashes and            *)
(* modification times do; only restoring the saved index brings a version  *)
(* back.  The commits themselves are those of CommitPromise, which         *)
(* CommitExec implements.                                                  *)
(***************************************************************************)
EXTENDS Integers, Sequences, FiniteSets

CONSTANTS
  Path,       \* repository paths, for the plan's commits
  Orders,     \* the plans the model can answer: sequences of path sets
  Modes,      \* flags and configuration, see Mode
  Commands,   \* number of verification commands
  MaxCycles,  \* bound on re-analyses
  Budget,     \* bound on interference
  Kinds       \* the interference allowed

Mode == [dry : BOOLEAN,        \* --dry-run, --json included
         confirm : BOOLEAN,    \* values.CommitConfirm
         push : BOOLEAN,       \* values.PushEnabled
         pushConfirm : BOOLEAN,
         candidates : BOOLEAN, \* sensitive candidates are among the changes
         check : {"none", "repo", "autodetect"}]  \* where commands come from

ASSUME ConstantsOK ==
  /\ Orders \subseteq Seq(SUBSET Path) /\ Modes \subseteq Mode
  /\ Commands \in Nat /\ MaxCycles \in Nat \ {0} /\ Budget \in Nat
  /\ Kinds \subseteq {"edit", "stage", "commit", "script", "cancel", "mutate",
                      "fault"}

\* internal/exitcode
Success == 0
Internal == 1
Usage == 2
Canceled == 3
Safety == 4
LLM == 5
Verification == 6
Commit == 7
Push == 8
Interrupted == 130
NotYet == -1

VARIABLES
  mode,
  repo,      \* versions of HEAD, the index, the selected files, other files
  script,    \* version of the scripts in the package manifest
  clock,     \* last version given out
  trusted,   \* version in trust.json, 0 if none
  pc, exit,
  cancelled, \* ctx.Err() # nil
  cycle,
  snapshot,  \* versions in gitstate.Snapshot
  sensitive, \* snapshotContainsSensitive
  start,     \* initialState
  after,     \* afterState, or Unknown
  body,      \* version of the resolved definition, 0 for no definition
  plan,      \* [of, order]: the files the analysis read, the commits planned
  approved,  \* the plan the user approved last in this cycle
  todo,      \* verification commands still to run
  verdict,   \* of the verification
  made, outcome,   \* commit execution, see CommitPromise
  confirmed, \* the user confirmed the push
  pushed,    \* updates of the remote
  budget,
  restored,  \* FALSE: an index restoration failed
  staged,    \* history: another program wrote the index
  seen       \* history: the repository at each step of the cycle

inputs == <<mode, cycle>>
world == <<repo, script, clock>>
analysis == <<snapshot, sensitive, start, body, plan, approved>>
checks == <<after, todo, verdict>>
commits == <<made, outcome>>
pushing == <<confirmed, pushed>>
vars == <<mode, repo, script, clock, trusted, pc, exit, cancelled, cycle,
          snapshot, sensitive, start, after, body, plan, approved, todo,
          verdict, made, outcome, confirmed, pushed, budget, restored, staged,
          seen>>

Repo == [head : Nat, index : Nat, work : Nat, rest : Nat]
Unknown == [head |-> -1, index |-> -1, work |-> -1, rest |-> -1]
NoPlan == [of |-> 0, order |-> <<>>]
Executor == INSTANCE CommitPromise WITH order <- plan.order

Init ==
  /\ mode \in Modes
  /\ repo = [head |-> 0, index |-> 0, work |-> 0, rest |-> 0]
  /\ script = 1 /\ clock = 1 /\ trusted \in {0, 1}
  /\ pc = "collect" /\ exit = NotYet /\ cancelled = FALSE /\ cycle = 1
  /\ snapshot = repo /\ sensitive = FALSE /\ start = repo /\ after = repo
  /\ body = 0 /\ plan = NoPlan /\ approved = NoPlan
  /\ todo = 0 /\ verdict = "ok"
  /\ made = <<>> /\ outcome = "running"
  /\ confirmed = FALSE /\ pushed = 0
  /\ budget = Budget /\ restored = TRUE /\ staged = FALSE /\ seen = {}

Goto(l) == pc' = l /\ UNCHANGED exit
Exit(code) == pc' = "exit" /\ exit' = code
\* The context's error comes first.
Fails(code) == Exit(IF cancelled THEN Interrupted ELSE code)

Spend(kind) == kind \in Kinds /\ budget > 0 /\ budget' = budget - 1
\* A read, a write or a command of the program itself fails.
Fault(code) == Spend("fault") /\ Fails(code)
OutputFault == Spend("fault") /\ Exit(Internal)
\* The normal continuation of a step, or its failure with one of the codes.
OrFault(step, codes) == (step /\ UNCHANGED budget) \/ \E code \in codes : Fault(code)
OrOutputFault(step) == (step /\ UNCHANGED budget) \/ OutputFault

\* A part of the repository gets a new version.
Touch(part) ==
  /\ clock' = clock + 1
  /\ repo' = [repo EXCEPT ![part] = clock + 1]

\* changedSnapshotPaths is empty: the other files are not looked at.
SameSnapshot == \A part \in {"head", "index", "work"} : repo[part] = snapshot[part]
-----------------------------------------------------------------------------
(* Analysis.                                                                 *)

\* gitstate.Collect reads HEAD and the list of changes; the user decides on
\* the sensitive candidates before any content is read.
Collect ==
  /\ pc = "collect"
  /\ OrFault(IF cancelled THEN Exit(Interrupted)
             ELSE Goto(IF mode.candidates THEN "candidates" ELSE "build"),
             {Usage, Safety, Internal})
  /\ snapshot' = repo /\ sensitive' = FALSE
  /\ UNCHANGED <<inputs, world, trusted, cancelled, start, body, plan, approved,
                 checks, commits, pushing, restored, staged, seen>>

AnswerCandidates ==
  /\ pc = "candidates"
  /\ \E yes \in BOOLEAN : sensitive' = (yes /\ ~cancelled)
  /\ Goto("build")
  /\ UNCHANGED <<inputs, world, trusted, cancelled, snapshot, start, body, plan,
                 approved, checks, commits, pushing, budget, restored, staged, seen>>

CandidatesInterrupted ==
  /\ pc = "candidates" /\ cancelled
  /\ Exit(Interrupted)
  /\ UNCHANGED <<inputs, world, trusted, cancelled, analysis, checks, commits,
                 pushing, budget, restored, staged, seen>>

\* ... then it reads contents and index, and HEAD again; the list of changes is
\* still the old one, and a file that joined it since will be a difference.
BuildSnapshot ==
  /\ pc = "build"
  /\ \E w \in {snapshot.work, repo.work} :
       snapshot' = [repo EXCEPT !.head = snapshot.head, !.work = w]
  /\ \/ /\ \/ cancelled /\ Exit(Interrupted)
           \/ ~cancelled /\ repo.head # snapshot.head /\ Exit(Safety)
           \/ ~cancelled /\ repo.head = snapshot.head /\ Goto("capture")
           \* nothing to commit
           \/ ~cancelled /\ repo.head = snapshot.head /\ ~sensitive /\ Exit(Success)
        /\ UNCHANGED budget
     \/ Fault(Internal) \/ Fault(Safety)
  /\ UNCHANGED <<inputs, world, trusted, cancelled, sensitive, start, body, plan,
                 approved, checks, commits, pushing, restored, staged, seen>>

\* CaptureRepositoryState saves the index and the state of every file;
\* Resolve reads the configured commands, or the scripts of the manifest.
CaptureState ==
  /\ pc = "capture"
  /\ start' = repo /\ seen' = {repo}
  /\ OrFault(Goto("resolve"), {Safety})
  /\ UNCHANGED <<inputs, world, trusted, cancelled, snapshot, sensitive, body,
                 plan, approved, checks, commits, pushing, restored, staged>>

ResolveDefinition ==
  /\ pc = "resolve"
  /\ body' = CASE mode.check = "none" -> 0
               [] mode.check = "repo" -> 1
               [] mode.check = "autodetect" -> script
  /\ OrFault(Goto("analyse"), {Usage})
  /\ UNCHANGED <<inputs, world, trusted, cancelled, snapshot, sensitive, start,
                 plan, approved, checks, commits, pushing, restored, staged, seen>>

\* generateCommitPlan reads the files; an error without a code of its own is
\* an internal one ...
Analyse ==
  /\ pc = "analyse"
  /\ plan' = [of |-> repo.work, order |-> <<>>]
  /\ OrFault(Goto("attribute"), {Internal, LLM})
  /\ UNCHANGED <<inputs, world, trusted, cancelled, snapshot, sensitive, start,
                 body, approved, checks, commits, pushing, restored, staged, seen>>

\* ... compares them with the snapshot before the history is searched ...
Attribute ==
  /\ pc = "attribute"
  /\ OrFault(IF SameSnapshot /\ ~cancelled THEN Goto("generate") ELSE Fails(Safety),
             {Safety, LLM})
  /\ UNCHANGED <<inputs, world, trusted, cancelled, analysis, checks, commits,
                 pushing, restored, staged, seen>>

\* ... and again when the model has answered.
Generate ==
  /\ pc = "generate"
  /\ \E order \in Orders : plan' = [plan EXCEPT !.order = order]
  /\ seen' = seen \cup {repo}
  /\ OrFault(IF SameSnapshot /\ ~cancelled
             THEN Goto(IF mode.confirm /\ ~mode.dry THEN "review" ELSE "render")
             ELSE Fails(Safety),
             IF SameSnapshot THEN {Safety, LLM} ELSE {Safety})
  /\ UNCHANGED <<inputs, world, trusted, cancelled, snapshot, sensitive, start,
                 body, approved, checks, commits, pushing, restored, staged>>
-----------------------------------------------------------------------------
(* Approval.                                                                 *)

\* A dry run ends here; without confirmation the plan is shown and carried out.
Render ==
  /\ pc = "render"
  /\ OrOutputFault(IF mode.dry THEN Exit(Success) ELSE Goto("authorize"))
  /\ UNCHANGED <<inputs, world, trusted, cancelled, analysis, checks, commits,
                 pushing, restored, staged, seen>>

Review ==
  /\ pc = "review" /\ ~cancelled
  /\ \/ approved' = plan /\ Goto("authorize")
     \/ Goto("analyse") /\ UNCHANGED approved
     \/ Exit(Canceled) /\ UNCHANGED approved
  /\ seen' = seen \cup {repo}
  /\ UNCHANGED <<inputs, world, trusted, cancelled, snapshot, sensitive, start,
                 body, plan, checks, commits, pushing, budget, restored, staged>>

ReviewFails ==
  /\ pc = "review"
  /\ (cancelled /\ Exit(Interrupted) /\ UNCHANGED budget) \/ Fault(Internal)
  /\ UNCHANGED <<inputs, world, trusted, cancelled, analysis, checks, commits,
                 pushing, restored, staged, seen>>

BeginVerification == Goto("verify") /\ todo' = IF body = 0 THEN 0 ELSE Commands

\* Mutant: any entry of this repository will do.
TrustsAny == body = 0 \/ trusted # 0

\* verification.Authorize asks unless trust.json holds this very definition.
Trusts == body = 0 \/ body = trusted

Authorize ==
  /\ pc = "authorize"
  /\ \/ Trusts /\ BeginVerification /\ UNCHANGED budget
     \/ ~Trusts /\ cancelled /\ Exit(Interrupted) /\ UNCHANGED <<budget, todo>>
     \/ Fault(Internal) /\ UNCHANGED todo
  /\ verdict' = "ok"
  /\ UNCHANGED <<inputs, world, trusted, cancelled, analysis, after, commits,
                 pushing, restored, staged, seen>>

AnswerAuthorize ==
  /\ pc = "authorize" /\ ~Trusts
  /\ \/ BeginVerification /\ trusted' = body
     \/ Fails(Canceled) /\ UNCHANGED <<trusted, todo>>
  /\ verdict' = "ok"
  /\ UNCHANGED <<inputs, world, cancelled, analysis, after, commits, pushing,
                 budget, restored, staged, seen>>
-----------------------------------------------------------------------------
(* Verification and revalidation.                                            *)

\* One command of verification.Run, which may change the repository.
RunCommand ==
  /\ pc = "verify" /\ todo > 0 /\ ~cancelled
  /\ todo' = todo - 1
  /\ \/ UNCHANGED <<repo, clock, budget>>
     \/ \E part \in DOMAIN repo : Spend("mutate") /\ Touch(part)
  /\ \/ Goto("verify") /\ UNCHANGED verdict
     \/ Goto("results") /\ verdict' = "failed"
  /\ seen' = seen \cup {repo, repo'}
  /\ UNCHANGED <<inputs, script, trusted, cancelled, analysis, after, commits,
                 pushing, restored, staged>>

EndVerification ==
  /\ pc = "verify" /\ (todo = 0 \/ cancelled)
  /\ Goto("results")
  /\ verdict' = IF todo = 0 THEN verdict ELSE "interrupted"
  /\ UNCHANGED <<inputs, world, trusted, cancelled, analysis, after, todo, commits,
                 pushing, budget, restored, staged, seen>>

\* initialState.RestoreIndex, then Next; a failed write leaves any index.
RestoreThen(step) ==
  \/ /\ repo' = [repo EXCEPT !.index = start.index]
     /\ OrOutputFault(step)
     /\ UNCHANGED <<clock, restored>>
  \/ Spend("fault") /\ Touch("index") /\ restored' = FALSE /\ Exit(Commit)

\* Mutant: the index is restored only after a mutation.
PrintWithoutRestore ==
  /\ pc = "results"
  /\ \/ verdict = "ok" /\ Goto("after")
     \/ verdict = "failed" /\ Exit(Verification)
     \/ verdict = "interrupted" /\ Exit(Interrupted)
  /\ UNCHANGED <<inputs, world, trusted, cancelled, analysis, checks, commits,
                 pushing, budget, restored, staged, seen>>

PrintResults ==
  /\ pc = "results"
  /\ \/ verdict = "ok" /\ Goto("after") /\ UNCHANGED <<repo, clock, budget, restored>>
     \/ verdict = "failed" /\ RestoreThen(Exit(Verification))
     \/ verdict = "interrupted" /\ RestoreThen(Exit(Interrupted))
     \/ "fault" \in Kinds /\ RestoreThen(Exit(Internal))  \* cannot be printed
  /\ UNCHANGED <<inputs, script, trusted, cancelled, analysis, checks, commits,
                 pushing, staged, seen>>

CaptureAfter ==
  /\ pc = "after"
  /\ \/ after' = repo /\ UNCHANGED budget
     \/ after' = Unknown /\ Spend("fault")
  /\ Goto("recheck")
  /\ UNCHANGED <<inputs, world, trusted, cancelled, analysis, todo, verdict,
                 commits, pushing, restored, staged, seen>>

\* Mutant: only the selected files are compared again.
RecheckSnapshotOnly ==
  /\ pc = "recheck"
  /\ \/ cancelled /\ RestoreThen(Exit(Interrupted))
     \/ /\ ~cancelled /\ SameSnapshot
        /\ Goto("commit") /\ UNCHANGED <<repo, clock, budget, restored>>
     \/ ~cancelled /\ ~SameSnapshot /\ RestoreThen(Goto("ask"))
  /\ UNCHANGED <<inputs, script, trusted, cancelled, analysis, checks, commits,
                 pushing, staged, seen>>

\* Nothing may have changed since the snapshot, nor between the two captures.
Recheck ==
  /\ pc = "recheck"
  /\ \/ cancelled /\ RestoreThen(Exit(Interrupted))
     \/ /\ ~cancelled /\ after = start /\ SameSnapshot
        /\ Goto("commit") /\ UNCHANGED <<repo, clock, budget, restored>>
     \/ /\ ~cancelled
        /\ ~(after = start /\ SameSnapshot) \/ "fault" \in Kinds  \* no snapshot
        /\ RestoreThen(Goto("ask"))
  /\ UNCHANGED <<inputs, script, trusted, cancelled, analysis, checks, commits,
                 pushing, staged, seen>>

\* "Re-analyze changed state? [y/N]"
Ask ==
  /\ pc = "ask" /\ ~cancelled
  /\ Exit(Safety) \/ (cycle < MaxCycles /\ Goto("again"))
  /\ UNCHANGED <<inputs, world, trusted, cancelled, analysis, checks, commits,
                 pushing, budget, restored, staged, seen>>

\* Mutant: the answer is read without looking at the context.
AskDeaf ==
  /\ pc = "ask" /\ OutputFault
  /\ UNCHANGED <<inputs, world, trusted, cancelled, analysis, checks, commits,
                 pushing, restored, staged, seen>>

AskFails ==
  /\ pc = "ask"
  /\ (cancelled /\ Exit(Interrupted) /\ UNCHANGED budget) \/ OutputFault
  /\ UNCHANGED <<inputs, world, trusted, cancelled, analysis, checks, commits,
                 pushing, restored, staged, seen>>

\* runCollection calls the next cycle, which has a context of its own.
NewCycle ==
  /\ pc = "again" /\ Goto("collect")
  /\ cycle' = cycle + 1 /\ cancelled' = FALSE
  /\ plan' = NoPlan /\ approved' = NoPlan
  /\ UNCHANGED <<mode, world, trusted, snapshot, sensitive, start, body, checks,
                 commits, pushing, budget, restored, staged, seen>>
-----------------------------------------------------------------------------
(* Commits and push.                                                         *)

\* Every commit writes the index and moves HEAD.
MakeCommit ==
  /\ pc = "commit" /\ UNCHANGED plan /\ Executor!Make
  /\ clock' = clock + 1
  /\ repo' = [repo EXCEPT !.head = clock + 1, !.index = clock + 1]
  /\ UNCHANGED <<inputs, script, trusted, pc, exit, cancelled, snapshot, sensitive,
                 start, body, approved, checks, pushing, budget, restored, staged,
                 seen>>

CommitsSucceed ==
  /\ pc = "commit" /\ UNCHANGED plan /\ Executor!Succeed
  /\ OrOutputFault(IF mode.push THEN Goto("target") ELSE Exit(Success))
  /\ UNCHANGED <<inputs, world, trusted, cancelled, snapshot, sensitive, start,
                 body, approved, checks, pushing, restored, staged, seen>>

\* Mutant: the executor's safety errors leave with the code of safety errors.
StopWithSafety ==
  /\ pc = "commit" /\ UNCHANGED plan /\ Executor!Stop
  /\ Exit(Safety)
  /\ UNCHANGED <<inputs, world, trusted, cancelled, snapshot, sensitive, start, body,
                 approved, checks, pushing, budget, restored, staged, seen>>

\* The index is back unless the executor says that it does not know.
CommitsStop ==
  /\ pc = "commit" /\ UNCHANGED plan /\ Executor!Stop
  /\ \/ /\ OrOutputFault(Exit(Commit) \/ (cancelled /\ Exit(Interrupted)))
        /\ UNCHANGED <<repo, clock, restored>>
     \/ Spend("fault") /\ Touch("index") /\ restored' = FALSE /\ Exit(Commit)
  /\ UNCHANGED <<inputs, script, trusted, cancelled, snapshot, sensitive, start,
                 body, approved, checks, pushing, staged, seen>>

\* Mutant: sensitive files do not force the question.
ResolveUnasked ==
  /\ pc = "target"
  /\ Goto(IF mode.pushConfirm THEN "confirm" ELSE "push")
  /\ UNCHANGED <<inputs, world, trusted, cancelled, analysis, checks, commits,
                 pushing, budget, restored, staged, seen>>

\* ResolvePushTarget again, then the question if one is due.
ResolveTarget ==
  /\ pc = "target"
  /\ OrOutputFault(\/ Goto(IF mode.pushConfirm \/ sensitive THEN "confirm" ELSE "push")
                   \/ Exit(Push))
  /\ UNCHANGED <<inputs, world, trusted, cancelled, analysis, checks, commits,
                 pushing, restored, staged, seen>>

ConfirmPush ==
  /\ pc = "confirm" /\ ~cancelled
  /\ \/ confirmed' = TRUE /\ Goto("push")
     \/ Exit(Canceled) /\ UNCHANGED confirmed
  /\ UNCHANGED <<inputs, world, trusted, cancelled, analysis, checks, commits,
                 pushed, budget, restored, staged, seen>>

ConfirmFails ==
  /\ pc = "confirm"
  /\ (cancelled /\ Exit(Interrupted) /\ UNCHANGED budget) \/ OutputFault
  /\ UNCHANGED <<inputs, world, trusted, cancelled, analysis, checks, commits,
                 pushing, restored, staged, seen>>

\* git push: a failed or killed push may have reached the remote.
PushOnce ==
  /\ pc = "push"
  /\ \/ ~cancelled /\ pushed' = pushed + 1 /\ OrOutputFault(Exit(Success))
     \/ pushed' \in {pushed, pushed + 1} /\ Fails(Push) /\ UNCHANGED budget
  /\ UNCHANGED <<inputs, world, trusted, cancelled, analysis, checks, commits,
                 confirmed, restored, staged, seen>>
-----------------------------------------------------------------------------
(* Other programs and the user.                                              *)

Others(kind) ==
  /\ pc # "exit" /\ Spend(kind)
  /\ UNCHANGED <<inputs, trusted, pc, exit, analysis, checks, commits, pushing,
                 restored, seen>>

EditFile ==
  /\ Others("edit") /\ \E part \in {"work", "rest"} : Touch(part)
  /\ UNCHANGED <<script, cancelled, staged>>

\* The manifest is one of the files.
EditManifest ==
  /\ Others("script") /\ script' = clock + 1
  /\ \E part \in {"work", "rest"} : Touch(part)
  /\ UNCHANGED <<cancelled, staged>>

Stage ==
  /\ Others("stage") /\ Touch("index") /\ staged' = TRUE
  /\ UNCHANGED <<script, cancelled>>

ForeignCommit ==
  /\ Others("commit") /\ Touch("head")
  /\ UNCHANGED <<script, cancelled, staged>>

Cancel ==
  /\ Others("cancel") /\ ~cancelled /\ cancelled' = TRUE
  /\ UNCHANGED <<world, staged>>

Environment == EditFile \/ EditManifest \/ Stage \/ ForeignCommit \/ Cancel

User == AnswerCandidates \/ Review \/ AnswerAuthorize \/ Ask \/ ConfirmPush

Program ==
  \/ Collect \/ CandidatesInterrupted \/ BuildSnapshot \/ CaptureState
  \/ ResolveDefinition \/ Analyse \/ Attribute \/ Generate \/ Render
  \/ ReviewFails \/ Authorize \/ RunCommand \/ EndVerification \/ PrintResults
  \/ CaptureAfter \/ Recheck \/ AskFails \/ NewCycle \/ MakeCommit
  \/ CommitsSucceed \/ CommitsStop \/ ResolveTarget \/ ConfirmFails \/ PushOnce

Next == Program \/ User \/ Environment
Spec == Init /\ [][Next]_vars
\* Git, the model and the commands return, and a waiting prompt notices the
\* end of its context; nothing is assumed of the user.
FairSpec == Spec /\ WF_vars(Program)
-----------------------------------------------------------------------------
Labels == {"collect", "candidates", "build", "capture", "resolve", "analyse",
           "attribute", "generate", "render", "review", "authorize", "verify",
           "results", "after", "recheck", "ask", "again", "commit", "target",
           "confirm", "push", "exit"}

\* Types of the variables of a run.
TypeOK ==
  /\ mode \in Mode /\ repo \in Repo /\ script \in Nat /\ clock \in Nat
  /\ trusted \in Nat /\ body \in Nat /\ cycle \in Nat
  /\ pc \in Labels
  /\ exit \in (0 .. 8) \cup {Interrupted, NotYet} /\ (exit = NotYet <=> pc # "exit")
  /\ snapshot \in Repo /\ start \in Repo /\ after \in Repo \cup {Unknown}
  /\ plan \in [of : Nat, order : Seq(SUBSET Path)]
  /\ approved \in [of : Nat, order : Seq(SUBSET Path)]
  /\ todo \in 0 .. Commands /\ verdict \in {"ok", "failed", "interrupted"}
  /\ made \in Seq(SUBSET Path) /\ outcome \in {"running", "stopped", "success"}
  /\ pushed \in Nat /\ budget \in 0 .. Budget /\ seen \subseteq Repo
  /\ cancelled \in BOOLEAN /\ sensitive \in BOOLEAN /\ confirmed \in BOOLEAN
  /\ restored \in BOOLEAN /\ staged \in BOOLEAN

(* Commits start only if the snapshot, the files the plan was made from, the *)
(* files at the approval and before and after every verification command are *)
(* one state of the repository, and the plan is the approved one.            *)
OneState ==
  [][pc # "commit" /\ pc' = "commit" =>
       /\ seen = {start}
       /\ \A part \in {"head", "index", "work"} : start[part] = snapshot[part]
       /\ plan.of = snapshot.work
       /\ mode.confirm => approved = plan]_vars

(* A run that made no commit leaves the index as it was before the run, also *)
(* if verification commands staged something in one of its cycles; unless    *)
(* another program staged files, or a restoration failed.                    *)
IndexKept == pc = "exit" /\ made = <<>> /\ restored /\ ~staged => repo.index = 0

(* The remote is updated at most once, only after every commit of the plan,  *)
(* and with the user's word where the configuration or a sensitive file in   *)
(* the commits asks for it.                                                  *)
PushGuarded ==
  pushed > 0 =>
    /\ pushed = 1 /\ mode.push /\ ~mode.dry
    /\ outcome = "success" /\ made = plan.order
    /\ mode.pushConfirm \/ sensitive => confirmed

(* The exit code tells what happened to the repository: success is           *)
(* everything that was asked for, an error of the analysis or verification   *)
(* left no commit, a declined or failed push left all of them, and after a   *)
(* failed index restoration no code says that the run ended in order, was    *)
(* declined, interrupted or only met a failing verification or push.  Which  *)
(* of the error codes it is, collection.go and section 15 of the             *)
(* specification see differently: RestorationIsSafety below.                 *)
ExitTruth ==
  /\ exit = Success /\ ~mode.dry =>
       \/ made = <<>> /\ plan = NoPlan                     \* nothing to commit
       \/ outcome = "success" /\ (mode.push => pushed = 1)
  /\ exit \in {Usage, Safety, LLM, Verification} => made = <<>>
  /\ exit = Canceled => outcome = "success" \/ made = <<>>
  /\ exit = Push => outcome = "success"
  /\ ~restored => exit \notin {Success, Canceled, Verification, Push, Interrupted}

(* Section 15: a "restoration failure" has code 4, and code 7 belongs to     *)
(* commits and the recovery after them.  False: if the index cannot be       *)
(* restored after the verification, before any commit, the run exits with 7. *)
RestorationIsSafety == exit # NotYet /\ ~restored /\ outcome = "running" => exit = Safety

(* No command runs unless the definition resolved in this very cycle is the  *)
(* one the user trusts.                                                      *)
OnlyTrustedDefinitions == [][RunCommand => body = trusted]_vars

(* A run that is interrupted ends, whatever it is waiting for, unless the    *)
(* signal falls between the answer to the re-analysis question and the       *)
(* context of the new cycle.                                                 *)
StopsWhenInterrupted == (cancelled /\ pc # "again") ~> (pc = "exit")
=============================================================================
