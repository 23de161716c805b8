--------------------------- MODULE RunCycleProofs ---------------------------
(* What holds of a whole run for every plan, setting and number of           *)
(* verification commands, whatever else happens in the repository.           *)
EXTENDS RunCycle, TLAPS

USE DEF inputs, world, analysis, checks, commits, pushing,
        Goto, Exit, Fails, Spend, Fault, OutputFault, OrFault, OrOutputFault,
        Success, Internal, Usage, Canceled, Safety, LLM, Verification, Commit,
        Push, Interrupted, NotYet

\* The parts of the repository, whose versions are numbers.
Parts == {"head", "index", "work", "rest"}

LEMMA VersionType ==
  ASSUME NEW r \in Repo, NEW part \in Parts PROVE r[part] \in Nat
BY DEF Repo, Parts

\* A repository with one other version is one.
LEMMA ChangeType ==
  ASSUME NEW r \in Repo, NEW part \in Parts, NEW v \in Nat
  PROVE  [r EXCEPT ![part] = v] \in Repo
BY DEF Repo, Parts

\* So is the one of a snapshot, and the one after a commit.
LEMMA MixedType ==
  ASSUME NEW r \in Repo, NEW v \in Nat, NEW w \in Nat
  PROVE  /\ [r EXCEPT !.head = v, !.work = w] \in Repo
         /\ [r EXCEPT !.head = v, !.index = w] \in Repo
         /\ [r EXCEPT !.index = v] \in Repo
BY DEF Repo

LEMMA TouchType ==
  ASSUME repo \in Repo, clock \in Nat, NEW part \in Parts, Touch(part)
  PROVE  repo' \in Repo /\ clock' \in Nat
BY DEF Touch, Repo, Parts

\* Restoring the index, with or without success, gives a repository.
LEMMA RestoreType ==
  ASSUME repo \in Repo, start \in Repo, clock \in Nat, NEW step, RestoreThen(step)
  PROVE  repo' \in Repo /\ clock' \in Nat
<1>1. start.index \in Nat
  BY VersionType DEF Repo
<1>2. CASE repo' = [repo EXCEPT !.index = start.index] /\ clock' = clock
  BY <1>1, <1>2, MixedType
<1>3. CASE Touch("index")
  BY <1>3, TouchType DEF Parts
<1> QED BY <1>2, <1>3 DEF RestoreThen

\* A restoration ends with the step it was made for, or with an error of its own.
LEMMA RestoreEnds ==
  ASSUME NEW code, RestoreThen(Exit(code))
  PROVE  /\ pc' = "exit" /\ exit' \in {code, Internal, Commit}
         /\ restored => restored' \/ exit' = Commit
         /\ budget' = budget \/ (budget > 0 /\ budget' = budget - 1)
BY DEF RestoreThen

\* What is spent of the budget is less.
LEMMA BudgetType ==
  ASSUME TypeOK, budget > 0 PROVE budget - 1 \in 0 .. Budget
BY ConstantsOK DEF TypeOK

\* The control of a run is well typed, and it has an exit code once it ended.
Control == /\ pc' \in Labels /\ budget' \in 0 .. Budget
           /\ exit' \in (0 .. 8) \cup {Interrupted, NotYet}
           /\ (exit' = NotYet <=> pc' # "exit")
\* The ways a step takes it: the run goes on, ends with a code, spends of the
\* budget of faults and changes or none.
GoesOn == pc # "exit" /\ pc' \in Labels \ {"exit"} /\ exit' = exit
Ends == pc' = "exit" /\ exit' \in (0 .. 8) \cup {Interrupted}
Spends == budget' = budget \/ (budget > 0 /\ budget' = budget - 1)

\* A step that lets a run go on, or ends it, keeps its control well typed.
LEMMA ControlType ==
  ASSUME TypeOK, GoesOn \/ Ends, Spends PROVE Control
<1>1. budget' \in 0 .. Budget
  BY BudgetType DEF TypeOK, Spends
<1>2. CASE GoesOn
  BY <1>1, <1>2 DEF GoesOn, TypeOK, Control
<1>3. CASE Ends
  BY <1>1, <1>3 DEF Ends, Labels, Control
<1> QED BY <1>2, <1>3

\* The first state is well typed.
LEMMA InitType == Init => TypeOK
<1> SUFFICES ASSUME Init PROVE TypeOK
  OBVIOUS
<1>1. repo \in Repo
  BY DEF Init, Repo
<1>2. plan \in [of : Nat, order : Seq(SUBSET Path)]
  BY DEF Init, NoPlan
<1>3. /\ cancelled \in BOOLEAN /\ sensitive \in BOOLEAN /\ confirmed \in BOOLEAN
      /\ restored \in BOOLEAN /\ staged \in BOOLEAN
  BY DEF Init
<1>4. mode \in Mode /\ Budget \in 0 .. Budget /\ 0 \in 0 .. Commands
  BY ConstantsOK DEF Init
<1>5. exit \in (0 .. 8) \cup {Interrupted, NotYet} /\ (exit = NotYet <=> pc # "exit")
  BY DEF Init
<1>6. made \in Seq(SUBSET Path) /\ approved = plan
  BY DEF Init
<1>7. /\ trusted \in Nat /\ snapshot = repo /\ start = repo /\ after = repo
      /\ clock = 1 /\ script = 1 /\ pc = "collect" /\ cycle = 1 /\ body = 0
      /\ todo = 0 /\ verdict = "ok" /\ outcome = "running" /\ pushed = 0
      /\ budget = Budget /\ seen = {}
  BY DEF Init
<1> QED BY <1>1, <1>2, <1>3, <1>4, <1>5, <1>6, <1>7 DEF TypeOK, Labels

\* Every step of the run and around it keeps the types.
LEMMA TypeStep == TypeOK /\ [Next]_vars => TypeOK'
<1> SUFFICES ASSUME TypeOK, [Next]_vars PROVE TypeOK'
  OBVIOUS
<1> USE DEF TypeOK, Labels
<1>b. repo \in Repo /\ snapshot \in Repo /\ start \in Repo /\ clock \in Nat
  OBVIOUS
<1>a. budget > 0 => budget - 1 \in 0 .. Budget
  BY BudgetType
<1>1. ASSUME Collect PROVE TypeOK'
  <2>1. sensitive' \in BOOLEAN
    BY <1>1 DEF Collect
  <2> QED BY <1>1, <1>a, <2>1 DEF Collect
<1>2. ASSUME AnswerCandidates PROVE TypeOK'
  BY <1>2, <1>a DEF AnswerCandidates
<1>3. ASSUME CandidatesInterrupted PROVE TypeOK'
  BY <1>3, <1>a DEF CandidatesInterrupted
<1>4. ASSUME BuildSnapshot PROVE TypeOK'
  <2>1. repo.work \in Nat /\ snapshot.work \in Nat /\ snapshot.head \in Nat
    BY <1>b DEF Repo
  <2>2. PICK w \in {snapshot.work, repo.work} :
          snapshot' = [repo EXCEPT !.head = snapshot.head, !.work = w]
    BY <1>4 DEF BuildSnapshot
  <2>3. snapshot' \in Repo
    <3> HIDE DEF TypeOK
    <3>1. w \in Nat
      BY <2>1, <2>2
    <3>2. [repo EXCEPT !.head = snapshot.head, !.work = w] \in Repo
      BY <1>b, <2>1, <3>1, MixedType
    <3> QED BY <2>2, <3>2
  <2>4. Control
    <3>1. GoesOn \/ Ends
      BY <1>4 DEF BuildSnapshot, GoesOn, Ends
    <3>2. Spends
      BY <1>4 DEF BuildSnapshot, Spends
    <3> HIDE DEF TypeOK
    <3> QED BY <3>1, <3>2, ControlType
  <2>5. UNCHANGED <<inputs, world, trusted, cancelled, sensitive, start, plan, body,
                    approved, checks, commits, pushing, restored, staged, seen>>
    BY <1>4 DEF BuildSnapshot
  <2> QED BY <2>3, <2>4, <2>5 DEF Control
<1>5. ASSUME CaptureState PROVE TypeOK'
  BY <1>5, <1>a DEF CaptureState
<1>6. ASSUME ResolveDefinition PROVE TypeOK'
  <2>1. body' \in Nat
    BY <1>6 DEF ResolveDefinition, Mode
  <2>2. Control
    <3>1. GoesOn \/ Ends
      BY <1>6 DEF ResolveDefinition, GoesOn, Ends
    <3>2. Spends
      BY <1>6 DEF ResolveDefinition, Spends
    <3> HIDE DEF TypeOK
    <3> QED BY <3>1, <3>2, ControlType
  <2>3. UNCHANGED <<inputs, world, trusted, cancelled, snapshot, sensitive, start,
                    plan, approved, checks, commits, pushing, restored, staged, seen>>
    BY <1>6 DEF ResolveDefinition
  <2> QED BY <2>1, <2>2, <2>3 DEF Control
<1>7. ASSUME Analyse PROVE TypeOK'
  <2>1. plan' \in [of : Nat, order : Seq(SUBSET Path)]
    BY <1>7, <1>b, VersionType DEF Analyse, Parts
  <2> QED BY <1>7, <1>a, <2>1 DEF Analyse
<1>8. ASSUME Attribute PROVE TypeOK'
  BY <1>8, <1>a DEF Attribute
<1>9. ASSUME Generate PROVE TypeOK'
  <2>1. plan' \in [of : Nat, order : Seq(SUBSET Path)]
    <3>1. PICK order \in Orders : plan' = [plan EXCEPT !.order = order]
      BY <1>9 DEF Generate
    <3>2. order \in Seq(SUBSET Path)
      BY ConstantsOK
    <3> QED BY <3>1, <3>2
  <2>2. Control
    <3>1. GoesOn \/ Ends
      <4>1. /\ pc = "generate"
            /\ \/ \E next \in {"review", "render"} : Goto(next)
               \/ \E code \in {LLM, Safety} : Fails(code)
        BY <1>9 DEF Generate
      <4>2. CASE \E next \in {"review", "render"} : Goto(next)
        BY <4>1, <4>2 DEF GoesOn
      <4>3. CASE \E code \in {LLM, Safety} : Fails(code)
        BY <4>3 DEF Ends
      <4> QED BY <4>1, <4>2, <4>3
    <3>2. Spends
      BY <1>9 DEF Generate, Spends
    <3> HIDE DEF TypeOK
    <3> QED BY <3>1, <3>2, ControlType
  <2>3. /\ UNCHANGED <<inputs, world, trusted, cancelled, snapshot, sensitive, start,
                       body, approved, checks, commits, pushing, restored, staged>>
        /\ seen' = seen \cup {repo}
    BY <1>9 DEF Generate
  <2> QED BY <2>1, <2>2, <2>3 DEF Control
<1>10. ASSUME Render PROVE TypeOK'
  BY <1>10, <1>a DEF Render
<1>11. ASSUME Review PROVE TypeOK'
  BY <1>11, <1>a DEF Review
<1>12. ASSUME ReviewFails PROVE TypeOK'
  BY <1>12, <1>a DEF ReviewFails
<1>13. ASSUME Authorize PROVE TypeOK'
  BY <1>13, <1>a, ConstantsOK DEF Authorize, BeginVerification
<1>14. ASSUME AnswerAuthorize PROVE TypeOK'
  BY <1>14, <1>a, ConstantsOK DEF AnswerAuthorize, BeginVerification
<1>15. ASSUME RunCommand PROVE TypeOK'
  <2>1. repo' \in Repo /\ clock' \in Nat
    <3>1. CASE repo' = repo /\ clock' = clock
      BY <3>1
    <3>2. CASE \E part \in DOMAIN repo : Touch(part)
      <4>1. DOMAIN repo = Parts
        BY <1>b DEF Repo, Parts
      <4> QED BY <1>b, <3>2, <4>1, TouchType
    <3> QED BY <1>15, <3>1, <3>2 DEF RunCommand
  <2>2. todo' \in 0 .. Commands
    BY <1>15, ConstantsOK DEF RunCommand
  <2> QED BY <1>15, <1>a, <2>1, <2>2 DEF RunCommand
<1>16. ASSUME EndVerification PROVE TypeOK'
  BY <1>16 DEF EndVerification
<1>17. ASSUME PrintResults PROVE TypeOK'
  <2>1. repo' \in Repo /\ clock' \in Nat
    BY <1>17, <1>b, RestoreType DEF PrintResults
  <2>2. restored' \in BOOLEAN
    BY <1>17 DEF PrintResults, RestoreThen
  <2>3. Control
    <3>1. GoesOn \/ Ends
      BY <1>17 DEF PrintResults, RestoreThen, GoesOn, Ends
    <3>2. Spends
      BY <1>17 DEF PrintResults, RestoreThen, Spends
    <3> HIDE DEF TypeOK
    <3> QED BY <3>1, <3>2, ControlType
  <2>4. UNCHANGED <<inputs, script, trusted, cancelled, analysis, checks, commits,
                    pushing, staged, seen>>
    BY <1>17 DEF PrintResults
  <2> QED BY <2>1, <2>2, <2>3, <2>4 DEF Control
<1>18. ASSUME CaptureAfter PROVE TypeOK'
  BY <1>18, <1>a DEF CaptureAfter
<1>19. ASSUME Recheck PROVE TypeOK'
  <2>1. repo' \in Repo /\ clock' \in Nat
    BY <1>19, <1>b, RestoreType DEF Recheck
  <2>2. restored' \in BOOLEAN
    BY <1>19 DEF Recheck, RestoreThen
  <2>3. Control
    <3>1. GoesOn \/ Ends
      BY <1>19 DEF Recheck, RestoreThen, GoesOn, Ends
    <3>2. Spends
      BY <1>19 DEF Recheck, RestoreThen, Spends
    <3> HIDE DEF TypeOK
    <3> QED BY <3>1, <3>2, ControlType
  <2>4. UNCHANGED <<inputs, script, trusted, cancelled, analysis, checks, commits,
                    pushing, staged, seen>>
    BY <1>19 DEF Recheck
  <2> QED BY <2>1, <2>2, <2>3, <2>4 DEF Control
<1>20. ASSUME Ask PROVE TypeOK'
  BY <1>20 DEF Ask
<1>21. ASSUME AskFails PROVE TypeOK'
  BY <1>21, <1>a DEF AskFails
<1>22. ASSUME NewCycle PROVE TypeOK'
  <2>1. cancelled' \in BOOLEAN
    BY <1>22 DEF NewCycle
  <2>2. NoPlan \in [of : Nat, order : Seq(SUBSET Path)]
    BY DEF NoPlan
  <2> QED BY <1>22, <2>1, <2>2 DEF NewCycle
<1>23. ASSUME MakeCommit PROVE TypeOK'
  <2>1. repo' \in Repo /\ clock' \in Nat
    <3>1. clock + 1 \in Nat
      BY <1>b
    <3> QED BY <1>23, <1>b, <3>1, MixedType DEF MakeCommit
  <2>2. made' \in Seq(SUBSET Path) /\ outcome' = outcome
    BY <1>23 DEF MakeCommit, Executor!Make
  <2> QED BY <1>23, <2>1, <2>2 DEF MakeCommit
<1>24. ASSUME CommitsSucceed PROVE TypeOK'
  BY <1>24, <1>a DEF CommitsSucceed, Executor!Succeed
<1>25. ASSUME CommitsStop PROVE TypeOK'
  <2>1. repo' \in Repo /\ clock' \in Nat
    BY <1>25, <1>b, TouchType DEF CommitsStop, Parts
  <2>2. restored' \in BOOLEAN
    BY <1>25 DEF CommitsStop
  <2> QED BY <1>25, <1>a, <2>1, <2>2 DEF CommitsStop, Executor!Stop
<1>26. ASSUME ResolveTarget PROVE TypeOK'
  BY <1>26, <1>a DEF ResolveTarget
<1>27. ASSUME ConfirmPush PROVE TypeOK'
  <2>1. confirmed' \in BOOLEAN
    BY <1>27 DEF ConfirmPush
  <2> QED BY <1>27, <2>1 DEF ConfirmPush
<1>28. ASSUME ConfirmFails PROVE TypeOK'
  BY <1>28, <1>a DEF ConfirmFails
<1>29. ASSUME PushOnce PROVE TypeOK'
  BY <1>29, <1>a DEF PushOnce
<1>30. ASSUME Environment PROVE TypeOK'
  <2>1. clock' \in Nat /\ repo' \in Repo /\ script' \in Nat
    BY <1>30, <1>b, TouchType
    DEF Parts, Environment, EditFile, EditManifest, Stage, ForeignCommit, Cancel
  <2>2. cancelled' \in BOOLEAN /\ staged' \in BOOLEAN
    BY <1>30 DEF Environment, EditFile, EditManifest, Stage, ForeignCommit, Cancel
  <2>3. Control
    <3>1. GoesOn \/ Ends
      BY <1>30
      DEF Environment, Others, EditFile, EditManifest, Stage, ForeignCommit, Cancel,
          GoesOn, Ends
    <3>2. Spends
      BY <1>30
      DEF Environment, Others, EditFile, EditManifest, Stage, ForeignCommit, Cancel,
          Spends
    <3> HIDE DEF TypeOK
    <3> QED BY <3>1, <3>2, ControlType
  <2>4. UNCHANGED <<inputs, trusted, pc, exit, analysis, checks, commits, pushing,
                    restored, seen>>
    BY <1>30
    DEF Environment, Others, EditFile, EditManifest, Stage, ForeignCommit, Cancel
  <2> QED BY <2>1, <2>2, <2>3, <2>4 DEF Control
<1>31. CASE UNCHANGED vars
  BY <1>31 DEF vars
<1> QED
  BY <1>1, <1>2, <1>3, <1>4, <1>5, <1>6, <1>7, <1>8, <1>9, <1>10, <1>11, <1>12,
     <1>13, <1>14, <1>15, <1>16, <1>17, <1>18, <1>19, <1>20, <1>21, <1>22, <1>23,
     <1>24, <1>25, <1>26, <1>27, <1>28, <1>29, <1>30, <1>31 DEF Next, Program, User

(* The variables of a run keep their types.                                  *)
THEOREM TypeCorrect == Spec => []TypeOK
BY InitType, TypeStep, PTL DEF Spec

-----------------------------------------------------------------------------
(* Commits, the push and the exit code                                       *)

\* The commits of a run are made in one place, and the push comes after them.
CommitsKnown ==
  /\ pc \notin {"commit", "target", "confirm", "push", "exit"} =>
       made = <<>> /\ outcome = "running"
  /\ pc = "commit" => outcome = "running"
  /\ pc \in {"target", "confirm", "push"} => outcome = "success" /\ mode.push
  /\ outcome = "success" => made = plan.order

\* A dry run goes no further than its plan, which a cycle begins without.
Reached ==
  /\ pc \in {"review", "authorize", "verify", "results", "after", "recheck", "ask",
             "again", "commit", "target", "confirm", "push"} => ~mode.dry
  /\ pc \in {"collect", "candidates", "build", "capture", "resolve"} => plan = NoPlan

\* One push ends the run, and it was confirmed where that was due.
Asked == mode.pushConfirm \/ sensitive => confirmed
PushKnown ==
  /\ pc = "push" => Asked
  /\ pushed > 0 => /\ pc = "exit" /\ pushed = 1 /\ mode.push /\ ~mode.dry
                   /\ outcome = "success" /\ Asked

\* A failed restoration of the index ends the run.
RestoredYet == restored \/ pc = "exit"

EndInv == CommitsKnown /\ Reached /\ PushKnown /\ RestoredYet /\ ExitTruth

-----------------------------------------------------------------------------
(* The index                                                                 *)

\* Verification commands alone may have changed the index, and only until the
\* one that was saved before them is restored.
IndexInv ==
  restored /\ ~staged =>
    /\ snapshot.index = 0 /\ start.index = 0
    /\ pc \notin {"verify", "results", "after", "recheck"} /\ made = <<>> => repo.index = 0

-----------------------------------------------------------------------------
(* One state                                                                 *)

Selected == {"head", "index", "work"}
Older(r, s) == \A part \in Parts : r[part] <= s[part]

\* Versions only grow between the snapshot and the last comparison.
Versions == \A part \in Parts : repo[part] <= clock /\ start[part] <= clock
SnapshotOlder ==
  /\ pc \in {"candidates", "build", "capture"} =>
       \A part \in Selected : snapshot[part] <= repo[part]
  /\ pc \in {"resolve", "analyse", "attribute", "generate", "render", "review",
             "authorize", "verify", "results", "after", "recheck"} =>
       /\ \A part \in Selected : snapshot[part] <= start[part]
       /\ start \in seen /\ \A r \in seen : Older(start, r) /\ Older(r, repo)
  /\ pc \in {"attribute", "generate", "render", "review", "authorize", "verify",
             "results", "after", "recheck"} =>
       snapshot.work <= plan.of /\ plan.of <= repo.work
  /\ pc = "recheck" => after = Unknown \/ \A r \in seen : Older(r, after)

\* The plan that is carried out is the one on the screen.
ApprovedYet ==
  /\ pc = "render" => mode.dry \/ ~mode.confirm
  /\ pc \in {"authorize", "verify", "results", "after", "recheck"} /\ mode.confirm =>
       approved = plan

\* Commands wait to be run only if their definition is the trusted one.
TrustedYet == pc = "verify" /\ todo > 0 => body = trusted

\* Every step keeps what is known of commits, push and exit code.
LEMMA EndStep ==
  ASSUME TypeOK, EndInv, [Next]_vars
  PROVE  EndInv'
<1> USE DEF EndInv, CommitsKnown, Reached, PushKnown, Asked, RestoredYet, ExitTruth
<1>a. pushed \in Nat /\ exit \in Int /\ (exit = NotYet <=> pc # "exit")
  BY DEF TypeOK
<1>1. ASSUME Collect PROVE EndInv'
  BY <1>1, <1>a DEF Collect
<1>2. ASSUME AnswerCandidates PROVE EndInv'
  BY <1>2, <1>a DEF AnswerCandidates
<1>3. ASSUME CandidatesInterrupted PROVE EndInv'
  BY <1>3, <1>a DEF CandidatesInterrupted
<1>4. ASSUME BuildSnapshot PROVE EndInv'
  BY <1>4, <1>a DEF BuildSnapshot
<1>5. ASSUME CaptureState PROVE EndInv'
  BY <1>5, <1>a DEF CaptureState
<1>6. ASSUME ResolveDefinition PROVE EndInv'
  BY <1>6, <1>a DEF ResolveDefinition
<1>7. ASSUME Analyse PROVE EndInv'
  BY <1>7, <1>a DEF Analyse
<1>8. ASSUME Attribute PROVE EndInv'
  BY <1>8, <1>a DEF Attribute
<1>9. ASSUME Generate PROVE EndInv'
  BY <1>9, <1>a DEF Generate
<1>10. ASSUME Render PROVE EndInv'
  BY <1>10, <1>a DEF Render
<1>11. ASSUME Review PROVE EndInv'
  BY <1>11, <1>a DEF Review
<1>12. ASSUME ReviewFails PROVE EndInv'
  BY <1>12, <1>a DEF ReviewFails
<1>13. ASSUME Authorize PROVE EndInv'
  BY <1>13, <1>a DEF Authorize, BeginVerification
<1>14. ASSUME AnswerAuthorize PROVE EndInv'
  BY <1>14, <1>a DEF AnswerAuthorize, BeginVerification
<1>15. ASSUME RunCommand PROVE EndInv'
  BY <1>15, <1>a DEF RunCommand
<1>16. ASSUME EndVerification PROVE EndInv'
  BY <1>16, <1>a DEF EndVerification
<1>17. ASSUME PrintResults PROVE EndInv'
  <2>1. UNCHANGED <<mode, plan, sensitive, commits, pushing>> /\ pc = "results"
    BY <1>17 DEF PrintResults
  <2>2. CASE Goto("after") /\ restored' = restored
    BY <1>a, <2>1, <2>2
  <2>3. CASE \E code \in {Verification, Interrupted, Internal} : RestoreThen(Exit(code))
    <3>1. PICK code \in {Verification, Interrupted, Internal} : RestoreThen(Exit(code))
      BY <2>3
    <3>2. /\ pc' = "exit" /\ exit' \in {code, Internal, Commit}
          /\ restored => restored' \/ exit' = Commit
      BY <3>1, RestoreEnds
    <3> QED BY <1>a, <2>1, <3>2
  <2> QED BY <1>17, <2>2, <2>3 DEF PrintResults
<1>18. ASSUME CaptureAfter PROVE EndInv'
  BY <1>18, <1>a DEF CaptureAfter
<1>19. ASSUME Recheck PROVE EndInv'
  <2>1. UNCHANGED <<mode, plan, sensitive, commits, pushing>> /\ pc = "recheck"
    BY <1>19 DEF Recheck
  <2>2. CASE pc' \in {"ask", "commit"} /\ UNCHANGED <<exit, restored>>
    BY <1>a, <2>1, <2>2
  <2>3. CASE /\ pc' = "exit" /\ exit' \in {Interrupted, Internal, Commit}
             /\ restored => restored' \/ exit' = Commit
    BY <1>a, <2>1, <2>3
  <2> QED BY <1>19, <2>2, <2>3 DEF Recheck, RestoreThen
<1>20. ASSUME Ask PROVE EndInv'
  BY <1>20, <1>a DEF Ask
<1>21. ASSUME AskFails PROVE EndInv'
  BY <1>21, <1>a DEF AskFails
<1>22. ASSUME NewCycle PROVE EndInv'
  BY <1>22, <1>a DEF NewCycle
<1>23. ASSUME MakeCommit PROVE EndInv'
  BY <1>23, <1>a DEF MakeCommit, Executor!Make
<1>24. ASSUME CommitsSucceed PROVE EndInv'
  BY <1>24, <1>a DEF CommitsSucceed, Executor!Succeed
<1>25. ASSUME CommitsStop PROVE EndInv'
  <2>1. /\ UNCHANGED <<mode, plan, sensitive, made, pushing>> /\ pc = "commit"
        /\ outcome = "running" /\ outcome' = "stopped"
    BY <1>25 DEF CommitsStop, Executor!Stop
  <2>2. /\ pc' = "exit" /\ exit' \in {Interrupted, Internal, Commit}
        /\ restored => restored' \/ exit' = Commit
    <3>1. CASE /\ OrOutputFault(Exit(Commit) \/ (cancelled /\ Exit(Interrupted)))
               /\ UNCHANGED restored
      BY <3>1
    <3>2. CASE restored' = FALSE /\ Exit(Commit)
      BY <3>2
    <3> QED BY <1>25, <3>1, <3>2 DEF CommitsStop
  <2> QED BY <1>a, <2>1, <2>2
<1>26. ASSUME ResolveTarget PROVE EndInv'
  BY <1>26, <1>a DEF ResolveTarget
<1>27. ASSUME ConfirmPush PROVE EndInv'
  BY <1>27, <1>a DEF ConfirmPush
<1>28. ASSUME ConfirmFails PROVE EndInv'
  BY <1>28, <1>a DEF ConfirmFails
<1>29. ASSUME PushOnce PROVE EndInv'
  BY <1>29, <1>a DEF PushOnce
<1>30. ASSUME Environment PROVE EndInv'
  BY <1>30, <1>a
  DEF Environment, Others, EditFile, EditManifest, Stage, ForeignCommit, Cancel
<1>31. CASE UNCHANGED vars
  BY <1>31 DEF vars
<1> QED
  BY <1>1, <1>2, <1>3, <1>4, <1>5, <1>6, <1>7, <1>8, <1>9, <1>10, <1>11, <1>12,
     <1>13, <1>14, <1>15, <1>16, <1>17, <1>18, <1>19, <1>20, <1>21, <1>22, <1>23,
     <1>24, <1>25, <1>26, <1>27, <1>28, <1>29, <1>30, <1>31 DEF Next, Program, User

(* The remote is updated once at most, by a run that made every commit of    *)
(* its plan and was allowed to push it.                                      *)
THEOREM PushesGuarded == Spec => []PushGuarded
<1>1. Init => EndInv
  BY DEF Init, EndInv, CommitsKnown, Reached, PushKnown, RestoredYet, ExitTruth
<1>2. EndInv => PushGuarded
  BY DEF EndInv, CommitsKnown, PushKnown, Asked, PushGuarded
<1> QED BY <1>1, <1>2, TypeCorrect, EndStep, PTL DEF Spec

(* The exit code of a run says what it did to the repository.                *)
THEOREM ExitsTruthful == Spec => []ExitTruth
<1>1. Init => EndInv
  BY DEF Init, EndInv, CommitsKnown, Reached, PushKnown, RestoredYet, ExitTruth
<1>2. EndInv => ExitTruth
  BY DEF EndInv
<1> QED BY <1>1, <1>2, TypeCorrect, EndStep, PTL DEF Spec

\* A restoration brings the saved index back, or says that it failed.
LEMMA RestoreIndex ==
  ASSUME repo \in Repo, NEW step, RestoreThen(step), restored'
  PROVE  repo'.index = start.index
BY DEF RestoreThen, Repo

\* Every step keeps what is known of the index.
LEMMA IndexStep ==
  ASSUME TypeOK, CommitsKnown, RestoredYet, IndexInv, [Next]_vars
  PROVE  IndexInv'
<1> USE DEF IndexInv, CommitsKnown, RestoredYet
<1>a. repo \in Repo /\ start \in Repo /\ snapshot \in Repo
  BY DEF TypeOK
<1>1. ASSUME Collect PROVE IndexInv'
  BY <1>1, <1>a DEF Collect
<1>2. ASSUME AnswerCandidates PROVE IndexInv'
  BY <1>2, <1>a DEF AnswerCandidates
<1>3. ASSUME CandidatesInterrupted PROVE IndexInv'
  BY <1>3, <1>a DEF CandidatesInterrupted
<1>4. ASSUME BuildSnapshot PROVE IndexInv'
  BY <1>4, <1>a DEF BuildSnapshot
<1>5. ASSUME CaptureState PROVE IndexInv'
  BY <1>5, <1>a DEF CaptureState
<1>6. ASSUME ResolveDefinition PROVE IndexInv'
  BY <1>6, <1>a DEF ResolveDefinition
<1>7. ASSUME Analyse PROVE IndexInv'
  BY <1>7, <1>a DEF Analyse
<1>8. ASSUME Attribute PROVE IndexInv'
  BY <1>8, <1>a DEF Attribute
<1>9. ASSUME Generate PROVE IndexInv'
  BY <1>9, <1>a DEF Generate
<1>10. ASSUME Render PROVE IndexInv'
  BY <1>10, <1>a DEF Render
<1>11. ASSUME Review PROVE IndexInv'
  BY <1>11, <1>a DEF Review
<1>12. ASSUME ReviewFails PROVE IndexInv'
  BY <1>12, <1>a DEF ReviewFails
<1>13. ASSUME Authorize PROVE IndexInv'
  BY <1>13, <1>a DEF Authorize, BeginVerification
<1>14. ASSUME AnswerAuthorize PROVE IndexInv'
  BY <1>14, <1>a DEF AnswerAuthorize, BeginVerification
<1>15. ASSUME RunCommand PROVE IndexInv'
  BY <1>15 DEF RunCommand
<1>16. ASSUME EndVerification PROVE IndexInv'
  BY <1>16, <1>a DEF EndVerification
<1>17. ASSUME PrintResults PROVE IndexInv'
  <2>1. UNCHANGED <<snapshot, start, staged, made>> /\ pc = "results"
    BY <1>17 DEF PrintResults
  <2>2. CASE Goto("after") /\ UNCHANGED <<repo, restored>>
    BY <2>1, <2>2
  <2>3. CASE \E code \in {Verification, Interrupted, Internal} : RestoreThen(Exit(code))
    BY <1>a, <2>1, <2>3, RestoreIndex
  <2> QED BY <1>17, <2>2, <2>3 DEF PrintResults
<1>18. ASSUME CaptureAfter PROVE IndexInv'
  BY <1>18, <1>a DEF CaptureAfter
<1>19. ASSUME Recheck PROVE IndexInv'
  <2>1. UNCHANGED <<snapshot, start, staged, made>> /\ pc = "recheck"
    BY <1>19 DEF Recheck
  <2>2. CASE SameSnapshot /\ Goto("commit") /\ UNCHANGED <<repo, restored>>
    <3>1. repo.index = snapshot.index
      BY <2>2 DEF SameSnapshot
    <3> QED BY <2>1, <2>2, <3>1
  <2>3. CASE \E step \in BOOLEAN : RestoreThen(step)
    BY <1>a, <2>1, <2>3, RestoreIndex
  <2> QED BY <1>19, <2>2, <2>3 DEF Recheck
<1>20. ASSUME Ask PROVE IndexInv'
  BY <1>20, <1>a DEF Ask
<1>21. ASSUME AskFails PROVE IndexInv'
  BY <1>21, <1>a DEF AskFails
<1>22. ASSUME NewCycle PROVE IndexInv'
  BY <1>22, <1>a DEF NewCycle
<1>23. ASSUME MakeCommit PROVE IndexInv'
  <2>1. made' # <<>>
    <3>1. made \in Seq(SUBSET Path)
      BY DEF TypeOK
    <3> QED BY <1>23, <3>1 DEF MakeCommit, Executor!Make
  <2> QED BY <1>23, <2>1 DEF MakeCommit
<1>24. ASSUME CommitsSucceed PROVE IndexInv'
  BY <1>24, <1>a DEF CommitsSucceed, Executor!Succeed
<1>25. ASSUME CommitsStop PROVE IndexInv'
  BY <1>25, <1>a DEF CommitsStop, Executor!Stop
<1>26. ASSUME ResolveTarget PROVE IndexInv'
  BY <1>26, <1>a DEF ResolveTarget
<1>27. ASSUME ConfirmPush PROVE IndexInv'
  BY <1>27, <1>a DEF ConfirmPush
<1>28. ASSUME ConfirmFails PROVE IndexInv'
  BY <1>28, <1>a DEF ConfirmFails
<1>29. ASSUME PushOnce PROVE IndexInv'
  BY <1>29, <1>a DEF PushOnce
<1>30. ASSUME Environment PROVE IndexInv'
  <2>1. UNCHANGED <<pc, snapshot, start, made, restored>>
    BY <1>30
    DEF Environment, Others, EditFile, EditManifest, Stage, ForeignCommit, Cancel
  <2>2. CASE Stage
    BY <2>2 DEF Stage
  <2>3. CASE \E part \in {"head", "work", "rest"} : Touch(part) /\ staged' = staged
    <3>1. repo'.index = repo.index
      BY <1>a, <2>3 DEF Touch, Repo
    <3> QED BY <2>1, <2>3, <3>1
  <2>4. CASE UNCHANGED <<repo, staged>>
    BY <2>1, <2>4
  <2> QED
    BY <1>30, <2>2, <2>3, <2>4
    DEF Environment, EditFile, EditManifest, ForeignCommit, Cancel
<1>31. CASE UNCHANGED vars
  BY <1>31 DEF vars
<1> QED
  BY <1>1, <1>2, <1>3, <1>4, <1>5, <1>6, <1>7, <1>8, <1>9, <1>10, <1>11, <1>12,
     <1>13, <1>14, <1>15, <1>16, <1>17, <1>18, <1>19, <1>20, <1>21, <1>22, <1>23,
     <1>24, <1>25, <1>26, <1>27, <1>28, <1>29, <1>30, <1>31 DEF Next, Program, User

(* A run that made no commit leaves the index as it found it.                *)
THEOREM IndexLeft == Spec => []IndexKept
<1>1. Init => EndInv /\ IndexInv
  BY DEF Init, EndInv, CommitsKnown, Reached, PushKnown, RestoredYet, ExitTruth, IndexInv
<1>2. EndInv /\ TypeOK /\ IndexInv /\ [Next]_vars => EndInv' /\ IndexInv'
  BY EndStep, IndexStep DEF EndInv
<1>3. IndexInv => IndexKept
  BY DEF IndexInv, IndexKept
<1> QED BY <1>1, <1>2, <1>3, TypeCorrect, PTL DEF Spec

\* Versions are compared part by part.
LEMMA OlderOrder ==
  ASSUME NEW r \in Repo, NEW s \in Repo, NEW t \in Repo
  PROVE  /\ Older(r, r) /\ (Older(r, s) /\ Older(s, t) => Older(r, t))
         /\ (Older(r, s) /\ Older(s, r) => r = s)
BY DEF Older, Repo, Parts

\* A part that gets a version gets one that is newer than all.
LEMMA TouchGrows ==
  ASSUME TypeOK, Versions, NEW part \in Parts, Touch(part), start' = start
  PROVE  Older(repo, repo') /\ Versions'
<1>1. repo \in Repo /\ start \in Repo /\ clock \in Nat
  BY DEF TypeOK
<1> QED BY <1>1 DEF Versions, Older, Touch, Repo, Parts

\* Restoring the index gives no version that was never given out.
LEMMA RestoreVersions ==
  ASSUME TypeOK, Versions, NEW step, RestoreThen(step), start' = start
  PROVE  Versions'
<1>1. repo \in Repo /\ start \in Repo /\ clock \in Nat
  BY DEF TypeOK
<1>2. CASE repo' = [repo EXCEPT !.index = start.index] /\ clock' = clock
  BY <1>1, <1>2 DEF Versions, Repo, Parts
<1>3. CASE Touch("index")
  BY <1>3, TouchGrows DEF Parts
<1> QED BY <1>2, <1>3 DEF RestoreThen

\* Whoever changes the repository in a cycle makes it newer.
Grows == Older(repo, repo') /\ Versions'

LEMMA EnvironmentGrows ==
  ASSUME TypeOK, Versions, Environment
  PROVE  Grows
<1>1. start' = start
  BY DEF Environment, Others, EditFile, EditManifest, Stage, ForeignCommit, Cancel
<1>2. CASE \E part \in Parts : Touch(part)
  BY <1>1, <1>2, TouchGrows DEF Grows
<1>3. CASE UNCHANGED <<repo, clock>>
  <2>1. Versions'
    BY <1>1, <1>3 DEF Versions
  <2> QED BY <1>3, <2>1, OlderOrder DEF Grows, TypeOK
<1> QED
  BY <1>2, <1>3
  DEF Environment, EditFile, EditManifest, Stage, ForeignCommit, Cancel, Parts

LEMMA RunCommandGrows ==
  ASSUME TypeOK, Versions, RunCommand
  PROVE  Grows
<1>1. start' = start /\ DOMAIN repo = Parts
  BY DEF RunCommand, TypeOK, Repo, Parts
<1>2. CASE \E part \in Parts : Touch(part)
  BY <1>1, <1>2, TouchGrows DEF Grows
<1>3. CASE UNCHANGED <<repo, clock>>
  <2>1. Versions'
    BY <1>1, <1>3 DEF Versions
  <2> QED BY <1>3, <2>1, OlderOrder DEF Grows, TypeOK
<1> QED BY <1>1, <1>2, <1>3 DEF RunCommand

\* What was seen in the cycle stays between its start and the present.
InCycle == {"resolve", "analyse", "attribute", "generate", "render", "review",
            "authorize", "verify", "results", "after", "recheck"}
Between ==
  /\ \A part \in Selected : snapshot[part] <= start[part]
  /\ start \in seen /\ \A r \in seen : Older(start, r) /\ Older(r, repo)

LEMMA BetweenKept ==
  ASSUME TypeOK, TypeOK', Between, UNCHANGED <<start, snapshot>>, Older(repo, repo'),
         seen \subseteq seen', seen' \subseteq seen \cup {repo, repo'}
  PROVE  Between'
<1>1. /\ repo \in Repo /\ repo' \in Repo /\ start \in Repo /\ start \in seen
      /\ seen \subseteq Repo
  BY DEF TypeOK, Between
<1>2. ASSUME NEW r \in seen' PROVE Older(start, r) /\ Older(r, repo')
  <2>1. CASE r \in seen
    BY <1>1, <2>1, OlderOrder DEF Between
  <2>2. CASE r \in {repo, repo'}
    <3>1. Older(start, repo)
      BY <1>1 DEF Between
    <3> QED BY <1>1, <2>2, <3>1, OlderOrder
  <2> QED BY <2>1, <2>2
<1> QED BY <1>1, <1>2 DEF Between

\* The files the plan was made from stay between those of the snapshot and the
\* present ones.
LEMMA PlanKept ==
  ASSUME TypeOK, snapshot.work <= plan.of, plan.of <= repo.work, Older(repo, repo'),
         UNCHANGED snapshot, plan'.of = plan.of, TypeOK'
  PROVE  snapshot'.work <= plan'.of /\ plan'.of <= repo'.work
<1>1. /\ repo \in Repo /\ repo' \in Repo /\ plan.of \in Nat
      /\ repo.work <= repo'.work
  BY DEF TypeOK, Older, Parts
<1> QED BY <1>1 DEF Repo

\* Every step keeps the versions of the cycle in their order.
LEMMA SnapshotStep ==
  ASSUME TypeOK, TypeOK', Versions, SnapshotOlder, [Next]_vars
  PROVE  Versions' /\ SnapshotOlder'
<1> DEFINE Goal == Versions' /\ SnapshotOlder'
<1>a. /\ repo \in Repo /\ repo' \in Repo /\ start \in Repo /\ snapshot \in Repo
      /\ seen \subseteq Repo /\ clock \in Nat /\ plan.of \in Nat /\ Older(repo, repo)
  BY OlderOrder DEF TypeOK
<1>b. ASSUME UNCHANGED <<repo, clock, start>> PROVE Versions' /\ Older(repo, repo')
  BY <1>a, <1>b DEF Versions
<1>c. pc \in InCycle => Between
  BY DEF SnapshotOlder, InCycle, Between
<1>d. ASSUME pc' = "exit" \/ pc' \in {"ask", "again", "collect", "commit", "target", "confirm", "push"}
      PROVE  SnapshotOlder'
  BY <1>d DEF SnapshotOlder
\* A step within the cycle that changes neither its start nor its plan.
<1>e. ASSUME pc \in InCycle, pc' \in InCycle, UNCHANGED <<snapshot, start>>,
             Older(repo, repo'), seen \subseteq seen', seen' \subseteq seen \cup {repo, repo'},
             pc \notin {"resolve", "analyse"} => plan'.of = plan.of,
             pc \in {"resolve", "analyse"} =>
               pc' = "analyse" \/ (pc' = "attribute" /\ plan'.of = repo.work),
             pc' = "recheck" =>
               \/ pc = "after" /\ after' \in {repo, Unknown} /\ UNCHANGED <<repo, seen>>
               \/ pc = "recheck" /\ after' = after /\ seen' = seen
      PROVE  SnapshotOlder'
  <2>1. Between /\ Between'
    BY <1>c, <1>e, BetweenKept
  <2>2. snapshot.work <= repo.work
    BY <1>a, <2>1 DEF Between, Older, Selected, Parts, Repo
  <2>3. pc' \notin {"resolve", "analyse"} => snapshot'.work <= plan'.of /\ plan'.of <= repo'.work
    <3>1. CASE pc \notin {"resolve", "analyse"}
      BY <1>e, <3>1, PlanKept DEF SnapshotOlder, InCycle
    <3>2. CASE pc \in {"resolve", "analyse"} /\ pc' = "attribute"
      <4>1. repo.work <= repo'.work
        BY <1>e DEF Older, Parts
      <4> QED BY <1>a, <1>e, <2>2, <3>2, <4>1
    <3> QED BY <1>e, <3>1, <3>2
  <2>4. pc' = "recheck" => after' = Unknown \/ \A r \in seen' : Older(r, after')
    BY <1>e, <2>1 DEF Between, SnapshotOlder
  <2> QED BY <1>e, <2>1, <2>3, <2>4 DEF SnapshotOlder, Between, InCycle
<1> USE DEF Goal
<1>1. ASSUME Collect PROVE Goal
  <2>1. UNCHANGED <<repo, clock, start>> /\ snapshot' = repo
        /\ pc' \in {"candidates", "build", "exit"}
    BY <1>1 DEF Collect
  <2>2. \A part \in Selected : snapshot'[part] <= repo'[part]
    BY <1>a, <2>1 DEF Selected, Repo
  <2> QED BY <1>b, <2>1, <2>2 DEF SnapshotOlder
<1>2. ASSUME AnswerCandidates PROVE Goal
  <2>1. UNCHANGED <<repo, clock, start, snapshot>> /\ pc = "candidates" /\ pc' = "build"
    BY <1>2 DEF AnswerCandidates
  <2> QED BY <1>b, <2>1 DEF SnapshotOlder
<1>3. ASSUME CandidatesInterrupted PROVE Goal
  <2>1. UNCHANGED <<repo, clock, start>> /\ pc' \in {"exit", "again", "collect", "target", "confirm", "push"}
    BY <1>3 DEF CandidatesInterrupted
  <2> QED BY <1>b, <1>d, <2>1
<1>4. ASSUME BuildSnapshot PROVE Goal
  <2>1. UNCHANGED <<repo, clock, start>> /\ pc = "build" /\ pc' \in {"capture", "exit"}
    BY <1>4 DEF BuildSnapshot
  <2>2. PICK w \in {snapshot.work, repo.work} :
          snapshot' = [repo EXCEPT !.head = snapshot.head, !.work = w]
    BY <1>4 DEF BuildSnapshot
  <2>3. \A part \in Selected : snapshot[part] <= repo[part]
    BY <2>1 DEF SnapshotOlder
  <2>4. /\ snapshot'["head"] = snapshot["head"] /\ snapshot'["index"] = repo["index"]
        /\ snapshot'["work"] = w
    BY <1>a, <2>2 DEF Repo
  <2>5. \A part \in Selected : snapshot[part] \in Nat /\ repo[part] \in Nat
    BY <1>a, VersionType DEF Selected, Parts
  <2>6. w = repo["work"] \/ w = snapshot["work"]
    OBVIOUS
  <2>7. \A part \in Selected : snapshot'[part] <= repo'[part]
    BY <2>1, <2>3, <2>4, <2>5, <2>6 DEF Selected
  <2> QED BY <1>b, <2>1, <2>7 DEF SnapshotOlder
<1>5. ASSUME CaptureState PROVE Goal
  <2>1. /\ UNCHANGED <<repo, clock, snapshot>> /\ pc = "capture"
        /\ pc' \in {"resolve", "exit"} /\ start' = repo /\ seen' = {repo}
    BY <1>5 DEF CaptureState
  <2>2. Versions'
    BY <2>1 DEF Versions
  <2>3. \A part \in Selected : snapshot[part] <= repo[part]
    BY <2>1 DEF SnapshotOlder
  <2> QED BY <1>a, <2>1, <2>2, <2>3 DEF SnapshotOlder
<1>6. ASSUME ResolveDefinition PROVE Goal
  <2>1. /\ UNCHANGED <<repo, clock, start, snapshot, plan, seen>> /\ pc \in InCycle
        /\ pc' \in InCycle \cup {"exit"} /\ pc' # "recheck"
        /\ pc \in {"resolve", "analyse"} =>
             pc' = "exit" \/ pc' = "analyse" \/ (pc' = "attribute" /\ plan'.of = repo.work)
    BY <1>6 DEF ResolveDefinition, InCycle
  <2> QED BY <1>b, <1>d, <1>e, <2>1
<1>7. ASSUME Analyse PROVE Goal
  <2>1. /\ UNCHANGED <<repo, clock, start, snapshot, seen>> /\ pc = "analyse"
        /\ pc' = "exit" \/ pc' = "attribute"
    BY <1>7 DEF Analyse
  <2>2. plan'.of = repo.work
    BY <1>7 DEF Analyse
  <2>3. CASE pc' = "exit"
    BY <1>b, <1>d, <2>1, <2>3
  <2>4. CASE pc' = "attribute"
    BY <1>b, <1>e, <2>1, <2>2, <2>4 DEF InCycle
  <2> QED BY <2>1, <2>3, <2>4
<1>8. ASSUME Attribute PROVE Goal
  <2>1. /\ UNCHANGED <<repo, clock, start, snapshot, plan, seen>> /\ pc \in InCycle
        /\ pc' \in InCycle \cup {"exit"} /\ pc' # "recheck"
        /\ pc \in {"resolve", "analyse"} =>
             pc' = "exit" \/ pc' = "analyse" \/ (pc' = "attribute" /\ plan'.of = repo.work)
    BY <1>8 DEF Attribute, InCycle
  <2> QED BY <1>b, <1>d, <1>e, <2>1
<1>9. ASSUME Generate PROVE Goal
  <2>1. /\ UNCHANGED <<repo, clock, start, snapshot>> /\ pc = "generate"
        /\ pc' \in {"review", "render", "exit"} /\ plan'.of = plan.of
        /\ seen' = seen \cup {repo}
    BY <1>9 DEF Generate, TypeOK
  <2> QED BY <1>b, <1>d, <1>e, <2>1 DEF InCycle
<1>10. ASSUME Render PROVE Goal
  <2>1. /\ UNCHANGED <<repo, clock, start, snapshot, plan, seen>> /\ pc \in InCycle
        /\ pc' \in InCycle \cup {"exit"} /\ pc' # "recheck"
        /\ pc \in {"resolve", "analyse"} =>
             pc' = "exit" \/ pc' = "analyse" \/ (pc' = "attribute" /\ plan'.of = repo.work)
    BY <1>10 DEF Render, InCycle
  <2> QED BY <1>b, <1>d, <1>e, <2>1
<1>11. ASSUME Review PROVE Goal
  <2>1. /\ UNCHANGED <<repo, clock, start, snapshot, plan>> /\ pc = "review"
        /\ pc' \in {"authorize", "analyse", "exit"} /\ seen' = seen \cup {repo}
    BY <1>11 DEF Review
  <2> QED BY <1>b, <1>d, <1>e, <2>1 DEF InCycle
<1>12. ASSUME ReviewFails PROVE Goal
  <2>1. /\ UNCHANGED <<repo, clock, start, snapshot, plan, seen>> /\ pc \in InCycle
        /\ pc' \in InCycle \cup {"exit"} /\ pc' # "recheck"
        /\ pc \in {"resolve", "analyse"} =>
             pc' = "exit" \/ pc' = "analyse" \/ (pc' = "attribute" /\ plan'.of = repo.work)
    BY <1>12 DEF ReviewFails, InCycle
  <2> QED BY <1>b, <1>d, <1>e, <2>1
<1>13. ASSUME Authorize PROVE Goal
  <2>1. /\ UNCHANGED <<repo, clock, start, snapshot, plan, seen>> /\ pc \in InCycle
        /\ pc' \in InCycle \cup {"exit"} /\ pc' # "recheck"
        /\ pc \in {"resolve", "analyse"} =>
             pc' = "exit" \/ pc' = "analyse" \/ (pc' = "attribute" /\ plan'.of = repo.work)
    BY <1>13 DEF Authorize, BeginVerification, InCycle
  <2> QED BY <1>b, <1>d, <1>e, <2>1
<1>14. ASSUME AnswerAuthorize PROVE Goal
  <2>1. /\ UNCHANGED <<repo, clock, start, snapshot, plan, seen>> /\ pc \in InCycle
        /\ pc' \in InCycle \cup {"exit"} /\ pc' # "recheck"
        /\ pc \in {"resolve", "analyse"} =>
             pc' = "exit" \/ pc' = "analyse" \/ (pc' = "attribute" /\ plan'.of = repo.work)
    BY <1>14 DEF AnswerAuthorize, BeginVerification, InCycle
  <2> QED BY <1>b, <1>d, <1>e, <2>1
<1>15. ASSUME RunCommand PROVE Goal
  <2>1. /\ UNCHANGED <<start, snapshot, plan>> /\ pc = "verify"
        /\ pc' \in {"verify", "results"} /\ seen' = seen \cup {repo, repo'}
    BY <1>15 DEF RunCommand
  <2>2. Grows
    BY <1>15, RunCommandGrows
  <2> QED BY <1>e, <2>1, <2>2 DEF InCycle, Grows
<1>16. ASSUME EndVerification PROVE Goal
  <2>1. /\ UNCHANGED <<repo, clock, start, snapshot, plan, seen>> /\ pc \in InCycle
        /\ pc' \in InCycle \cup {"exit"} /\ pc' # "recheck"
        /\ pc \in {"resolve", "analyse"} =>
             pc' = "exit" \/ pc' = "analyse" \/ (pc' = "attribute" /\ plan'.of = repo.work)
    BY <1>16 DEF EndVerification, InCycle
  <2> QED BY <1>b, <1>d, <1>e, <2>1
<1>17. ASSUME PrintResults PROVE Goal
  <2>1. UNCHANGED <<start, snapshot, plan, seen>> /\ pc = "results"
    BY <1>17 DEF PrintResults
  <2>2. CASE Goto("after") /\ UNCHANGED <<repo, clock>>
    BY <1>b, <1>e, <2>1, <2>2 DEF InCycle
  <2>3. CASE \E code \in {Verification, Interrupted, Internal} : RestoreThen(Exit(code))
    BY <1>d, <2>1, <2>3, RestoreEnds, RestoreVersions
  <2> QED BY <1>17, <2>2, <2>3 DEF PrintResults
<1>18. ASSUME CaptureAfter PROVE Goal
  <2>1. /\ UNCHANGED <<repo, clock, start, snapshot, plan, seen>> /\ pc = "after"
        /\ pc' = "recheck" /\ after' \in {repo, Unknown}
    BY <1>18 DEF CaptureAfter
  <2> QED BY <1>b, <1>e, <2>1 DEF InCycle
<1>19. ASSUME Recheck PROVE Goal
  <2>1. start' = start /\ pc' \in {"exit", "ask", "commit"}
    BY <1>19 DEF Recheck, RestoreThen
  <2>2. Versions'
    BY <1>19, <1>b, <2>1, RestoreVersions DEF Recheck
  <2> QED BY <1>d, <2>1, <2>2
<1>20. ASSUME Ask PROVE Goal
  <2>1. UNCHANGED <<repo, clock, start>> /\ pc' \in {"exit", "again", "collect", "target", "confirm", "push"}
    BY <1>20 DEF Ask
  <2> QED BY <1>b, <1>d, <2>1
<1>21. ASSUME AskFails PROVE Goal
  <2>1. UNCHANGED <<repo, clock, start>> /\ pc' \in {"exit", "again", "collect", "target", "confirm", "push"}
    BY <1>21 DEF AskFails
  <2> QED BY <1>b, <1>d, <2>1
<1>22. ASSUME NewCycle PROVE Goal
  <2>1. UNCHANGED <<repo, clock, start>> /\ pc' \in {"exit", "again", "collect", "target", "confirm", "push"}
    BY <1>22 DEF NewCycle
  <2> QED BY <1>b, <1>d, <2>1
<1>23. ASSUME MakeCommit PROVE Goal
  <2>1. /\ start' = start /\ pc' = "commit" /\ clock' = clock + 1
        /\ repo' = [repo EXCEPT !.head = clock + 1, !.index = clock + 1]
    BY <1>23 DEF MakeCommit
  <2>2. \A part \in Parts : repo'[part] = repo[part] \/ repo'[part] = clock + 1
    BY <1>a, <2>1 DEF Repo, Parts
  <2>3. \A part \in Parts : repo[part] \in Nat /\ start[part] \in Nat
    BY <1>a, VersionType
  <2>4. Versions'
    BY <1>a, <2>1, <2>2, <2>3 DEF Versions
  <2> QED BY <1>d, <2>1, <2>4
<1>24. ASSUME CommitsSucceed PROVE Goal
  <2>1. UNCHANGED <<repo, clock, start>> /\ pc' \in {"exit", "again", "collect", "target", "confirm", "push"}
    BY <1>24 DEF CommitsSucceed
  <2> QED BY <1>b, <1>d, <2>1
<1>25. ASSUME CommitsStop PROVE Goal
  <2>1. start' = start /\ pc' = "exit"
    BY <1>25 DEF CommitsStop
  <2>2. CASE UNCHANGED <<repo, clock>>
    BY <1>b, <1>d, <2>1, <2>2
  <2>3. CASE Touch("index")
    BY <1>d, <2>1, <2>3, TouchGrows DEF Parts
  <2> QED BY <1>25, <2>2, <2>3 DEF CommitsStop
<1>26. ASSUME ResolveTarget PROVE Goal
  <2>1. UNCHANGED <<repo, clock, start>> /\ pc' \in {"exit", "again", "collect", "target", "confirm", "push"}
    BY <1>26 DEF ResolveTarget
  <2> QED BY <1>b, <1>d, <2>1
<1>27. ASSUME ConfirmPush PROVE Goal
  <2>1. UNCHANGED <<repo, clock, start>> /\ pc' \in {"exit", "again", "collect", "target", "confirm", "push"}
    BY <1>27 DEF ConfirmPush
  <2> QED BY <1>b, <1>d, <2>1
<1>28. ASSUME ConfirmFails PROVE Goal
  <2>1. UNCHANGED <<repo, clock, start>> /\ pc' \in {"exit", "again", "collect", "target", "confirm", "push"}
    BY <1>28 DEF ConfirmFails
  <2> QED BY <1>b, <1>d, <2>1
<1>29. ASSUME PushOnce PROVE Goal
  <2>1. UNCHANGED <<repo, clock, start>> /\ pc' \in {"exit", "again", "collect", "target", "confirm", "push"}
    BY <1>29 DEF PushOnce
  <2> QED BY <1>b, <1>d, <2>1
<1>30. ASSUME Environment PROVE Goal
  <2>1. UNCHANGED <<pc, start, snapshot, plan, seen, after>>
    BY <1>30
    DEF Environment, Others, EditFile, EditManifest, Stage, ForeignCommit, Cancel
  <2>2. Grows
    BY <1>30, EnvironmentGrows
  <2>3. CASE pc \in {"candidates", "build", "capture"}
    <3>1. \A part \in Selected : snapshot[part] <= repo[part] /\ repo[part] <= repo'[part]
      BY <2>2, <2>3 DEF SnapshotOlder, Grows, Older, Selected, Parts
    <3>2. \A part \in Selected : snapshot'[part] <= repo'[part]
      BY <1>a, <2>1, <3>1 DEF Selected, Repo
    <3> QED BY <2>1, <2>2, <2>3, <3>2 DEF SnapshotOlder, Grows
  <2>4. CASE pc \in InCycle
    <3>1. Between'
      BY <1>c, <2>1, <2>2, <2>4, BetweenKept DEF Grows
    <3>2. CASE pc \in {"resolve", "analyse"}
      BY <2>1, <2>2, <3>1, <3>2 DEF SnapshotOlder, Between, Grows
    <3>3. CASE pc \notin {"resolve", "analyse"}
      <4>1. snapshot'.work <= plan'.of /\ plan'.of <= repo'.work
        BY <2>1, <2>2, <2>4, <3>3, PlanKept DEF SnapshotOlder, InCycle, Grows
      <4> QED BY <2>1, <2>2, <2>4, <3>1, <3>3, <4>1 DEF SnapshotOlder, Between, InCycle, Grows
    <3> QED BY <3>2, <3>3
  <2>5. CASE pc \notin InCycle \cup {"candidates", "build", "capture"}
    BY <2>1, <2>2, <2>5 DEF SnapshotOlder, InCycle, Grows
  <2> QED BY <2>3, <2>4, <2>5
<1>31. CASE UNCHANGED vars
  BY <1>31 DEF vars, Versions, SnapshotOlder
<1> QED
  BY <1>1, <1>2, <1>3, <1>4, <1>5, <1>6, <1>7, <1>8, <1>9, <1>10, <1>11, <1>12,
     <1>13, <1>14, <1>15, <1>16, <1>17, <1>18, <1>19, <1>20, <1>21, <1>22, <1>23,
     <1>24, <1>25, <1>26, <1>27, <1>28, <1>29, <1>30, <1>31 DEF Next, Program, User

\* Every step keeps what the user agreed to.
LEMMA ConsentStep ==
  ASSUME TypeOK, ApprovedYet, TrustedYet, [Next]_vars
  PROVE  ApprovedYet' /\ TrustedYet'
<1> DEFINE Goal == ApprovedYet' /\ TrustedYet'
<1> USE DEF ApprovedYet, TrustedYet
<1>a. ASSUME pc' \notin {"render", "authorize", "verify", "results", "after", "recheck"}
      PROVE  Goal
  BY <1>a
<1>1. ASSUME Collect PROVE Goal
  BY <1>1 DEF Collect
<1>2. ASSUME AnswerCandidates PROVE Goal
  BY <1>2 DEF AnswerCandidates
<1>3. ASSUME CandidatesInterrupted PROVE Goal
  BY <1>3 DEF CandidatesInterrupted
<1>4. ASSUME BuildSnapshot PROVE Goal
  BY <1>4 DEF BuildSnapshot
<1>5. ASSUME CaptureState PROVE Goal
  BY <1>5 DEF CaptureState
<1>6. ASSUME ResolveDefinition PROVE Goal
  BY <1>6 DEF ResolveDefinition
<1>7. ASSUME Analyse PROVE Goal
  BY <1>7 DEF Analyse
<1>8. ASSUME Attribute PROVE Goal
  BY <1>8 DEF Attribute
<1>9. ASSUME Generate PROVE Goal
  BY <1>9 DEF Generate
<1>10. ASSUME Render PROVE Goal
  BY <1>10 DEF Render
<1>11. ASSUME Review PROVE Goal
  BY <1>11 DEF Review
<1>12. ASSUME ReviewFails PROVE Goal
  BY <1>12 DEF ReviewFails
<1>13. ASSUME Authorize PROVE Goal
  BY <1>13 DEF Authorize, BeginVerification, Trusts
<1>14. ASSUME AnswerAuthorize PROVE Goal
  BY <1>14 DEF AnswerAuthorize, BeginVerification, Trusts
<1>15. ASSUME RunCommand PROVE Goal
  BY <1>15 DEF RunCommand
<1>16. ASSUME EndVerification PROVE Goal
  BY <1>16 DEF EndVerification
<1>17. ASSUME PrintResults PROVE Goal
  BY <1>17 DEF PrintResults, RestoreThen
<1>18. ASSUME CaptureAfter PROVE Goal
  BY <1>18 DEF CaptureAfter
<1>19. ASSUME Recheck PROVE Goal
  BY <1>19 DEF Recheck, RestoreThen
<1>20. ASSUME Ask PROVE Goal
  BY <1>20 DEF Ask
<1>21. ASSUME AskFails PROVE Goal
  BY <1>21 DEF AskFails
<1>22. ASSUME NewCycle PROVE Goal
  BY <1>22 DEF NewCycle
<1>23. ASSUME MakeCommit PROVE Goal
  BY <1>23 DEF MakeCommit, Executor!Make
<1>24. ASSUME CommitsSucceed PROVE Goal
  BY <1>24 DEF CommitsSucceed, Executor!Succeed
<1>25. ASSUME CommitsStop PROVE Goal
  BY <1>25 DEF CommitsStop, Executor!Stop
<1>26. ASSUME ResolveTarget PROVE Goal
  BY <1>26 DEF ResolveTarget
<1>27. ASSUME ConfirmPush PROVE Goal
  BY <1>27 DEF ConfirmPush
<1>28. ASSUME ConfirmFails PROVE Goal
  BY <1>28 DEF ConfirmFails
<1>29. ASSUME PushOnce PROVE Goal
  BY <1>29 DEF PushOnce
<1>30. ASSUME Environment PROVE Goal
  BY <1>30
  DEF Environment, Others, EditFile, EditManifest, Stage, ForeignCommit, Cancel
<1>31. CASE UNCHANGED vars
  BY <1>31 DEF vars
<1> QED
  BY <1>1, <1>2, <1>3, <1>4, <1>5, <1>6, <1>7, <1>8, <1>9, <1>10, <1>11, <1>12,
     <1>13, <1>14, <1>15, <1>16, <1>17, <1>18, <1>19, <1>20, <1>21, <1>22, <1>23,
     <1>24, <1>25, <1>26, <1>27, <1>28, <1>29, <1>30, <1>31 DEF Next, Program, User

\* Nothing but the comparison after the verification leads to the commits.
LEMMA OnlyRecheck ==
  ASSUME TypeOK, Next, pc # "commit", pc' = "commit"
  PROVE  pc = "recheck" /\ after = start /\ SameSnapshot
BY DEF Next, Program, User, Environment, Collect, AnswerCandidates,
  CandidatesInterrupted, BuildSnapshot, CaptureState, ResolveDefinition, Analyse,
  Attribute, Generate, Render, Review, ReviewFails, Authorize, AnswerAuthorize,
  BeginVerification, RunCommand, EndVerification, PrintResults, RestoreThen,
  CaptureAfter, Recheck, Ask, AskFails, NewCycle, MakeCommit, CommitsSucceed,
  CommitsStop, ResolveTarget, ConfirmPush, ConfirmFails, PushOnce, Others, EditFile,
  EditManifest, Stage, ForeignCommit, Cancel


(* Commits start from one state of the repository, which the snapshot, the   *)
(* plan, the approval and the verification have seen, with the approved plan.*)
THEOREM CommitsStartFromOneState == Spec => OneState
<1> DEFINE Inv == TypeOK /\ Versions /\ SnapshotOlder /\ ApprovedYet /\ TrustedYet
<1>1. Init => Versions /\ SnapshotOlder /\ ApprovedYet /\ TrustedYet
  BY DEF Init, Versions, SnapshotOlder, ApprovedYet, TrustedYet, Parts
<1>2. Inv /\ [Next]_vars => Inv'
  BY TypeStep, SnapshotStep, ConsentStep
<1>3. ASSUME Inv, Next, pc # "commit", pc' = "commit"
      PROVE  /\ seen = {start}
             /\ \A part \in {"head", "index", "work"} : start[part] = snapshot[part]
             /\ plan.of = snapshot.work
             /\ mode.confirm => approved = plan
  <2>1. pc = "recheck" /\ after = start /\ SameSnapshot
    BY <1>3, OnlyRecheck
  <2>2. /\ repo \in Repo /\ start \in Repo /\ snapshot \in Repo /\ seen \subseteq Repo
        /\ plan.of \in Nat
    BY <1>3 DEF TypeOK
  <2>3. /\ \A part \in Selected : snapshot[part] <= start[part]
        /\ start \in seen /\ \A r \in seen : Older(start, r) /\ Older(r, repo)
        /\ snapshot.work <= plan.of /\ plan.of <= repo.work
        /\ after = Unknown \/ \A r \in seen : Older(r, after)
    BY <1>3, <2>1 DEF SnapshotOlder
  <2>4. after # Unknown
    BY <2>1, <2>2 DEF Repo, Unknown
  <2>5. \A r \in seen : r = start
    BY <2>1, <2>2, <2>3, <2>4, OlderOrder
  <2>6. ASSUME NEW part \in Selected PROVE start[part] = snapshot[part]
    <3>1. snapshot[part] \in Nat /\ start[part] \in Nat /\ repo[part] = snapshot[part]
      BY <2>1, <2>2, VersionType DEF Selected, Parts, SameSnapshot
    <3>2. snapshot[part] <= start[part] /\ start[part] <= repo[part]
      BY <2>3 DEF Older, Selected, Parts
    <3> QED BY <3>1, <3>2
  <2>7. plan.of = snapshot.work
    <3>1. repo["work"] = snapshot["work"] /\ snapshot["work"] \in Nat
      BY <2>1, <2>2, VersionType DEF SameSnapshot, Parts
    <3> QED BY <2>2, <2>3, <3>1
  <2>8. mode.confirm => approved = plan
    BY <1>3, <2>1 DEF ApprovedYet
  <2> QED BY <2>3, <2>5, <2>6, <2>7, <2>8 DEF Selected
<1>4. Inv /\ [Next]_vars =>
        [pc # "commit" /\ pc' = "commit" =>
           /\ seen = {start}
           /\ \A part \in {"head", "index", "work"} : start[part] = snapshot[part]
           /\ plan.of = snapshot.work
           /\ mode.confirm => approved = plan]_vars
  BY <1>3
<1> HIDE DEF Inv
<1>5. Spec => []Inv
  <2>1. Init => Inv
    BY <1>1, InitType DEF Inv
  <2> QED BY <1>2, <2>1, PTL DEF Spec
<1> QED BY <1>4, <1>5, PTL DEF Spec, OneState

(* No verification command runs whose definition is not the trusted one.     *)
THEOREM CommandsTrusted == Spec => OnlyTrustedDefinitions
<1> DEFINE Inv == TypeOK /\ ApprovedYet /\ TrustedYet
<1>1. Init => Inv
  BY InitType DEF Init, ApprovedYet, TrustedYet
<1>2. Inv /\ [Next]_vars => Inv'
  BY TypeStep, ConsentStep
<1>3. Inv /\ [Next]_vars => [RunCommand => body = trusted]_vars
  BY DEF RunCommand, TrustedYet
<1> HIDE DEF Inv
<1>4. Spec => []Inv
  BY <1>1, <1>2, PTL DEF Spec
<1> QED BY <1>3, <1>4, PTL DEF Spec, OnlyTrustedDefinitions
=============================================================================
