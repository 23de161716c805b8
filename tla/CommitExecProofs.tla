-------------------------- MODULE CommitExecProofs --------------------------
(* Theorems about CommitExec for every repository, plan and bound.           *)
EXTENDS CommitExec, FiniteSetTheorems, WellFoundedInduction, TLAPS

USE DEF git, input, progress, staging, heads, outcome

(* What Collect reports are changes between the paths and the contents.      *)
LEMMA DetectType ==
  ASSUME NEW h \in Tree, NEW i \in Tree, NEW w \in Tree
  PROVE  Detect(h, i, w) \subseteq Change
<1> DEFINE R == Renames(h, i)
<1>1. R \subseteq Path \X Path
  BY DEF Renames, RenameCandidates
<1>2. \A r \in R : [old |-> r[1], new |-> r[2], base |-> h[r[1]], work |-> w[r[2]]] \in Change
  BY <1>1 DEF Change, Tree
<1>3. \A p \in Path : \A u \in BOOLEAN : PathChange(p, h, w, u) \in Change
  BY DEF PathChange, Change, Tree, Entry
<1>4. {r[1] : r \in R} \subseteq Path
  BY <1>1
<1> HIDE DEF R
<1> QED
  BY <1>2, <1>3, <1>4 DEF Detect, R

\* The paths of a change are repository paths.
LEMMA PathsType == ASSUME NEW c \in Change PROVE Paths(c) \subseteq Path
BY DEF Paths, Change

\* So are those of a set of changes.
LEMMA PathsOfType ==
  ASSUME NEW C, C \subseteq Change PROVE PathsOf(C) \subseteq Path
BY PathsType DEF PathsOf

\* The plans Execute is called with are sequences of sets of changes.
LEMMA PlansType ==
  ASSUME NEW C, NEW pl \in Plans(C)
  PROVE  pl \in Seq(SUBSET C)
<1>1. PICK n \in 1 .. MaxCommits : pl \in [1 .. n -> SUBSET C]
  BY DEF Plans
<1> QED
  BY <1>1, ConstantsOK

\* The first state is well typed.
LEMMA InitType == Init => TypeOK
<1> SUFFICES ASSUME Init PROVE TypeOK
  OBVIOUS
<1>1. PICK s \in Starts :
        /\ log = <<[tree |-> s.head, own |-> FALSE]>>
        /\ index = s.index /\ worktree = s.worktree
        /\ changes \subseteq Detect(s.head, s.index, s.worktree)
  BY DEF Init
<1>2. s.head \in Tree /\ s.index \in Tree /\ s.worktree \in Tree
  BY ConstantsOK
<1>3. changes \subseteq Change
  BY <1>1, <1>2, DetectType
<1>4. plan \in Seq(SUBSET changes)
  BY PlansType DEF Init
<1>5. log \in Seq([tree : Tree, own : BOOLEAN]) /\ Len(log) = 1
  BY <1>1, <1>2
<1>6. /\ pc = "save" /\ k = 1
      /\ original = index /\ tmp = index /\ toAdd = {}
      /\ parent = 1 /\ gitParent = 1 /\ unread = FALSE
      /\ assigned = {} /\ committed = {} /\ created = FALSE /\ hashes = <<>>
      /\ result = "none" /\ restored = "no"
      /\ cancelled = FALSE /\ budget = Budget /\ edited = {}
  BY DEF Init
<1>7. budget \in 0 .. Budget
  BY <1>6, ConstantsOK
<1>8. index \in Tree /\ worktree \in Tree /\ original \in Tree /\ tmp \in Tree
  BY <1>1, <1>2, <1>6
<1>9. hashes \in Seq(Nat)
  BY <1>6
<1>10. /\ pc \in Labels /\ k \in Nat \ {0}
       /\ toAdd \subseteq Path /\ committed \subseteq Path /\ edited \subseteq Path
       /\ parent \in Nat /\ gitParent \in Nat
       /\ assigned \subseteq changes
       /\ result \in {"none", "plain", "safety", "interrupted", "success"}
       /\ restored \in {"no", "yes", "unknown"}
  BY <1>6 DEF Labels
<1>11. created \in BOOLEAN /\ cancelled \in BOOLEAN /\ unread \in BOOLEAN
  BY <1>6, Zenon
<1> QED
  BY <1>3, <1>4, <1>5, <1>7, <1>8, <1>9, <1>10, <1>11 DEF TypeOK

\* Between the head of the loop and the end of its body, k is a plan entry.
InPlan == pc \in Labels \ {"save", "commit", "restore", "done"} => k <= Len(plan)

\* There is a HEAD, and it is a tree.
LEMMA HeadType == TypeOK => HeadTree \in Tree /\ Len(log) \in Nat
<1> SUFFICES ASSUME TypeOK PROVE HeadTree \in Tree /\ Len(log) \in Nat
  OBVIOUS
<1> DEFINE C == [tree : Tree, own : BOOLEAN]
<1>1. log \in Seq(C) /\ Len(log) >= 1
  BY DEF TypeOK
<1> HIDE DEF C
<1>2. log[Len(log)] \in C /\ Len(log) \in Nat
  BY <1>1
<1> USE DEF C
<1> QED
  BY <1>1, <1>2 DEF HeadTree

\* A tree holds an entry at every path.
LEMMA EntryType == ASSUME NEW t \in Tree, NEW p \in Path PROVE t[p] \in Entry
BY DEF Tree

\* git add of one path makes a tree of a tree.
LEMMA UpdateType ==
  ASSUME NEW t \in Tree, NEW p \in Path, NEW v \in Entry
  PROVE  [t EXCEPT ![p] = v] \in Tree
BY DEF Tree

\* What restoreOutOfScopeIndex writes is a tree.
LEMMA RetainedType == TypeOK => Retained(committed) \in Tree
BY HeadType DEF TypeOK, Retained, Tree

\* The paths of a planned commit are repository paths.
LEMMA PlanPathsType ==
  ASSUME TypeOK, k <= Len(plan) PROVE PlanPaths(k) \subseteq Path
<1>1. plan[k] \subseteq Change
  BY DEF TypeOK
<1> QED
  BY <1>1, PathsOfType DEF PlanPaths

\* Interference never overdraws its bound.
LEMMA BudgetType ==
  ASSUME TypeOK, budget > 0 PROVE budget - 1 \in 0 .. Budget
BY ConstantsOK DEF TypeOK

\* Every step of Execute and of its environment keeps the types.
LEMMA TypeStep == TypeOK /\ InPlan /\ [Next]_vars => TypeOK' /\ InPlan'
<1> SUFFICES ASSUME TypeOK, InPlan, [Next]_vars PROVE TypeOK' /\ InPlan'
  OBVIOUS
<1>a. HeadTree \in Tree /\ Len(log) \in Nat /\ Retained(committed) \in Tree
  BY HeadType, RetainedType
<1>b. pc \in Labels \ {"save", "commit", "restore", "done"} =>
        k <= Len(plan) /\ PlanPaths(k) \subseteq Path
  BY PlanPathsType DEF InPlan
<1>c. budget > 0 => budget - 1 \in 0 .. Budget
  BY BudgetType
<1> USE DEF TypeOK, InPlan, Labels, Fail, Goto, Fault, Interfere
<1>1. CASE SaveIndex
  BY <1>a, <1>b, <1>c, <1>1 DEF SaveIndex
<1>2. CASE SaveIndexFails
  BY <1>a, <1>b, <1>c, <1>2 DEF SaveIndexFails
<1>3. CASE NextCommit
  BY <1>a, <1>b, <1>c, <1>3 DEF NextCommit
<1>4. CASE Interrupted
  BY <1>a, <1>b, <1>c, <1>4 DEF Interrupted
<1>5. CASE Finish
  BY <1>a, <1>b, <1>c, <1>5 DEF Finish
<1>6. CASE Verify
  BY <1>a, <1>b, <1>c, <1>6 DEF Verify
<1>7. CASE ResetIndex
  BY <1>a, <1>b, <1>c, <1>7 DEF ResetIndex
<1>8. CASE ReadTree
  BY <1>a, <1>b, <1>c, <1>8 DEF ReadTree
<1>9. CASE AddPath
  <2>1. tmp' \in Tree /\ toAdd' \subseteq Path
    <3>1. PICK p \in Path :
            /\ tmp' = [tmp EXCEPT ![p] = worktree[p]] \/ tmp' = tmp
            /\ toAdd' \subseteq toAdd
      BY <1>9 DEF AddPath
    <3>2. tmp \in Tree /\ worktree \in Tree /\ toAdd \subseteq Path
      BY DEF TypeOK
    <3> HIDE DEF TypeOK
    <3>3. worktree[p] \in Entry
      BY <3>2, EntryType
    <3> QED
      BY <3>1, <3>2, <3>3, UpdateType
  <2> QED
    BY <1>b, <1>c, <1>9, <2>1 DEF AddPath
<1>10. CASE InstallIndex
  BY <1>a, <1>b, <1>c, <1>10 DEF InstallIndex
<1>11. CASE ReadParent
  BY <1>a, <1>b, <1>c, <1>11 DEF ReadParent
<1>12. CASE StartGitCommit
  BY <1>a, <1>b, <1>c, <1>12 DEF StartGitCommit
<1>13. CASE GitCommits
  BY <1>a, <1>b, <1>c, <1>13 DEF GitCommits
<1>14. CASE GitCommitFails
  BY <1>a, <1>b, <1>c, <1>14 DEF GitCommitFails
<1>15. CASE AfterFailedCommit
  <2>1. created' \in BOOLEAN
    BY <1>15, Zenon DEF AfterFailedCommit
  <2>2. hashes' \in Seq(Nat)
    <3>1. hashes' = hashes \/ hashes' = Append(hashes, Len(log))
      BY <1>15 DEF AfterFailedCommit
    <3>2. hashes \in Seq(Nat)
      BY DEF TypeOK
    <3> HIDE DEF TypeOK
    <3> QED
      BY <1>a, <3>1, <3>2
  <2>3. committed' \subseteq Path
    BY <1>b, <1>15 DEF AfterFailedCommit
  <2> QED
    BY <1>c, <1>15, <2>1, <2>2, <2>3 DEF AfterFailedCommit
<1>16. CASE AfterCommit
  <2>1. created' \in BOOLEAN
    BY <1>16, Zenon DEF AfterCommit
  <2>2. hashes' \in Seq(Nat)
    <3>1. hashes' = hashes \/ hashes' = Append(hashes, Len(log))
      BY <1>16 DEF AfterCommit
    <3>2. hashes \in Seq(Nat)
      BY DEF TypeOK
    <3> HIDE DEF TypeOK
    <3> QED
      BY <1>a, <3>1, <3>2
  <2>3. committed' \subseteq Path
    BY <1>b, <1>16 DEF AfterCommit
  <2> QED
    BY <1>c, <1>16, <2>1, <2>2, <2>3 DEF AfterCommit
<1>17. CASE RetainIndex
  BY <1>a, <1>b, <1>c, <1>17 DEF RetainIndex
<1>18. CASE ReportHookOutput
  BY <1>a, <1>b, <1>c, <1>18 DEF ReportHookOutput
<1>19. CASE Restore
  BY <1>a, <1>b, <1>c, <1>19 DEF Restore
<1>20. CASE EditFile
  <2>1. worktree' \in Tree /\ edited' \subseteq Path
    <3>1. PICK p \in Path, v \in Entry :
            /\ worktree' = [worktree EXCEPT ![p] = v]
            /\ edited' = edited \cup {p}
      BY <1>20 DEF EditFile
    <3>2. index \in Tree /\ worktree \in Tree /\ edited \subseteq Path
      BY DEF TypeOK
    <3> HIDE DEF TypeOK
    <3>3. worktree[p] \in Entry
      BY <3>2, EntryType
    <3> QED
      BY <3>1, <3>2, <3>3, UpdateType
  <2> QED
    BY <1>c, <1>20, <2>1 DEF EditFile
<1>21. CASE StagePath
  <2>1. index' \in Tree /\ edited' \subseteq Path
    <3>1. PICK p \in Path :
            /\ index' = [index EXCEPT ![p] = worktree[p]]
            /\ edited' = edited \cup {p}
      BY <1>21 DEF StagePath
    <3>2. index \in Tree /\ worktree \in Tree /\ edited \subseteq Path
      BY DEF TypeOK
    <3> HIDE DEF TypeOK
    <3>3. worktree[p] \in Entry
      BY <3>2, EntryType
    <3> QED
      BY <3>1, <3>2, <3>3, UpdateType
  <2> QED
    BY <1>c, <1>21, <2>1 DEF StagePath
<1>22. CASE ForeignCommit
  BY <1>a, <1>b, <1>c, <1>22 DEF ForeignCommit
<1>23. CASE Cancel
  BY <1>a, <1>b, <1>c, <1>23 DEF Cancel
<1>24. CASE UNCHANGED vars
  BY <1>24 DEF vars
<1> QED
  BY <1>1, <1>2, <1>3, <1>4, <1>5, <1>6, <1>7, <1>8, <1>9, <1>10, <1>11, <1>12, <1>13, <1>14, <1>15, <1>16, <1>17, <1>18, <1>19, <1>20, <1>21, <1>22, <1>23, <1>24 DEF Next, Execute, Environment

(* Type correctness, and the loop position inside its body.                  *)
THEOREM TypeCorrect == Spec => []TypeOK
<1>1. Init => TypeOK /\ InPlan
  BY InitType DEF Init, InPlan
<1>2. TypeOK /\ InPlan /\ [Next]_vars => TypeOK' /\ InPlan'
  BY TypeStep
<1> QED
  BY <1>1, <1>2, PTL DEF Spec
-----------------------------------------------------------------------------
(* The index at rest.  Outside the body of the loop the index is the saved   *)
(* one with HEAD's entries for the committed paths: this is what RetainIndex *)
(* establishes, what the loop head keeps, and what Restore re-establishes.   *)
IndexInv ==
  /\ pc = "save" => original = index /\ committed = {}
  /\ ~created => committed = {}
  /\ pc \in {"commit", "report"} => index = Retained(committed)
  /\ IndexAtRest

\* Without a commit the index to restore is the saved one.
LEMMA RetainedNothing == TypeOK => Retained({}) = original
BY DEF TypeOK, Retained, Tree

\* A commit of the index makes HEAD the index, so nothing has to move.
LEMMA RetainedAfterCommit ==
  ASSUME TypeOK, log' = Append(log, [tree |-> index, own |-> FALSE]),
         original' = original, committed' = committed,
         index = Retained(committed)
  PROVE  Retained(committed)' = index
<1> DEFINE C == [tree : Tree, own : BOOLEAN]
<1>1. log \in Seq(C) /\ [tree |-> index, own |-> FALSE] \in C /\ index \in Tree
  BY Zenon DEF TypeOK
<1> HIDE DEF C
<1>2. HeadTree' = index
  BY <1>1 DEF HeadTree
<1>3. \A p \in Path : p \notin committed => index[p] = original[p]
  BY DEF Retained
<1> QED
  BY <1>1, <1>2, <1>3 DEF Retained, Tree

\* Every step keeps the control points at which the index is known.
LEMMA IndexStep ==
  ASSUME StageAt \cap {"save", "commit", "report"} = {},
         TypeOK, TypeOK', IndexInv, [Next]_vars
  PROVE  IndexInv'
<1>a. Retained({}) = original
  BY RetainedNothing
<1>b. log' = log /\ original' = original /\ committed' = committed
        => Retained(committed)' = Retained(committed)
  BY DEF Retained, HeadTree
<1> USE DEF IndexInv, IndexAtRest, Fail, Goto, Fault, Interfere
<1>1. CASE SaveIndex
  BY <1>a, <1>b, <1>1 DEF SaveIndex
<1>2. CASE SaveIndexFails
  BY <1>a, <1>b, <1>2 DEF SaveIndexFails
<1>3. CASE NextCommit
  BY <1>a, <1>b, <1>3 DEF NextCommit
<1>4. CASE Interrupted
  BY <1>a, <1>b, <1>4 DEF Interrupted
<1>5. CASE Finish
  BY <1>a, <1>b, <1>5 DEF Finish
<1>6. CASE Verify
  BY <1>a, <1>b, <1>6 DEF Verify
<1>7. CASE ResetIndex
  BY <1>a, <1>b, <1>7 DEF ResetIndex
<1>8. CASE ReadTree
  BY <1>a, <1>b, <1>8 DEF ReadTree
<1>9. CASE AddPath
  BY <1>a, <1>b, <1>9 DEF AddPath
<1>10. CASE InstallIndex
  BY <1>a, <1>b, <1>10 DEF InstallIndex
<1>11. CASE ReadParent
  BY <1>a, <1>b, <1>11 DEF ReadParent
<1>12. CASE StartGitCommit
  BY <1>a, <1>b, <1>12 DEF StartGitCommit
<1>13. CASE GitCommits
  BY <1>a, <1>b, <1>13 DEF GitCommits
<1>14. CASE GitCommitFails
  BY <1>a, <1>b, <1>14 DEF GitCommitFails
<1>15. CASE AfterFailedCommit
  BY <1>a, <1>b, <1>15 DEF AfterFailedCommit
<1>16. CASE AfterCommit
  BY <1>a, <1>b, <1>16 DEF AfterCommit
<1>17. CASE RetainIndex
  BY <1>a, <1>b, <1>17 DEF RetainIndex
<1>18. CASE ReportHookOutput
  BY <1>a, <1>b, <1>18 DEF ReportHookOutput
<1>19. CASE Restore
  BY <1>a, <1>b, <1>19 DEF Restore
<1>20. CASE EditFile
  BY <1>a, <1>b, <1>20 DEF EditFile
<1>21. CASE StagePath
  BY <1>a, <1>b, <1>21 DEF StagePath
<1>22. CASE ForeignCommit
  <2>1. /\ pc' = pc /\ pc # "done" /\ index' = index /\ original' = original
        /\ committed' = committed /\ created' = created
        /\ log' = Append(log, [tree |-> index, own |-> FALSE])
    BY <1>22 DEF ForeignCommit
  <2>2. index = Retained(committed) => Retained(committed)' = index
    BY <2>1, RetainedAfterCommit
  <2> QED
    BY <2>1, <2>2
<1>23. CASE Cancel
  BY <1>a, <1>b, <1>23 DEF Cancel
<1>24. CASE UNCHANGED vars
  BY <1>b, <1>24 DEF vars
<1> QED
  BY <1>1, <1>2, <1>3, <1>4, <1>5, <1>6, <1>7, <1>8, <1>9, <1>10, <1>11, <1>12, <1>13, <1>14, <1>15, <1>16, <1>17, <1>18, <1>19, <1>20, <1>21, <1>22, <1>23, <1>24 DEF Next, Execute, Environment

(* Whoever shares the repository, as long as nobody stages while Execute     *)
(* stands at the head of its loop: a return that reports the restoration     *)
(* leaves the saved index, with HEAD's entries for the committed paths.      *)
THEOREM IndexRestored ==
  ASSUME StageAt \cap {"save", "commit", "report"} = {}
  PROVE  Spec => []IndexAtRest
<1>1. Init => TypeOK /\ InPlan /\ IndexInv
  <2>1. Init => TypeOK /\ InPlan
    BY InitType DEF Init, InPlan
  <2>2. Init => IndexInv
    BY DEF Init, IndexInv, IndexAtRest
  <2> QED
    BY <2>1, <2>2
<1>2. TypeOK /\ InPlan /\ IndexInv /\ [Next]_vars => TypeOK' /\ InPlan' /\ IndexInv'
  BY TypeStep, IndexStep
<1>3. IndexInv => IndexAtRest
  BY DEF IndexInv
<1> QED
  BY <1>1, <1>2, <1>3, PTL DEF Spec
-----------------------------------------------------------------------------
(* The plan and the commits reported.                                        *)

\* The plan entries whose commit is reported, and those that are assigned,
\* while Execute has not failed.
ReportedInOrder == IF pc \in {"retain", "report"} THEN k ELSE k - 1
Taken == IF pc \in {"save", "commit", "done"} THEN k - 1 ELSE k
OnCourse == pc \notin {"restore", "done"} \/ result = "success"

InLog == \A i \in 1 .. Len(hashes) : hashes[i] \in 2 .. Len(log)
Exact == \A i \in 1 .. Len(hashes) : Diff(hashes[i]) = PathsOf(plan[i])
\* The first m plan entries are assigned, and so far they are a partition.
Partition(m) ==
  /\ assigned = UNION {plan[n] : n \in 1 .. m}
  /\ \A n \in 1 .. m : plan[n] # {}
  /\ \A j, n \in 1 .. m : j # n => plan[j] \cap plan[n] = {}

PositionInv ==
  /\ parent \in 1 .. Len(log) /\ (pc = "head" => Len(log) >= 2)
  /\ k <= Len(plan) + 1 /\ (pc = "save" => k = 1)
  /\ result = "success" => pc = "done" /\ k = Len(plan) + 1 /\ assigned = changes

PlanInv ==
  /\ InLog /\ PositionInv
  /\ OnCourse => Len(hashes) = ReportedInOrder /\ Exact /\ Partition(Taken)

\* Commits are never rewritten.
LEMMA LogGrows ==
  ASSUME TypeOK, [Next]_vars
  PROVE  /\ Len(log') >= Len(log)
         /\ \A n \in 1 .. Len(log) : log'[n] = log[n]
<1>1. log' = log \/ \E r : log' = Append(log, r)
  BY DEF Next, Execute, Environment, vars, SaveIndex, SaveIndexFails, NextCommit, Interrupted, Finish, Verify, ResetIndex, ReadTree, AddPath, InstallIndex, ReadParent, StartGitCommit, GitCommits, GitCommitFails, AfterFailedCommit, AfterCommit, RetainIndex, ReportHookOutput, Restore, EditFile, StagePath, ForeignCommit, Cancel
<1>2. log \in Seq([tree : Tree, own : BOOLEAN])
  BY DEF TypeOK
<1>3. CASE log' = log
  BY <1>2, <1>3
<1>4. ASSUME NEW r, log' = Append(log, r)
      PROVE  Len(log') >= Len(log) /\ \A n \in 1 .. Len(log) : log'[n] = log[n]
  BY <1>2, <1>4
<1> QED
  BY <1>1, <1>3, <1>4

\* What a reported commit holds does not change.
LEMMA HashesKept ==
  ASSUME TypeOK, [Next]_vars, InLog, hashes' = hashes, plan' = plan
  PROVE  InLog' /\ (Exact => Exact')
<1>1. /\ Len(log') >= Len(log) /\ Len(log) \in Nat /\ Len(log') \in Int
      /\ \A n \in 1 .. Len(log) : log'[n] = log[n]
  BY LogGrows DEF TypeOK
<1>2. hashes \in Seq(Nat)
  BY DEF TypeOK
<1>3. InLog'
  BY <1>1, <1>2 DEF InLog
<1>4. \A h \in 2 .. Len(log) : Differ(log'[h - 1].tree, log'[h].tree)
                               = Differ(log[h - 1].tree, log[h].tree)
  BY <1>1
<1>5. ASSUME Exact PROVE Exact'
  BY <1>2, <1>4, <1>5 DEF Exact, InLog, Diff
<1> QED
  BY <1>3, <1>5

\* A reported hash adds the diff of the commit it names, and changes no other.
LEMMA HashAdded ==
  ASSUME TypeOK, InLog, Len(log) >= 2, log' = log, plan' = plan,
         hashes' = Append(hashes, Len(log))
  PROVE  /\ InLog' /\ Len(hashes') = Len(hashes) + 1
         /\ Exact /\ Diff(Len(log)) = PathsOf(plan[Len(hashes) + 1]) => Exact'
<1>1. hashes \in Seq(Nat) /\ Len(log) \in Nat
  BY DEF TypeOK
<1>2. /\ Len(hashes') = Len(hashes) + 1 /\ hashes'[Len(hashes) + 1] = Len(log)
      /\ \A i \in 1 .. Len(hashes) : hashes'[i] = hashes[i]
  BY <1>1
<1>3. InLog'
  BY <1>1, <1>2 DEF InLog
<1>4. ASSUME Exact, Diff(Len(log)) = PathsOf(plan[Len(hashes) + 1])
      PROVE  Exact'
  <2> SUFFICES ASSUME NEW i \in 1 .. Len(hashes') 
               PROVE  Differ(log[hashes'[i] - 1].tree, log[hashes'[i]].tree)
                      = PathsOf(plan[i])
    BY DEF Exact, Diff
  <2>1. CASE i = Len(hashes) + 1
    BY <1>2, <1>4, <2>1 DEF Diff
  <2>2. CASE i \in 1 .. Len(hashes)
    BY <1>2, <1>4, <2>2 DEF Diff, Exact
  <2>3. Len(hashes) \in Nat /\ Len(hashes') = Len(hashes) + 1
    BY <1>1, <1>2
  <2>4. i = Len(hashes) + 1 \/ i \in 1 .. Len(hashes)
    BY <2>3
  <2> QED
    BY <2>1, <2>2, <2>4
<1> QED
  BY <1>2, <1>3, <1>4

\* Every step keeps the number of reported commits at the position in the plan.
LEMMA PositionStep ==
  ASSUME TypeOK, TypeOK', InPlan, PositionInv, [Next]_vars
  PROVE  PositionInv'
<1>a. Len(log') >= Len(log)
  BY LogGrows
<1>b. /\ k \in Nat /\ Len(log) \in Nat /\ Len(log') \in Nat /\ Len(plan) \in Nat
      /\ Len(log) >= 1
      /\ pc \in Labels \ {"save", "commit", "restore", "done"} => k <= Len(plan)
  BY DEF TypeOK, InPlan
<1>c. \A r : log' = Append(log, r) => Len(log') = Len(log) + 1
  BY DEF TypeOK
<1> USE DEF PositionInv, Labels, Fail, Goto, Fault, Interfere
<1>1. CASE SaveIndex
  BY <1>a, <1>b, <1>c, <1>1 DEF SaveIndex
<1>2. CASE SaveIndexFails
  BY <1>a, <1>b, <1>c, <1>2 DEF SaveIndexFails
<1>3. CASE NextCommit
  BY <1>a, <1>b, <1>c, <1>3 DEF NextCommit
<1>4. CASE Interrupted
  BY <1>a, <1>b, <1>c, <1>4 DEF Interrupted
<1>5. CASE Finish
  BY <1>a, <1>b, <1>c, <1>5 DEF Finish
<1>6. CASE Verify
  BY <1>a, <1>b, <1>c, <1>6 DEF Verify
<1>7. CASE ResetIndex
  BY <1>a, <1>b, <1>c, <1>7 DEF ResetIndex
<1>8. CASE ReadTree
  BY <1>a, <1>b, <1>c, <1>8 DEF ReadTree
<1>9. CASE AddPath
  BY <1>a, <1>b, <1>c, <1>9 DEF AddPath
<1>10. CASE InstallIndex
  BY <1>a, <1>b, <1>c, <1>10 DEF InstallIndex
<1>11. CASE ReadParent
  BY <1>a, <1>b, <1>c, <1>11 DEF ReadParent
<1>12. CASE StartGitCommit
  BY <1>a, <1>b, <1>c, <1>12 DEF StartGitCommit
<1>13. CASE GitCommits
  BY <1>a, <1>b, <1>c, <1>13 DEF GitCommits
<1>14. CASE GitCommitFails
  BY <1>a, <1>b, <1>c, <1>14 DEF GitCommitFails
<1>15. CASE AfterFailedCommit
  BY <1>a, <1>b, <1>c, <1>15 DEF AfterFailedCommit
<1>16. CASE AfterCommit
  BY <1>a, <1>b, <1>c, <1>16 DEF AfterCommit
<1>17. CASE RetainIndex
  BY <1>a, <1>b, <1>c, <1>17 DEF RetainIndex
<1>18. CASE ReportHookOutput
  BY <1>a, <1>b, <1>c, <1>18 DEF ReportHookOutput
<1>19. CASE Restore
  BY <1>a, <1>b, <1>c, <1>19 DEF Restore
<1>20. CASE EditFile
  BY <1>a, <1>b, <1>c, <1>20 DEF EditFile
<1>21. CASE StagePath
  BY <1>a, <1>b, <1>c, <1>21 DEF StagePath
<1>22. CASE ForeignCommit
  BY <1>a, <1>b, <1>c, <1>22 DEF ForeignCommit
<1>23. CASE Cancel
  BY <1>a, <1>b, <1>c, <1>23 DEF Cancel
<1>24. CASE UNCHANGED vars
  BY <1>a, <1>b, <1>24 DEF vars
<1> QED
  BY <1>1, <1>2, <1>3, <1>4, <1>5, <1>6, <1>7, <1>8, <1>9, <1>10, <1>11, <1>12, <1>13, <1>14, <1>15, <1>16, <1>17, <1>18, <1>19, <1>20, <1>21, <1>22, <1>23, <1>24 DEF Next, Execute, Environment

\* A step that leaves the plan, the assignment and the hashes alone either
\* stays on course at the same place or leaves the course.
Steady ==
  /\ UNCHANGED <<hashes, plan, assigned>>
  /\ OnCourse' => OnCourse /\ ReportedInOrder' = ReportedInOrder /\ Taken' = Taken

\* Only NextCommit and the two steps that report a commit disturb the bookkeeping
\* of the loop.
LEMMA SteadyStep ==
  ASSUME TypeOK, TypeOK', PositionInv, [Next]_vars
  PROVE  Steady \/ NextCommit \/ AfterFailedCommit \/ AfterCommit
<1>b. k \in Nat
  BY DEF TypeOK
<1> USE DEF Steady, OnCourse, ReportedInOrder, Taken, PositionInv, Fail, Goto, Interfere
<1>1. CASE SaveIndex
  BY <1>b, <1>1 DEF SaveIndex
<1>2. CASE SaveIndexFails
  BY <1>b, <1>2 DEF SaveIndexFails
<1>3. CASE Interrupted
  BY <1>b, <1>3 DEF Interrupted
<1>4. CASE Finish
  BY <1>b, <1>4 DEF Finish
<1>5. CASE Verify
  BY <1>b, <1>5 DEF Verify
<1>6. CASE ResetIndex
  BY <1>b, <1>6 DEF ResetIndex
<1>7. CASE ReadTree
  BY <1>b, <1>7 DEF ReadTree
<1>8. CASE AddPath
  BY <1>b, <1>8 DEF AddPath
<1>9. CASE InstallIndex
  BY <1>b, <1>9 DEF InstallIndex
<1>10. CASE ReadParent
  BY <1>b, <1>10 DEF ReadParent
<1>11. CASE StartGitCommit
  BY <1>b, <1>11 DEF StartGitCommit
<1>12. CASE GitCommits
  BY <1>b, <1>12 DEF GitCommits
<1>13. CASE GitCommitFails
  BY <1>b, <1>13 DEF GitCommitFails
<1>14. CASE RetainIndex
  BY <1>b, <1>14 DEF RetainIndex
<1>15. CASE ReportHookOutput
  BY <1>b, <1>15 DEF ReportHookOutput
<1>16. CASE Restore
  BY <1>b, <1>16 DEF Restore
<1>17. CASE EditFile
  BY <1>b, <1>17 DEF EditFile
<1>18. CASE StagePath
  BY <1>b, <1>18 DEF StagePath
<1>19. CASE ForeignCommit
  BY <1>b, <1>19 DEF ForeignCommit
<1>20. CASE Cancel
  BY <1>b, <1>20 DEF Cancel
<1>21. CASE UNCHANGED vars
  BY <1>21 DEF vars
<1> QED
  BY <1>1, <1>2, <1>3, <1>4, <1>5, <1>6, <1>7, <1>8, <1>9, <1>10, <1>11, <1>12, <1>13, <1>14, <1>15, <1>16, <1>17, <1>18, <1>19, <1>20, <1>21 DEF Next, Execute, Environment

\* An entry that is not empty and overlaps none before it extends the partition.
LEMMA PartitionStep ==
  ASSUME TypeOK, Partition(k - 1), k' = k, plan' = plan,
         assigned' = assigned \cup plan[k], plan[k] # {}, plan[k] \cap assigned = {}
  PROVE  Partition(k)'
<1>1. k \in Nat \ {0}
  BY DEF TypeOK
<1>2. 1 .. k = (1 .. (k - 1)) \cup {k}
  BY <1>1
<1>3. assigned' = UNION {plan[n] : n \in 1 .. k}
  BY <1>2 DEF Partition
<1>4. \A n \in 1 .. (k - 1) : plan[n] \subseteq assigned
  BY DEF Partition
<1> SUFFICES /\ assigned' = UNION {plan[n] : n \in 1 .. k}
             /\ \A n \in 1 .. k : plan[n] # {}
             /\ \A j, n \in 1 .. k : j # n => plan[j] \cap plan[n] = {}
  BY DEF Partition
<1>5. \A n \in 1 .. k : plan[n] # {}
  BY <1>2 DEF Partition
<1>6. \A j, n \in 1 .. k : j # n => plan[j] \cap plan[n] = {}
  BY <1>2, <1>4 DEF Partition
<1> QED
  BY <1>3, <1>5, <1>6

\* Every step keeps the invariant of the plan.
LEMMA PlanStep ==
  ASSUME TypeOK, TypeOK', InPlan, PlanInv, [Next]_vars
  PROVE  PlanInv'
<1>1. PositionInv'
  BY PositionStep DEF PlanInv
<1>2. CASE Steady
  <2>1. InLog' /\ (Exact => Exact')
    BY <1>2, HashesKept DEF Steady, PlanInv
  <2>2. Partition(Taken) /\ OnCourse' => Partition(Taken)'
    BY <1>2 DEF Steady, Partition
  <2> QED
    BY <1>1, <1>2, <2>1, <2>2 DEF Steady, PlanInv
<1>3. CASE NextCommit
  <2>1. /\ UNCHANGED <<hashes, plan, k>> /\ OnCourse /\ ReportedInOrder = k - 1 /\ Taken = k - 1
        /\ OnCourse' => /\ plan[k] # {} /\ plan[k] \cap assigned = {}
                        /\ assigned' = assigned \cup plan[k]
                        /\ ReportedInOrder' = k - 1 /\ Taken' = k
    BY <1>3 DEF NextCommit, OnCourse, ReportedInOrder, Taken, Goto, Fail, PlanInv, PositionInv
  <2>2. InLog' /\ Exact'
    BY <2>1, HashesKept DEF PlanInv
  <2>3. OnCourse' => Partition(k)'
    BY <2>1, PartitionStep DEF PlanInv
  <2>4. OnCourse' => Partition(Taken)'
    BY <2>1, <2>3 DEF Partition
  <2> QED
    BY <1>1, <2>1, <2>2, <2>4 DEF PlanInv
<1>4. ASSUME AfterFailedCommit \/ AfterCommit PROVE InLog'
  <2>0. Len(log) \in Nat
    BY DEF TypeOK
  <2>1. /\ log' = log /\ plan' = plan
        /\ hashes' = hashes \/ (hashes' = Append(hashes, Len(log)) /\ Len(log) >= 2)
    BY <1>4, <2>0 DEF AfterFailedCommit, AfterCommit, PlanInv, PositionInv
  <2> QED
    BY <2>1, HashesKept, HashAdded DEF PlanInv
<1>5. CASE AfterFailedCommit
  <2>1. ~OnCourse'
    BY <1>5 DEF AfterFailedCommit, OnCourse, Fail
  <2> QED
    BY <1>1, <1>4, <1>5, <2>1 DEF PlanInv
<1>6. CASE AfterCommit
  <2>1. /\ pc = "head" /\ UNCHANGED <<log, plan, k, assigned>> /\ result # "success"
        /\ OnCourse' => /\ pc' = "retain" /\ hashes' = Append(hashes, Len(log))
                        /\ Diff(Len(log)) = PathsOf(plan[k])
    BY <1>6 DEF AfterCommit, OnCourse, Fail, Goto, ValidCommit, PlanPaths, PlanInv, PositionInv
  <2>2. Len(hashes) = k - 1 /\ Exact /\ Partition(k) /\ Len(log) >= 2
    BY <2>1 DEF PlanInv, PositionInv, OnCourse, ReportedInOrder, Taken
  <2>3. k \in Nat
    BY DEF TypeOK
  <2>4. OnCourse' => Len(hashes') = k /\ Exact'
    BY <2>1, <2>2, <2>3, HashAdded DEF PlanInv
  <2>5. Partition(k)'
    BY <2>1, <2>2 DEF Partition
  <2>6. OnCourse' => ReportedInOrder' = k /\ Taken' = k
    BY <2>1 DEF ReportedInOrder, Taken
  <2>7. OnCourse' => Partition(Taken)'
    BY <2>1, <2>5, <2>6 DEF Partition
  <2> QED
    BY <1>1, <1>4, <1>6, <2>4, <2>6, <2>7 DEF PlanInv
<1> QED
  BY <1>2, <1>3, <1>5, <1>6, SteadyStep DEF PlanInv

\* The first state has it.
LEMMA PlanInit == Init => PlanInv
<1> SUFFICES ASSUME Init PROVE PlanInv
  OBVIOUS
<1>1. TypeOK
  BY InitType
<1>2. /\ hashes = <<>> /\ k = 1 /\ pc = "save" /\ result = "none" /\ parent = 1
      /\ assigned = {} /\ Len(log) = 1
  BY DEF Init
<1>3. Len(plan) \in Nat
  BY <1>1 DEF TypeOK
<1> QED
  BY <1>2, <1>3 DEF PlanInv, InLog, PositionInv, OnCourse, Exact, Partition, ReportedInOrder, Taken

\* The whole invariant.
Inv == TypeOK /\ InPlan /\ PlanInv

\* The invariants of a run hold together.
LEMMA Invariant == Spec => []Inv
<1>1. Init => Inv
  BY InitType, PlanInit DEF Init, InPlan, Inv
<1>2. Inv /\ [Next]_vars => Inv'
  BY TypeStep, PlanStep DEF Inv
<1> QED
  BY <1>1, <1>2, PTL DEF Spec

\* What the invariant says of a success.
LEMMA SuccessMeans ==
  Inv /\ result = "success" => /\ pc = "done" /\ WellFormed(plan, changes)
                              /\ Len(hashes) = Len(plan) /\ Exact
<1> SUFFICES ASSUME Inv, result = "success"
             PROVE  /\ pc = "done" /\ WellFormed(plan, changes)
                    /\ Len(hashes) = Len(plan) /\ Exact
  OBVIOUS
<1>1. /\ pc = "done" /\ k = Len(plan) + 1 /\ assigned = changes /\ OnCourse
      /\ Len(plan) \in Nat
  BY DEF Inv, PlanInv, PositionInv, OnCourse, TypeOK
<1>2. ReportedInOrder = Len(plan) /\ Taken = Len(plan)
  BY <1>1 DEF ReportedInOrder, Taken
<1>3. Len(hashes) = Len(plan) /\ Exact /\ Partition(Len(plan))
  BY <1>1, <1>2 DEF Inv, PlanInv
<1> QED
  BY <1>1, <1>3 DEF Partition, WellFormed

(* Execute succeeds only with a plan that partitions the analysed changes.   *)
THEOREM WholePlans == Spec => []OnlyWholePlans
<1>1. Inv => OnlyWholePlans
  BY SuccessMeans DEF OnlyWholePlans
<1> QED
  BY <1>1, Invariant, PTL
-----------------------------------------------------------------------------
(* The own commits                                                           *)

\* Where an own commit can be that is not in the result: below one of another
\* program, or at HEAD, which Execute is about to read.
Accounted(n) == Reported(n) \/ (n < Len(log) /\ ~log[n + 1].own)
Pending(n) == pc \in {"head", "failed"} /\ n = Len(log) /\ n # parent
OwnInv ==
  ~unread => \A n \in 1 .. Len(log) : log[n].own => Accounted(n) \/ Pending(n)

\* A hash that is added to the result reports its commit, and drops none.
LEMMA ReportAdded ==
  ASSUME TypeOK, NEW h \in Nat, hashes' = Append(hashes, h)
  PROVE  /\ \A n : Reported(n) => Reported(n)'
         /\ Reported(h)'
<1>1. /\ hashes \in Seq(Nat) /\ Len(hashes) \in Nat /\ Len(hashes') = Len(hashes) + 1
      /\ hashes'[Len(hashes) + 1] = h
      /\ \A i \in 1 .. Len(hashes) : hashes'[i] = hashes[i]
  BY DEF TypeOK
<1> QED
  BY <1>1 DEF Reported

\* Only two steps make a commit, and only two look for one.
LEMMA LookStep ==
  ASSUME [Next]_vars
  PROVE  \/ GitCommits \/ ForeignCommit \/ AfterFailedCommit \/ AfterCommit
         \/ /\ UNCHANGED <<log, hashes, unread>>
            /\ pc \in {"head", "failed"} => pc' = pc /\ parent' = parent
BY DEF Next, Execute, Environment, Interfere, vars, Goto, Fail, SaveIndex, SaveIndexFails, NextCommit, Interrupted, Finish, Verify, ResetIndex, ReadTree, AddPath, InstallIndex, ReadParent, StartGitCommit, GitCommitFails, RetainIndex, ReportHookOutput, Restore, EditFile, StagePath, Cancel

\* Every step keeps the own commits in sight.
LEMMA OwnStep == ASSUME Inv, OwnInv, [Next]_vars PROVE OwnInv'
<1>1. /\ TypeOK /\ Len(log) \in Nat /\ parent \in 1 .. Len(log)
      /\ log \in Seq([tree : Tree, own : BOOLEAN])
  BY DEF Inv, PlanInv, PositionInv, TypeOK
<1>2. ASSUME NEW own, log' = Append(log, [tree |-> index, own |-> own])
      PROVE  /\ Len(log') = Len(log) + 1 /\ log'[Len(log) + 1].own = own
             /\ \A n \in 1 .. Len(log) : log'[n] = log[n]
  BY <1>1, <1>2
<1>3. CASE UNCHANGED <<log, hashes, unread>>
           /\ (pc \in {"head", "failed"} => pc' = pc /\ parent' = parent)
  BY <1>3 DEF OwnInv, Accounted, Reported, Pending
<1>4. CASE GitCommits
  <2>1. /\ pc = "hook" /\ pc' \in {"head", "failed"} /\ UNCHANGED <<hashes, unread, parent>>
        /\ log' = Append(log, [tree |-> index, own |-> TRUE])
    BY <1>4 DEF GitCommits, Goto
  <2>2. \A n : Reported(n)' <=> Reported(n)
    BY <2>1 DEF Reported
  <2>3. \A n : n = Len(log) + 1 => Pending(n)'
    BY <1>1, <1>2, <2>1 DEF Pending
  <2>4. ASSUME ~unread, NEW n \in 1 .. Len(log), log[n].own PROVE Accounted(n)'
    <3>1. Accounted(n)
      BY <2>1, <2>4 DEF OwnInv, Pending
    <3>2. CASE Reported(n)
      BY <2>2, <3>2 DEF Accounted
    <3>3. CASE n < Len(log) /\ ~log[n + 1].own
      <4>1. Len(log') = Len(log) + 1 /\ log'[n + 1] = log[n + 1]
        BY <1>1, <1>2, <2>1, <3>3
      <4> QED BY <1>1, <3>3, <4>1 DEF Accounted
    <3> QED BY <3>1, <3>2, <3>3 DEF Accounted
  <2> QED BY <1>1, <1>2, <2>1, <2>3, <2>4 DEF OwnInv
<1>5. CASE ForeignCommit
  <2>1. /\ UNCHANGED <<hashes, unread, parent, pc>>
        /\ log' = Append(log, [tree |-> index, own |-> FALSE])
    BY <1>5 DEF ForeignCommit, Interfere
  <2>2. \A n : Reported(n)' <=> Reported(n)
    BY <2>1 DEF Reported
  <2>3. ASSUME ~unread, NEW n \in 1 .. Len(log), log[n].own PROVE Accounted(n)'
    <3>1. Accounted(n) \/ n = Len(log)
      BY <2>3 DEF OwnInv, Pending
    <3> QED BY <1>1, <1>2, <2>1, <2>2, <3>1 DEF Accounted
  <2> QED BY <1>1, <1>2, <2>1, <2>3 DEF OwnInv
<1>6. CASE AfterFailedCommit \/ AfterCommit
  <2>1. /\ log' = log /\ UNCHANGED parent
        /\ \/ hashes' = Append(hashes, Len(log)) /\ UNCHANGED unread
           \/ hashes' = hashes /\ unread'
           \/ hashes' = hashes /\ UNCHANGED unread /\ Len(log) = parent
    BY <1>6 DEF AfterFailedCommit, AfterCommit
  <2>2. CASE hashes' = Append(hashes, Len(log)) /\ UNCHANGED unread
    <3>1. /\ \A n : Reported(n) => Reported(n)'
          /\ Reported(Len(log))'
      BY <1>1, <2>1, <2>2, ReportAdded
    <3> QED BY <2>1, <2>2, <3>1 DEF OwnInv, Accounted, Pending
  <2>3. CASE unread'
    BY <2>3 DEF OwnInv
  <2>4. CASE hashes' = hashes /\ UNCHANGED unread /\ Len(log) = parent
    BY <2>1, <2>4 DEF OwnInv, Accounted, Reported, Pending
  <2> QED BY <2>1, <2>2, <2>3, <2>4
<1> QED
  BY <1>3, <1>4, <1>5, <1>6, LookStep

(* When Execute returns, each commit that its git commit made is in the      *)
(* result, unless another program committed on it or HEAD could not be read. *)
THEOREM OwnReported == Spec => []OwnCommitsReported
<1>1. Init => OwnInv
  <2> SUFFICES ASSUME Init PROVE OwnInv
    OBVIOUS
  <2>1. Len(log) = 1 /\ log[1].own = FALSE
    BY DEF Init
  <2> QED BY <2>1 DEF OwnInv
<1>2. Inv /\ OwnInv /\ [Next]_vars => OwnInv'
  BY OwnStep
<1>3. OwnInv => OwnCommitsReported
  BY DEF OwnInv, Accounted, Pending, OwnCommitsReported
<1> QED
  BY <1>1, <1>2, <1>3, Invariant, PTL DEF Spec
-----------------------------------------------------------------------------
(* What is committed                                                         *)

\* What a tree holds where a change hash was compared is what was analysed,
\* unless somebody touched the path after the comparison.
AsAnalysed(t, c) == t[Hashed(c)] = Analysed(c, Hashed(c)) \/ Hashed(c) \in edited

\* From the comparison to the commit: in the worktree, then in the temporary
\* index for the paths that were added, then in the index.
SeenInv ==
  /\ pc \in {"reset", "readtree", "add"} =>
       \A c \in plan[k] : Hashed(c) \in PlanPaths(k) /\ AsAnalysed(worktree, c)
  /\ pc = "add" => \A c \in plan[k] : Hashed(c) \in toAdd \/ AsAnalysed(tmp, c)
  /\ pc \in {"parent", "start", "hook"} => \A c \in plan[k] : AsAnalysed(index, c)

\* A change that Collect reports has the worktree's content at its hashed path.
LEMMA DetectSeen ==
  ASSUME NEW h \in Tree, NEW i \in Tree, NEW w \in Tree, NEW c \in Detect(h, i, w)
  PROVE  /\ Hashed(c) \in Paths(c)
         /\ w[Hashed(c)] = Analysed(c, Hashed(c))
<1> DEFINE R == Renames(h, i)
           Shown(p, u) ==
             c = [old |-> IF h[p] = Absent \/ u THEN None ELSE p,
                  new |-> IF w[p] = Absent THEN None ELSE p,
                  base |-> IF u THEN Absent ELSE h[p],
                  work |-> w[p]]
<1>1. R \subseteq Path \X Path
  BY DEF Renames, RenameCandidates
<1>2. \/ \E r \in R : c = [old |-> r[1], new |-> r[2], base |-> h[r[1]], work |-> w[r[2]]]
      \/ \E p \in Path : w[p] # Absent /\ Shown(p, TRUE)
      \/ \E p \in Path : h[p] # w[p] /\ Shown(p, FALSE)
  BY <1>1 DEF Detect, PathChange
<1> HIDE DEF R
<1>3. ASSUME NEW r \in R,
             c = [old |-> r[1], new |-> r[2], base |-> h[r[1]], work |-> w[r[2]]]
      PROVE  /\ Hashed(c) \in Paths(c) /\ w[Hashed(c)] = Analysed(c, Hashed(c))
  <2>1. r[2] \in Path /\ r[2] # None
    BY <1>1, ConstantsOK
  <2> QED BY <1>3, <2>1 DEF Hashed, Paths, Analysed
<1>4. ASSUME NEW p \in Path, w[p] # Absent, Shown(p, TRUE)
      PROVE  /\ Hashed(c) \in Paths(c) /\ w[Hashed(c)] = Analysed(c, Hashed(c))
  BY <1>4, ConstantsOK DEF Hashed, Paths, Analysed
<1>5. ASSUME NEW p \in Path, h[p] # w[p], Shown(p, FALSE)
      PROVE  /\ Hashed(c) \in Paths(c) /\ w[Hashed(c)] = Analysed(c, Hashed(c))
  BY <1>5, ConstantsOK DEF Hashed, Paths, Analysed
<1> HIDE DEF Shown
<1> QED BY <1>2, <1>3, <1>4, <1>5

\* A path that changes in a tree is marked as touched.
LEMMA TouchedKept ==
  ASSUME NEW t \in Tree, NEW p \in Path, NEW v, NEW c,
         Hashed(c) \in Path, AsAnalysed(t, c), edited' = edited \cup {p}
  PROVE  [t EXCEPT ![p] = v][Hashed(c)] = Analysed(c, Hashed(c)) \/ Hashed(c) \in edited'
BY DEF Tree, AsAnalysed

\* Every step keeps what is on its way into the commit as it was analysed.
LEMMA SeenStep ==
  ASSUME TypeOK, InPlan, SeenInv, [Next]_vars
  PROVE  SeenInv'
<1>a. /\ HeadTree \in Tree /\ index \in Tree /\ worktree \in Tree /\ tmp \in Tree
      /\ k \in Nat \ {0} /\ toAdd \subseteq Path
      /\ pc \in Labels \ {"save", "commit", "restore", "done"} =>
           k <= Len(plan) /\ PlanPaths(k) \subseteq Path
  BY HeadType, PlanPathsType DEF TypeOK, InPlan
<1>b. ASSUME UNCHANGED <<worktree, index, tmp, toAdd, plan, k, edited>>,
             pc' = pc \/ pc' \notin {"reset", "readtree", "add", "parent", "start", "hook"}
      PROVE  SeenInv'
  BY <1>b DEF SeenInv, AsAnalysed, PlanPaths
<1>1. CASE Verify
  <2>1. UNCHANGED <<worktree, plan, k>> /\ (pc' = "reset" => Unchanged) /\ pc = "verify"
    BY <1>1 DEF Verify, Goto, Fail
  <2>2. CASE pc' = "reset"
    <3>1. k <= Len(plan) /\ Remaining \subseteq Detect(HeadTree, index, worktree)
      BY <1>a, <2>1, <2>2 DEF Unchanged, Labels
    <3>2. \A c \in plan[k] : c \in Remaining
      BY <1>a, <3>1 DEF Remaining, TypeOK
    <3>3. ASSUME NEW c \in plan[k]
          PROVE  Hashed(c) \in PlanPaths(k) /\ worktree[Hashed(c)] = Analysed(c, Hashed(c))
      BY <1>a, <3>1, <3>2, DetectSeen DEF PlanPaths, PathsOf
    <3> QED BY <2>1, <2>2, <3>3 DEF SeenInv, AsAnalysed, PlanPaths
  <2>3. CASE pc' # "reset"
    <3>1. pc' = "restore"
      BY <1>1, <2>3 DEF Verify, Goto, Fail
    <3> QED BY <3>1 DEF SeenInv
  <2> QED BY <2>2, <2>3
<1>2. CASE ResetIndex
  <2>1. /\ UNCHANGED <<worktree, plan, k, edited>> /\ pc = "reset"
        /\ pc' \in {"readtree", "restore"}
    BY <1>2 DEF ResetIndex, Goto, Fail
  <2> QED BY <2>1 DEF SeenInv, AsAnalysed, PlanPaths
<1>3. CASE ReadTree
  <2>1. /\ UNCHANGED <<worktree, plan, k, edited>> /\ pc = "readtree"
        /\ pc' \in {"add", "restore"} /\ (pc' = "add" => toAdd' = PlanPaths(k))
    BY <1>3 DEF ReadTree, Goto, Fail
  <2> QED BY <2>1 DEF SeenInv, AsAnalysed, PlanPaths
<1>4. CASE AddPath
  <2>1. /\ UNCHANGED <<worktree, plan, k, edited>> /\ pc = "add"
        /\ pc' \in {"add", "restore"}
        /\ pc' = "add" => \E p \in toAdd : /\ tmp' = [tmp EXCEPT ![p] = worktree[p]]
                                           /\ toAdd' = toAdd \ {p}
    BY <1>4 DEF AddPath, Goto, Fail
  <2>2. CASE pc' = "add"
    <3>1. PICK p \in toAdd : tmp' = [tmp EXCEPT ![p] = worktree[p]] /\ toAdd' = toAdd \ {p}
      BY <2>1, <2>2
    <3>2. ASSUME NEW c \in plan[k], Hashed(c) \notin toAdd'
          PROVE  AsAnalysed(tmp, c)'
      <4>1. /\ Hashed(c) \in Path /\ AsAnalysed(worktree, c)
            /\ Hashed(c) = p \/ AsAnalysed(tmp, c)
        BY <1>a, <2>1, <3>1, <3>2 DEF SeenInv, Labels
      <4>2. tmp'[Hashed(c)] = IF Hashed(c) = p THEN worktree[p] ELSE tmp[Hashed(c)]
        BY <1>a, <3>1, <4>1 DEF Tree
      <4> QED BY <2>1, <4>1, <4>2 DEF AsAnalysed
    <3> QED BY <2>1, <2>2, <3>2 DEF SeenInv, AsAnalysed, PlanPaths
  <2>3. CASE pc' = "restore"
    BY <2>3 DEF SeenInv
  <2> QED BY <2>1, <2>2, <2>3
<1>5. CASE InstallIndex
  <2>1. /\ UNCHANGED <<plan, k, edited>> /\ pc = "add" /\ toAdd = {}
        /\ pc' \in {"parent", "restore"} /\ (pc' = "parent" => index' = tmp)
    BY <1>5 DEF InstallIndex, Goto, Fail
  <2> QED BY <2>1 DEF SeenInv, AsAnalysed
<1>6. CASE ReadParent \/ StartGitCommit
  <2>1. /\ UNCHANGED <<index, plan, k, edited>> /\ pc \in {"parent", "start"}
        /\ pc' \in {"start", "hook", "failed", "restore"}
    BY <1>6 DEF ReadParent, StartGitCommit, Goto, Fail
  <2> QED BY <2>1 DEF SeenInv, AsAnalysed
<1>7. CASE EditFile
  <2>1. PICK p \in Path, v \in Entry : /\ worktree' = [worktree EXCEPT ![p] = v]
                                       /\ edited' = edited \cup {p}
    BY <1>7 DEF EditFile
  <2>2. UNCHANGED <<pc, k, plan, index, tmp, toAdd>>
    BY <1>7 DEF EditFile, Interfere
  <2>3. pc \in {"reset", "readtree", "add"} =>
          \A c \in plan[k] : AsAnalysed(worktree, c)'
    BY <1>a, <2>1, <2>2, TouchedKept DEF SeenInv, AsAnalysed, Labels
  <2> QED BY <2>1, <2>2, <2>3 DEF SeenInv, AsAnalysed, PlanPaths
<1>8. CASE StagePath
  <2>1. PICK p \in Path : /\ index' = [index EXCEPT ![p] = worktree[p]]
                          /\ edited' = edited \cup {p}
    BY <1>8 DEF StagePath
  <2>2. UNCHANGED <<pc, k, plan, worktree, tmp, toAdd>>
    BY <1>8 DEF StagePath, Interfere
  <2>3. ASSUME NEW c \in plan[k], AsAnalysed(index, c)
        PROVE  AsAnalysed(index, c)'
    BY <1>a, <2>1, <2>3 DEF AsAnalysed, Tree
  <2> QED BY <2>1, <2>2, <2>3 DEF SeenInv, AsAnalysed, PlanPaths
<1>9. CASE ~(Verify \/ ResetIndex \/ ReadTree \/ AddPath \/ InstallIndex \/ ReadParent
             \/ StartGitCommit \/ EditFile \/ StagePath)
  <2>1. \/ pc' \notin {"reset", "readtree", "add", "parent", "start", "hook"}
        \/ UNCHANGED <<worktree, index, tmp, toAdd, plan, k, edited, pc>>
    BY <1>9 DEF Next, Execute, Environment, Interfere, vars, Goto, Fail, SaveIndex, SaveIndexFails, NextCommit, Interrupted, Finish, GitCommits, GitCommitFails, AfterFailedCommit, AfterCommit, RetainIndex, ReportHookOutput, Restore, ForeignCommit, Cancel
  <2>2. pc' \notin {"reset", "readtree", "add", "parent", "start", "hook"} => SeenInv'
    BY DEF SeenInv
  <2> QED BY <1>b, <2>1, <2>2
<1> QED
  BY <1>1, <1>2, <1>3, <1>4, <1>5, <1>6, <1>7, <1>8, <1>9

(* What git commit records at the path of a change hash is what was          *)
(* analysed, unless the path was touched after the hash was last compared.   *)
THEOREM OnlyRaced == Spec => OnlyRacedContent
<1>1. Init => InPlan /\ SeenInv
  BY DEF Init, InPlan, SeenInv
<1>2. TypeOK /\ InPlan /\ SeenInv /\ [Next]_vars => TypeOK' /\ InPlan' /\ SeenInv'
  BY TypeStep, SeenStep
<1>3. SeenInv /\ [Next]_vars =>
        [GitCommits => \A c \in plan[k] :
           index[Hashed(c)] # Analysed(c, Hashed(c)) => Hashed(c) \in edited]_vars
  BY DEF SeenInv, AsAnalysed, GitCommits
<1> QED
  BY <1>1, <1>2, <1>3, InitType, PTL DEF Spec, OnlyRacedContent
-----------------------------------------------------------------------------
(* Execute implements CommitPromise.                                         *)

Order == [n \in 1 .. Len(plan) |-> PathsOf(plan[n])]
Made == [i \in 1 .. Len(hashes) |-> Diff(hashes[i])]

\* A step that adds no hash leaves the reported diffs as they are.
LEMMA MadeKept ==
  ASSUME TypeOK, InLog, [Next]_vars, hashes' = hashes, plan' = plan
  PROVE  Made' = Made /\ Order' = Order
<1>1. /\ Len(log) \in Nat /\ \A n \in 1 .. Len(log) : log'[n] = log[n]
      /\ hashes \in Seq(Nat)
  BY LogGrows DEF TypeOK
<1>2. \A h \in 2 .. Len(log) : Differ(log'[h - 1].tree, log'[h].tree)
                               = Differ(log[h - 1].tree, log[h].tree)
  BY <1>1
<1>3. Made' = Made
  BY <1>1, <1>2 DEF Made, Diff, InLog
<1> QED
  BY <1>3 DEF Order

\* Nothing happens after Execute returned.
LEMMA DoneIsFinal == ASSUME pc = "done", [Next]_vars PROVE UNCHANGED vars
BY DEF Next, Execute, Environment, Interfere, SaveIndex, SaveIndexFails, NextCommit, Interrupted, Finish, Verify, ResetIndex, ReadTree, AddPath, InstallIndex, ReadParent, StartGitCommit, GitCommits, GitCommitFails, AfterFailedCommit, AfterCommit, RetainIndex, ReportHookOutput, Restore, EditFile, StagePath, ForeignCommit, Cancel

\* Every step of Execute is a step of CommitPromise, or none.
LEMMA PromiseStep ==
  ASSUME Inv, Inv', [Next]_vars
  PROVE  [Promise!Next]_(Promise!vars)
<1> USE DEF Inv
<1>1. CASE hashes' = hashes /\ plan' = plan
  <2>1. Made' = Made /\ Order' = Order
    BY <1>1, MadeKept DEF PlanInv
  <2>2. CASE Outcome' = Outcome
    BY <2>1, <2>2 DEF Promise!vars, Made, Order
  <2>3. CASE Outcome' # Outcome
    <3>1. pc # "done" /\ Outcome = "running"
      BY <2>3, DoneIsFinal DEF Outcome, vars
    <3>2. CASE Outcome' = "stopped"
      BY <2>1, <3>1, <3>2 DEF Promise!Next, Promise!Stop, Made, Order
    <3>3. CASE Outcome' = "success"
      <4>1. result' = "success"
        BY <3>3 DEF Outcome
      <4>2. (Inv /\ result = "success" => Len(hashes) = Len(plan) /\ Exact)'
        BY SuccessMeans, PTL
      <4>3. Made' = Order'
        BY <4>1, <4>2 DEF Made, Order, Exact
      <4> QED
        BY <2>1, <3>1, <3>3, <4>3 DEF Promise!Next, Promise!Succeed, Made, Order
    <3> QED
      BY <2>3, <3>1, <3>2, <3>3 DEF Outcome
  <2> QED
    BY <2>2, <2>3
<1>2. CASE /\ AfterFailedCommit \/ AfterCommit
           /\ hashes' = Append(hashes, Len(log)) /\ plan' = plan /\ log' = log
  <2>1. pc # "done" /\ pc' # "done" /\ OnCourse /\ ReportedInOrder = k - 1 /\ k <= Len(plan)
    BY <1>2 DEF AfterFailedCommit, AfterCommit, Fail, Goto, OnCourse, ReportedInOrder, InPlan, Labels
  <2>2. Len(hashes) = k - 1 /\ Exact /\ hashes \in Seq(Nat) /\ k \in Nat
    BY <2>1 DEF PlanInv, TypeOK
  <2>3. Promise!OnPlan /\ Len(Made) < Len(Order) /\ Len(Made) = Len(hashes)
    BY <2>1, <2>2 DEF Promise!OnPlan, Made, Order, Exact
  <2>4. Made' = Append(Made, Diff(Len(log))) /\ Order' = Order
    BY <1>2, <2>2 DEF Made, Order, Diff
  <2>5. Diff(Len(log)) \in SUBSET Path
    BY DEF Diff, Differ
  <2>6. Outcome = "running" /\ Outcome' = "running"
    BY <2>1 DEF Outcome
  <2> QED
    BY <2>3, <2>4, <2>5, <2>6 DEF Promise!Next, Promise!Make, Made, Order
<1> QED
  <2>1. plan' = plan
    BY DEF Next, Execute, Environment, Interfere, vars, SaveIndex, SaveIndexFails, NextCommit, Interrupted, Finish, Verify, ResetIndex, ReadTree, AddPath, InstallIndex, ReadParent, StartGitCommit, GitCommits, GitCommitFails, AfterFailedCommit, AfterCommit, RetainIndex, ReportHookOutput, Restore, EditFile, StagePath, ForeignCommit, Cancel
  <2>2. CASE Steady
    BY <1>1, <2>2 DEF Steady
  <2>3. CASE NextCommit
    BY <1>1, <2>1, <2>3 DEF NextCommit
  <2>4. CASE AfterFailedCommit
    BY <1>1, <1>2, <2>1, <2>4 DEF AfterFailedCommit
  <2>5. CASE AfterCommit
    BY <1>1, <1>2, <2>1, <2>5 DEF AfterCommit
  <2> QED
    BY <2>2, <2>3, <2>4, <2>5, SteadyStep DEF PlanInv

(* Execute keeps its promise to the pipeline: commits in plan order, nothing *)
(* after one that is not its plan entry, success only for the whole plan.    *)
THEOREM Refinement == Spec => KeepsPromise
<1>1. Init => Promise!Init
  <2> SUFFICES ASSUME Init PROVE Promise!Init
    OBVIOUS
  <2>1. TypeOK /\ hashes = <<>> /\ pc = "save"
    BY InitType DEF Init
  <2>2. \A n \in 1 .. Len(plan) : PathsOf(plan[n]) \in SUBSET Path
    BY <2>1, PathsOfType DEF TypeOK
  <2>3. Len(plan) \in Nat
    BY <2>1 DEF TypeOK
  <2> QED
    BY <2>1, <2>2, <2>3 DEF Promise!Init, Outcome
<1>2. Inv /\ Inv' /\ [Next]_vars => [Promise!Next]_(Promise!vars)
  BY PromiseStep
<1> QED
  BY <1>1, <1>2, Invariant, PTL DEF Spec, KeepsPromise, Promise!Spec
-----------------------------------------------------------------------------
(* Execute left alone.                                                       *)

\* The tree t with what the worktree w holds at the paths P.
Over(t, w, P) == [p \in Path |-> IF p \in P THEN w[p] ELSE t[p]]

\* A start whose renames are carried out in the worktree, and stay paired as they
\* are when some of them are committed.
Settling(h, i, w) ==
  /\ \A r \in Renames(h, i) : w[r[1]] = Absent
  /\ \A P \in SUBSET Path :
       (\A r \in Renames(h, i) : r[1] \in P <=> r[2] \in P)
         => Renames(Over(h, w, P), Over(i, w, P)) = {r \in Renames(h, i) : r[1] \notin P}

\* Among finitely many candidates there is a pairing that no other one extends.
LEMMA LargestMatching ==
  ASSUME NEW R, IsFiniteSet(R)
  PROVE  \E M \in SUBSET R :
           Matching(M) /\ \A N \in SUBSET R : Matching(N) => ~(M \subseteq N /\ M # N)
<1> DEFINE Free == {Cardinality(R \ M) : M \in {N \in SUBSET R : Matching(N)}}
<1>1. \A M \in SUBSET R : IsFiniteSet(R \ M) /\ Cardinality(R \ M) \in Nat
  BY FS_CardinalityType, FS_Subset
<1>2. Free \subseteq Nat
  BY <1>1
<1>3. Cardinality(R \ {}) \in Free
  BY DEF Matching
<1> HIDE DEF Free
<1>4. PICK m \in Free : \A n \in Free : <<n, m>> \notin OpToRel(<, Nat)
  BY <1>2, <1>3, NatLessThanWellFounded, WFMin
<1>5. PICK M \in SUBSET R : Matching(M) /\ m = Cardinality(R \ M)
  BY <1>4 DEF Free
<1>6. ASSUME NEW N \in SUBSET R, Matching(N), M \subseteq N, M # N PROVE FALSE
  <2>1. R \ N \subseteq R \ M /\ R \ N # R \ M
    BY <1>6
  <2>2. Cardinality(R \ N) < Cardinality(R \ M)
    BY <1>1, <2>1, FS_Subset, FS_CardinalityType
  <2>3. Cardinality(R \ N) \in Free
    BY <1>6 DEF Free
  <2> QED
    BY <1>1, <1>2, <1>4, <1>5, <2>2, <2>3 DEF OpToRel
<1> QED
  BY <1>5, <1>6

\* The renames that Git reports are candidates, each path in one of them.
LEMMA RenamesPair ==
  ASSUME NEW h \in Tree, NEW i \in Tree
  PROVE  /\ Renames(h, i) \subseteq RenameCandidates(h, i)
         /\ \A r, s \in Renames(h, i) : r[1] = s[1] <=> r[2] = s[2]
         /\ \A r \in Renames(h, i) : /\ r = <<r[1], r[2]>> /\ r[1] \in Path /\ r[2] \in Path
                                     /\ h[r[1]] # Absent /\ h[r[2]] = Absent
<1> DEFINE R == RenameCandidates(h, i)
           Largest(M) == Matching(M) /\ \A N \in SUBSET R : Matching(N) => ~(M \subseteq N /\ M # N)
<1>1. IsFiniteSet(Path \X Path)
  BY ConstantsOK, FS_Product
<1>2. R \subseteq Path \X Path
  BY DEF RenameCandidates
<1>3. IsFiniteSet(R)
  BY <1>1, <1>2, FS_Subset
<1>4. \A r \in R : h[r[1]] # Absent /\ h[r[2]] = Absent
  BY DEF RenameCandidates
<1> HIDE DEF R
<1>5. \E M \in SUBSET R : Largest(M)
  BY <1>3, LargestMatching
<1> DEFINE Paired == CHOOSE M \in SUBSET R : Largest(M)
<1>6. Matching(Paired)
  BY <1>5
<1>6a. Renames(h, i) = R \cap Paired
  BY DEF Renames, R
<1> HIDE DEF Largest
<1>7. \E M : Matching(M) /\ Renames(h, i) = R \cap M
  <2> HIDE DEF Paired
  <2> QED
    BY <1>6, <1>6a
<1>8. Renames(h, i) \subseteq R /\ \A r, s \in Renames(h, i) : r[1] = s[1] <=> r[2] = s[2]
  BY <1>6, <1>7 DEF Matching
<1>9. \A r \in Path \X Path : r = <<r[1], r[2]>> /\ r[1] \in Path /\ r[2] \in Path
  OBVIOUS
<1>10. \A r \in Renames(h, i) : r \in Path \X Path /\ r \in R
  BY <1>2, <1>8
<1> QED
  BY <1>4, <1>8, <1>9, <1>10 DEF R

\* The change that Collect reports for a rename, and a path that is in none.
Moved(r, h, w) == [old |-> r[1], new |-> r[2], base |-> h[r[1]], work |-> w[r[2]]]
Apart(p, h, i) == \A r \in Renames(h, i) : p # r[1] /\ p # r[2]

\* Without recreated sources there are renames and changes of one path.
LEMMA DetectParts ==
  ASSUME NEW h \in Tree, NEW i \in Tree, NEW w \in Tree,
         \A r \in Renames(h, i) : w[r[1]] = Absent
  PROVE  /\ \A r \in Renames(h, i) : Moved(r, h, w) \in Detect(h, i, w)
         /\ \A p \in Path : Apart(p, h, i) /\ h[p] # w[p] => PathChange(p, h, w, FALSE) \in Detect(h, i, w)
         /\ \A c \in Detect(h, i, w) :
              \/ \E r \in Renames(h, i) : c = Moved(r, h, w)
              \/ \E p \in Path : Apart(p, h, i) /\ h[p] # w[p] /\ c = PathChange(p, h, w, FALSE)
<1> DEFINE R == Renames(h, i)
           Ends == {r[1] : r \in R} \cup {r[2] : r \in R}
           Moves == {Moved(r, h, w) : r \in R}
           Again == {PathChange(p, h, w, TRUE) : p \in {q \in {r[1] : r \in R} : w[q] # Absent}}
           Others == {PathChange(p, h, w, FALSE) : p \in {q \in Path \ Ends : h[q] # w[q]}}
<1>1. Again = {}
  OBVIOUS
<1>2. Detect(h, i, w) = Moves \cup Again \cup Others
  BY DEF Detect, Moved
<1>3. \A p \in Path : p \in Path \ Ends <=> Apart(p, h, i)
  BY DEF Apart
<1> HIDE DEF Ends, Again
<1> QED
  BY <1>1, <1>2, <1>3

\* The paths of a rename.
LEMMA MovedPaths ==
  ASSUME NEW h \in Tree, NEW i \in Tree, NEW w \in Tree, NEW r \in Renames(h, i)
  PROVE  Paths(Moved(r, h, w)) = {r[1], r[2]}
BY RenamesPair, ConstantsOK DEF Paths, Moved

\* The path of any other change.
LEMMA OnePath ==
  ASSUME NEW h \in Tree, NEW w \in Tree, NEW p \in Path, h[p] # w[p]
  PROVE  Paths(PathChange(p, h, w, FALSE)) = {p}
BY ConstantsOK DEF Paths, PathChange

\* Every change moves the worktree away from HEAD at each of its paths, and no
\* path is in two changes.
LEMMA ChangesApart ==
  ASSUME NEW h \in Tree, NEW i \in Tree, NEW w \in Tree,
         \A r \in Renames(h, i) : w[r[1]] = Absent, ~CollectFails(h, i, w)
  PROVE  /\ \A c \in Detect(h, i, w) : /\ Paths(c) # {} /\ Paths(c) \subseteq Path
                                       /\ \A p \in Paths(c) : h[p] # w[p]
         /\ \A c, d \in Detect(h, i, w) : Paths(c) \cap Paths(d) # {} => c = d
<1> DEFINE R == Renames(h, i)
           One(p) == PathChange(p, h, w, FALSE)
<1>1. \A r \in R : /\ Paths(Moved(r, h, w)) = {r[1], r[2]} /\ r[1] \in Path /\ r[2] \in Path
                   /\ h[r[1]] # Absent /\ h[r[2]] = Absent
                   /\ w[r[1]] = Absent /\ w[r[2]] # Absent
  BY MovedPaths, RenamesPair DEF CollectFails
<1>2. \A p \in Path : h[p] # w[p] => Paths(One(p)) = {p}
  BY OnePath
<1>3. \A c \in Detect(h, i, w) :
        \/ \E r \in R : c = Moved(r, h, w)
        \/ \E p \in Path : Apart(p, h, i) /\ h[p] # w[p] /\ c = One(p)
  BY DetectParts
<1>4. \A r, s \in R : (r[1] = s[1] <=> r[2] = s[2]) /\ r = <<r[1], r[2]>> /\ s = <<s[1], s[2]>>
  BY RenamesPair
<1>5. \A p : Apart(p, h, i) <=> \A r \in R : p # r[1] /\ p # r[2]
  BY DEF Apart
<1> HIDE DEF R, One
<1>6. \A r, s \in R : {r[1], r[2]} \cap {s[1], s[2]} # {} => r = s
  BY <1>1, <1>4
<1>7. ASSUME NEW c \in Detect(h, i, w)
      PROVE  Paths(c) # {} /\ Paths(c) \subseteq Path /\ \A p \in Paths(c) : h[p] # w[p]
  BY <1>1, <1>2, <1>3
<1>8. ASSUME NEW c \in Detect(h, i, w), NEW d \in Detect(h, i, w), Paths(c) \cap Paths(d) # {}
      PROVE  c = d
  <2>1. CASE \E r \in R : c = Moved(r, h, w)
    <3>1. PICK r \in R : c = Moved(r, h, w)
      BY <2>1
    <3>2. CASE \E s \in R : d = Moved(s, h, w)
      BY <1>1, <1>6, <1>8, <3>1, <3>2
    <3>3. CASE \E p \in Path : Apart(p, h, i) /\ h[p] # w[p] /\ d = One(p)
      BY <1>1, <1>2, <1>5, <1>8, <3>1, <3>3
    <3> QED
      BY <1>3, <3>2, <3>3
  <2>2. CASE \E p \in Path : Apart(p, h, i) /\ h[p] # w[p] /\ c = One(p)
    <3>1. PICK p \in Path : Apart(p, h, i) /\ h[p] # w[p] /\ c = One(p)
      BY <2>2
    <3>2. CASE \E s \in R : d = Moved(s, h, w)
      BY <1>1, <1>2, <1>5, <1>8, <3>1, <3>2
    <3>3. CASE \E q \in Path : Apart(q, h, i) /\ h[q] # w[q] /\ d = One(q)
      BY <1>2, <1>8, <3>1, <3>3
    <3> QED
      BY <1>3, <3>2, <3>3
  <2> QED
    BY <1>3, <2>1, <2>2
<1> QED
  BY <1>7, <1>8

\* Carried out for the paths P, a tree is a tree.
LEMMA OverType ==
  ASSUME NEW t \in Tree, NEW w \in Tree, NEW P PROVE Over(t, w, P) \in Tree
BY DEF Over, Tree

\* When some of the changes are carried out, Collect reports the others.
LEMMA DetectSettled ==
  ASSUME NEW h \in Tree, NEW i \in Tree, NEW w \in Tree, Settling(h, i, w),
         ~CollectFails(h, i, w), NEW C \in SUBSET Detect(h, i, w)
  PROVE  LET g == Over(h, w, PathsOf(C))
             j == Over(i, w, PathsOf(C))
         IN  ~CollectFails(g, j, w) /\ Detect(g, j, w) = Detect(h, i, w) \ C
<1> DEFINE P == PathsOf(C)
           g == Over(h, w, P)
           j == Over(i, w, P)
           R == Renames(h, i)
           S == Renames(g, j)
           D == Detect(h, i, w)
           One(t, p) == PathChange(p, t, w, FALSE)
<1>1. \A r \in R : w[r[1]] = Absent /\ w[r[2]] # Absent /\ r[1] \in Path /\ r[2] \in Path
  BY RenamesPair DEF Settling, CollectFails
<1>1a. \A r \in R : Moved(r, h, w) \in D /\ Paths(Moved(r, h, w)) = {r[1], r[2]}
  <2>1. \A r \in Renames(h, i) : Paths(Moved(r, h, w)) = {r[1], r[2]}
    BY MovedPaths
  <2> QED
    BY <1>1, <2>1, DetectParts
<1>1b. \A p \in Path : Apart(p, h, i) /\ h[p] # w[p] => One(h, p) \in D /\ Paths(One(h, p)) = {p}
  BY <1>1, DetectParts, OnePath
<1>1c. \A c \in D : \/ \E r \in R : c = Moved(r, h, w)
                   \/ \E p \in Path : Apart(p, h, i) /\ h[p] # w[p] /\ c = One(h, p)
  BY <1>1, DetectParts
<1>2. \A c, d \in D : Paths(c) \cap Paths(d) # {} => c = d
  BY ChangesApart DEF Settling
<1>3. \A c \in D : \A p \in Paths(c) : p \in P <=> c \in C
  BY <1>2 DEF PathsOf
<1>4. P \subseteq Path
  BY ChangesApart DEF PathsOf, Settling
<1>5. g \in Tree /\ j \in Tree
  BY OverType
<1>6. \A p \in Path : g[p] = IF p \in P THEN w[p] ELSE h[p]
  BY DEF Over
<1> HIDE DEF P, g, j, R, D, One
<1>7. \A r \in R : (r[1] \in P <=> Moved(r, h, w) \in C) /\ (r[2] \in P <=> Moved(r, h, w) \in C)
  BY <1>1, <1>1a, <1>1b, <1>1c, <1>3
<1>8. S = {r \in R : r[1] \notin P}
  BY <1>4, <1>7 DEF Settling, R, g, j
<1>9. ~CollectFails(g, j, w) /\ \A r \in S : w[r[1]] = Absent
  BY <1>1, <1>1a, <1>1b, <1>1c, <1>8 DEF CollectFails
<1>10. /\ \A r \in S : Moved(r, g, w) \in Detect(g, j, w)
       /\ \A p \in Path : Apart(p, g, j) /\ g[p] # w[p] => One(g, p) \in Detect(g, j, w)
       /\ \A c \in Detect(g, j, w) : \/ \E r \in S : c = Moved(r, g, w)
                                     \/ \E p \in Path : Apart(p, g, j) /\ g[p] # w[p] /\ c = One(g, p)
  BY <1>5, <1>9, DetectParts DEF One
<1>11. \A r \in S : Moved(r, g, w) = Moved(r, h, w) /\ Moved(r, h, w) \in D \ C
  BY <1>1, <1>1a, <1>1b, <1>1c, <1>6, <1>7, <1>8 DEF Moved
<1>12. \A p \in Path \ P : One(g, p) = One(h, p)
  BY <1>6 DEF One, PathChange
<1>13. \A p \in Path \ P : Apart(p, g, j) <=> Apart(p, h, i)
  BY <1>7, <1>8 DEF Apart, R
<1>14. \A p \in Path : Apart(p, h, i) /\ h[p] # w[p] => (p \in P <=> One(h, p) \in C)
  BY <1>1, <1>1a, <1>1b, <1>1c, <1>3
<1>15. ASSUME NEW c \in Detect(g, j, w) PROVE c \in D \ C
  <2>1. CASE \E r \in S : c = Moved(r, g, w)
    BY <1>11, <2>1
  <2>2. CASE \E p \in Path : Apart(p, g, j) /\ g[p] # w[p] /\ c = One(g, p)
    <3>1. PICK p \in Path : Apart(p, g, j) /\ g[p] # w[p] /\ c = One(g, p)
      BY <2>2
    <3>2. p \notin P /\ g[p] = h[p]
      BY <1>6, <3>1
    <3> QED
      BY <1>1, <1>1a, <1>1b, <1>1c, <1>12, <1>13, <1>14, <3>1, <3>2
  <2> QED
    BY <1>10, <2>1, <2>2
<1>16. ASSUME NEW c \in D \ C PROVE c \in Detect(g, j, w)
  <2>1. CASE \E r \in R : c = Moved(r, h, w)
    BY <1>7, <1>8, <1>10, <1>11, <2>1
  <2>2. CASE \E p \in Path : Apart(p, h, i) /\ h[p] # w[p] /\ c = One(h, p)
    <3>1. PICK p \in Path : Apart(p, h, i) /\ h[p] # w[p] /\ c = One(h, p)
      BY <2>2
    <3>2. p \notin P
      BY <1>14, <3>1
    <3> QED
      BY <1>6, <1>10, <1>12, <1>13, <3>1, <3>2
  <2> QED
    BY <1>1, <1>1a, <1>1b, <1>1c, <2>1, <2>2
<1> QED
  BY <1>9, <1>15, <1>16 DEF g, j, D, P

\* The paths of the first m plan entries.
Planned(pl, m) == PathsOf(UNION {pl[n] : n \in 1 .. m})

\* Execute, left alone with a well formed plan: where it started, which commits
\* are made, and what HEAD, the index and the temporary index hold of the worktree.
Begun ==
  /\ Settling(log[1].tree, original, worktree)
  /\ ~CollectFails(log[1].tree, original, worktree)
  /\ changes \subseteq Detect(log[1].tree, original, worktree)
Untroubled ==
  ~cancelled /\ pc \notin {"failed", "restore"} /\ (pc = "done" => result = "success")
HeadIs(P) == HeadTree = Over(log[1].tree, worktree, P)
CommitsMade ==
  /\ pc \notin {"head", "retain", "report"} => HeadIs(Planned(plan, k - 1))
  /\ pc \in {"head", "retain", "report"} => HeadIs(Planned(plan, k))
  /\ pc \notin {"retain", "report"} => committed = Planned(plan, k - 1)
  /\ pc \in {"retain", "report"} => committed = Planned(plan, k)
  /\ pc \in {"start", "hook"} => parent = Len(log)
  /\ pc = "hook" => gitParent = Len(log)
  /\ pc = "head" => /\ parent = Len(log) - 1 /\ Len(log) >= 2
                    /\ log[Len(log) - 1].tree = Over(log[1].tree, worktree, Planned(plan, k - 1))
Staged ==
  /\ pc = "save" => index = original
  /\ pc \in {"save", "commit", "verify"} => index = Over(original, worktree, Planned(plan, k - 1))
  /\ pc = "report" => index = Over(original, worktree, Planned(plan, k))
  /\ pc = "add" => /\ toAdd \subseteq PlanPaths(k)
                   /\ tmp = Over(log[1].tree, worktree, Planned(plan, k) \ toAdd)
  /\ pc \in {"parent", "start", "hook"} =>
       index = Over(log[1].tree, worktree, Planned(plan, k))
Alone == Begun /\ Untroubled /\ CommitsMade /\ Staged
AloneInv == quiet /\ WellFormed(plan, changes) => Alone

\* The first HEAD is a tree.
LEMMA FirstType == TypeOK => log[1].tree \in Tree
<1> DEFINE C == [tree : Tree, own : BOOLEAN]
<1> SUFFICES ASSUME TypeOK PROVE log[1].tree \in Tree
  OBVIOUS
<1>1. log \in Seq(C) /\ 1 \in 1 .. Len(log) /\ \A c \in C : c.tree \in Tree
  BY DEF TypeOK
<1> HIDE DEF C
<1> QED
  BY <1>1

\* The paths of a plan entry are not those of an earlier one, and the worktree
\* differs from the first HEAD at each of them.
LEMMA PlannedStep ==
  ASSUME TypeOK, Alone, WellFormed(plan, changes), k <= Len(plan)
  PROVE  /\ Planned(plan, k) = Planned(plan, k - 1) \cup PlanPaths(k)
         /\ Planned(plan, k) \subseteq Path
         /\ Planned(plan, k - 1) \cap PlanPaths(k) = {}
         /\ PlanPaths(k) # {}
         /\ \A p \in PlanPaths(k) : log[1].tree[p] # worktree[p]
<1> DEFINE D == Detect(log[1].tree, original, worktree)
           Before == UNION {plan[n] : n \in 1 .. (k - 1)}
<1>1. log[1].tree \in Tree /\ original \in Tree /\ worktree \in Tree
  BY FirstType DEF TypeOK
<1>2. /\ \A c \in D : /\ Paths(c) # {} /\ Paths(c) \subseteq Path
                      /\ \A p \in Paths(c) : log[1].tree[p] # worktree[p]
      /\ \A c, d \in D : Paths(c) \cap Paths(d) # {} => c = d
  BY <1>1, ChangesApart DEF Alone, Begun, Settling
<1>3. k \in 1 .. Len(plan) /\ 1 .. k = (1 .. (k - 1)) \cup {k} /\ k \notin 1 .. (k - 1)
      /\ 1 .. (k - 1) \subseteq 1 .. Len(plan)
  BY DEF TypeOK
<1>4. UNION {plan[n] : n \in 1 .. k} = Before \cup plan[k]
  BY <1>3
<1>5. plan[k] # {} /\ plan[k] \cap Before = {} /\ plan[k] \subseteq changes /\ Before \subseteq changes
  BY <1>3 DEF WellFormed
<1>6. changes \subseteq D
  BY DEF Alone, Begun
<1> HIDE DEF D, Before
<1>7. \A C : PathsOf(C) = UNION {Paths(c) : c \in C}
  BY DEF PathsOf
<1>8. Planned(plan, k) = PathsOf(Before \cup plan[k]) /\ Planned(plan, k - 1) = PathsOf(Before)
      /\ PlanPaths(k) = PathsOf(plan[k])
  BY <1>4 DEF Planned, PlanPaths, Before
<1>9. Before \subseteq D /\ plan[k] \subseteq D
  BY <1>5, <1>6
<1>10. \A c \in Before, d \in plan[k] : Paths(c) \cap Paths(d) = {}
  BY <1>2, <1>5, <1>9
<1> QED
  BY <1>2, <1>5, <1>7, <1>8, <1>9, <1>10

\* The comparison of what is left of the plan succeeds.
LEMMA AloneUnchanged ==
  ASSUME TypeOK, Alone, WellFormed(plan, changes), k <= Len(plan), pc = "verify"
  PROVE  Unchanged
<1> DEFINE h == log[1].tree
           D == Detect(h, original, worktree)
           C == UNION {plan[n] : n \in 1 .. (k - 1)}
           P == PathsOf(C)
<1>1. h \in Tree /\ original \in Tree /\ worktree \in Tree
  BY FirstType DEF TypeOK
<1>2. k \in 1 .. Len(plan) /\ 1 .. (k - 1) \subseteq 1 .. Len(plan) /\ k .. Len(plan) \subseteq 1 .. Len(plan)
      /\ \A m \in 1 .. (k - 1), n \in k .. Len(plan) : m # n
  BY DEF TypeOK
<1>3. C \subseteq changes /\ Remaining \subseteq changes /\ Remaining \cap C = {}
  BY <1>2 DEF WellFormed, Remaining
<1>4. changes \subseteq D
  BY DEF Alone, Begun
<1>5. HeadTree = Over(h, worktree, P) /\ index = Over(original, worktree, P)
  BY DEF Alone, CommitsMade, HeadIs, Staged, Planned
<1> HIDE DEF h, C
<1>6. ~CollectFails(HeadTree, index, worktree) /\ Detect(HeadTree, index, worktree) = D \ C
  <2>1. Settling(h, original, worktree) /\ ~CollectFails(h, original, worktree)
    BY DEF Alone, Begun, h
  <2>2. C \in SUBSET D
    BY <1>3, <1>4
  <2> QED
    BY <1>1, <1>5, <2>1, <2>2, DetectSettled
<1>7. /\ \A c \in D : Paths(c) # {}
      /\ \A c, d \in D : Paths(c) \cap Paths(d) # {} => c = d
  BY <1>1, ChangesApart DEF Alone, Begun, Settling, h
<1>8. \A c : c \in changes => Paths(c) \subseteq PathsOf(changes)
  BY DEF PathsOf
<1>9. \A c \in D : Paths(c) \cap PathsOf(changes) # {} => c \in changes
  BY <1>4, <1>7 DEF PathsOf
<1> DEFINE now == {c \in D \ C : Paths(c) \cap PathsOf(changes) # {}}
           approved == {Key(c) : c \in {d \in changes : SensitiveChange(d)}}
           undecided == {c \in now : SensitiveChange(c) /\ Key(c) \notin approved}
<1> HIDE DEF D
<1>10. undecided = {}
  BY <1>9
<1>11. Remaining \subseteq now
  BY <1>3, <1>4, <1>7, <1>8
<1> HIDE DEF now
<1>12. /\ ~CollectFails(HeadTree, index, worktree)
       /\ \A c \in undecided : Key(c) \in declined
       /\ Remaining \subseteq now \ undecided
  BY <1>6, <1>10, <1>11
<1> QED
  BY <1>6, <1>12 DEF Unchanged, now

\* A step of Execute, left alone, ends where its work is what the plan says.
LEMMA AloneStep ==
  ASSUME Inv, TypeOK', quiet, quiet', WellFormed(plan, changes), Alone, [Next]_vars
  PROVE  Alone'
<1> DEFINE h == log[1].tree
<1>a. TypeOK /\ InPlan /\ PlanInv /\ k \in Nat \ {0} /\ Len(log) \in Nat /\ Len(log) >= 1 /\ Len(plan) \in Nat
  BY DEF Inv, TypeOK
<1>b. ~(budget > 0 /\ budget' = budget - 1)
  BY <1>a DEF quiet, TypeOK
<1>c. h \in Tree /\ worktree \in Tree /\ original \in Tree
  BY <1>a, FirstType DEF TypeOK
<1>d. ~Environment
  BY <1>b DEF Environment, EditFile, StagePath, ForeignCommit, Cancel, Interfere
<1>e. log' = log => HeadTree' = HeadTree
  BY DEF HeadTree
<1>f. Begun'
  <2>1. Begun /\ UNCHANGED <<worktree, changes>>
    BY <1>d DEF Alone, Next, Execute, vars, SaveIndex, SaveIndexFails, NextCommit, Interrupted, Finish,
      Verify, ResetIndex, ReadTree, AddPath, InstallIndex, ReadParent, StartGitCommit,
      GitCommits, GitCommitFails, AfterFailedCommit, AfterCommit, RetainIndex, ReportHookOutput, Restore
  <2>2. original' = original
    BY <1>d DEF Alone, Staged, Next, Execute, vars, SaveIndex, SaveIndexFails, NextCommit, Interrupted, Finish,
      Verify, ResetIndex, ReadTree, AddPath, InstallIndex, ReadParent, StartGitCommit,
      GitCommits, GitCommitFails, AfterFailedCommit, AfterCommit, RetainIndex, ReportHookOutput, Restore
  <2>3. log' = log \/ log' = Append(log, [tree |-> index, own |-> TRUE])
    BY <1>d DEF Next, Execute, vars, SaveIndex, SaveIndexFails, NextCommit, Interrupted, Finish,
      Verify, ResetIndex, ReadTree, AddPath, InstallIndex, ReadParent, StartGitCommit,
      GitCommits, GitCommitFails, AfterFailedCommit, AfterCommit, RetainIndex, ReportHookOutput, Restore
  <2>4. log'[1] = log[1]
    <3> DEFINE E == [tree : Tree, own : BOOLEAN]
    <3>1. log \in Seq(E) /\ [tree |-> index, own |-> TRUE] \in E
      BY <1>a, Zenon DEF TypeOK
    <3> HIDE DEF E
    <3> QED
      BY <1>a, <2>3, <3>1
  <2> QED
    BY <2>1, <2>2, <2>4, Zenon DEF Begun
<1> SUFFICES Untroubled' /\ CommitsMade' /\ Staged'
  BY <1>f DEF Alone
<1> USE DEF Alone, Untroubled, CommitsMade, HeadIs, Staged, Fail, Goto, Fault
<1>1. CASE SaveIndex
  BY <1>1, <1>e DEF SaveIndex
<1>2. CASE NextCommit
  <2>1. pc = "commit" /\ k <= Len(plan) /\ plan[k] # {} /\ plan[k] \cap assigned = {}
    <3>1. pc = "commit" /\ k \in 1 .. Len(plan)
      BY <1>2, <1>a DEF NextCommit
    <3>2. assigned = UNION {plan[n] : n \in 1 .. (k - 1)}
      BY <1>a, <3>1 DEF PlanInv, OnCourse, Partition, Taken
    <3> QED
      BY <1>a, <3>1, <3>2 DEF WellFormed
  <2> QED
    BY <1>2, <1>e, <2>1 DEF NextCommit
<1>3. CASE Finish
  <2>1. pc = "commit" /\ k = Len(plan) + 1
    BY <1>3, <1>a DEF Finish, PlanInv, PositionInv
  <2>2. assigned = UNION {plan[n] : n \in 1 .. (k - 1)}
    BY <1>a, <2>1 DEF PlanInv, OnCourse, Partition, Taken
  <2>3. assigned = changes
    BY <1>a, <2>1, <2>2 DEF WellFormed
  <2> QED
    BY <1>3, <1>e, <2>1, <2>3 DEF Finish
<1>4. CASE Verify
  <2>1. pc = "verify" /\ k <= Len(plan)
    BY <1>4, <1>a DEF Verify, InPlan, Labels
  <2>2. Unchanged
    BY <1>a, <2>1, AloneUnchanged
  <2>3. pc' = "reset" /\ UNCHANGED <<git, input, k, original, heads, progress, cancelled>>
    BY <1>4, <1>b, <2>2 DEF Verify
  <2> QED
    BY <1>e, <2>1, <2>3
<1>5. CASE ResetIndex
  BY <1>5, <1>b, <1>e DEF ResetIndex
<1>6. CASE ReadTree
  <2>1. /\ pc = "readtree" /\ pc' = "add" /\ tmp' = HeadTree /\ toAdd' = PlanPaths(k)
        /\ UNCHANGED <<git, input, k, original, heads, progress, cancelled>>
    BY <1>6, <1>b DEF ReadTree
  <2>2. k <= Len(plan)
    BY <1>a, <2>1 DEF InPlan, Labels
  <2>3. Planned(plan, k) \ PlanPaths(k) = Planned(plan, k - 1)
    BY <1>a, <2>2, PlannedStep
  <2>4. PlanPaths(k)' = PlanPaths(k)
    BY <2>1 DEF PlanPaths
  <2> QED
    BY <1>e, <2>1, <2>3, <2>4
<1>7. CASE AddPath
  <2>1. pc = "add" /\ k <= Len(plan)
    BY <1>7, <1>a DEF AddPath, InPlan, Labels
  <2>2. PICK p \in toAdd :
          \/ /\ worktree[p] # Absent \/ tmp[p] # Absent
             /\ tmp' = [tmp EXCEPT ![p] = worktree[p]] /\ toAdd' = toAdd \ {p} /\ pc' = "add"
          \/ worktree[p] = Absent /\ tmp[p] = Absent /\ pc' = "restore"
    BY <1>7, <1>b DEF AddPath
  <2>3. /\ p \in PlanPaths(k) /\ p \in Planned(plan, k) /\ p \in Path
        /\ tmp[p] = h[p] /\ h[p] # worktree[p]
    BY <1>a, <2>1, PlannedStep DEF Over
  <2>4. tmp' = [tmp EXCEPT ![p] = worktree[p]] /\ toAdd' = toAdd \ {p} /\ pc' = "add"
    BY <2>2, <2>3
  <2>5. tmp' = Over(h, worktree, Planned(plan, k) \ toAdd')
    <3>1. tmp = Over(h, worktree, Planned(plan, k) \ toAdd)
      BY <2>1
    <3>2. tmp' = [q \in Path |-> tmp'[q]]
      BY DEF TypeOK, Tree
    <3>3. tmp = [q \in Path |-> IF q \in Planned(plan, k) \ toAdd THEN worktree[q] ELSE h[q]]
      BY <3>1 DEF Over
    <3> HIDE DEF h, Alone, CommitsMade, Staged
    <3>4. \A q \in Path : tmp'[q] = IF q \in Planned(plan, k) \ toAdd' THEN worktree[q] ELSE h[q]
      BY <2>3, <2>4, <3>3
    <3>5. tmp' = [q \in Path |-> IF q \in Planned(plan, k) \ toAdd' THEN worktree[q] ELSE h[q]]
      BY <3>2, <3>4
    <3> QED
      BY <3>5 DEF Over
  <2>6. PlanPaths(k)' = PlanPaths(k) /\ UNCHANGED <<git, input, k, original, heads, progress, cancelled>>
    BY <1>7 DEF AddPath, PlanPaths
  <2> QED
    BY <1>e, <2>1, <2>4, <2>5, <2>6
<1>8. CASE InstallIndex
  <2>1. Planned(plan, k) \ {} = Planned(plan, k)
    OBVIOUS
  <2> QED
    BY <1>8, <1>b, <1>e, <2>1 DEF InstallIndex
<1>9. CASE ReadParent
  BY <1>9, <1>b, <1>e DEF ReadParent
<1>10. CASE StartGitCommit
  BY <1>10, <1>e DEF StartGitCommit
<1>11. CASE GitCommits
  <2>1. /\ pc = "hook" /\ pc' = "head" /\ log' = Append(log, [tree |-> index, own |-> TRUE])
        /\ UNCHANGED <<index, worktree, input, k, original, heads, progress, cancelled>>
    BY <1>11 DEF GitCommits
  <2>2. /\ Len(log') = Len(log) + 1 /\ log'[Len(log')].tree = index /\ log'[1] = log[1]
        /\ log'[Len(log') - 1] = log[Len(log)]
    BY <1>a, <2>1 DEF TypeOK
  <2>3. HeadTree' = index /\ log'[Len(log') - 1].tree = HeadTree
    BY <2>2 DEF HeadTree
  <2> QED
    BY <1>a, <2>1, <2>2, <2>3
<1>12. ~GitCommitFails
  <2>1. SUFFICES ASSUME GitCommitFails PROVE FALSE
    OBVIOUS
  <2>2. pc = "hook" /\ ~CanCommit
    BY <1>b, <2>1 DEF GitCommitFails
  <2>3. k <= Len(plan)
    BY <1>a, <2>2 DEF InPlan, Labels
  <2>4. PICK p \in PlanPaths(k) : /\ p \in Path /\ h[p] # worktree[p]
                                  /\ p \in Planned(plan, k) /\ p \notin Planned(plan, k - 1)
    BY <1>a, <2>3, PlannedStep
  <2>5. index[p] = worktree[p] /\ HeadTree[p] = h[p]
    BY <2>2, <2>4 DEF Over
  <2> QED
    BY <2>2, <2>4, <2>5 DEF CanCommit
<1>13. CASE AfterCommit
  <2>1. pc = "head" /\ k <= Len(plan)
    BY <1>13, <1>a DEF AfterCommit, InPlan, Labels
  <2>2. HeadTree = Over(h, worktree, Planned(plan, k))
        /\ log[Len(log) - 1].tree = Over(h, worktree, Planned(plan, k - 1))
        /\ HeadTree = log[Len(log)].tree
    BY <2>1 DEF HeadTree
  <2>3. /\ Planned(plan, k) = Planned(plan, k - 1) \cup PlanPaths(k) /\ Planned(plan, k) \subseteq Path
        /\ Planned(plan, k - 1) \cap PlanPaths(k) = {}
        /\ \A p \in PlanPaths(k) : h[p] # worktree[p]
    BY <1>a, <2>1, PlannedStep
  <2>4. Diff(Len(log)) = PlanPaths(k)
    BY <2>2, <2>3 DEF Diff, Differ, Over
  <2>5. ValidCommit(Len(log), PlanPaths(k))
    BY <1>a, <2>1, <2>4 DEF ValidCommit
  <2>6. /\ pc' = "retain" /\ committed' = committed \cup PlanPaths(k)
        /\ UNCHANGED <<git, input, k, original, parent, gitParent, cancelled>>
    BY <1>13, <1>b, <2>5 DEF AfterCommit
  <2>7. committed' = Planned(plan, k)
    BY <2>1, <2>3, <2>6
  <2> QED
    BY <1>e, <2>1, <2>6, <2>7
<1>14. CASE RetainIndex
  <2>1. /\ pc = "retain" /\ pc' = "report" /\ index' = Retained(committed)
        /\ UNCHANGED <<log, worktree, input, k, original, heads, progress, cancelled>>
    BY <1>14, <1>b DEF RetainIndex
  <2>2. Retained(committed) = Over(original, worktree, Planned(plan, k))
    BY <2>1 DEF Retained, Over
  <2> QED
    BY <1>e, <2>1, <2>2
<1>15. CASE ReportHookOutput
  <2>1. /\ pc = "report" /\ pc' = "commit" /\ k' = k + 1 /\ k' - 1 = k
        /\ UNCHANGED <<git, input, original, heads, progress, cancelled>>
    BY <1>15, <1>a, <1>b DEF ReportHookOutput
  <2> QED
    BY <1>e, <2>1
<1>16. ~SaveIndexFails /\ ~Interrupted /\ ~AfterFailedCommit /\ ~Restore
  BY <1>b DEF SaveIndexFails, Interrupted, AfterFailedCommit, Restore
<1>17. CASE UNCHANGED vars
  <2>1. PlanPaths(k)' = PlanPaths(k)
    BY <1>17 DEF vars, PlanPaths
  <2> QED
    BY <1>17, <1>e, <2>1 DEF vars
<1> QED
  BY <1>1, <1>2, <1>3, <1>4, <1>5, <1>6, <1>7, <1>8, <1>9, <1>10, <1>11, <1>12, <1>13, <1>14, <1>15, <1>16, <1>17, <1>d DEF Next, Execute

\* Interference is counted, and the plan is never changed.
LEMMA StepCounts ==
  ASSUME [Next]_vars
  PROVE  /\ budget' = budget \/ (budget > 0 /\ budget' = budget - 1)
         /\ UNCHANGED <<plan, changes>>
<1> USE DEF Fail, Goto, Fault, Interfere
<1>1. CASE Execute
  BY <1>1 DEF Execute, SaveIndex, SaveIndexFails, NextCommit, Interrupted, Finish, Verify, ResetIndex,
    ReadTree, AddPath, InstallIndex, ReadParent, StartGitCommit, GitCommits, GitCommitFails,
    AfterFailedCommit, AfterCommit, RetainIndex, ReportHookOutput, Restore
<1>2. CASE Environment
  BY <1>2 DEF Environment, EditFile, StagePath, ForeignCommit, Cancel
<1>3. CASE UNCHANGED vars
  BY <1>3 DEF vars
<1> QED
  BY <1>1, <1>2, <1>3 DEF Next

\* What the worktree holds at no path changes no tree.
LEMMA OverNothing == ASSUME NEW t \in Tree, NEW w PROVE Over(t, w, {}) = t
BY DEF Over, Tree

\* Renames of different contents stay paired as they are: any such start settles.
LEMMA UnambiguousSettles ==
  ASSUME NEW h \in Tree, NEW i \in Tree, NEW w \in Tree,
         Matching(RenameCandidates(h, i)), \A r \in Renames(h, i) : w[r[1]] = Absent
  PROVE  Settling(h, i, w)
<1>1. ASSUME NEW a \in Tree, NEW b \in Tree, Matching(RenameCandidates(a, b))
      PROVE  Renames(a, b) = RenameCandidates(a, b)
  <2> DEFINE R == RenameCandidates(a, b)
             Largest(M) == Matching(M) /\ \A N \in SUBSET R : Matching(N) => ~(M \subseteq N /\ M # N)
             Paired == CHOOSE M \in SUBSET R : Largest(M)
  <2>1. Renames(a, b) = R \cap Paired
    BY DEF Renames
  <2> HIDE DEF R
  <2>2. Largest(R)
    BY <1>1 DEF R
  <2>3. Paired \in SUBSET R /\ Largest(Paired)
    BY <2>2
  <2> HIDE DEF Paired
  <2>4. Paired = R
    BY <1>1, <2>3 DEF R
  <2> QED
    BY <2>1, <2>4 DEF R
<1>2. ASSUME NEW P \in SUBSET Path
      PROVE  LET g == Over(h, w, P)
                 j == Over(i, w, P)
             IN  RenameCandidates(g, j) = {r \in RenameCandidates(h, i) : r[1] \notin P /\ r[2] \notin P}
  BY DEF RenameCandidates, Over, Tree
<1>3. ASSUME NEW P \in SUBSET Path, \A r \in Renames(h, i) : r[1] \in P <=> r[2] \in P
      PROVE  Renames(Over(h, w, P), Over(i, w, P)) = {r \in Renames(h, i) : r[1] \notin P}
  <2>1. Renames(h, i) = RenameCandidates(h, i)
    BY <1>1
  <2>2. Matching(RenameCandidates(Over(h, w, P), Over(i, w, P)))
    BY <1>2 DEF Matching
  <2>3. Renames(Over(h, w, P), Over(i, w, P)) = RenameCandidates(Over(h, w, P), Over(i, w, P))
    BY <1>1, <2>2, OverType
  <2> QED
    BY <1>2, <1>3, <2>1, <2>3
<1> QED
  BY <1>3 DEF Settling

(* If nobody interferes and nothing fails, a plan that partitions the        *)
(* analysed changes is carried out to its end: its paths are at HEAD as they *)
(* are in the worktree, no other path moved, and no check of Execute rejects *)
(* Execute's own work.  This is for starts that settle: no old path of a     *)
(* staged rename exists again, and the other renames stay paired as they     *)
(* were when one is committed.                                               *)
THEOREM QuietRuns ==
  ASSUME \A s \in Starts : Settling(s.head, s.index, s.worktree)
  PROVE  Spec => []QuietSucceeds
<1>1. Init => AloneInv
  <2> SUFFICES ASSUME Init PROVE Alone
    BY DEF AloneInv
  <2>1. PICK s \in Starts :
          /\ ~CollectFails(s.head, s.index, s.worktree)
          /\ log = <<[tree |-> s.head, own |-> FALSE]>>
          /\ index = s.index /\ worktree = s.worktree
          /\ changes \subseteq Detect(s.head, s.index, s.worktree)
    BY DEF Init
  <2>2. s.head \in Tree /\ s.index \in Tree
    BY ConstantsOK
  <2>3. log[1].tree = s.head /\ HeadTree = s.head
    BY <2>1 DEF HeadTree
  <2>4. /\ pc = "save" /\ k = 1 /\ original = index /\ committed = {} /\ ~cancelled
    BY DEF Init
  <2>5. Planned(plan, k - 1) = {}
    BY <2>4 DEF Planned, PathsOf
  <2>6. Over(s.head, worktree, {}) = s.head /\ Over(s.index, worktree, {}) = s.index
    BY <2>2, OverNothing
  <2>7. Begun /\ Untroubled
    BY <2>1, <2>3, <2>4 DEF Begun, Untroubled
  <2>8. CommitsMade /\ Staged
    BY <2>1, <2>3, <2>4, <2>5, <2>6 DEF CommitsMade, HeadIs, Staged
  <2> QED
    BY <2>7, <2>8 DEF Alone
<1>2. Inv /\ Inv' /\ AloneInv /\ [Next]_vars => AloneInv'
  <2> SUFFICES ASSUME Inv, Inv', AloneInv, [Next]_vars, quiet', WellFormed(plan, changes)' PROVE Alone'
    BY DEF AloneInv
  <2>1. quiet /\ WellFormed(plan, changes)
    <3>1. WellFormed(plan, changes)
      BY StepCounts DEF WellFormed
    <3>2. budget \in 0 .. Budget /\ Budget \in Nat /\ budget' = Budget
      BY ConstantsOK DEF quiet, Inv, TypeOK
    <3> QED
      BY <3>1, <3>2, StepCounts DEF quiet
  <2> QED
    BY <2>1, AloneStep DEF AloneInv, Inv
<1>3. Inv /\ AloneInv => QuietSucceeds
  <2> SUFFICES ASSUME Inv, Alone, pc = "done", WellFormed(plan, changes)
               PROVE  /\ result = "success"
                      /\ HeadTree = [p \in Path |-> IF p \in PathsOf(changes)
                                                    THEN worktree[p] ELSE log[1].tree[p]]
    BY DEF AloneInv, QuietSucceeds
  <2>1. result = "success"
    BY DEF Alone, Untroubled
  <2>2. k = Len(plan) + 1 /\ Len(plan) \in Nat
    BY <2>1 DEF Inv, PlanInv, PositionInv, TypeOK
  <2>3. Planned(plan, k - 1) = PathsOf(changes)
    <3>1. k - 1 = Len(plan) /\ UNION {plan[n] : n \in 1 .. Len(plan)} = changes
      BY <2>2 DEF WellFormed
    <3> QED
      BY <3>1 DEF Planned
  <2>4. HeadTree = Over(log[1].tree, worktree, PathsOf(changes))
    BY <2>3 DEF Alone, CommitsMade, HeadIs
  <2> QED
    BY <2>1, <2>4 DEF Over
<1> QED
  BY <1>1, <1>2, <1>3, Invariant, PTL DEF Spec

=============================================================================
