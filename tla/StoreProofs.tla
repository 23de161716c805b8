----------------------------- MODULE StoreProofs -----------------------------
(* What the trust store and the lock file of a repository keep, for any      *)
(* number of processes: only approved definitions are authorised, and a      *)
(* revocation lasts until the next approval unless processes overlap; the    *)
(* lock is not leaked, and runs collect one at a time.                       *)
EXTENDS TrustStore, RepoLock, TLAPS

\* What the file, every process's copy and every pending write hold was
\* approved: the file alone is not inductive, an old copy may replace it.
Pair(e, r) == e[r] # None => <<r, e[r]>> \in approved
Approvals ==
  /\ \A r \in Repo : Pair(file, r)
  /\ \A p \in Process, r \in Repo : Pair(state[p], r)
  /\ \A p \in Process : op[p].kind = "authorize" /\ pc[p] \in {"read", "replace"}
                         => <<op[p].repo, op[p].hash>> \in approved
IInv == TypeOK /\ Approvals /\ OnlyApproved

\* The first state: nothing is trusted and nothing ran.
LEMMA InitInv == Init => IInv
<1> SUFFICES ASSUME Init PROVE IInv
  OBVIOUS
<1>1. TypeOK
  BY ConstantsOK DEF Init, TypeOK, Entries, Labels
<1>2. Approvals /\ OnlyApproved
  BY DEF Init, Approvals, Pair, OnlyApproved
<1> QED BY <1>1, <1>2 DEF IInv

\* Every step of every process keeps the types.
LEMMA TypeStep == TypeOK /\ [Next]_vars => TypeOK'
<1> SUFFICES ASSUME TypeOK, [Next]_vars PROVE TypeOK'
  OBVIOUS
<1> USE DEF TypeOK, Labels, Goto, given
<1>1. ASSUME NEW p \in Process, Begin(p) PROVE TypeOK'
  BY <1>1 DEF Begin
<1>2. ASSUME NEW p \in Process, Match(p) PROVE TypeOK'
  BY <1>2 DEF Match
<1>3. ASSUME NEW p \in Process, Answer(p) PROVE TypeOK'
  BY <1>3 DEF Answer, Operation
<1>4. ASSUME NEW p \in Process, Read(p) PROVE TypeOK'
  BY <1>4 DEF Read
<1>5. ASSUME NEW p \in Process, Replace(p) PROVE TypeOK'
  <2>1. file' \in Entries
    BY <1>5 DEF Replace, Entries, Operation
  <2>2. /\ overlap' \in BOOLEAN /\ state' \in [Process -> Entries] /\ op' \in [Process -> Operation]
        /\ ran' \subseteq Process /\ approved' \subseteq Repo \X Hash
    BY <1>5 DEF Replace
  <2>3. pc' \in [Process -> Labels]
    BY <1>5 DEF Replace
  <2> QED BY <2>1, <2>2, <2>3
<1>6. ASSUME NEW p \in Process, WriteFails(p) PROVE TypeOK'
  BY <1>6 DEF WriteFails
<1>7. ASSUME NEW p \in Process, Crash(p) PROVE TypeOK'
  BY <1>7 DEF Crash
<1>8. CASE UNCHANGED vars
  BY <1>8 DEF vars
<1> QED BY <1>1, <1>2, <1>3, <1>4, <1>5, <1>6, <1>7, <1>8 DEF Next, Step

\* Every step keeps what is stored and what is about to be stored approved.
LEMMA ApprovalStep == TypeOK /\ Approvals /\ [Next]_vars => Approvals'
<1> SUFFICES ASSUME TypeOK, Approvals, [Next]_vars PROVE Approvals'
  OBVIOUS
<1> USE DEF TypeOK, Approvals, Pair, Goto, given
<1>1. ASSUME NEW p \in Process, Begin(p) PROVE Approvals'
  BY <1>1 DEF Begin
<1>2. ASSUME NEW p \in Process, Match(p) PROVE Approvals'
  BY <1>2 DEF Match
<1>3. ASSUME NEW p \in Process, Answer(p) PROVE Approvals'
  BY <1>3 DEF Answer
<1>4. ASSUME NEW p \in Process, Read(p) PROVE Approvals'
  BY <1>4 DEF Read
<1>5. ASSUME NEW p \in Process, Replace(p) PROVE Approvals'
  <2>1. \A r \in Repo : Pair(file, r)'
    <3> SUFFICES ASSUME NEW r \in Repo, file'[r] # None
                 PROVE <<r, file'[r]>> \in approved'
      OBVIOUS
    <3>1. op[p] \in Operation
      OBVIOUS
    <3>2. CASE r = op[p].repo
      BY <1>5, <3>1, <3>2 DEF Replace, Entries, Operation
    <3>3. CASE r # op[p].repo
      BY <1>5, <3>3 DEF Replace, Entries
    <3> QED BY <3>2, <3>3
  <2> QED BY <1>5, <2>1 DEF Replace
<1>6. ASSUME NEW p \in Process, WriteFails(p) PROVE Approvals'
  BY <1>6 DEF WriteFails
<1>7. ASSUME NEW p \in Process, Crash(p) PROVE Approvals'
  BY <1>7 DEF Crash
<1>8. CASE UNCHANGED vars
  BY <1>8 DEF vars
<1> QED BY <1>1, <1>2, <1>3, <1>4, <1>5, <1>6, <1>7, <1>8 DEF Next, Step

\* A process joins those that ran only with an approved definition.
LEMMA AuthorizedStep == IInv /\ [Next]_vars => OnlyApproved'
<1> SUFFICES ASSUME IInv, [Next]_vars PROVE OnlyApproved'
  OBVIOUS
<1> USE DEF IInv, OnlyApproved, TypeOK, given
<1>1. ASSUME NEW p \in Process, Match(p) PROVE OnlyApproved'
  <2>1. op[p] \in Operation
    OBVIOUS
  <2>2. file[op[p].repo] = op[p].hash => <<op[p].repo, op[p].hash>> \in approved
    BY <2>1, ConstantsOK DEF Approvals, Pair, Operation
  <2> QED BY <1>1, <2>2 DEF Match
<1>2. ASSUME NEW p \in Process, Answer(p) PROVE OnlyApproved'
  BY <1>2 DEF Answer
<1>3. ASSUME NEW p \in Process, Replace(p) PROVE OnlyApproved'
  <2>1. op[p].kind \in {"authorize", "revoke"}
    BY DEF Operation
  <2> QED BY <1>3, <2>1 DEF Replace, Approvals
<1>4. ASSUME NEW p \in Process,
             Begin(p) \/ Read(p) \/ WriteFails(p) \/ Crash(p)
      PROVE  OnlyApproved'
  BY <1>4 DEF Begin, Read, WriteFails, Crash
<1>5. CASE UNCHANGED vars
  BY <1>5 DEF vars
<1> QED BY <1>1, <1>2, <1>3, <1>4, <1>5 DEF Next, Step

\* However processes overlap, fail or crash, no definition is authorised that
\* the user never approved for its repository.
THEOREM Authorized == Spec => []OnlyApproved
<1>1. IInv /\ [Next]_vars => IInv'
  BY TypeStep, ApprovalStep, AuthorizedStep DEF IInv
<1>2. IInv => OnlyApproved
  BY DEF IInv
<1> QED BY InitInv, <1>1, <1>2, PTL DEF Spec

-----------------------------------------------------------------------------
(* Revocation                                                                *)

\* Without overlap one process is at work, and what it is about to write was
\* read from the file as it still is.
Alone ==
  ~overlap => \A p \in Process : ~AtRest(p) =>
    /\ \A q \in Process : ~AtRest(q) => p = q
    /\ pc[p] = "replace" => state[p] = file

\* Every step leaves one process at work, with a copy that is not stale.
LEMMA AloneStep == TypeOK /\ Alone /\ [Next]_vars => Alone'
<1> SUFFICES ASSUME TypeOK, Alone, [Next]_vars PROVE Alone'
  OBVIOUS
<1> USE DEF TypeOK, Alone, AtRest, Goto, given, Labels
<1>1. ASSUME NEW p \in Process, Begin(p) PROVE Alone'
  BY <1>1 DEF Begin
<1>2. ASSUME NEW p \in Process, Match(p) PROVE Alone'
  BY <1>2 DEF Match
<1>3. ASSUME NEW p \in Process, Answer(p) PROVE Alone'
  BY <1>3 DEF Answer
<1>4. ASSUME NEW p \in Process, Read(p) PROVE Alone'
  BY <1>4 DEF Read
<1>5. ASSUME NEW p \in Process, Replace(p) PROVE Alone'
  BY <1>5 DEF Replace
<1>6. ASSUME NEW p \in Process, WriteFails(p) PROVE Alone'
  BY <1>6 DEF WriteFails
<1>7. ASSUME NEW p \in Process, Crash(p) PROVE Alone'
  BY <1>7 DEF Crash
<1>8. CASE UNCHANGED vars
  BY <1>8 DEF vars
<1> QED BY <1>1, <1>2, <1>3, <1>4, <1>5, <1>6, <1>7, <1>8 DEF Next, Step

\* Only the write of an approval brings an entry into the file.
LEMMA ReappearStep ==
  ASSUME TypeOK, Alone, Next, ~overlap, NEW r \in Repo, Reappears(r)
  PROVE  \E p \in Process : Approves(p, r)
<1>1. PICK p \in Process : Replace(p)
  BY DEF Next, Step, Begin, Match, Answer, Read, WriteFails, Crash, Reappears
<1>2. state[p] = file /\ op[p] \in Operation /\ file \in [Repo -> Hash \cup {None}]
  BY <1>1 DEF Replace, TypeOK, Alone, AtRest, Entries
<1>3. r = op[p].repo
  BY <1>1, <1>2 DEF Replace, Reappears
<1>4. op[p].kind = "authorize"
  BY <1>1, <1>2, <1>3 DEF Replace, Reappears, Operation
<1> QED BY <1>1, <1>3, <1>4 DEF Replace, Approves, Goto, TypeOK

\* A revoked entry comes back by an approval for its own repository only, as
\* long as processes do not overlap.
THEOREM Revoked == Spec => RevokedStaysRevoked
<1> DEFINE Inv == TypeOK /\ Alone
<1>1. Init => Inv
  BY InitInv DEF IInv, Init, Alone, AtRest
<1>2. Inv /\ [Next]_vars => Inv'
  BY TypeStep, AloneStep
<1>3. Inv /\ [Next]_vars =>
        [~overlap => \A r \in Repo : Reappears(r) => \E p \in Process : Approves(p, r)]_vars
  BY ReappearStep
<1> HIDE DEF Inv
<1> QED BY <1>1, <1>2, <1>3, PTL DEF Spec, RevokedStaysRevoked

-----------------------------------------------------------------------------
(* The lock file                                                             *)

\* Every variable keeps its type.
LEMMA LockTyped == LockSpec => []LockTypeOK
<1>1. LockInit => LockTypeOK
  BY LockConstantsOK DEF LockInit, LockTypeOK, Phases
<1>2. LockTypeOK /\ [LockNext]_lockVars => LockTypeOK'
  <2> SUFFICES ASSUME LockTypeOK, [LockNext]_lockVars PROVE LockTypeOK'
    OBVIOUS
  <2>1. CASE RemoveStale
    BY <2>1 DEF RemoveStale, LockTypeOK
  <2>2. ASSUME NEW r \in Run, Acquire(r) PROVE LockTypeOK'
    BY <2>2, LockConstantsOK DEF Acquire, Turn, LockTypeOK, Phases
  <2>3. ASSUME NEW r \in Run, Unwritten(r) PROVE LockTypeOK'
    BY <2>3 DEF Unwritten, Remove, Turn, LockTypeOK, Phases
  <2>4. ASSUME NEW r \in Run, Enter(r) PROVE LockTypeOK'
    BY <2>4 DEF Enter, Turn, LockTypeOK, Phases
  <2>5. ASSUME NEW r \in Run, Release(r) PROVE LockTypeOK'
    BY <2>5 DEF Release, Remove, Turn, LockTypeOK, Phases
  <2>6. ASSUME NEW r \in Run, End(r) PROVE LockTypeOK'
    BY <2>6 DEF End, Turn, LockTypeOK, Phases
  <2>7. ASSUME NEW r \in Run, Die(r) PROVE LockTypeOK'
    BY <2>7 DEF Die, Turn, LockTypeOK, Phases
  <2>8. CASE UNCHANGED lockVars
    BY <2>8 DEF lockVars, LockTypeOK
  <2> QED BY <2>1, <2>2, <2>3, <2>4, <2>5, <2>6, <2>7, <2>8 DEF LockNext, LockStep
<1> QED BY <1>1, <1>2, PTL DEF LockSpec

\* The lock file names whoever is in Collect, or a run that died there
\* or could not remove it: it is
\* this, and not the exclusion itself, that every step preserves.
THEOREM LockNotLeaked == LockSpec => []NoLeak
<1>1. LockInit => NoLeak
  BY DEF LockInit, NoLeak, InCollect
<1>2. LockTypeOK /\ NoLeak /\ [LockNext]_lockVars => NoLeak'
  <2> SUFFICES ASSUME LockTypeOK, NoLeak, [LockNext]_lockVars PROVE NoLeak'
    OBVIOUS
  <2> USE DEF NoLeak, InCollect, LockTypeOK
  <2>1. CASE RemoveStale
    BY <2>1 DEF RemoveStale
  <2>2. ASSUME NEW r \in Run, Acquire(r) PROVE NoLeak'
    BY <2>2, LockConstantsOK DEF Acquire, Turn
  <2>3. ASSUME NEW r \in Run, Unwritten(r) PROVE NoLeak'
    BY <2>3 DEF Unwritten, Remove, Turn
  <2>4. ASSUME NEW r \in Run, Enter(r) PROVE NoLeak'
    BY <2>4 DEF Enter, Turn
  <2>5. ASSUME NEW r \in Run, Release(r) PROVE NoLeak'
    BY <2>5 DEF Release, Remove, Turn
  <2>6. ASSUME NEW r \in Run, End(r) PROVE NoLeak'
    BY <2>6 DEF End, Turn
  <2>7. ASSUME NEW r \in Run, Die(r) PROVE NoLeak'
    BY <2>7 DEF Die, Turn
  <2>8. CASE UNCHANGED lockVars
    BY <2>8 DEF lockVars
  <2> QED BY <2>1, <2>2, <2>3, <2>4, <2>5, <2>6, <2>7, <2>8 DEF LockNext, LockStep
<1> QED BY <1>1, <1>2, LockTyped, PTL DEF LockSpec

\* No two runs are ever in Collect together.
THEOREM Exclusion == LockSpec => []CollectExclusive
<1>1. NoLeak => CollectExclusive
  BY DEF NoLeak, CollectExclusive
<1> QED BY <1>1, LockNotLeaked, PTL
=============================================================================
