-------------------------- MODULE ModelStoreProofs --------------------------
(* What an installation can never do to a model, for any number of processes *)
(* and files, whatever overlaps, fails or dies.                              *)
EXTENDS ModelStore, TLAPS

\* A staging directory holds downloaded files only, and all of them when it
\* is about to be published.
Staged ==
  \A p \in Process :
    /\ staging[p] # NoDir => \A f \in File : staging[p].file[f] # "bad"
    /\ pc[p] \in {"inspect", "moveaway", "publish"} => Verified(staging[p])

\* What looks ready is verified, or was there before: at the destination and
\* among the directories moved aside, from where it may come back.
Genuine(d) == Ready(d) => Verified(d) \/ d = planted
AllGenuine == Genuine(destination) /\ \A p \in Process : Genuine(backup[p])

\* A process moves at most one directory aside.
Early == {"start", "confirm", "install", "download", "inspect", "moveaway"}
BackupOnce == \A p \in Process : pc[p] \in Early => backup[p] = NoDir

\* A ready copy is where no process is about to delete it.
CopySafe ==
  ready => \/ Ready(destination)
           \/ \E p \in Process : pc[p] # "clean" /\ Ready(backup[p])

\* Without overlap one process is at work, and it replaces no ready model.
Alone ==
  ~overlap =>
    /\ \A p, q \in Process : ~AtRest(p) /\ ~AtRest(q) => p = q
    /\ \A p \in Process : pc[p] \in {"download", "inspect", "moveaway"} => ~Ready(destination)

\* The planned files of a directory are functions.
LEMMA SetFileType ==
  ASSUME NEW d \in Dir, NEW f \in File, NEW b \in {"good", "bad", "missing"}
  PROVE  [d EXCEPT !.file[f] = b] \in Dir
BY DEF Dir

\* What is verified looks ready.
LEMMA VerifiedReady == ASSUME NEW d, Verified(d) PROVE Ready(d)
BY DEF Verified, Ready

\* The first state is well typed.
LEMMA InitType == Init => TypeOK
<1> SUFFICES ASSUME Init PROVE TypeOK
  OBVIOUS
<1>1. ready \in BOOLEAN
  <2>1. ready = Ready(planted)
    BY DEF Init
  <2> QED BY <2>1, Zenon DEF Ready
<1>2. /\ overlap \in BOOLEAN /\ update \subseteq Process /\ planted \in Slot
      /\ destination \in Slot /\ disturbed \subseteq Process
  BY ConstantsOK DEF Init
<1>3. staging \in [Process -> Slot] /\ backup \in [Process -> Slot]
  BY DEF Init, Slot
<1>4. pc = [p \in Process |-> "start"]
  BY DEF Init
<1> QED BY <1>1, <1>2, <1>3, <1>4 DEF TypeOK, Labels

\* Every step of every process keeps the types.
LEMMA TypeStep == TypeOK /\ [Next]_vars => TypeOK'
<1> SUFFICES ASSUME TypeOK, [Next]_vars PROVE TypeOK'
  OBVIOUS
<1> USE DEF TypeOK, Labels, Goto, Return, Fault, given, history, Slot
<1>a. Empty \in Dir /\ NoDir \notin Dir /\ \A d \in Dir : d # NoDir
  BY ConstantsOK DEF Empty, Dir
<1>1. ASSUME NEW p \in Process, Setup(p) PROVE TypeOK'
  BY <1>1 DEF Setup
<1>2. ASSUME NEW p \in Process, Confirm(p) PROVE TypeOK'
  BY <1>2 DEF Confirm
<1>3. ASSUME NEW p \in Process, Install(p) PROVE TypeOK'
  BY <1>3, <1>a DEF Install
<1>4. ASSUME NEW p \in Process, Download(p) PROVE TypeOK'
  <2>1. PICK f \in Missing(p) :
          \/ /\ staging' = [staging EXCEPT ![p].file[f] = "good"]
             /\ UNCHANGED <<pc, history>>
          \/ Return(p, "failed") /\ Fault(p)
    BY <1>4 DEF Download
  <2>2. f \in File /\ staging[p] \in Dir
    BY <1>4 DEF Missing, Download
  <2>3. [staging[p] EXCEPT !.file[f] = "good"] \in Dir
    BY <2>2, SetFileType
  <2>4. staging' \in [Process -> Slot]
    BY <2>1, <2>3
  <2>5. \A q \in Process : staging[q] # NoDir /\ q # p => staging'[q] # NoDir
    BY <2>1
  <2> QED BY <1>4, <1>a, <2>1, <2>3, <2>4, <2>5 DEF Download
<1>5. ASSUME NEW p \in Process, WriteMetadata(p) PROVE TypeOK'
  <2>1. staging[p] \in Dir
    BY <1>5 DEF WriteMetadata
  <2>2. [staging[p] EXCEPT !.metadata = TRUE] \in Dir
    BY <2>1 DEF Dir
  <2>3. staging' \in [Process -> Slot]
    BY <1>5, <2>2 DEF WriteMetadata
  <2>4. /\ \A q \in Process \ {p} : staging'[q] = staging[q] /\ pc'[q] = pc[q]
        /\ pc'[p] = "failed" \/ (pc'[p] = "inspect" /\ staging'[p] # NoDir)
    BY <1>5, <1>a, <2>2 DEF WriteMetadata
  <2>5. /\ pc' \in [Process -> Labels] /\ disturbed' \subseteq Process
        /\ UNCHANGED <<given, destination, backup, ready>>
    BY <1>5 DEF WriteMetadata
  <2> QED BY <2>3, <2>4, <2>5
<1>6. ASSUME NEW p \in Process, Inspect(p) PROVE TypeOK'
  BY <1>6 DEF Inspect
<1>7. ASSUME NEW p \in Process, MoveAway(p) PROVE TypeOK'
  BY <1>7 DEF MoveAway
<1>8. ASSUME NEW p \in Process, Publish(p) PROVE TypeOK'
  BY <1>8 DEF Publish
<1>9. ASSUME NEW p \in Process, Rollback(p) PROVE TypeOK'
  BY <1>9 DEF Rollback
<1>10. ASSUME NEW p \in Process, Recheck(p) PROVE TypeOK'
  BY <1>10 DEF Recheck
<1>11. ASSUME NEW p \in Process, Clean(p) PROVE TypeOK'
  BY <1>11 DEF Clean
<1>12. ASSUME NEW p \in Process, Crash(p) PROVE TypeOK'
  BY <1>12 DEF Crash
<1>13. CASE UNCHANGED vars
  BY <1>13 DEF vars
<1> QED
  BY <1>1, <1>2, <1>3, <1>4, <1>5, <1>6, <1>7, <1>8, <1>9, <1>10, <1>11, <1>12,
     <1>13 DEF Next, Step

\* Every step keeps the staging directories as downloaded.
LEMMA StagedStep == TypeOK /\ Staged /\ [Next]_vars => Staged'
<1> SUFFICES ASSUME TypeOK, Staged, [Next]_vars PROVE Staged'
  OBVIOUS
<1> USE DEF TypeOK, Staged, Goto, Return, Fault, given, history, Slot
<1>a. /\ Empty \in Dir /\ \A d \in Dir : d # NoDir
      /\ \A f \in File : Empty.file[f] # "bad"
  BY ConstantsOK DEF Empty, Dir
<1>1. ASSUME NEW p \in Process, Setup(p) PROVE Staged'
  BY <1>1 DEF Setup
<1>2. ASSUME NEW p \in Process, Confirm(p) PROVE Staged'
  BY <1>2 DEF Confirm
<1>3. ASSUME NEW p \in Process, Install(p) PROVE Staged'
  BY <1>3, <1>a DEF Install
<1>4. ASSUME NEW p \in Process, Download(p) PROVE Staged'
  <2>1. PICK f \in Missing(p) :
          \/ /\ staging' = [staging EXCEPT ![p].file[f] = "good"]
             /\ UNCHANGED <<pc, history>>
          \/ Return(p, "failed") /\ Fault(p)
    BY <1>4 DEF Download
  <2>2. f \in File /\ staging[p] \in Dir /\ staging[p] # NoDir
    BY <1>4, <1>a DEF Missing, Download
  <2>3. \A g \in File : [staging[p] EXCEPT !.file[f] = "good"].file[g] # "bad"
    BY <2>2 DEF Dir
  <2>4. CASE staging' = [staging EXCEPT ![p].file[f] = "good"] /\ pc' = pc
    <3>1. \A q \in Process \ {p} : staging'[q] = staging[q]
      BY <2>4
    <3>2. staging'[p] = [staging[p] EXCEPT !.file[f] = "good"]
      BY <2>4
    <3> QED BY <1>4, <2>3, <2>4, <3>1, <3>2 DEF Download
  <2>5. CASE Return(p, "failed")
    BY <2>5
  <2> QED BY <2>1, <2>4, <2>5
<1>5. ASSUME NEW p \in Process, WriteMetadata(p) PROVE Staged'
  <2>1. staging[p] \in Dir /\ staging[p] # NoDir /\ Missing(p) = {}
    BY <1>5 DEF WriteMetadata
  <2> DEFINE d == [staging[p] EXCEPT !.metadata = TRUE]
  <2>2. d \in Dir /\ d.metadata /\ \A f \in File : d.file[f] = staging[p].file[f]
    BY <2>1 DEF Dir
  <2>3. \A f \in File : staging[p].file[f] = "good"
    BY <2>1 DEF Missing, Dir
  <2>4. Verified(d)
    BY <1>a, <2>2, <2>3 DEF Verified
  <2>5. CASE staging' = [staging EXCEPT ![p].metadata = TRUE] /\ Goto(p, "inspect")
    <3>1. staging'[p] = d /\ \A q \in Process \ {p} : staging'[q] = staging[q]
      BY <2>5
    <3>2. Verified(staging'[p]) /\ \A f \in File : staging'[p].file[f] # "bad"
      BY <2>2, <2>3, <2>4, <3>1
    <3>3. \A q \in Process \ {p} : Verified(staging[q]) => Verified(staging'[q])
      BY <3>1
    <3> QED BY <2>5, <3>1, <3>2, <3>3
  <2>6. CASE Return(p, "failed")
    BY <2>6
  <2> QED BY <1>5, <2>5, <2>6 DEF WriteMetadata
<1>6. ASSUME NEW p \in Process, Inspect(p) PROVE Staged'
  BY <1>6 DEF Inspect
<1>7. ASSUME NEW p \in Process, MoveAway(p) PROVE Staged'
  BY <1>7 DEF MoveAway
<1>8. ASSUME NEW p \in Process, Publish(p) PROVE Staged'
  BY <1>8 DEF Publish
<1>9. ASSUME NEW p \in Process, Rollback(p) PROVE Staged'
  BY <1>9 DEF Rollback
<1>10. ASSUME NEW p \in Process, Recheck(p) PROVE Staged'
  BY <1>10 DEF Recheck
<1>11. ASSUME NEW p \in Process, Clean(p) PROVE Staged'
  BY <1>11 DEF Clean
<1>12. ASSUME NEW p \in Process, Crash(p) PROVE Staged'
  BY <1>12 DEF Crash
<1>13. CASE UNCHANGED vars
  BY <1>13 DEF vars
<1> QED
  BY <1>1, <1>2, <1>3, <1>4, <1>5, <1>6, <1>7, <1>8, <1>9, <1>10, <1>11, <1>12,
     <1>13 DEF Next, Step

\* The steps other than those that rename or delete touch no published directory.
LEMMA Untouched ==
  ASSUME TypeOK, NEW p \in Process,
         \/ Setup(p) \/ Confirm(p) \/ Install(p) \/ Download(p) \/ WriteMetadata(p)
         \/ Inspect(p) \/ Recheck(p) \/ Crash(p)
  PROVE  /\ destination' = destination /\ backup' = backup
         /\ ready' = ready /\ planted' = planted /\ overlap' = overlap
         /\ \A q \in Process \ {p} : pc'[q] = pc[q]
         /\ pc'[p] # "clean"
         /\ pc'[p] \in Early => pc[p] \in Early
BY DEF Early, Setup, Confirm, Install, Download, WriteMetadata, Inspect, Recheck, Crash,
       TypeOK, Goto, Return, Fault, given, history, Labels

\* A process moves one directory aside, and only once.
LEMMA BackupStep == TypeOK /\ BackupOnce /\ [Next]_vars => BackupOnce'
<1> SUFFICES ASSUME TypeOK, BackupOnce, [Next]_vars PROVE BackupOnce'
  OBVIOUS
<1> USE DEF TypeOK, BackupOnce
<1>1. ASSUME NEW p \in Process,
             \/ Setup(p) \/ Confirm(p) \/ Install(p) \/ Download(p) \/ WriteMetadata(p)
             \/ Inspect(p) \/ Recheck(p) \/ Crash(p)
      PROVE  BackupOnce'
  BY <1>1, Untouched
<1>2. ASSUME NEW p \in Process, MoveAway(p) PROVE BackupOnce'
  BY <1>2 DEF MoveAway, Early, Goto, Return, history
<1>3. ASSUME NEW p \in Process, Publish(p) PROVE BackupOnce'
  BY <1>3 DEF Publish, Early, Goto
<1>4. ASSUME NEW p \in Process, Rollback(p) PROVE BackupOnce'
  BY <1>4 DEF Rollback, Early, Goto
<1>5. ASSUME NEW p \in Process, Clean(p) PROVE BackupOnce'
  BY <1>5 DEF Clean, Early, Goto, Return
<1>6. CASE UNCHANGED vars
  BY <1>6 DEF vars
<1> QED BY <1>1, <1>2, <1>3, <1>4, <1>5, <1>6 DEF Next, Step

\* No step makes anything look ready that is neither verified nor as found.
LEMMA GenuineStep == TypeOK /\ Staged /\ AllGenuine /\ [Next]_vars => AllGenuine'
<1> SUFFICES ASSUME TypeOK, Staged, AllGenuine, [Next]_vars PROVE AllGenuine'
  OBVIOUS
<1> USE DEF TypeOK, AllGenuine, Genuine
<1>a. ~Ready(NoDir)
  BY DEF Ready
<1>1. ASSUME NEW p \in Process,
             \/ Setup(p) \/ Confirm(p) \/ Install(p) \/ Download(p) \/ WriteMetadata(p)
             \/ Inspect(p) \/ Recheck(p) \/ Crash(p)
      PROVE  AllGenuine'
  BY <1>1, Untouched DEF Ready, Verified
<1>2. ASSUME NEW p \in Process, MoveAway(p) PROVE AllGenuine'
  BY <1>2, <1>a DEF MoveAway, given, history
<1>3. ASSUME NEW p \in Process, Publish(p) PROVE AllGenuine'
  <2>1. destination' \in {destination, staging[p]} /\ UNCHANGED <<backup, planted>>
    BY <1>3 DEF Publish, given
  <2>2. Verified(staging[p])
    BY <1>3 DEF Publish, Staged
  <2> QED BY <2>1, <2>2
<1>4. ASSUME NEW p \in Process, Rollback(p) PROVE AllGenuine'
  BY <1>4, <1>a DEF Rollback, given, history
<1>5. ASSUME NEW p \in Process, Clean(p) PROVE AllGenuine'
  BY <1>5, <1>a DEF Clean, given
<1>6. CASE UNCHANGED vars
  BY <1>6 DEF vars
<1> QED BY <1>1, <1>2, <1>3, <1>4, <1>5, <1>6 DEF Next, Step

\* No step destroys the last ready copy.
LEMMA CopyStep ==
  TypeOK /\ Staged /\ BackupOnce /\ CopySafe /\ [Next]_vars => CopySafe'
<1> SUFFICES ASSUME TypeOK, Staged, BackupOnce, CopySafe, [Next]_vars PROVE CopySafe'
  OBVIOUS
<1> USE DEF TypeOK
<1>a. ~Ready(NoDir)
  BY DEF Ready
<1>1. ASSUME NEW p \in Process,
             \/ Setup(p) \/ Confirm(p) \/ Install(p) \/ Download(p) \/ WriteMetadata(p)
             \/ Inspect(p) \/ Recheck(p) \/ Crash(p)
      PROVE  CopySafe'
  BY <1>1, Untouched DEF CopySafe, Ready
<1>2. ASSUME NEW p \in Process, MoveAway(p) PROVE CopySafe'
  <2>1. backup[p] = NoDir /\ ready' = ready
    BY <1>2 DEF MoveAway, BackupOnce, Early, history, Fault
  <2>2. \A q \in Process : pc'[q] = "clean" => pc[q] = "clean"
    BY <1>2 DEF MoveAway, Goto, Return
  <2>3. \A q \in Process \ {p} : backup'[q] = backup[q]
    BY <1>2 DEF MoveAway
  <2>4. \/ destination' = destination /\ backup' = backup
        \/ backup'[p] = destination /\ pc'[p] = "publish"
    BY <1>2 DEF MoveAway, Goto
  <2>5. \/ Ready(destination') \/ \E q \in Process : pc'[q] # "clean" /\ Ready(backup'[q])
        \/ ~ready'
    BY <1>a, <2>1, <2>2, <2>3, <2>4 DEF CopySafe
  <2> QED BY <2>5 DEF CopySafe, Ready
<1>3. ASSUME NEW p \in Process, Publish(p) PROVE CopySafe'
  <2>1. CASE destination' = staging[p]
    <3>1. Ready(destination')
      BY <1>3, <2>1, VerifiedReady DEF Publish, Staged
    <3> QED BY <3>1 DEF CopySafe, Ready
  <2>2. CASE destination' = destination /\ pc' = [pc EXCEPT ![p] = "rollback"]
             /\ UNCHANGED <<backup, ready>>
    BY <2>2 DEF CopySafe, Ready
  <2> QED BY <1>3, <2>1, <2>2 DEF Publish, Goto, history, Fault
<1>4. ASSUME NEW p \in Process, Rollback(p) PROVE CopySafe'
  <2>1. pc' = [pc EXCEPT ![p] = "recheck"] /\ ready' = ready
    BY <1>4 DEF Rollback, Goto, history
  <2>2. CASE UNCHANGED <<destination, backup>>
    BY <2>1, <2>2 DEF CopySafe, Ready
  <2>3. CASE /\ destination = NoDir /\ destination' = backup[p]
             /\ backup' = [backup EXCEPT ![p] = NoDir]
    <3>1. \/ Ready(destination') \/ ~ready'
          \/ \E q \in Process : pc'[q] # "clean" /\ Ready(backup'[q])
      BY <1>a, <2>1, <2>3 DEF CopySafe
    <3> QED BY <3>1 DEF CopySafe, Ready
  <2> QED BY <1>4, <2>2, <2>3 DEF Rollback
<1>5. ASSUME NEW p \in Process, Clean(p) PROVE CopySafe'
  <2>1. /\ pc[p] = "clean" /\ destination' = destination /\ ready' = ready
        /\ \A q \in Process \ {p} : backup'[q] = backup[q] /\ pc'[q] = pc[q]
    BY <1>5 DEF Clean, Return, Goto, history
  <2>2. \/ Ready(destination') \/ ~ready'
        \/ \E q \in Process : pc'[q] # "clean" /\ Ready(backup'[q])
    BY <2>1 DEF CopySafe
  <2> QED BY <2>2 DEF CopySafe, Ready
<1>6. CASE UNCHANGED vars
  BY <1>6 DEF vars, CopySafe, Ready
<1> QED BY <1>1, <1>2, <1>3, <1>4, <1>5, <1>6 DEF Next, Step

\* Without overlap, no step of another process comes between.
LEMMA AloneStep == TypeOK /\ Staged /\ Alone /\ [Next]_vars => Alone'
<1> SUFFICES ASSUME TypeOK, Staged, Alone, ~overlap', [Next]_vars PROVE Alone'
  BY DEF Alone
<1>1. CASE UNCHANGED vars
  BY <1>1 DEF vars, Alone, AtRest, Ready
<1>2. ASSUME NEW p \in Process, Step(p) \/ Crash(p) PROVE Alone'
  <2> USE DEF TypeOK, Goto, Return, Fault, given, history
  <2>1. /\ ~overlap /\ \A q \in Process \ {p} : pc'[q] = pc[q]
        /\ \A q \in Process \ {p} : AtRest(q)
    BY <1>2 DEF Alone, AtRest, Step, Setup, Confirm, Install, Download, WriteMetadata,
                Inspect, MoveAway, Publish, Rollback, Recheck, Clean, Crash
  <2>2. \A q \in Process \ {p} : AtRest(q)'
    BY <2>1 DEF AtRest
  <2>3. pc'[p] \in {"download", "inspect", "moveaway"} => ~Ready(destination')
    BY <1>2, <2>1 DEF Alone, Step, Setup, Confirm, Install, Download, WriteMetadata,
                Inspect, MoveAway, Publish, Rollback, Recheck, Clean, Crash, AtRest
  <2>4. \A q \in Process : pc'[q] \in {"download", "inspect", "moveaway"}
                           => ~Ready(destination')
    BY <2>2, <2>3 DEF AtRest
  <2> QED BY <2>2, <2>4 DEF Alone, Ready
<1> QED BY <1>1, <1>2 DEF Next

IInv == TypeOK /\ Staged /\ BackupOnce /\ AllGenuine /\ CopySafe /\ Alone

\* The first state.
LEMMA InitInv == Init => IInv
<1> SUFFICES ASSUME Init PROVE IInv
  OBVIOUS
<1>1. TypeOK
  BY InitType
<1>2. Staged /\ BackupOnce
  BY DEF Init, Staged, BackupOnce
<1>3. AllGenuine
  BY DEF Init, AllGenuine, Genuine, Ready
<1>4. CopySafe
  BY DEF Init, CopySafe
<1>5. Alone
  BY DEF Init, Alone, AtRest
<1> QED BY <1>1, <1>2, <1>3, <1>4, <1>5 DEF IInv

\* The inductive invariant of the store.
THEOREM Invariant == Spec => []IInv
<1>1. IInv /\ [Next]_vars => IInv'
  BY TypeStep, StagedStep, BackupStep, GenuineStep, CopyStep, AloneStep DEF IInv
<1> QED BY InitInv, <1>1, PTL DEF Spec

\* The variables of the store keep their types.
THEOREM TypeCorrect == Spec => []TypeOK
<1>1. IInv => TypeOK
  BY DEF IInv
<1> QED BY Invariant, <1>1, PTL

\* What looks like a model is a verified one, or was there before.
THEOREM OnlyVerified == Spec => []ReadyIsVerified
<1>1. IInv => ReadyIsVerified
  BY DEF IInv, AllGenuine, Genuine, ReadyIsVerified
<1> QED BY Invariant, <1>1, PTL

\* A model that was ready once still exists, whatever happened.
THEOREM NothingDestroyed == Spec => []CopyKept
<1>1. IInv => CopyKept
  BY DEF IInv, CopySafe, CopyKept
<1> QED BY Invariant, <1>1, PTL

\* A ready model stays when one installation is at work.
LEMMA ReadyStep ==
  ASSUME IInv, Next, ~overlap, Ready(destination) PROVE destination' = destination
<1>1. destination # NoDir
  BY DEF Ready
<1>2. PICK p \in Process : Step(p) \/ Crash(p)
  BY DEF Next
<1>3. ~MoveAway(p)
  BY DEF IInv, Alone, MoveAway
<1> QED BY <1>1, <1>2, <1>3, Untouched DEF IInv, Step, Publish, Rollback, Clean

\* Installations that do not overlap never take a ready model away.
THEOREM ReadyKept == Spec => ReadyStaysReady
<1>1. IInv /\ [Next]_vars => [~overlap /\ Ready(destination) => Ready(destination')]_vars
  BY ReadyStep DEF vars, Ready
<1> QED BY Invariant, <1>1, PTL DEF Spec, ReadyStaysReady

-----------------------------------------------------------------------------
(* Success                                                                   *)

\* What one installation at a time knows of the destination at every step: it
\* finds the place free when it publishes, and so gets to the rollback only
\* after a failure that was not its own.
Succeeding ==
  ~overlap => \A p \in Process :
    /\ pc[p] \in {"rollback", "recheck", "failed"} => p \in disturbed
    /\ pc[p] = "moveaway" => destination # NoDir
    /\ pc[p] = "publish" => destination = NoDir
    /\ pc[p] \in {"clean", "done"} => Ready(destination)

\* Every step of an installation that is alone keeps it on its way.
LEMMA SucceedStep == IInv /\ Succeeding /\ [Next]_vars => Succeeding'
<1> SUFFICES ASSUME IInv, Succeeding, ~overlap', [Next]_vars PROVE Succeeding'
  BY DEF Succeeding
<1>1. CASE UNCHANGED vars
  BY <1>1 DEF vars, Succeeding, Ready
<1>2. ASSUME NEW p \in Process, Step(p) \/ Crash(p) PROVE Succeeding'
  <2> USE DEF TypeOK, Goto, Return, Fault, given, history, Labels
  <2>1. /\ TypeOK /\ ~overlap /\ \A q \in Process \ {p} : pc'[q] = pc[q]
        /\ disturbed \subseteq disturbed' /\ pc[p] \in Labels
    BY <1>2 DEF IInv, Step, Setup, Confirm, Install, Download, WriteMetadata,
                Inspect, MoveAway, Publish, Rollback, Recheck, Clean, Crash
  <2>2. \A q \in Process \ {p} : AtRest(q)
    BY <1>2 DEF IInv, Alone, AtRest, Step, Setup, Confirm, Install, Download,
                WriteMetadata, Inspect, MoveAway, Publish, Rollback, Recheck, Clean, Crash
  <2>3. Ready(destination) => Ready(destination')
    BY <1>2, <2>1, ReadyStep DEF Next
  <2>4. ASSUME NEW q \in Process \ {p}
        PROVE  /\ pc'[q] \in {"rollback", "recheck", "failed"} => q \in disturbed'
               /\ pc'[q] \notin {"moveaway", "publish", "clean"}
               /\ pc'[q] = "done" => Ready(destination')
    BY <2>1, <2>2, <2>3 DEF Succeeding, AtRest
  <2>5. /\ pc'[p] \in {"rollback", "recheck", "failed"} => p \in disturbed'
        /\ pc'[p] = "moveaway" => destination' # NoDir
        /\ pc'[p] = "publish" => destination' = NoDir
    BY <1>2, <2>1 DEF Succeeding, Step, Setup, Confirm, Install, Download,
                WriteMetadata, Inspect, MoveAway, Publish, Rollback, Recheck, Clean, Crash
  <2>6. pc'[p] \in {"clean", "done"} => Ready(destination')
    <3>1. CASE Publish(p)
      <4>1. pc[p] = "publish" /\ Verified(staging[p])
        BY <3>1 DEF Publish, IInv, Staged
      <4>2. Ready(staging[p])
        BY <4>1, VerifiedReady
      <4>3. CASE destination' = staging[p]
        BY <4>2, <4>3
      <4>4. CASE destination' # staging[p]
        BY <2>1, <3>1, <4>4 DEF Publish
      <4> QED BY <4>3, <4>4
    <3>2. CASE Setup(p) \/ Install(p) \/ Recheck(p)
      <4>1. destination' = destination /\ (pc'[p] \in {"clean", "done"} => Ready(destination))
        BY <2>1, <3>2 DEF Setup, Install, Recheck
      <4> QED BY <4>1
    <3>3. CASE ~(Publish(p) \/ Setup(p) \/ Install(p) \/ Recheck(p))
      <4>1. pc'[p] \in {"clean", "done"} => pc[p] = "clean"
        BY <1>2, <2>1, <3>3
        DEF Step, Confirm, Download, WriteMetadata, Inspect, MoveAway, Rollback, Clean, Crash
      <4> QED BY <2>1, <2>3, <4>1 DEF Succeeding
    <3> QED BY <3>1, <3>2, <3>3
  <2> QED BY <2>4, <2>5, <2>6 DEF Succeeding, Ready
<1> QED BY <1>1, <1>2 DEF Next

\* An installation that nothing disturbed and nobody overlapped succeeds,
\* whatever earlier ones that died or failed have left.
THEOREM Undisturbed == Spec => []UndisturbedSucceeds
<1> DEFINE Inv == IInv /\ Succeeding
<1>1. Init => Inv
  <2>1. Init => Succeeding
    BY DEF Init, Succeeding
  <2> QED BY <2>1, InitInv
<1>2. Inv /\ [Next]_vars => Inv'
  <2>1. IInv /\ [Next]_vars => IInv'
    BY TypeStep, StagedStep, BackupStep, GenuineStep, CopyStep, AloneStep DEF IInv
  <2> QED BY <2>1, SucceedStep
<1>3. Inv => UndisturbedSucceeds
  BY DEF Succeeding, UndisturbedSucceeds
<1> HIDE DEF Inv
<1> QED BY <1>1, <1>2, <1>3, PTL DEF Spec
=============================================================================
