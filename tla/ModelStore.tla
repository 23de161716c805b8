----------------------------- MODULE ModelStore -----------------------------
(***************************************************************************)
(* The store of downloaded models, internal/mlxmodel/store.go, and the     *)
(* setup command that fills it, internal/cli/cli.go: an installation       *)
(* downloads the planned files into a staging directory of its own and     *)
(* renames it into place, after it moved a directory that is not ready     *)
(* out of the way.  Nothing locks the store; a process can die anywhere.   *)
(*                                                                         *)
(* One model (repository, revision, quantization) is installed.  A file is *)
(* as planned, of the planned size but with other bytes, or neither.       *)
(***************************************************************************)
EXTENDS Naturals, FiniteSets

CONSTANTS
  Process,
  File,        \* the planned files, config.json among them
  Config,
  NoDir,
  Found,       \* what the first process may find at the destination
  Overlaps     \* the values of overlap

Dir == [metadata : BOOLEAN, file : [File -> {"good", "bad", "missing"}]]
Slot == Dir \cup {NoDir}
Empty == [metadata |-> FALSE, file |-> [f \in File |-> "missing"]]

ASSUME ConstantsOK ==
  /\ Config \in File /\ NoDir \notin Dir /\ Found \subseteq Slot
  /\ Overlaps \subseteq BOOLEAN

VARIABLES
  overlap,    \* FALSE: one process starts when the others are at rest
  update,     \* processes called with --update-model
  planted,    \* what the first process found
  destination, staging, backup,
  pc,         \* of each process
  disturbed,  \* history: processes that met a failure not of their making
  ready       \* history: the model was ready once

given == <<overlap, update, planted>>
history == <<disturbed, ready>>
vars == <<overlap, update, planted, destination, staging, backup, pc, disturbed,
          ready>>

\* Store.Ready: metadata for this model, and every file has the planned size.
Ready(d) == d # NoDir /\ d.metadata /\ \A f \in File : d.file[f] # "missing"
Verified(d) == d # NoDir /\ d.metadata /\ \A f \in File : d.file[f] = "good"

Init ==
  /\ overlap \in Overlaps /\ update \in SUBSET Process
  /\ planted \in Found /\ destination = planted
  /\ staging = [p \in Process |-> NoDir] /\ backup = [p \in Process |-> NoDir]
  /\ pc = [p \in Process |-> "start"]
  /\ disturbed = {} /\ ready = Ready(planted)

Goto(p, l) == pc' = [pc EXCEPT ![p] = l]
AtRest(p) == pc[p] \in {"start", "done", "declined", "failed", "crashed"}

\* Install removes its staging directory on every return.
Return(p, l) == Goto(p, l) /\ staging' = [staging EXCEPT ![p] = NoDir]
\* A step of the network or the file system fails.
Fault(p) == disturbed' = disturbed \cup {p} /\ UNCHANGED ready

\* setup has nothing to do for a model that is ready, unless it is an update.
Setup(p) ==
  /\ pc[p] = "start"
  /\ overlap \/ \A q \in Process : AtRest(q)
  /\ Goto(p, IF Ready(destination) /\ p \notin update THEN "done" ELSE "confirm")
  /\ UNCHANGED <<given, destination, staging, backup, history>>

Confirm(p) ==
  /\ pc[p] = "confirm"
  /\ \/ (Goto(p, "install") \/ Goto(p, "declined")) /\ UNCHANGED history
     \/ Goto(p, "failed") /\ Fault(p)          \* no plan from the registry
  /\ UNCHANGED <<given, destination, staging, backup>>

\* Mutant: a model that is ready is installed again.
InstallAnyway(p) ==
  /\ pc[p] = "install"
  /\ Goto(p, "download") /\ staging' = [staging EXCEPT ![p] = Empty]
  /\ UNCHANGED <<given, destination, backup, history>>

Install(p) ==
  /\ pc[p] = "install"
  /\ \/ Ready(destination) /\ Goto(p, "done") /\ UNCHANGED <<staging, history>>
     \/ /\ ~Ready(destination) /\ Goto(p, "download")
        /\ staging' = [staging EXCEPT ![p] = Empty] /\ UNCHANGED history
     \/ ~Ready(destination) /\ Goto(p, "failed") /\ Fault(p) /\ UNCHANGED staging
  /\ UNCHANGED <<given, destination, backup>>

Missing(p) == {f \in File : staging[p].file[f] = "missing"}

\* Mutant: the digest is not compared.
DownloadUnchecked(p) ==
  /\ pc[p] = "download"
  /\ \E f \in Missing(p), bytes \in {"good", "bad"} :
       /\ Config \in Missing(p) => f = Config
       /\ staging' = [staging EXCEPT ![p].file[f] = bytes] /\ UNCHANGED pc
  /\ UNCHANGED <<given, destination, backup, history>>

\* config.json first, its quantization decides about the rest; a download that
\* is short, or whose digest differs, ends the installation.
Download(p) ==
  /\ pc[p] = "download"
  /\ \E f \in Missing(p) :
       /\ Config \in Missing(p) => f = Config
       /\ \/ /\ staging' = [staging EXCEPT ![p].file[f] = "good"]
             /\ UNCHANGED <<pc, history>>
          \/ Return(p, "failed") /\ Fault(p)
  /\ UNCHANGED <<given, destination, backup>>

WriteMetadata(p) ==
  /\ pc[p] = "download" /\ Missing(p) = {}
  /\ \/ /\ staging' = [staging EXCEPT ![p].metadata = TRUE] /\ Goto(p, "inspect")
        /\ UNCHANGED history
     \/ Return(p, "failed") /\ Fault(p)
  /\ UNCHANGED <<given, destination, backup>>

Inspect(p) ==
  /\ pc[p] = "inspect"
  /\ \/ /\ Goto(p, IF destination = NoDir THEN "publish" ELSE "moveaway")
        /\ UNCHANGED <<staging, history>>
     \/ Return(p, "failed") /\ Fault(p)
  /\ UNCHANGED <<given, destination, backup>>

\* Mutant: the directory in the way stays there.
LeaveInPlace(p) ==
  /\ pc[p] = "moveaway" /\ Goto(p, "publish")
  /\ UNCHANGED <<given, destination, staging, backup, history>>

\* Mutant: what is in the way is deleted.
DeleteInPlace(p) ==
  /\ pc[p] = "moveaway" /\ destination' = NoDir /\ Goto(p, "publish")
  /\ UNCHANGED <<given, staging, backup, history>>

\* The directory may be gone meanwhile.
MoveAway(p) ==
  /\ pc[p] = "moveaway"
  /\ \/ /\ destination # NoDir
        /\ backup' = [backup EXCEPT ![p] = destination] /\ destination' = NoDir
        /\ Goto(p, "publish") /\ UNCHANGED <<staging, history>>
     \/ /\ destination = NoDir /\ Return(p, "failed")
        /\ UNCHANGED <<destination, backup, history>>
     \/ Return(p, "failed") /\ Fault(p) /\ UNCHANGED <<destination, backup>>
  /\ UNCHANGED given

\* os.Rename does not replace a directory.
Publish(p) ==
  /\ pc[p] = "publish"
  /\ \/ /\ destination = NoDir /\ destination' = staging[p]
        /\ staging' = [staging EXCEPT ![p] = NoDir]
        /\ ready' = TRUE /\ Goto(p, "clean") /\ UNCHANGED disturbed
     \/ /\ destination # NoDir /\ Goto(p, "rollback")
        /\ UNCHANGED <<destination, staging, history>>
     \/ Goto(p, "rollback") /\ Fault(p) /\ UNCHANGED <<destination, staging>>
  /\ UNCHANGED <<given, backup>>

\* A backup goes back if the place is free; an error of this rename is ignored.
Rollback(p) ==
  /\ pc[p] = "rollback" /\ Goto(p, "recheck")
  /\ \/ /\ destination = NoDir /\ backup[p] # NoDir
        /\ destination' = backup[p] /\ backup' = [backup EXCEPT ![p] = NoDir]
        /\ UNCHANGED history
     \/ UNCHANGED <<destination, backup, history>>
  /\ UNCHANGED <<given, staging>>

\* Another process may have published the model.
Recheck(p) ==
  /\ pc[p] = "recheck"
  /\ Return(p, IF Ready(destination) THEN "done" ELSE "failed")
  /\ UNCHANGED <<given, destination, backup, history>>

\* Errors of the removal are ignored.
Clean(p) ==
  /\ pc[p] = "clean" /\ Return(p, "done")
  /\ backup' \in {backup, [backup EXCEPT ![p] = NoDir]}
  /\ UNCHANGED <<given, destination, history>>

Crash(p) ==
  /\ ~AtRest(p) /\ Goto(p, "crashed")
  /\ UNCHANGED <<given, destination, staging, backup, history>>

Step(p) ==
  \/ Setup(p) \/ Confirm(p) \/ Install(p) \/ Download(p) \/ WriteMetadata(p)
  \/ Inspect(p) \/ MoveAway(p) \/ Publish(p) \/ Rollback(p) \/ Recheck(p)
  \/ Clean(p)
Next == \E p \in Process : Step(p) \/ Crash(p)
Spec == Init /\ [][Next]_vars
-----------------------------------------------------------------------------
Labels == {"start", "confirm", "install", "download", "inspect", "moveaway",
           "publish", "rollback", "recheck", "clean", "done", "declined",
           "failed", "crashed"}

\* Types of the store and of the processes.
TypeOK ==
  /\ overlap \in BOOLEAN /\ update \subseteq Process /\ planted \in Slot
  /\ destination \in Slot
  /\ staging \in [Process -> Slot] /\ backup \in [Process -> Slot]
  /\ pc \in [Process -> Labels] /\ disturbed \subseteq Process
  /\ ready \in BOOLEAN
  /\ \A p \in Process :
       pc[p] \in {"download", "inspect", "moveaway", "publish"} => staging[p] # NoDir

(* A model that looks ready consists of the planned bytes, unless it is the  *)
(* directory that was there before: whatever overlaps, fails or dies, no     *)
(* part of an installation is ever taken for a model.                        *)
ReadyIsVerified ==
  Ready(destination) => Verified(destination) \/ destination = planted

(* Without overlap a model that is ready stays ready, also when an update or *)
(* a second setup of it fails or dies at any point.                          *)
ReadyStaysReady == [][~overlap /\ Ready(destination) => Ready(destination')]_vars

(* Without overlap an installation that nothing disturbs ends with a model   *)
(* that is ready, whatever processes that died or failed have left behind.   *)
UndisturbedSucceeds ==
  ~overlap => \A p \in Process :
    /\ pc[p] = "failed" => p \in disturbed
    /\ pc[p] = "done" /\ (\A q \in Process : AtRest(q)) => Ready(destination)

(* A model that was ready once is never destroyed: whatever overlaps, fails  *)
(* or dies, a ready copy is at the destination or was moved aside, where a   *)
(* process that goes on puts one back or leaves it.                          *)
CopyKept ==
  ready => \E d \in {destination} \cup {backup[p] : p \in Process} : Ready(d)

(* "operation: download and verify pinned model files" (cli.go:219): false,  *)
(* an update of files of the right size with wrong bytes succeeds without a  *)
(* download, because Install calls them ready.                               *)
UpdateVerifies ==
  ~overlap /\ (\A q \in Process : AtRest(q)) =>
    \A p \in update : pc[p] = "done" => Verified(destination)
=============================================================================
