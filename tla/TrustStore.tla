----------------------------- MODULE TrustStore -----------------------------
(***************************************************************************)
(* The trust file, internal/trust/store.go and verification/approval.go:   *)
(* processes approve and revoke verification definitions by reading        *)
(* trust.json, changing their copy and renaming it into place.  Nothing    *)
(* locks the file.                                                         *)
(***************************************************************************)
EXTENDS Naturals, FiniteSets

CONSTANTS
  Process,
  Repo,        \* canonical repository paths
  Hash,        \* hashes of verification definitions
  None,        \* no entry
  Overlaps     \* the values of overlap

ASSUME ConstantsOK == None \notin Hash /\ Overlaps \subseteq BOOLEAN

Entries == [Repo -> Hash \cup {None}]

VARIABLES
  overlap,  \* FALSE: one process starts when the others are at rest
  file,     \* trust.json
  pc,       \* of each process
  op,       \* what each process does: [kind, repo, hash]
  state,    \* each process's decoded copy of the file
  ran,      \* processes whose verification definition was authorised
  approved  \* history: the pairs the user said yes to

given == <<overlap, op>>
vars == <<overlap, file, pc, op, state, ran, approved>>

Operation == [kind : {"authorize", "revoke"}, repo : Repo, hash : Hash]

Init ==
  /\ overlap \in Overlaps
  /\ file = [r \in Repo |-> None]
  /\ pc = [p \in Process |-> "start"]
  /\ op \in [Process -> Operation]
  /\ state = [p \in Process |-> [r \in Repo |-> None]]
  /\ ran = {} /\ approved = {}

Goto(p, l) == pc' = [pc EXCEPT ![p] = l]
AtRest(p) == pc[p] \in {"start", "done", "crashed"}

Begin(p) ==
  /\ pc[p] = "start"
  /\ overlap \/ \A q \in Process : AtRest(q)
  /\ Goto(p, IF op[p].kind = "authorize" THEN "match" ELSE "read")
  /\ UNCHANGED <<file, given, state, ran, approved>>

\* Mutant: the entry of another repository matches.
MatchAnywhere(p) ==
  /\ pc[p] = "match"
  /\ IF \E r \in Repo : file[r] = op[p].hash
     THEN ran' = ran \cup {p} /\ Goto(p, "done")
     ELSE Goto(p, "ask") /\ UNCHANGED ran
  /\ UNCHANGED <<file, given, state, approved>>

\* Matches: the definition runs unasked if the file holds its hash.
Match(p) ==
  /\ pc[p] = "match"
  /\ IF file[op[p].repo] = op[p].hash
     THEN ran' = ran \cup {p} /\ Goto(p, "done")
     ELSE Goto(p, "ask") /\ UNCHANGED ran
  /\ UNCHANGED <<file, given, state, approved>>

Answer(p) ==
  /\ pc[p] = "ask"
  /\ \/ Goto(p, "read") /\ approved' = approved \cup {<<op[p].repo, op[p].hash>>}
     \/ Goto(p, "done") /\ UNCHANGED approved
  /\ UNCHANGED <<file, given, state, ran>>

\* Approve and Revoke read the file; without an entry Revoke has nothing to do.
Read(p) ==
  /\ pc[p] = "read"
  /\ state' = [state EXCEPT ![p] = file]
  /\ IF op[p].kind = "revoke" /\ file[op[p].repo] = None
     THEN Goto(p, "done") ELSE Goto(p, "replace")
  /\ UNCHANGED <<file, given, ran, approved>>

\* Mutant: the entry is stored under a path that is not the canonical one.
ReplaceElsewhere(p) ==
  /\ pc[p] = "replace"
  /\ \E r \in Repo :
       file' = [state[p] EXCEPT ![r] = IF op[p].kind = "revoke" THEN None ELSE op[p].hash]
  /\ Goto(p, "done")
  /\ UNCHANGED <<given, state, ran, approved>>

\* write: the new state goes to a temporary file, which is renamed.
Replace(p) ==
  /\ pc[p] = "replace"
  /\ file' = [state[p] EXCEPT ![op[p].repo] =
                IF op[p].kind = "revoke" THEN None ELSE op[p].hash]
  /\ ran' = IF op[p].kind = "revoke" THEN ran ELSE ran \cup {p}
  /\ Goto(p, "done")
  /\ UNCHANGED <<given, state, approved>>

\* Until the rename a failed write or a crash leaves the file alone.
WriteFails(p) ==
  /\ pc[p] = "replace" /\ Goto(p, "done")
  /\ UNCHANGED <<file, given, state, ran, approved>>

Crash(p) ==
  /\ ~AtRest(p) /\ Goto(p, "crashed")
  /\ UNCHANGED <<file, given, state, ran, approved>>

Step(p) ==
  Begin(p) \/ Match(p) \/ Answer(p) \/ Read(p) \/ Replace(p) \/ WriteFails(p)
Next == \E p \in Process : Step(p) \/ Crash(p)
Spec == Init /\ [][Next]_vars
-----------------------------------------------------------------------------
Labels == {"start", "match", "ask", "read", "replace", "done", "crashed"}

\* Types of the file and of the processes.
TypeOK ==
  /\ overlap \in BOOLEAN /\ file \in Entries /\ state \in [Process -> Entries]
  /\ pc \in [Process -> Labels] /\ op \in [Process -> Operation]
  /\ ran \subseteq Process /\ approved \subseteq Repo \X Hash

(* Whatever overlaps, fails or crashes, a definition is authorised only if   *)
(* the user once said yes to this definition in this very repository.        *)
OnlyApproved ==
  \A p \in ran : <<op[p].repo, op[p].hash>> \in approved

\* The entry of r appears in the file, or comes back.
Reappears(r) == file[r] = None /\ file'[r] # None
Approves(p, r) ==
  pc[p] = "replace" /\ pc'[p] = "done" /\ op[p].kind = "authorize" /\ op[p].repo = r

(* As long as processes do not overlap, a revoked entry does not come back   *)
(* unless the user approves a definition of that repository.                 *)
RevokedStaysRevoked ==
  [][~overlap => \A r \in Repo : Reappears(r) => \E p \in Process : Approves(p, r)]_vars

(* FR-021: "trust revoke must remove the specified trust record": false when *)
(* processes overlap, an approval for another repository that has read the   *)
(* file before the revocation writes the revoked entry back.                 *)
RevokeIsFinal ==
  [][\A r \in Repo : Reappears(r) => \E p \in Process : Approves(p, r)]_vars
=============================================================================
