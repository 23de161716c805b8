---------------------------- MODULE PhaseHistory ----------------------------
(***************************************************************************)
(* What the phases of a plan are told of agent history: the host's         *)
(* attribution checked against the current diff (groupingPayload), freed   *)
(* of anything sensitive (safePhaseHistory), and shown with the records    *)
(* that the helper's token budget admits (the display templates).          *)
(*                                                                         *)
(* A payload is the part of a request that depends on history.  A block of *)
(* a file is a pair of the file and its number; a record is a context or a *)
(* command execution.  The text of a record is the one fact the code asks  *)
(* of it: whether it is safe to send.                                      *)
(***************************************************************************)
EXTENDS Integers, FiniteSets, Sequences, Functions

Acquisitions == {"complete", "partial", "unavailable"}
MatchStatuses == {"matched", "ambiguous", "unmatched", "error"}
MatchKinds == {"exact", "partial", "exact_and_partial"}

\* groupingProjection: blocks before any history is attached.
NoMatch == [status |-> "error", reasons |-> {"history_unavailable"},
            cands |-> {}, omitted |-> {}]
Projection(blocks) ==
  [contexts |-> {}, commands |-> {}, projection |-> "complete",
   blocks |-> [b \in blocks |-> NoMatch]]

BlocksOf(file, blocks) == {b \in blocks : b[1] = file}

\* Mutant: a match is unique in whatever part of the history was read.
AcceptsPartialMatch(b, h) ==
  /\ b.status \in MatchStatuses
  /\ DOMAIN b.cands \subseteq Range(h.contexts)
  /\ Range(b.cands) \subseteq MatchKinds
  /\ b.status = "matched" => Cardinality(DOMAIN b.cands) = 1
  /\ b.omitted # {"input_budget_exceeded"}

\* A block is matched only to one context, exactly, in a complete history.
AcceptsBlock(b, h) ==
  /\ b.status \in MatchStatuses
  /\ DOMAIN b.cands \subseteq Range(h.contexts)
  /\ Range(b.cands) \subseteq MatchKinds
  /\ b.status = "matched" =>
       /\ Cardinality(DOMAIN b.cands) = 1 /\ Range(b.cands) = {"exact"}
       /\ h.acquisition = "complete" /\ b.reasons = {}
  /\ b.omitted # {"input_budget_exceeded"}

\* The checks of groupingPayload on a history the host supplies.
Accepts(h, files, blocks) ==
  /\ h.acquisition \in Acquisitions
  /\ IsInjective(h.contexts)
  /\ \A c \in h.commands : c.ref \in Range(h.contexts) /\ c.files # {} /\ c.files \subseteq files
  /\ DOMAIN h.files \subseteq files
  /\ \A f \in DOMAIN h.files :
       /\ h.files[f].current
       /\ DOMAIN h.files[f].blocks = BlocksOf(f, blocks)
       /\ \A b \in DOMAIN h.files[f].blocks : AcceptsBlock(h.files[f].blocks[b], h)
  /\ \A b \in blocks : b[1] \in DOMAIN h.files

GroupingPayload(h, blocks) ==
  [contexts |-> Range(h.contexts), commands |-> h.commands, projection |-> "complete",
   blocks |-> [b \in blocks |->
     LET a == h.files[b[1]].blocks[b]
     IN  [status |-> a.status, reasons |-> a.reasons, cands |-> DOMAIN a.cands,
          omitted |-> a.omitted]]]

-----------------------------------------------------------------------------
\* The candidates whose contexts are not kept leave a block, which says so and
\* is no longer a unique match.
Withhold(b, kept, why) ==
  IF b.cands \subseteq kept THEN b
  ELSE [status  |-> IF b.status = "matched" THEN "ambiguous" ELSE b.status,
        reasons |-> b.reasons \cup {"candidate_context_omitted"},
        cands   |-> b.cands \cap kept,
        omitted |-> b.omitted \cup why]

\* Mutant: the commands are looked at one by one only.
SafeByRecord(p, unsafe, grouping) ==
  [p EXCEPT !.contexts = @ \ unsafe,
            !.blocks = [b \in DOMAIN @ |->
               Withhold(@[b], p.contexts \ unsafe, {"candidate_context_omitted"})],
            !.commands = {c \in @ : c.id \notin unsafe}]

\* safePhaseHistory: records with sensitive text do not reach the model, and
\* neither do the commands of a context that does not.
SafePhaseHistory(p, unsafe, grouping) ==
  LET kept     == p.contexts \ unsafe
      commands == {c \in p.commands : c.ref \in kept /\ c.id \notin unsafe}
      blocks   == [b \in DOMAIN p.blocks |->
                     Withhold(p.blocks[b], kept, {"candidate_context_omitted"})]
      whole    == kept = p.contexts /\ commands = p.commands
                  /\ \A b \in DOMAIN blocks : blocks[b].omitted = {}
  IN  [contexts |-> kept, blocks |-> blocks,
       commands |-> IF grouping THEN commands ELSE p.commands,
       projection |-> IF ~grouping THEN p.projection
                      ELSE IF whole THEN "complete" ELSE "partial"]

\* attributed004History: the records the helper may leave out.
Records(p) == p.contexts \cup {c.id : c \in p.commands}

\* DisplayTemplate.Render on the templates of historyDisplayCompiler.
Render(p, selected) ==
  [contexts |-> p.contexts \cap selected,
   commands |-> {c \in p.commands : {c.id, c.ref} \subseteq selected},
   projection |-> IF Records(p) \subseteq selected THEN p.projection ELSE "partial",
   blocks |-> [b \in DOMAIN p.blocks |->
     Withhold(p.blocks[b], selected,
              {"candidate_context_omitted", "input_budget_exceeded"})]]

\* metadataHistoryPayload: the contexts the blocks refer to, no commands.
MetadataPayload(p) ==
  [contexts |-> {c \in p.contexts : \E b \in DOMAIN p.blocks : c \in p.blocks[b].cands},
   commands |-> {}, projection |-> p.projection, blocks |-> p.blocks]
=============================================================================
