------------------------------ MODULE PlanFlow ------------------------------
(***************************************************************************)
(* generateCommitPlan, internal/cli/planning.go: the agent history of the  *)
(* selected files is attributed to their blocks (internal/cli/             *)
(* attributed_history.go, Attribution), the generator makes a plan         *)
(* (ThreePhase), and the plan is given to the run only if the snapshot is  *)
(* still the one it was made for.  When the user asks for another plan,    *)
(* the history of the same files is not collected again.                   *)
(***************************************************************************)
EXTENDS ThreePhase, Attribution

\* What the history reader returns: finitely many completed changes and turns, of
\* one of the three acquisitions.  The lines of a diff are in order.
ReadOK(read) ==
  /\ {"status", "error", "ops", "turns"} \subseteq DOMAIN read /\ read.status \in Acquisitions
  /\ IsFiniteSet(read.ops) /\ IsFiniteSet(read.turns)
  /\ \A op \in read.ops : /\ {"path", "old", "has", "safe"} \subseteq DOMAIN op
                          /\ op.diff \in Seq(Range(op.diff))
FilesOK(files) == \A f \in DOMAIN files : files[f].diff \in Seq(Range(files[f].diff))

\* An input with "collect" names selected files with their diffs and what the
\* history reader returns for them; there is no other history for it.
ASSUME CollectedOK == \A i \in Inputs :
  /\ "collect" \in DOMAIN i
  /\ i.collect =>
       /\ {"files", "hidden", "read"} \subseteq DOMAIN i /\ ~i.history.given
       /\ DOMAIN i.files \subseteq Range(i.doc) /\ FilesOK(i.files) /\ ReadOK(i.read)

VARIABLES
  cache,   \* attributionCollected, attributionKey, attribution of the codexCycle
  refused  \* why no plan is given, besides the generator: an exit code of its own

flow == <<cache, refused>>
all == <<vars, flow>>

Nothing == [given |-> FALSE]

\* An input with "collect" names the files and what the history reader returns
\* for them; the others have a history of their caller.  Only the inputs with
\* "again" are asked for again, to bound the regenerations.
FlowInit ==
  /\ Init /\ cache = Nothing /\ refused = "none"

\* An attributed input starts before the generator.
Collecting == pc = "begin" /\ input.collect /\ ~input.history.given

-----------------------------------------------------------------------------
\* Mutant: history once collected is good for every input.
ReusableForAll == cache.given

\* The key of the cache: the root and the commit do not change in a run.
Reusable == cache.given /\ cache.files = input.files /\ cache.hidden = input.hidden

\* No supported model, too many files, no model or helper installed, or the diffs
\* cannot be read.
Unprepared ==
  /\ Collecting
  /\ refused' = "unprepared" /\ pc' = "refused"
  /\ UNCHANGED <<phase, input, calls, cycle, expired, payload, shown, common, decided, answer, cache>>

\* verifyAttributionSnapshot finds the repository changed (or is cancelled), or
\* the attribution is stopped: its own memory guard, one of its limits, or the
\* end of its context.
AttributionStops ==
  /\ Collecting /\ pc' = "refused"
  /\ refused' = "snapshot_changed" \/ (~Reusable /\ refused' = "attribution_stopped")
  /\ UNCHANGED <<phase, input, calls, cycle, expired, payload, shown, common, decided, answer, cache>>

\* The blocks of the planner, and the history of the host on the same files.
OwnBlocks(files) == UNION {{f} \X DOMAIN ProjectedBlocks(files[f]).blocks : f \in DOMAIN files}
Bound(history, files) ==
  [history EXCEPT
     !.files = [f \in DOMAIN @ |-> [current |-> f \in DOMAIN files /\ files[f].diff = @[f].diff,
                                    blocks |-> @[f].blocks]]]
Bind(history) ==
  input' = [input EXCEPT !.blocks = OwnBlocks(input.files), !.history = Bound(history, input.files)]

Remember(history) ==
  /\ cache' = [given |-> TRUE, files |-> input.files, hidden |-> input.hidden,
               read |-> input.read, history |-> history]
  /\ Bind(history) /\ UNCHANGED <<pc, refused>>

AttributeHistory ==
  /\ Collecting
  /\ IF Reusable
     THEN Bind(cache.history) /\ UNCHANGED <<pc, cache, refused>>
     ELSE IF \A f \in DOMAIN input.files : Aligned(input.files[f])
     THEN Remember(Attribute(input.read, input.files, input.hidden))
     ELSE /\ refused' = "history_attribution_failed" /\ pc' = "refused"
          /\ UNCHANGED <<input, cache>>
  /\ UNCHANGED <<phase, calls, cycle, expired, payload, shown, common, decided, answer>>

\* The snapshot is verified again before the plan is looked at.
Deliver ==
  /\ pc = "done"
  /\ \/ pc' = "given" /\ UNCHANGED refused
     \/ pc' = "refused" /\ refused' = "snapshot_changed"
  /\ UNCHANGED <<phase, input, calls, cycle, expired, payload, shown, common, decided, answer, cache>>

\* The user wants another plan from the same run.  The files are read again: a
\* change that is undone before the snapshot is verified shows up in the diffs.
Regenerate ==
  /\ pc = "given" /\ answer.kind = "plan" /\ input.again
  /\ \E i \in Inputs : i.again /\ input' = i
  /\ pc' = "begin" /\ phase' = "grouping" /\ calls' = 0 /\ cycle' = "none" /\ expired' = FALSE
  /\ payload' = Empty /\ shown' = Empty /\ common' = Empty
  /\ groups' = <<>> /\ category' = <<>> /\ text' = <<>> /\ answer' = NoAnswer
  /\ UNCHANGED flow

Ended == pc \in {"given", "refused"} /\ UNCHANGED all

FlowNext ==
  \/ Unprepared \/ AttributionStops \/ AttributeHistory \/ Deliver \/ Regenerate \/ Ended
  \/ ~Collecting /\ Begin /\ UNCHANGED flow
  \/ Prepare /\ UNCHANGED flow
  \/ Invoke /\ UNCHANGED flow
  \/ ChatFails /\ UNCHANGED flow
  \/ RefuseAnswer /\ UNCHANGED flow
  \/ Grouping /\ UNCHANGED flow
  \/ Category /\ UNCHANGED flow
  \/ Text /\ UNCHANGED flow
  \/ Finish /\ UNCHANGED flow
  \/ Return /\ UNCHANGED flow
  \/ ~Collecting /\ pc \notin {"given", "refused"} /\ Expire /\ UNCHANGED flow

FlowSpec == FlowInit /\ [][FlowNext]_all

-----------------------------------------------------------------------------
(* Properties                                                              *)

\* The generator never refuses a plan over the history that this program
\* attributed: the two parsers agree on the blocks, the references are
\* consistent, and a cached history is only used for the diffs it was made for.
HistoryFits ==
  pc = "prepare" /\ input.collect => Accepts(input.history, Files, input.blocks)

\* A block is matched only if that is the whole story: everything was read,
\* nothing was left out, one operation on the path of the file holds the block,
\* once, no other one any line of it, and its turn ended with words to show.
MatchedIsUnique ==
  cache.given => \A f \in DOMAIN cache.history.files :
    \A b \in DOMAIN cache.history.files[f].blocks :
      cache.history.files[f].blocks[b].status = "matched" =>
        LET file  == cache.files[f]
            lines == ComparisonBlocks(file.kind, file.diff, file.old).blocks[b[2]]
            about == {op \in Parsed(cache.read.ops) : Relevant(op, file)}
            holds == {op \in about : Positions(op, lines) # {} \/ Touches(op, lines)}
        IN  /\ cache.read.status = "complete" /\ ~cache.read.stalled
            /\ \A op \in about : Readable(op, cache.hidden) /\ OpBlocks(op).ok
            /\ \E op \in holds :
                 /\ holds = {op} /\ Cardinality(Positions(op, lines)) = 1 /\ ~Touches(op, lines)
                 /\ \E t \in cache.read.turns : t.id = op.turn /\ t.final = "safe"
                                                /\ t.status # "inProgress"

\* "Missing or unavailable history remains explicit and permits Git-only
\* planning": no plan is refused because of the history.
PlansWithoutHistory == refused # "history_attribution_failed"
=============================================================================
