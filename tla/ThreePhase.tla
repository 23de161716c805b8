----------------------------- MODULE ThreePhase -----------------------------
(***************************************************************************)
(* ThreePhaseGenerator.Generate, internal/planning/three_phase.go: the     *)
(* selected files become a plan through three requests to the model, one   *)
(* for the groups, one for the categories, one for the texts.  The model   *)
(* may answer anything, or nothing; every answer is checked, and none is   *)
(* repaired.  The requests belong to one cycle of the helper (MlxSession), *)
(* and every return closes it.                                             *)
(*                                                                         *)
(* A file is its place in the natural order of the paths.  What the model  *)
(* is told of agent history is the subject of PhaseHistory.                *)
(***************************************************************************)
EXTENDS PhaseHistory

CONSTANTS
  Inputs,   \* what a caller may hand over, see InputsOK
  Types,    \* allowedTypes
  MaxFiles  \* CandidateMaxFiles

\* doc: the ids in the order of the document.  usable: every path is unique,
\* every text file has its complete diff.  plain: not compressed.  host: the
\* confirmed witnesses.  unsafe: records with sensitive text.
ASSUME InputsOK == \A i \in Inputs :
  /\ {"doc", "host", "blocks", "history", "unsafe"} \subseteq DOMAIN i
  /\ i.doc \in Seq(Nat)

VARIABLES
  pc,       \* begin, prepare, ask, wait (for the phase), return, done
  phase,    \* "grouping", "category", "text"
  input,
  calls,    \* result.Calls
  cycle,    \* "none", "open", "closed": the helper's session
  expired,  \* the context ended: 120 s, or the user
  payload,  \* of the request of this phase
  shown,    \* what of it the helper showed to the model
  common,   \* common004: the shared data of Grouping as the model saw it
  groups,   \* groups of files, in the order of their first files
  category, \* of each group: [type, ref]
  text,     \* of each group
  answer    \* what Generate returns

vars == <<pc, phase, input, calls, cycle, expired, payload, shown, common,
          groups, category, text, answer>>
decided == <<groups, category, text>>

Files == Range(input.doc)
Empty == Projection({})
NoAnswer == [kind |-> "none", commits |-> <<>>]
Refusal == [kind |-> "error", commits |-> <<>>]

Init ==
  /\ input \in Inputs
  /\ pc = "begin" /\ phase = "grouping" /\ calls = 0 /\ cycle = "none"
  /\ expired = FALSE /\ payload = Empty /\ shown = Empty /\ common = Empty
  /\ groups = <<>> /\ category = <<>> /\ text = <<>> /\ answer = NoAnswer

\* Every failure returns an error and no plan: its exit code is LLM.
Fail == answer' = Refusal /\ pc' = "return"
Ask(p, next) == payload' = p /\ phase' = next /\ pc' = "ask" /\ UNCHANGED answer

-----------------------------------------------------------------------------
(* Before the first request                                                *)

\* threePhaseFileIDs and the limits; then the helper's cycle begins, or cannot.
Begin ==
  /\ pc = "begin"
  /\ IF /\ input.doc # <<>> /\ IsInjective(input.doc)
        /\ Len(input.doc) <= MaxFiles /\ input.plain
     THEN \/ cycle' = "open" /\ pc' = "prepare" /\ UNCHANGED answer
          \/ Fail /\ UNCHANGED cycle
     ELSE Fail /\ UNCHANGED cycle
  /\ UNCHANGED <<phase, input, calls, expired, payload, shown, common, decided>>

\* Evidence of the host is unique, states a fact, and is bound to the files.
EvidenceOK ==
  /\ \A i \in DOMAIN input.host :
       LET e == input.host[i]
       IN  e.named /\ e.files # <<>> /\ IsInjective(e.files) /\ Range(e.files) \subseteq Files
  /\ \A i, j \in DOMAIN input.host : input.host[i].id = input.host[j].id => i = j

\* The diffs and the history of the host make the request for the groups.
Prepare ==
  /\ pc = "prepare"
  /\ LET h == input.history
     IN  IF ~input.usable \/ ~EvidenceOK \/ (h.given /\ ~Accepts(h, Files, input.blocks))
         THEN Fail /\ UNCHANGED <<payload, phase>>
         ELSE Ask(IF h.given THEN GroupingPayload(h, input.blocks)
                             ELSE Projection(input.blocks), "grouping")
  /\ UNCHANGED <<input, calls, cycle, expired, shown, common, decided>>

-----------------------------------------------------------------------------
(* One request: invoke                                                     *)

\* A request is not sent when the time is over.  Sensitive history leaves the
\* payload before it is encoded.
Invoke ==
  /\ pc = "ask"
  /\ IF expired
     THEN Fail /\ UNCHANGED <<payload, calls>>
     ELSE /\ payload' = SafePhaseHistory(payload, input.unsafe, phase = "grouping")
          /\ calls' = calls + 1 /\ pc' = "wait" /\ UNCHANGED answer
  /\ UNCHANGED <<phase, input, cycle, expired, shown, common, decided>>

\* The call fails: the helper is gone or late, the input too large even without
\* history, the answer for another phase.
ChatFails ==
  /\ pc = "wait" /\ Fail
  /\ UNCHANGED <<phase, input, calls, cycle, expired, payload, shown, common, decided>>

\* There is an answer, but it stopped early, came too late, is sensitive or no
\* strict JSON, or names records that are no ordered part of those sent.
RefuseAnswer ==
  /\ pc = "wait" /\ Fail
  /\ UNCHANGED <<phase, input, calls, cycle, expired, payload, shown, common, decided>>

\* What the model sees: all of it if it has nothing optional, else the records
\* the helper selected (none of them if the request was too large to send).
\* Text has no history of its own, and shows what Grouping showed.
Shows ==
  IF phase = "text" THEN shown' = common /\ UNCHANGED common
  ELSE \E selected \in SUBSET Records(payload) :
         /\ shown' = Render(payload, selected)
         /\ common' = IF phase = "grouping"
                      THEN [shown' EXCEPT !.commands = {}] ELSE common

\* A complete answer in time.
Answered == pc = "wait" /\ ~expired /\ Shows

-----------------------------------------------------------------------------
(* Phase 1: groups                                                         *)

\* The groups of a membership, in the order of their first files.
Firsts(m) == {f \in Files : \A g \in Files : g < f => m[g] # m[f]}
GroupsOf(m) ==
  LET first[i \in 1..Cardinality(Firsts(m))] ==
        CHOOSE f \in Firsts(m) : Cardinality({g \in Firsts(m) : g <= f}) = i
  IN  [i \in 1..Cardinality(Firsts(m)) |-> {f \in Files : m[f] = m[first[i]]}]

Labels == 1..Cardinality(Files)
\* A visible id nobody gave out, and a label nobody offered.
Invented == 0

\* Every file has one label, and nothing else has.
Assigns(m) ==
  Cardinality(DOMAIN m) = Cardinality(Files) /\ \A f \in Files : f \in DOMAIN m /\ m[f] \in Labels

Grouping ==
  /\ phase = "grouping" /\ Answered
  /\ \E D \in SUBSET (Files \cup {Invented}) :
       \E m \in [D -> Labels \cup {Invented}] :
         IF Assigns(m)
         THEN /\ groups' = GroupsOf(m)
              /\ Ask(MetadataPayload(IF input.history.given
                                     THEN GroupingPayload(input.history, input.blocks)
                                     ELSE Projection(input.blocks)), "category")
         ELSE Fail /\ UNCHANGED <<groups, payload, phase>>
  /\ UNCHANGED <<input, calls, cycle, expired, category, text>>

-----------------------------------------------------------------------------
(* Phase 2: the category of each group                                     *)

\* What a group may refer to: a witness of the host or a block of the diff.
NoRef == [kind |-> "none", of |-> 0]
Unresolved == [kind |-> "unresolved", of |-> 0]
Host(i) == [kind |-> "host", of |-> i]
Git(b) == [kind |-> "git", of |-> 10 * b[1] + b[2]]
Hosts(S) == {Host(i) : i \in {j \in DOMAIN input.host : Range(input.host[j].files) \cap S # {}}}
Gits(S) == {Git(b) : b \in {c \in input.blocks : c[1] \in S}}

\* What there is to refer to for a set of files (as the allowed references, a
\* mutant: a confirmed witness must rule out "none").
Referable(S) == Hosts(S) \cup Gits(S) \cup {Unresolved, NoRef}

AllowedRefs(S) == Referable(S) \ (IF Hosts(S) = {} THEN {} ELSE {NoRef})

Decisions == [type : Types \cup {"odd"}, ref : Referable(Files)]

Category ==
  /\ phase = "category" /\ Answered
  /\ \E D \in {1..Len(groups), 2..Len(groups)} : \E c \in [D -> Decisions] :
       IF /\ D = 1..Len(groups)
          /\ \A i \in D : c[i].type \in Types /\ c[i].ref \in AllowedRefs(groups[i])
          /\ \A i \in D : c[i].ref # Unresolved
       THEN /\ category' = c
            /\ Ask(payload, "text")
       ELSE Fail /\ UNCHANGED <<category, payload, phase>>
  /\ UNCHANGED <<input, calls, cycle, expired, groups, text>>

-----------------------------------------------------------------------------
(* Phase 3: scope and summary of each group                                *)

\* What the checks tell apart in a text, "long" ones before the validator.
Qualities == {"good", "long", "blank", "lines", "type_as_scope", "other_language",
              "escaped_secret"}

Text ==
  /\ phase = "text" /\ Answered
  /\ \E D \in {1..Len(groups), 2..Len(groups)} : \E t \in [D -> Qualities] :
       IF D = 1..Len(groups) /\ \A i \in D : t[i] # "long"
       THEN text' = t /\ pc' = "validate" /\ UNCHANGED answer
       ELSE Fail /\ UNCHANGED text
  /\ UNCHANGED <<phase, input, calls, cycle, expired, payload, groups, category>>

\* completeAssignment
CompleteAssignment(commits) ==
  /\ \A i, j \in DOMAIN commits : i # j => commits[i].files \cap commits[j].files = {}
  /\ UNION {commits[i].files : i \in DOMAIN commits} = Files

\* Mutant: the schema of the request is trusted to keep the texts in form.
ValidateAssignment(commits) ==
  /\ commits # <<>> /\ CompleteAssignment(commits)
  /\ \A i \in DOMAIN commits : commits[i].type \in Types /\ commits[i].files # {}

\* Validate finds no violation.  It looks at the decoded texts: a secret that
\* the JSON of the answer spells with escapes is found here.
Validate(commits) ==
  /\ commits # <<>> /\ CompleteAssignment(commits)
  /\ \A i \in DOMAIN commits :
       /\ commits[i].type \in Types /\ commits[i].files # {}
       /\ commits[i].text \notin {"blank", "lines", "type_as_scope", "other_language",
                                   "escaped_secret"}

Commits == [i \in 1..Len(groups) |->
              [files |-> groups[i], type |-> category[i].type,
               breaking |-> category[i].ref # NoRef, text |-> text[i]]]

\* The only step that lets a plan out.
Finish ==
  /\ pc = "validate"
  /\ IF Validate(Commits) /\ ~expired
     THEN answer' = [kind |-> "plan", commits |-> Commits] /\ pc' = "return"
     ELSE Fail
  /\ UNCHANGED <<phase, input, calls, cycle, expired, payload, shown, common, decided>>

-----------------------------------------------------------------------------
\* The deferred close of the cycle.
Return ==
  /\ pc = "return" /\ pc' = "done"
  /\ cycle' = IF cycle = "open" THEN "closed" ELSE cycle
  /\ UNCHANGED <<phase, input, calls, expired, payload, shown, common, decided, answer>>

Expire ==
  /\ ~expired /\ pc # "done" /\ expired' = TRUE
  /\ UNCHANGED <<pc, phase, input, calls, cycle, payload, shown, common, decided, answer>>

-----------------------------------------------------------------------------
(* Properties                                                              *)

Promise == INSTANCE PlannerPromise WITH files <- Files

\* Whatever the three answers are, and whenever the time ends: no plan, or one
\* whole plan of the selected files.
PlanOrNothing == Promise!Spec

\* A commit is marked as breaking on evidence about its own files only, and a
\* file for which the host confirmed a break is never in a commit without it.
BreakingBacked ==
  answer.kind = "plan" => \A i \in DOMAIN answer.commits :
    LET c == answer.commits[i]
    IN  IF c.breaking THEN Hosts(c.files) \cup Gits(c.files) # {} ELSE Hosts(c.files) = {}

\* No request holds a record with sensitive text, nor a command whose context
\* was withheld; the later phases do not bring back what the first one lost.
NothingSensitive ==
  pc = "wait" =>
    \A p \in {payload, shown} :
      /\ Records(p) \cap input.unsafe = {}
      /\ \A c \in p.commands : c.ref \notin input.unsafe

\* What the model sees of the history never looks more certain or more complete
\* than what the host found: a match shown as unique is one, with its context
\* in view, in a history read completely; a block that lost a candidate says
\* so; "complete" means that every record is there.
HonestHistory ==
  LET h == input.history
      of(b) == h.files[b[1]].blocks[b]
  IN  h.given /\ DOMAIN shown.blocks # {} =>
        /\ \A b \in DOMAIN shown.blocks :
             /\ shown.blocks[b].cands \subseteq shown.contexts
             /\ shown.blocks[b].status = "matched" =>
                  /\ h.acquisition = "complete" /\ Range(of(b).cands) = {"exact"}
                  /\ Cardinality(shown.blocks[b].cands) = 1
                  /\ shown.blocks[b].cands = DOMAIN of(b).cands
             /\ DOMAIN of(b).cands # shown.blocks[b].cands =>
                  "candidate_context_omitted" \in shown.blocks[b].omitted
        /\ phase = "grouping" /\ shown.projection = "complete" =>
             shown.contexts = Range(h.contexts) /\ shown.commands = h.commands
=============================================================================
