--------------------------- MODULE PlanFlowProofs ---------------------------
(* What holds of a plan and of the requests it is made with for every input, *)
(* every number of files, every history and every answer of the model.       *)
EXTENDS PlanFlow, FiniteSetTheorems, WellFoundedInduction, TLAPS

-----------------------------------------------------------------------------
(* The parts of the inductive invariant                                      *)

Asking == {"ask", "wait"}

\* The input, and how far the answer is.
Progress ==
  /\ {"doc", "host", "blocks", "history", "unsafe"} \subseteq DOMAIN input
  /\ input.doc \in Seq(Nat)
  /\ pc \in {"begin", "prepare", "ask", "wait", "validate"} => answer = NoAnswer
  /\ pc \in {"begin", "prepare"} => phase = "grouping" /\ shown = Empty /\ common = Empty

\* What the phases before have decided, while there is a phase to come.
Ascending(gs) ==
  /\ Len(gs) \in Nat /\ DOMAIN gs = 1 .. Len(gs)
  /\ \A i, j \in DOMAIN gs : i < j => Promise!First(gs[i]) < Promise!First(gs[j])
Settled ==
  \A i \in 1 .. Len(groups) :
    category[i].type \in Types /\ category[i].ref \in AllowedRefs(groups[i]) \ {Unresolved}
Worded == \A i \in 1 .. Len(groups) : text[i] \in Qualities \ {"long"}
Chosen ==
  pc \in {"ask", "wait", "validate"} =>
    /\ phase \in {"grouping", "category", "text"}
    /\ phase # "grouping" => Ascending(groups)
    /\ phase = "text" => Settled
    /\ pc = "validate" => phase = "text" /\ Worded

\* Nothing sensitive is in what was shown, nor in a request that is under way.
Clean(p) ==
  /\ Records(p) \cap input.unsafe = {}
  /\ \A c \in p.commands : c.ref \notin input.unsafe
Secrets ==
  /\ Clean(shown) /\ Clean(common)
  /\ pc = "wait" => Clean(payload)
  /\ pc \in Asking /\ phase # "grouping" => payload.commands = {}

\* Blocks as certain as the host's, and as complete, or saying that they are not.
OfHost(h, b) == h.files[b[1]].blocks[b]
Sure(h, b) ==
  /\ h.acquisition = "complete" /\ Range(OfHost(h, b).cands) = {"exact"}
  /\ Cardinality(DOMAIN OfHost(h, b).cands) = 1
HonestBlock(h, p, b) ==
  /\ p.blocks[b].cands \subseteq p.contexts
  /\ p.blocks[b].status = "matched" => Sure(h, b) /\ p.blocks[b].cands = DOMAIN OfHost(h, b).cands
  /\ DOMAIN OfHost(h, b).cands # p.blocks[b].cands =>
       "candidate_context_omitted" \in p.blocks[b].omitted
HonestBlocks(h, p) == \A b \in DOMAIN p.blocks : HonestBlock(h, p, b)
WholeHistory(h, p) ==
  p.projection = "complete" => p.contexts = Range(h.contexts) /\ p.commands = h.commands
Honest ==
  input.history.given =>
    /\ pc \in Asking => /\ Accepts(input.history, Files, input.blocks)
                        /\ HonestBlocks(input.history, payload)
                        /\ phase = "grouping" => WholeHistory(input.history, payload)
    /\ pc = "ask" /\ phase = "grouping" => payload.projection = "complete"
    /\ HonestBlocks(input.history, shown) /\ HonestBlocks(input.history, common)
    /\ phase = "grouping" /\ DOMAIN shown.blocks # {} => WholeHistory(input.history, shown)

FlowInv == Progress /\ Chosen /\ BreakingBacked /\ Secrets /\ Honest

-----------------------------------------------------------------------------
(* What the operators on payloads return                                     *)

\* A payload is a record of four fields.
IsPayload(p) ==
  p = [contexts |-> p.contexts, commands |-> p.commands, projection |-> p.projection,
       blocks |-> p.blocks]

LEMMA EmptyPayload ==
  /\ IsPayload(Empty) /\ Empty.contexts = {} /\ Empty.commands = {}
  /\ DOMAIN Empty.blocks = {}
BY DEF Empty, Projection, IsPayload

LEMMA ProjectionPayload ==
  ASSUME NEW blocks
  PROVE  /\ IsPayload(Projection(blocks))
         /\ Projection(blocks).contexts = {} /\ Projection(blocks).commands = {}
BY DEF Projection, IsPayload

LEMMA GroupingFields ==
  ASSUME NEW h, NEW blocks
  PROVE  LET p == GroupingPayload(h, blocks)
         IN  /\ IsPayload(p) /\ p.contexts = Range(h.contexts) /\ p.commands = h.commands
             /\ p.projection = "complete" /\ DOMAIN p.blocks = blocks
             /\ \A b \in blocks :
                  /\ p.blocks[b].status = h.files[b[1]].blocks[b].status
                  /\ p.blocks[b].cands = DOMAIN h.files[b[1]].blocks[b].cands
BY DEF GroupingPayload, IsPayload

LEMMA MetadataFields ==
  ASSUME NEW p
  PROVE  LET q == MetadataPayload(p)
         IN  /\ IsPayload(q) /\ q.commands = {} /\ q.blocks = p.blocks
             /\ q.contexts = {c \in p.contexts : \E b \in DOMAIN p.blocks : c \in p.blocks[b].cands}
BY DEF MetadataPayload, IsPayload

\* The candidates that stay are the kept ones; a block that loses one is not
\* matched any more and says why.
LEMMA WithholdFields ==
  ASSUME NEW b, NEW kept, NEW why
  PROVE  LET w == Withhold(b, kept, why)
         IN  \/ w = b /\ b.cands \subseteq kept
             \/ w.status # "matched" /\ w.cands = b.cands \cap kept /\ w.omitted = b.omitted \cup why
BY DEF Withhold

LEMMA SafeFields ==
  ASSUME NEW p, NEW unsafe, NEW grouping \in BOOLEAN
  PROVE  LET q == SafePhaseHistory(p, unsafe, grouping)
         IN  /\ IsPayload(q) /\ q.contexts = p.contexts \ unsafe
             /\ q.commands = IF grouping
                             THEN {c \in p.commands : c.ref \in p.contexts \ unsafe /\ c.id \notin unsafe}
                             ELSE p.commands
             /\ q.blocks = [b \in DOMAIN p.blocks |->
                  Withhold(p.blocks[b], p.contexts \ unsafe, {"candidate_context_omitted"})]
             /\ grouping /\ q.projection = "complete" =>
                  q.contexts = p.contexts /\ q.commands = p.commands
BY DEF SafePhaseHistory, IsPayload

LEMMA RenderFields ==
  ASSUME NEW p, NEW selected
  PROVE  LET q == Render(p, selected)
         IN  /\ IsPayload(q) /\ q.contexts = p.contexts \cap selected
             /\ q.commands = {c \in p.commands : {c.id, c.ref} \subseteq selected}
             /\ q.blocks = [b \in DOMAIN p.blocks |-> Withhold(p.blocks[b], selected,
                  {"candidate_context_omitted", "input_budget_exceeded"})]
             /\ q.projection = "complete" => p.projection = "complete" /\ Records(p) \subseteq selected
BY DEF Render, IsPayload

-----------------------------------------------------------------------------
(* The order of the groups                                                   *)

\* The files are finitely many numbers.
LEMMA FilesType ==
  ASSUME Progress
  PROVE  Files \subseteq Nat /\ IsFiniteSet(Files)
<1>1. input.doc \in Seq(Nat) /\ DOMAIN input.doc = 1 .. Len(input.doc) /\ Len(input.doc) \in Nat
  BY DEF Progress
<1>2. Files = {input.doc[i] : i \in DOMAIN input.doc}
  BY DEF Files, Range
<1>3. Files \subseteq Nat
  BY <1>1, <1>2
<1>4. IsFiniteSet(DOMAIN input.doc)
  BY <1>1, FS_Interval
<1>5. input.doc \in Surjection(DOMAIN input.doc, Files)
  BY <1>1, <1>2 DEF Surjection
<1>6. IsFiniteSet(Files)
  BY <1>4, <1>5, FS_Surjection
<1> QED BY <1>3, <1>6

\* Every number up to the size of a finite set is the rank of one of its members.
LEMMA Ranked ==
  ASSUME NEW F \in SUBSET Nat, IsFiniteSet(F), NEW i \in 1 .. Cardinality(F)
  PROVE  \E f \in F : Cardinality({g \in F : g <= f}) = i
<1> DEFINE rank == [f \in F |-> Cardinality({g \in F : g <= f})]
           N == Cardinality(F)
<1>1. N \in Nat
  BY FS_CardinalityType
<1>2. \A f \in F : /\ IsFiniteSet({g \in F : g <= f})
                   /\ Cardinality({g \in F : g <= f}) \in 1 .. N
  <2> TAKE f \in F
  <2> DEFINE S == {g \in F : g <= f}
  <2>1. S \in SUBSET F /\ f \in S
    OBVIOUS
  <2>2. IsFiniteSet(S) /\ Cardinality(S) <= N /\ Cardinality(S) \in Nat
    BY <2>1, FS_Subset, FS_CardinalityType
  <2>3. Cardinality(S) # 0
    BY <2>1, <2>2, FS_EmptySet
  <2> QED BY <1>1, <2>2, <2>3
<1>3. rank \in [F -> 1 .. N]
  BY <1>2
<1>4. ASSUME NEW f \in F, NEW g \in F, f < g PROVE rank[f] # rank[g]
  <2> DEFINE S == {h \in F : h <= f}
             T == {h \in F : h <= g}
  <2>0. \A h \in F : h <= f => h <= g
    BY <1>4
  <2>1. S \subseteq T
    BY <2>0
  <2>2. g \in T /\ g \notin S
    BY <1>4
  <2>3. IsFiniteSet(T)
    BY <1>2
  <2> HIDE DEF S, T
  <2>4. Cardinality(T) # Cardinality(S)
    BY <2>1, <2>2, <2>3, FS_Subset
  <2> QED BY <2>4 DEF S, T
<1>5. \A f, g \in F : rank[f] = rank[g] => f = g
  BY <1>4
<1>6. rank \in Injection(F, 1 .. N)
  BY <1>3, <1>5 DEF Injection, IsInjective
<1>7. IsFiniteSet(1 .. N) /\ Cardinality(1 .. N) = N
  BY <1>1, FS_Interval
<1>8. rank \in Surjection(F, 1 .. N)
  BY <1>6, <1>7, FS_Injection
<1>9. \E f \in F : rank[f] = i
  BY <1>8 DEF Surjection
<1> QED BY <1>9

\* The groups of a membership come in the order of their first files.
LEMMA GroupsOrdered ==
  ASSUME Progress, NEW m
  PROVE  Ascending(GroupsOf(m))
<1> DEFINE F == Firsts(m)
           n == Cardinality(F)
           first == [i \in 1 .. n |-> CHOOSE f \in F : Cardinality({g \in F : g <= f}) = i]
           G == GroupsOf(m)
<1>1. F \in SUBSET Nat /\ IsFiniteSet(F) /\ n \in Nat
  <2>1. F \in SUBSET Files
    BY DEF Firsts
  <2> QED BY <2>1, FilesType, FS_Subset, FS_CardinalityType
<1>2. G = [i \in 1 .. n |-> {f \in Files : m[f] = m[first[i]]}]
  BY DEF GroupsOf
<1>3. ASSUME NEW i \in 1 .. n
      PROVE  first[i] \in F /\ Cardinality({g \in F : g <= first[i]}) = i
  <2>1. \E f \in F : Cardinality({g \in F : g <= f}) = i
    BY <1>1, Ranked
  <2>2. first[i] = CHOOSE f \in F : Cardinality({g \in F : g <= f}) = i
    OBVIOUS
  <2> HIDE DEF first, F
  <2> QED BY <2>1, <2>2
<1>4. ASSUME NEW i \in 1 .. n PROVE Promise!First(G[i]) = first[i]
  <2>1. first[i] \in Files /\ \A g \in Files : g < first[i] => m[g] # m[first[i]]
    BY <1>3 DEF Firsts
  <2>2. G[i] = {f \in Files : m[f] = m[first[i]]}
    BY <1>2
  <2> HIDE DEF first, G
  <2>3. first[i] \in G[i] /\ \A g \in G[i] : first[i] <= g /\ g \in Nat
    BY <2>1, <2>2, FilesType
  <2>4. \A f \in G[i] : (\A g \in G[i] : f <= g) => f = first[i]
    BY <2>3
  <2> QED BY <2>3, <2>4 DEF Promise!First
<1>5. ASSUME NEW i \in 1 .. n, NEW j \in 1 .. n, i < j PROVE first[i] < first[j]
  <2> DEFINE S == {g \in F : g <= first[i]}
             T == {g \in F : g <= first[j]}
  <2>1. first[i] \in Nat /\ first[j] \in Nat /\ Cardinality(S) = i /\ Cardinality(T) = j
    BY <1>1, <1>3
  <2>2. IsFiniteSet(S)
    BY <1>1, FS_Subset
  <2>3. ASSUME first[j] <= first[i] PROVE FALSE
    <3>0. \A g \in F : g <= first[j] => g <= first[i]
      BY <1>1, <2>1, <2>3
    <3>1. T \in SUBSET S
      BY <3>0
    <3>2. Cardinality(T) <= Cardinality(S)
      BY <2>2, <3>1, FS_Subset
    <3> QED BY <1>5, <2>1, <3>2
  <2> HIDE DEF first
  <2> QED BY <2>1, <2>3
<1>6. G \in [1 .. n -> SUBSET Files]
  BY <1>2
<1>7. DOMAIN G = 1 .. n /\ Len(G) = n
  BY <1>1, <1>6
<1> HIDE DEF F, n, first, G
<1> QED BY <1>1, <1>4, <1>5, <1>7 DEF G, Ascending

-----------------------------------------------------------------------------
(* Progress                                                                  *)

\* Binding a history leaves what the files of the input are.
LEMMA BindKeeps ==
  ASSUME {"doc", "host", "blocks", "history", "unsafe"} \subseteq DOMAIN input,
         NEW h, Bind(h)
  PROVE  /\ {"doc", "host", "blocks", "history", "unsafe"} \subseteq DOMAIN input'
         /\ input'.doc = input.doc /\ input'.host = input.host /\ input'.unsafe = input.unsafe
<1>1. ASSUME NEW x, NEW y, NEW z, z = [input EXCEPT !.blocks = x, !.history = y]
      PROVE  /\ {"doc", "host", "blocks", "history", "unsafe"} \subseteq DOMAIN z
             /\ z.doc = input.doc /\ z.host = input.host /\ z.unsafe = input.unsafe
  BY <1>1
<1> QED BY <1>1 DEF Bind

\* Every step keeps the shape of the input and the place of the answer.
LEMMA ProgressStep ==
  ASSUME Progress, [FlowNext]_all
  PROVE  Progress'
<1>1. ASSUME Unprepared PROVE Progress'
  BY <1>1 DEF Unprepared, Collecting, Progress
<1>2. ASSUME AttributionStops PROVE Progress'
  BY <1>2 DEF AttributionStops, Collecting, Progress
<1>3. ASSUME AttributeHistory PROVE Progress'
  <2>1. CASE UNCHANGED input
    BY <1>3, <2>1 DEF AttributeHistory, Collecting, Remember, Bind, Progress
  <2>2. CASE \E h : Bind(h)
    BY <1>3, <2>2, BindKeeps DEF AttributeHistory, Collecting, Remember, Progress
  <2> QED BY <1>3, <2>1, <2>2 DEF AttributeHistory, Remember
<1>4. ASSUME Deliver PROVE Progress'
  BY <1>4 DEF Deliver, Progress
<1>5. ASSUME Regenerate PROVE Progress'
  <2>1. input' \in Inputs
    BY <1>5 DEF Regenerate
  <2> QED BY <1>5, <2>1, InputsOK DEF Regenerate, Progress
<1>6. ASSUME Ended PROVE Progress'
  BY <1>6 DEF Ended, all, vars, Progress
<1>7. ASSUME Begin PROVE Progress'
  BY <1>7 DEF Begin, Fail, Progress
<1>8. ASSUME Prepare PROVE Progress'
  BY <1>8 DEF Prepare, Fail, Ask, Progress
<1>9. ASSUME Invoke PROVE Progress'
  BY <1>9 DEF Invoke, Fail, Progress
<1>10. ASSUME ChatFails PROVE Progress'
  BY <1>10 DEF ChatFails, Fail, Progress
<1>11. ASSUME RefuseAnswer PROVE Progress'
  BY <1>11 DEF RefuseAnswer, Fail, Progress
<1>12. ASSUME Grouping PROVE Progress'
  BY <1>12 DEF Grouping, Fail, Ask, Answered, Shows, Progress
<1>13. ASSUME Category PROVE Progress'
  BY <1>13 DEF Category, Fail, Ask, Answered, Shows, Progress
<1>14. ASSUME Text PROVE Progress'
  BY <1>14 DEF Text, Fail, Answered, Shows, Progress
<1>15. ASSUME Finish PROVE Progress'
  BY <1>15 DEF Finish, Fail, Progress
<1>16. ASSUME Return PROVE Progress'
  BY <1>16 DEF Return, Progress
<1>17. ASSUME Expire PROVE Progress'
  BY <1>17 DEF Expire, Progress
<1>18. CASE UNCHANGED all
  BY <1>18 DEF all, vars, Progress
<1> QED
  BY <1>1, <1>2, <1>3, <1>4, <1>5, <1>6, <1>7, <1>8, <1>9, <1>10, <1>11, <1>12,
     <1>13, <1>14, <1>15, <1>16, <1>17, <1>18 DEF FlowNext

-----------------------------------------------------------------------------
(* What has been decided                                                     *)

\* What a group may refer to depends on the input alone.
LEMMA RefsKept ==
  ASSUME input' = input
  PROVE  \A S : AllowedRefs(S)' = AllowedRefs(S)
BY DEF AllowedRefs, Referable, Hosts, Gits

\* Every step keeps the decisions of the earlier phases.
LEMMA ChosenStep ==
  ASSUME Progress, Chosen, [FlowNext]_all
  PROVE  Chosen'
<1>k. ASSUME UNCHANGED <<input, groups, category>> PROVE Settled' = Settled
  BY <1>k DEF Settled, AllowedRefs, Referable, Hosts, Gits
<1>f. ASSUME UNCHANGED <<phase, input, groups, category, text>>,
             pc' = "return" \/ (pc = "ask" /\ pc' = "wait")
      PROVE  Chosen'
  BY <1>f, <1>k DEF Chosen, Worded
<1>u. ASSUME UNCHANGED <<pc, phase, input, groups, category, text>>
      PROVE  Chosen'
  BY <1>u, <1>k DEF Chosen, Worded
<1>1. ASSUME Unprepared PROVE Chosen'
  BY <1>1 DEF Unprepared, Chosen
<1>2. ASSUME AttributionStops PROVE Chosen'
  BY <1>2 DEF AttributionStops, Chosen
<1>3. ASSUME AttributeHistory PROVE Chosen'
  <2>1. pc' \in {"begin", "refused"}
    BY <1>3 DEF AttributeHistory, Collecting, Remember
  <2> QED BY <2>1 DEF Chosen
<1>4. ASSUME Deliver PROVE Chosen'
  BY <1>4 DEF Deliver, Chosen
<1>5. ASSUME Regenerate PROVE Chosen'
  BY <1>5 DEF Regenerate, Chosen
<1>6. ASSUME Ended PROVE Chosen'
  BY <1>6, <1>u DEF Ended, all, vars
<1>7. ASSUME Begin PROVE Chosen'
  BY <1>7 DEF Begin, Chosen, Fail
<1>8. ASSUME Prepare PROVE Chosen'
  BY <1>8 DEF Prepare, Chosen, Fail, Ask
<1>9. ASSUME Invoke PROVE Chosen'
  <2>1. pc' = "return" \/ (pc = "ask" /\ pc' = "wait")
    BY <1>9 DEF Invoke, Fail
  <2>2. UNCHANGED <<phase, input, groups, category, text>>
    BY <1>9 DEF Invoke, decided
  <2> QED BY <1>f, <2>1, <2>2
<1>10. ASSUME ChatFails PROVE Chosen'
  BY <1>10 DEF ChatFails, Chosen, Fail
<1>11. ASSUME RefuseAnswer PROVE Chosen'
  BY <1>11 DEF RefuseAnswer, Chosen, Fail
<1>12. ASSUME Grouping PROVE Chosen'
  <2>1. CASE pc' = "return"
    BY <2>1 DEF Chosen
  <2>2. CASE pc' = "ask" /\ phase' = "category" /\ \E m : groups' = GroupsOf(m)
    BY <2>2, GroupsOrdered DEF Chosen
  <2> QED BY <1>12, <2>1, <2>2 DEF Grouping, Fail, Ask
<1>13. ASSUME Category PROVE Chosen'
  <2>1. CASE pc' = "return"
    BY <2>1 DEF Chosen
  <2>2. CASE \E c : /\ pc' = "ask" /\ phase' = "text" /\ category' = c
                    /\ \A i \in 1 .. Len(groups) :
                         /\ c[i].type \in Types /\ c[i].ref \in AllowedRefs(groups[i])
                         /\ c[i].ref # Unresolved
    <3>1. UNCHANGED <<input, groups>> /\ phase = "category" /\ pc = "wait"
      BY <1>13 DEF Category, Answered
    <3>2. \A S : AllowedRefs(S)' = AllowedRefs(S)
      BY <3>1, RefsKept
    <3>3. \A i \in 1 .. Len(groups) :
            category'[i].type \in Types /\ category'[i].ref \in AllowedRefs(groups[i]) \ {Unresolved}
      BY <2>2
    <3>4. \A i \in 1 .. Len(groups') :
            category'[i].type \in Types /\ category'[i].ref \in AllowedRefs(groups[i])' \ {Unresolved}
      BY <3>1, <3>2, <3>3
    <3> QED BY <2>2, <3>1, <3>4 DEF Chosen, Settled
  <2> QED BY <1>13, <2>1, <2>2 DEF Category, Fail, Ask
<1>14. ASSUME Text PROVE Chosen'
  <2>1. CASE pc' = "return"
    BY <2>1 DEF Chosen
  <2>2. CASE pc' = "validate"
    <3>1. UNCHANGED <<phase, input, groups, category>> /\ phase = "text" /\ pc = "wait"
      BY <1>14 DEF Text, Answered
    <3>2. \A i \in 1 .. Len(groups) : text'[i] \in Qualities \ {"long"}
      BY <1>14, <2>2 DEF Text, Fail
    <3> QED BY <1>k, <2>2, <3>1, <3>2 DEF Chosen, Worded
  <2> QED BY <1>14, <2>1, <2>2 DEF Text, Fail
<1>15. ASSUME Finish PROVE Chosen'
  BY <1>15 DEF Finish, Chosen, Fail
<1>16. ASSUME Return PROVE Chosen'
  BY <1>16 DEF Return, Chosen
<1>17. ASSUME Expire PROVE Chosen'
  <2>1. pc' = pc /\ UNCHANGED <<phase, input, groups, category, text>>
    BY <1>17 DEF Expire, decided
  <2> QED BY <1>u, <2>1
<1>18. CASE UNCHANGED all
  BY <1>18, <1>u DEF all, vars
<1> QED
  BY <1>1, <1>2, <1>3, <1>4, <1>5, <1>6, <1>7, <1>8, <1>9, <1>10, <1>11, <1>12,
     <1>13, <1>14, <1>15, <1>16, <1>17, <1>18 DEF FlowNext

-----------------------------------------------------------------------------
(* What marks a commit as breaking                                           *)

\* Every step keeps the evidence for the marks of a plan.
LEMMA BackedStep ==
  ASSUME Progress, Chosen, BreakingBacked, [FlowNext]_all
  PROVE  BreakingBacked'
<1>h. ASSUME UNCHANGED input PROVE \A S : Hosts(S)' = Hosts(S) /\ Gits(S)' = Gits(S)
  BY <1>h DEF Hosts, Gits
<1>k. ASSUME UNCHANGED <<input, answer>> PROVE BreakingBacked'
  BY <1>h, <1>k DEF BreakingBacked
<1>n. ASSUME answer' \in {NoAnswer, Refusal} PROVE BreakingBacked'
  BY <1>n DEF BreakingBacked, NoAnswer, Refusal
<1>1. ASSUME Unprepared PROVE BreakingBacked'
  <2>1. UNCHANGED input /\ (UNCHANGED answer \/ answer' = Refusal)
    BY <1>1 DEF Unprepared
  <2> QED BY <1>k, <1>n, <2>1
<1>2. ASSUME AttributionStops PROVE BreakingBacked'
  <2>1. UNCHANGED input /\ (UNCHANGED answer \/ answer' = Refusal)
    BY <1>2 DEF AttributionStops
  <2> QED BY <1>k, <1>n, <2>1
<1>3. ASSUME AttributeHistory PROVE BreakingBacked'
  <2>1. answer' = NoAnswer
    BY <1>3 DEF AttributeHistory, Collecting, Progress
  <2> QED BY <1>n, <2>1
<1>4. ASSUME Deliver PROVE BreakingBacked'
  <2>1. UNCHANGED input /\ (UNCHANGED answer \/ answer' = Refusal)
    BY <1>4 DEF Deliver
  <2> QED BY <1>k, <1>n, <2>1
<1>5. ASSUME Regenerate PROVE BreakingBacked'
  <2>1. answer' = NoAnswer
    BY <1>5 DEF Regenerate
  <2> QED BY <1>n, <2>1
<1>6. ASSUME Ended PROVE BreakingBacked'
  <2>1. UNCHANGED input /\ (UNCHANGED answer \/ answer' = Refusal)
    BY <1>6 DEF Ended, all, vars
  <2> QED BY <1>k, <1>n, <2>1
<1>7. ASSUME Begin PROVE BreakingBacked'
  <2>1. UNCHANGED input /\ (UNCHANGED answer \/ answer' = Refusal)
    BY <1>7 DEF Begin, Fail
  <2> QED BY <1>k, <1>n, <2>1
<1>8. ASSUME Prepare PROVE BreakingBacked'
  <2>1. UNCHANGED input /\ (UNCHANGED answer \/ answer' = Refusal)
    BY <1>8 DEF Prepare, Fail, Ask
  <2> QED BY <1>k, <1>n, <2>1
<1>9. ASSUME Invoke PROVE BreakingBacked'
  <2>1. UNCHANGED input /\ (UNCHANGED answer \/ answer' = Refusal)
    BY <1>9 DEF Invoke, Fail
  <2> QED BY <1>k, <1>n, <2>1
<1>10. ASSUME ChatFails PROVE BreakingBacked'
  <2>1. UNCHANGED input /\ (UNCHANGED answer \/ answer' = Refusal)
    BY <1>10 DEF ChatFails, Fail
  <2> QED BY <1>k, <1>n, <2>1
<1>11. ASSUME RefuseAnswer PROVE BreakingBacked'
  <2>1. UNCHANGED input /\ (UNCHANGED answer \/ answer' = Refusal)
    BY <1>11 DEF RefuseAnswer, Fail
  <2> QED BY <1>k, <1>n, <2>1
<1>12. ASSUME Grouping PROVE BreakingBacked'
  <2>1. UNCHANGED input /\ (UNCHANGED answer \/ answer' = Refusal)
    BY <1>12 DEF Grouping, Fail, Ask
  <2> QED BY <1>k, <1>n, <2>1
<1>13. ASSUME Category PROVE BreakingBacked'
  <2>1. UNCHANGED input /\ (UNCHANGED answer \/ answer' = Refusal)
    BY <1>13 DEF Category, Fail, Ask
  <2> QED BY <1>k, <1>n, <2>1
<1>14. ASSUME Text PROVE BreakingBacked'
  <2>1. UNCHANGED input /\ (UNCHANGED answer \/ answer' = Refusal)
    BY <1>14 DEF Text, Fail
  <2> QED BY <1>k, <1>n, <2>1
<1>15. ASSUME Finish PROVE BreakingBacked'
  <2>1. UNCHANGED input /\ pc = "validate"
    BY <1>15 DEF Finish
  <2>2. CASE answer' = [kind |-> "plan", commits |-> Commits]
    <3>1. Settled
      BY <2>1 DEF Chosen
    <3>2. ASSUME NEW i \in 1 .. Len(groups)
          PROVE  /\ Commits[i].files = groups[i]
                 /\ IF Commits[i].breaking THEN Hosts(groups[i]) \cup Gits(groups[i]) # {}
                                           ELSE Hosts(groups[i]) = {}
      <4>1. Commits[i].files = groups[i] /\ Commits[i].breaking = (category[i].ref # NoRef)
        BY DEF Commits
      <4>2. category[i].ref \in AllowedRefs(groups[i]) \ {Unresolved}
        BY <3>1 DEF Settled
      <4>3. category[i].ref # NoRef => category[i].ref \in Hosts(groups[i]) \cup Gits(groups[i])
        BY <4>2 DEF AllowedRefs, Referable
      <4>4. category[i].ref = NoRef => Hosts(groups[i]) = {}
        BY <4>2 DEF AllowedRefs
      <4> QED BY <4>1, <4>3, <4>4
    <3>3. DOMAIN Commits = 1 .. Len(groups)
      BY DEF Commits
    <3>4. answer'.commits = Commits
      BY <2>2
    <3>5. \A i \in DOMAIN Commits :
            IF Commits[i].breaking THEN Hosts(Commits[i].files) \cup Gits(Commits[i].files) # {}
                                   ELSE Hosts(Commits[i].files) = {}
      BY <3>2, <3>3
    <3>6. ASSUME NEW C, C = Commits
          PROVE  \A i \in DOMAIN C :
            IF C[i].breaking THEN Hosts(C[i].files)' \cup Gits(C[i].files)' # {}
                             ELSE Hosts(C[i].files)' = {}
      BY <1>h, <2>1, <3>5, <3>6
    <3> HIDE DEF Commits
    <3> QED BY <3>4, <3>6 DEF BreakingBacked
  <2>3. CASE answer' = Refusal
    BY <1>n, <2>3
  <2> QED BY <1>15, <2>2, <2>3 DEF Finish, Fail
<1>16. ASSUME Return PROVE BreakingBacked'
  <2>1. UNCHANGED input /\ (UNCHANGED answer \/ answer' = Refusal)
    BY <1>16 DEF Return
  <2> QED BY <1>k, <1>n, <2>1
<1>17. ASSUME Expire PROVE BreakingBacked'
  <2>1. UNCHANGED input /\ (UNCHANGED answer \/ answer' = Refusal)
    BY <1>17 DEF Expire, decided
  <2> QED BY <1>k, <1>n, <2>1
<1>18. CASE UNCHANGED all
  <2>1. UNCHANGED <<input, answer>>
    BY <1>18 DEF all, vars
  <2> QED BY <1>k, <2>1
<1> QED
  BY <1>1, <1>2, <1>3, <1>4, <1>5, <1>6, <1>7, <1>8, <1>9, <1>10, <1>11, <1>12,
     <1>13, <1>14, <1>15, <1>16, <1>17, <1>18 DEF FlowNext

-----------------------------------------------------------------------------
(* What is sent and shown                                                    *)

\* What is shown of a clean request is clean.
LEMMA ShowsClean ==
  ASSUME Secrets, UNCHANGED input, pc = "wait", Shows
  PROVE  Clean(shown)' /\ Clean(common)'
<1>1. Clean(payload) /\ Clean(shown) /\ Clean(common)
  BY DEF Secrets
<1>2. CASE phase = "text"
  BY <1>1, <1>2 DEF Shows, Clean, Records
<1>3. CASE phase # "text"
  <2>1. PICK selected : shown' = Render(payload, selected)
    BY <1>3 DEF Shows
  <2>2. /\ shown'.contexts \subseteq payload.contexts
        /\ shown'.commands \subseteq payload.commands /\ IsPayload(shown')
    BY <2>1 DEF Render, IsPayload
  <2>3. Clean(shown)'
    BY <1>1, <2>2 DEF Clean, Records
  <2>4. CASE phase = "grouping"
    <3>1. common' = [shown' EXCEPT !.commands = {}]
      BY <1>3, <2>4 DEF Shows
    <3>2. shown' = [contexts |-> shown'.contexts, commands |-> shown'.commands,
                    projection |-> shown'.projection, blocks |-> shown'.blocks]
      BY <2>2 DEF IsPayload
    <3>3. common'.contexts = shown'.contexts /\ common'.commands = {}
      BY <3>1, <3>2
    <3> QED BY <2>3, <3>3 DEF Clean, Records
  <2>5. CASE phase # "grouping"
    <3>1. common' = common
      BY <1>3, <2>5 DEF Shows
    <3> QED BY <1>1, <2>3, <3>1 DEF Clean, Records
  <2> QED BY <2>3, <2>4, <2>5
<1> QED BY <1>2, <1>3

\* Every step keeps sensitive records out of requests and out of what is shown.
LEMMA SecretsStep ==
  ASSUME Progress, Secrets, [FlowNext]_all
  PROVE  Secrets'
<1>s. ASSUME input'.unsafe = input.unsafe, UNCHANGED <<shown, common>>,
             pc' = "wait" => Clean(payload)',
             pc' \in Asking /\ phase' # "grouping" => payload'.commands = {}
      PROVE  Secrets'
  BY <1>s DEF Secrets, Clean, Records
<1>u. ASSUME UNCHANGED <<pc, phase, input, payload, shown, common>> PROVE Secrets'
  BY <1>u DEF Secrets, Clean, Records
<1>1. ASSUME Unprepared PROVE Secrets'
  <2>1. UNCHANGED <<input, shown, common>> /\ pc' \notin Asking
    BY <1>1 DEF Unprepared, Asking
  <2> QED BY <1>s, <2>1 DEF Asking
<1>2. ASSUME AttributionStops PROVE Secrets'
  <2>1. UNCHANGED <<input, shown, common>> /\ pc' \notin Asking
    BY <1>2 DEF AttributionStops, Asking
  <2> QED BY <1>s, <2>1 DEF Asking
<1>3. ASSUME AttributeHistory PROVE Secrets'
  <2>1. UNCHANGED <<shown, common>> /\ pc' \notin Asking
    BY <1>3 DEF AttributeHistory, Collecting, Remember, Asking
  <2>2. input'.unsafe = input.unsafe
    BY <1>3, BindKeeps DEF AttributeHistory, Remember, Progress
  <2> QED BY <1>s, <2>1, <2>2 DEF Asking
<1>4. ASSUME Deliver PROVE Secrets'
  <2>1. UNCHANGED <<input, shown, common>> /\ pc' \notin Asking
    BY <1>4 DEF Deliver, Asking
  <2> QED BY <1>s, <2>1 DEF Asking
<1>5. ASSUME Regenerate PROVE Secrets'
  <2>1. shown' = Empty /\ common' = Empty /\ pc' = "begin"
    BY <1>5 DEF Regenerate
  <2>2. Clean(shown)' /\ Clean(common)'
    BY <2>1, EmptyPayload DEF Clean, Records
  <2> QED BY <2>1, <2>2 DEF Secrets, Asking
<1>6. ASSUME Ended PROVE Secrets'
  BY <1>6, <1>u DEF Ended, all, vars
<1>7. ASSUME Begin PROVE Secrets'
  <2>1. UNCHANGED <<input, shown, common>> /\ pc' \notin Asking
    BY <1>7 DEF Begin, Asking, Fail
  <2> QED BY <1>s, <2>1 DEF Asking
<1>8. ASSUME Prepare PROVE Secrets'
  <2>1. UNCHANGED <<input, shown, common>> /\ phase = "grouping"
    BY <1>8 DEF Prepare, Progress
  <2>2. pc' = "return" \/ (pc' = "ask" /\ phase' = "grouping")
    BY <1>8 DEF Prepare, Fail, Ask
  <2> QED BY <1>s, <2>1, <2>2 DEF Asking
<1>9. ASSUME Invoke PROVE Secrets'
  <2>1. UNCHANGED <<input, shown, common, phase>> /\ pc = "ask"
    BY <1>9 DEF Invoke
  <2>2. CASE pc' = "return"
    BY <1>s, <2>1, <2>2 DEF Asking
  <2>3. CASE pc' = "wait" /\ payload' = SafePhaseHistory(payload, input.unsafe, phase = "grouping")
    <3>1. /\ payload'.contexts = payload.contexts \ input.unsafe
          /\ payload'.commands = IF phase = "grouping"
                THEN {c \in payload.commands : /\ c.ref \in payload.contexts \ input.unsafe
                                               /\ c.id \notin input.unsafe}
                ELSE payload.commands
      BY <2>3 DEF SafePhaseHistory
    <3>2. phase # "grouping" => payload.commands = {}
      BY <2>1 DEF Secrets, Asking
    <3>3. Clean(payload)'
      BY <2>1, <3>1, <3>2 DEF Clean, Records
    <3> QED BY <1>s, <2>1, <2>3, <3>1, <3>2, <3>3
  <2> QED BY <1>9, <2>2, <2>3 DEF Invoke, Fail
<1>10. ASSUME ChatFails PROVE Secrets'
  <2>1. UNCHANGED <<input, shown, common>> /\ pc' \notin Asking
    BY <1>10 DEF ChatFails, Asking, Fail
  <2> QED BY <1>s, <2>1 DEF Asking
<1>11. ASSUME RefuseAnswer PROVE Secrets'
  <2>1. UNCHANGED <<input, shown, common>> /\ pc' \notin Asking
    BY <1>11 DEF RefuseAnswer, Asking, Fail
  <2> QED BY <1>s, <2>1 DEF Asking
<1>12. ASSUME Grouping PROVE Secrets'
  <2>1. UNCHANGED input /\ pc = "wait" /\ Shows
    BY <1>12 DEF Grouping, Answered
  <2>2. Clean(shown)' /\ Clean(common)'
    BY <2>1, ShowsClean
  <2>3. pc' = "return" \/ (pc' = "ask" /\ payload'.commands = {})
    BY <1>12, MetadataFields DEF Grouping, Fail, Ask
  <2> QED BY <2>2, <2>3 DEF Secrets, Asking
<1>13. ASSUME Category PROVE Secrets'
  <2>1. UNCHANGED input /\ pc = "wait" /\ Shows
    BY <1>13 DEF Category, Answered
  <2>2. Clean(shown)' /\ Clean(common)'
    BY <2>1, ShowsClean
  <2>3. payload.commands = {}
    BY <1>13, <2>1 DEF Category, Secrets, Asking
  <2>4. pc' = "return" \/ (pc' = "ask" /\ payload' = payload)
    BY <1>13 DEF Category, Fail, Ask
  <2> QED BY <2>2, <2>3, <2>4 DEF Secrets, Asking
<1>14. ASSUME Text PROVE Secrets'
  <2>1. UNCHANGED input /\ pc = "wait" /\ Shows
    BY <1>14 DEF Text, Answered
  <2>2. Clean(shown)' /\ Clean(common)'
    BY <2>1, ShowsClean
  <2>3. pc' \in {"return", "validate"}
    BY <1>14 DEF Text, Fail
  <2> QED BY <2>2, <2>3 DEF Secrets, Asking
<1>15. ASSUME Finish PROVE Secrets'
  <2>1. UNCHANGED <<input, shown, common>> /\ pc' \notin Asking
    BY <1>15 DEF Finish, Asking, Fail
  <2> QED BY <1>s, <2>1 DEF Asking
<1>16. ASSUME Return PROVE Secrets'
  <2>1. UNCHANGED <<input, shown, common>> /\ pc' \notin Asking
    BY <1>16 DEF Return, Asking
  <2> QED BY <1>s, <2>1 DEF Asking
<1>17. ASSUME Expire PROVE Secrets'
  BY <1>17, <1>u DEF Expire
<1>18. CASE UNCHANGED all
  BY <1>18, <1>u DEF all, vars
<1> QED
  BY <1>1, <1>2, <1>3, <1>4, <1>5, <1>6, <1>7, <1>8, <1>9, <1>10, <1>11, <1>12,
     <1>13, <1>14, <1>15, <1>16, <1>17, <1>18 DEF FlowNext

-----------------------------------------------------------------------------
(* How history looks to the model                                            *)

\* A history that was accepted is shown as it is.
LEMMA HonestGrouping ==
  ASSUME NEW h, NEW files, NEW blocks, Accepts(h, files, blocks)
  PROVE  HonestBlocks(h, GroupingPayload(h, blocks)) /\ WholeHistory(h, GroupingPayload(h, blocks))
<1> DEFINE p == GroupingPayload(h, blocks)
<1>1. /\ p.contexts = Range(h.contexts) /\ p.commands = h.commands /\ DOMAIN p.blocks = blocks
      /\ \A b \in blocks : /\ p.blocks[b].status = OfHost(h, b).status
                           /\ p.blocks[b].cands = DOMAIN OfHost(h, b).cands
  BY GroupingFields DEF OfHost
<1>2. ASSUME NEW b \in blocks PROVE AcceptsBlock(OfHost(h, b), h)
  <2>1. b[1] \in DOMAIN h.files /\ b \in BlocksOf(b[1], blocks)
    BY DEF Accepts, BlocksOf
  <2> QED BY <2>1 DEF Accepts, OfHost
<1> HIDE DEF p
<1>3. ASSUME NEW b \in blocks PROVE HonestBlock(h, p, b)
  BY <1>1, <1>2 DEF AcceptsBlock, HonestBlock, Sure
<1>4. HonestBlocks(h, p) /\ WholeHistory(h, p)
  BY <1>1, <1>3 DEF HonestBlocks, WholeHistory
<1> QED BY <1>4 DEF p

LEMMA HonestMetadata ==
  ASSUME NEW h, NEW p, HonestBlocks(h, p)
  PROVE  HonestBlocks(h, MetadataPayload(p))
<1> DEFINE q == MetadataPayload(p)
<1>1. /\ q.blocks = p.blocks
      /\ q.contexts = {c \in p.contexts : \E b \in DOMAIN p.blocks : c \in p.blocks[b].cands}
  BY MetadataFields
<1> HIDE DEF q
<1>2. ASSUME NEW b \in DOMAIN p.blocks PROVE p.blocks[b].cands \subseteq q.contexts
  BY <1>1 DEF HonestBlocks, HonestBlock
<1>3. HonestBlocks(h, q)
  BY <1>1, <1>2 DEF HonestBlocks, HonestBlock
<1> QED BY <1>3 DEF q

\* Withholding candidates keeps blocks honest: what loses one is no longer
\* matched and says so.
LEMMA HonestWithheld ==
  ASSUME NEW h, NEW p, NEW q, NEW kept, NEW why, "candidate_context_omitted" \in why,
         q.blocks = [b \in DOMAIN p.blocks |-> Withhold(p.blocks[b], kept, why)],
         p.contexts \cap kept \subseteq q.contexts, HonestBlocks(h, p)
  PROVE  HonestBlocks(h, q)
<1>1. ASSUME NEW b \in DOMAIN p.blocks PROVE HonestBlock(h, q, b)
  <2>1. q.blocks[b] = Withhold(p.blocks[b], kept, why)
    OBVIOUS
  <2>2. HonestBlock(h, p, b)
    BY DEF HonestBlocks
  <2>3. CASE q.blocks[b] = p.blocks[b] /\ p.blocks[b].cands \subseteq kept
    BY <2>2, <2>3 DEF HonestBlock
  <2>4. CASE /\ q.blocks[b].status # "matched"
             /\ q.blocks[b].cands = p.blocks[b].cands \cap kept
             /\ q.blocks[b].omitted = p.blocks[b].omitted \cup why
    BY <2>2, <2>4 DEF HonestBlock
  <2> QED BY <2>1, <2>3, <2>4, WithholdFields
<1>2. DOMAIN q.blocks = DOMAIN p.blocks
  OBVIOUS
<1> QED BY <1>1, <1>2 DEF HonestBlocks

LEMMA HonestSafe ==
  ASSUME NEW h, NEW p, HonestBlocks(h, p), NEW unsafe, NEW grouping \in BOOLEAN
  PROVE  HonestBlocks(h, SafePhaseHistory(p, unsafe, grouping))
<1> DEFINE q == SafePhaseHistory(p, unsafe, grouping)
<1>1. /\ q.contexts = p.contexts \ unsafe
      /\ q.blocks = [b \in DOMAIN p.blocks |->
           Withhold(p.blocks[b], p.contexts \ unsafe, {"candidate_context_omitted"})]
  BY DEF SafePhaseHistory
<1> HIDE DEF q
<1>2. HonestBlocks(h, q)
  BY <1>1, HonestWithheld
<1> QED BY <1>2 DEF q

\* No command without its context.
Referring(h) == \A c \in h.commands : c.ref \in Range(h.contexts)

LEMMA HonestRender ==
  ASSUME NEW h, NEW p, HonestBlocks(h, p), NEW selected
  PROVE  /\ HonestBlocks(h, Render(p, selected))
         /\ WholeHistory(h, p) /\ Referring(h) => WholeHistory(h, Render(p, selected))
<1> DEFINE q == Render(p, selected)
<1>1. /\ q.contexts = p.contexts \cap selected
      /\ q.commands = {c \in p.commands : {c.id, c.ref} \subseteq selected}
      /\ q.blocks = [b \in DOMAIN p.blocks |-> Withhold(p.blocks[b], selected,
           {"candidate_context_omitted", "input_budget_exceeded"})]
      /\ q.projection = "complete" =>
           p.projection = "complete" /\ \A c \in Records(p) : c \in selected
  BY RenderFields
<1> HIDE DEF q
<1>2. HonestBlocks(h, q)
  BY <1>1, HonestWithheld
<1>3. ASSUME WholeHistory(h, p), Referring(h), q.projection = "complete"
      PROVE  q.contexts = Range(h.contexts) /\ q.commands = h.commands
  <2>1. /\ \A c \in p.contexts : c \in selected
        /\ \A c \in p.commands : c.id \in selected
    BY <1>1, <1>3 DEF Records
  <2>2. p.contexts = Range(h.contexts) /\ p.commands = h.commands
    BY <1>1, <1>3 DEF WholeHistory
  <2>3. \A c \in p.commands : c.ref \in selected
    BY <1>3, <2>1, <2>2 DEF Referring
  <2> QED BY <1>1, <2>1, <2>2, <2>3
<1> QED BY <1>2, <1>3 DEF q, WholeHistory

\* What is shown of an honest request is honest.
LEMMA ShowsHonest ==
  ASSUME NEW h, Shows, HonestBlocks(h, payload), HonestBlocks(h, common)
  PROVE  /\ HonestBlocks(h, shown') /\ HonestBlocks(h, common')
         /\ phase # "text" /\ WholeHistory(h, payload) /\ Referring(h) =>
              WholeHistory(h, shown')
<1>1. CASE phase = "text"
  BY <1>1 DEF Shows
<1>2. CASE phase # "text"
  <2>1. PICK selected : shown' = Render(payload, selected)
    BY <1>2 DEF Shows
  <2>2. HonestBlocks(h, shown') /\ (WholeHistory(h, payload) /\ Referring(h) => WholeHistory(h, shown'))
    BY <2>1, HonestRender
  <2>3. CASE common' = common
    BY <2>2, <2>3
  <2>4. CASE common' = [shown' EXCEPT !.commands = {}]
    <3>1. shown' = [contexts |-> shown'.contexts, commands |-> shown'.commands,
                    projection |-> shown'.projection, blocks |-> shown'.blocks]
      BY <2>1, RenderFields DEF IsPayload
    <3>2. common'.contexts = shown'.contexts /\ common'.blocks = shown'.blocks
      BY <2>4, <3>1
    <3>3. HonestBlocks(h, common')
      BY <2>2, <3>2 DEF HonestBlocks, HonestBlock
    <3> QED BY <2>2, <3>3
  <2> QED BY <1>2, <2>3, <2>4 DEF Shows
<1> QED BY <1>1, <1>2

\* Every step keeps the model's view of the history honest.
LEMMA HonestStep ==
  ASSUME Progress, Chosen, Honest, [FlowNext]_all
  PROVE  Honest'
<1>a. UNCHANGED input =>
        (Accepts(input.history, Files, input.blocks)' <=> Accepts(input.history, Files, input.blocks))
  BY DEF Files
<1>s. ASSUME UNCHANGED <<input, phase, shown, common>>, pc' \notin Asking PROVE Honest'
  BY <1>s DEF Honest, Asking
<1>u. ASSUME UNCHANGED <<pc, phase, input, payload, shown, common>> PROVE Honest'
  BY <1>a, <1>u DEF Honest
<1>e. ASSUME shown' = Empty, common' = Empty, pc' \notin Asking PROVE Honest'
  <2>1. DOMAIN shown'.blocks = {} /\ DOMAIN common'.blocks = {}
    BY <1>e, EmptyPayload
  <2> QED BY <1>e, <2>1 DEF Honest, HonestBlocks, Asking
<1>1. ASSUME Unprepared PROVE Honest'
  <2>1. UNCHANGED <<input, phase, shown, common>> /\ pc' \notin Asking
    BY <1>1 DEF Unprepared, Asking
  <2> QED BY <1>s, <2>1
<1>2. ASSUME AttributionStops PROVE Honest'
  <2>1. UNCHANGED <<input, phase, shown, common>> /\ pc' \notin Asking
    BY <1>2 DEF AttributionStops, Asking
  <2> QED BY <1>s, <2>1
<1>3. ASSUME AttributeHistory PROVE Honest'
  <2>1. UNCHANGED <<shown, common>> /\ pc' \notin Asking /\ shown = Empty /\ common = Empty
    BY <1>3 DEF AttributeHistory, Collecting, Remember, Asking, Progress
  <2> QED BY <1>e, <2>1
<1>4. ASSUME Deliver PROVE Honest'
  <2>1. UNCHANGED <<input, phase, shown, common>> /\ pc' \notin Asking
    BY <1>4 DEF Deliver, Asking
  <2> QED BY <1>s, <2>1
<1>5. ASSUME Regenerate PROVE Honest'
  <2>1. shown' = Empty /\ common' = Empty /\ pc' \notin Asking
    BY <1>5 DEF Regenerate, Asking
  <2> QED BY <1>e, <2>1
<1>6. ASSUME Ended PROVE Honest'
  BY <1>6, <1>u DEF Ended, all, vars
<1>7. ASSUME Begin PROVE Honest'
  <2>1. UNCHANGED <<input, phase, shown, common>> /\ pc' \notin Asking
    BY <1>7 DEF Begin, Asking, Fail
  <2> QED BY <1>s, <2>1
<1>8. ASSUME Prepare PROVE Honest'
  <2>1. UNCHANGED <<input, shown, common>> /\ shown = Empty /\ common = Empty
    BY <1>8 DEF Prepare, Progress
  <2>2. CASE pc' = "return"
    BY <1>e, <2>1, <2>2 DEF Asking
  <2>3. ASSUME pc' = "ask", phase' = "grouping", input.history.given
        PROVE  Honest'
    <3>1. /\ Accepts(input.history, Files, input.blocks)
          /\ payload' = GroupingPayload(input.history, input.blocks)
      BY <1>8, <2>3 DEF Prepare, Fail, Ask
    <3>2. /\ HonestBlocks(input.history, payload') /\ WholeHistory(input.history, payload')
          /\ payload'.projection = "complete"
      BY <3>1, HonestGrouping, GroupingFields
    <3>3. DOMAIN shown'.blocks = {} /\ DOMAIN common'.blocks = {}
      BY <2>1, EmptyPayload
    <3>4. HonestBlocks(input.history, shown') /\ HonestBlocks(input.history, common')
      BY <3>3 DEF HonestBlocks
    <3>5. Accepts(input.history, Files, input.blocks)'
      BY <1>a, <2>1, <3>1
    <3> QED BY <2>1, <3>2, <3>3, <3>4, <3>5 DEF Honest
  <2>4. CASE ~input.history.given
    BY <2>1, <2>4 DEF Honest
  <2> QED BY <1>8, <2>2, <2>3, <2>4 DEF Prepare, Fail, Ask
<1>9. ASSUME Invoke PROVE Honest'
  <2>1. UNCHANGED <<input, shown, common, phase>> /\ pc = "ask" /\ (phase = "grouping") \in BOOLEAN
    BY <1>9 DEF Invoke
  <2>2. CASE pc' = "return"
    BY <1>s, <2>1, <2>2 DEF Asking
  <2>3. ASSUME pc' = "wait", input.history.given,
               payload' = SafePhaseHistory(payload, input.unsafe, phase = "grouping")
        PROVE  Honest'
    <3>1. HonestBlocks(input.history, payload')
      BY <2>1, <2>3, HonestSafe DEF Honest, Asking
    <3>2. phase = "grouping" => WholeHistory(input.history, payload')
      <4>1. ASSUME phase = "grouping", payload'.projection = "complete"
            PROVE  payload'.contexts = payload.contexts /\ payload'.commands = payload.commands
        BY <2>3, <4>1 DEF SafePhaseHistory
      <4> QED BY <2>1, <2>3, <4>1 DEF Honest, Asking, WholeHistory
    <3>3. Accepts(input.history, Files, input.blocks)'
      BY <1>a, <2>1, <2>3 DEF Honest, Asking
    <3> QED BY <2>1, <2>3, <3>1, <3>2, <3>3 DEF Honest, Asking
  <2>4. CASE ~input.history.given
    BY <2>1, <2>4 DEF Honest
  <2> QED BY <1>9, <2>2, <2>3, <2>4 DEF Invoke, Fail
<1>10. ASSUME ChatFails PROVE Honest'
  <2>1. UNCHANGED <<input, phase, shown, common>> /\ pc' \notin Asking
    BY <1>10 DEF ChatFails, Asking, Fail
  <2> QED BY <1>s, <2>1
<1>11. ASSUME RefuseAnswer PROVE Honest'
  <2>1. UNCHANGED <<input, phase, shown, common>> /\ pc' \notin Asking
    BY <1>11 DEF RefuseAnswer, Asking, Fail
  <2> QED BY <1>s, <2>1
<1>12. ASSUME Grouping PROVE Honest'
  <2>1. UNCHANGED input /\ pc = "wait" /\ phase = "grouping" /\ Shows
    BY <1>12 DEF Grouping, Answered
  <2>2. ASSUME input.history.given
        PROVE  /\ HonestBlocks(input.history, shown') /\ HonestBlocks(input.history, common')
               /\ WholeHistory(input.history, shown')
    <3>1. Referring(input.history)
      BY <2>1, <2>2 DEF Honest, Asking, Accepts, Referring
    <3> QED BY <2>1, <2>2, <3>1, ShowsHonest DEF Honest, Asking
  <2>3. CASE pc' = "return"
    BY <2>1, <2>2, <2>3 DEF Honest, Asking
  <2>4. ASSUME pc' = "ask", phase' = "category", input.history.given,
               payload' = MetadataPayload(GroupingPayload(input.history, input.blocks))
        PROVE  Honest'
    <3>1. Accepts(input.history, Files, input.blocks)
      BY <2>1, <2>4 DEF Honest, Asking
    <3>2. HonestBlocks(input.history, payload')
      BY <2>4, <3>1, HonestGrouping, HonestMetadata
    <3>3. Accepts(input.history, Files, input.blocks)'
      BY <1>a, <2>1, <3>1
    <3> QED BY <2>1, <2>2, <2>4, <3>2, <3>3 DEF Honest
  <2>5. CASE ~input.history.given
    BY <2>1, <2>5 DEF Honest
  <2> QED BY <1>12, <2>3, <2>4, <2>5 DEF Grouping, Fail, Ask
<1>13. ASSUME Category PROVE Honest'
  <2>1. UNCHANGED input /\ pc = "wait" /\ phase = "category" /\ Shows
    BY <1>13 DEF Category, Answered
  <2>2. ASSUME input.history.given
        PROVE  HonestBlocks(input.history, shown') /\ HonestBlocks(input.history, common')
    BY <2>1, <2>2, ShowsHonest DEF Honest, Asking
  <2>3. CASE pc' = "return" /\ phase' = phase
    BY <2>1, <2>2, <2>3 DEF Honest, Asking
  <2>4. CASE pc' = "ask" /\ phase' = "text" /\ payload' = payload
    <3>1. input.history.given => Accepts(input.history, Files, input.blocks)'
      BY <1>a, <2>1 DEF Honest, Asking
    <3> QED BY <2>1, <2>2, <2>4, <3>1 DEF Honest, Asking
  <2> QED BY <1>13, <2>3, <2>4 DEF Category, Fail, Ask
<1>14. ASSUME Text PROVE Honest'
  <2>1. UNCHANGED <<input, phase>> /\ pc = "wait" /\ phase = "text" /\ Shows
    BY <1>14 DEF Text, Answered
  <2>2. ASSUME input.history.given
        PROVE  HonestBlocks(input.history, shown') /\ HonestBlocks(input.history, common')
    BY <2>1, <2>2, ShowsHonest DEF Honest, Asking
  <2>3. pc' \notin Asking
    BY <1>14 DEF Text, Fail, Asking
  <2> QED BY <2>1, <2>2, <2>3 DEF Honest, Asking
<1>15. ASSUME Finish PROVE Honest'
  <2>1. UNCHANGED <<input, phase, shown, common>> /\ pc' \notin Asking
    BY <1>15 DEF Finish, Asking, Fail
  <2> QED BY <1>s, <2>1
<1>16. ASSUME Return PROVE Honest'
  <2>1. UNCHANGED <<input, phase, shown, common>> /\ pc' \notin Asking
    BY <1>16 DEF Return, Asking
  <2> QED BY <1>s, <2>1
<1>17. ASSUME Expire PROVE Honest'
  BY <1>17, <1>u DEF Expire
<1>18. CASE UNCHANGED all
  BY <1>18, <1>u DEF all, vars
<1> QED
  BY <1>1, <1>2, <1>3, <1>4, <1>5, <1>6, <1>7, <1>8, <1>9, <1>10, <1>11, <1>12,
     <1>13, <1>14, <1>15, <1>16, <1>17, <1>18 DEF FlowNext

-----------------------------------------------------------------------------
(* The theorems                                                              *)

LEMMA FlowInitInv == FlowInit => FlowInv
<1> SUFFICES ASSUME FlowInit PROVE FlowInv
  OBVIOUS
<1>1. Progress
  BY InputsOK DEF FlowInit, Init, Progress
<1>2. Chosen
  BY DEF FlowInit, Init, Chosen
<1>3. BreakingBacked
  BY DEF FlowInit, Init, BreakingBacked, NoAnswer
<1>4. shown = Empty /\ common = Empty /\ pc \notin Asking
  BY DEF FlowInit, Init, Asking
<1>5. Secrets
  BY <1>4, EmptyPayload DEF Secrets, Clean, Records, Asking
<1>6. Honest
  BY <1>4, EmptyPayload DEF Honest, HonestBlocks, Asking
<1> QED BY <1>1, <1>2, <1>3, <1>5, <1>6 DEF FlowInv

LEMMA FlowInvStep == FlowInv /\ [FlowNext]_all => FlowInv'
BY ProgressStep, ChosenStep, BackedStep, SecretsStep, HonestStep DEF FlowInv

\* The inductive invariant holds throughout.
THEOREM FlowInvariant == FlowSpec => []FlowInv
BY FlowInitInv, FlowInvStep, PTL DEF FlowSpec

\* A plan marks commits as breaking on evidence about their own files, and
\* hides no break the host confirmed.
THEOREM BreaksBacked == FlowSpec => []BreakingBacked
<1>1. FlowInv => BreakingBacked
  BY DEF FlowInv
<1> QED BY FlowInvariant, <1>1, PTL

\* No request, and nothing the model saw, holds a sensitive record or a command
\* of a withheld context.
THEOREM SecretsKept == FlowSpec => []NothingSensitive
<1>1. Secrets => NothingSensitive
  BY DEF Secrets, NothingSensitive, Clean
<1>2. FlowInv => NothingSensitive
  BY <1>1 DEF FlowInv
<1> QED BY FlowInvariant, <1>2, PTL

\* The model never sees a history that looks more certain or more complete than
\* what the host found.
THEOREM HistoryHonest == FlowSpec => []HonestHistory
<1>1. Honest => HonestHistory
  <2> SUFFICES ASSUME Honest, input.history.given, DOMAIN shown.blocks # {}
               PROVE  HonestHistory
    BY DEF HonestHistory
  <2>1. ASSUME NEW b \in DOMAIN shown.blocks
        PROVE  HonestBlock(input.history, shown, b)
    BY DEF Honest, HonestBlocks
  <2>2. phase = "grouping" => WholeHistory(input.history, shown)
    BY DEF Honest
  <2> QED BY <2>1, <2>2 DEF HonestHistory, HonestBlock, WholeHistory, Sure, OfHost
<1>2. FlowInv => HonestHistory
  BY <1>1 DEF FlowInv
<1> QED BY FlowInvariant, <1>2, PTL

\* What the validator accepts is a plan in the sense of the promise: its checks
\* leave open only the order of the commits, and that is the order of the groups.
LEMMA ValidIsPlan ==
  ASSUME FlowInv, pc = "validate", Validate(Commits)
  PROVE  Promise!IsPlan(Commits)
<1>1. Ascending(groups) /\ Worded
  BY DEF FlowInv, Chosen
<1>2. DOMAIN Commits = 1 .. Len(groups) /\ Len(groups) \in Nat
  BY <1>1 DEF Commits, Ascending
<1>3. ASSUME NEW i \in 1 .. Len(groups)
      PROVE  Commits[i].files = groups[i] /\ Commits[i].text = text[i]
  BY DEF Commits
<1>4. UNION {Commits[i].files : i \in DOMAIN Commits} = Files /\ Commits # <<>>
  BY DEF Validate, CompleteAssignment
<1>5. ASSUME NEW i \in DOMAIN Commits
      PROVE  Commits[i].files # {} /\ Commits[i].type \in Types /\ Commits[i].text = "good"
  <2>1. /\ Commits[i].files # {} /\ Commits[i].type \in Types
        /\ Commits[i].text \notin {"blank", "lines", "type_as_scope", "other_language",
                                    "escaped_secret"}
    BY DEF Validate
  <2>2. Commits[i].text \in Qualities \ {"long"}
    BY <1>1, <1>2, <1>3 DEF Worded
  <2> QED BY <2>1, <2>2 DEF Qualities
<1>6. ASSUME NEW i \in DOMAIN Commits, NEW j \in DOMAIN Commits, i < j
      PROVE  /\ Commits[i].files \cap Commits[j].files = {}
             /\ Promise!First(Commits[i].files) < Promise!First(Commits[j].files)
  <2>1. i # j
    BY <1>2, <1>6
  <2>2. Commits[i].files \cap Commits[j].files = {}
    BY <2>1 DEF Validate, CompleteAssignment
  <2>3. Promise!First(groups[i]) < Promise!First(groups[j])
    BY <1>1, <1>2, <1>6 DEF Ascending
  <2> QED BY <1>2, <1>3, <2>2, <2>3
<1> HIDE DEF Commits
<1> QED BY <1>4, <1>5, <1>6 DEF Promise!IsPlan

\* Every step is a step of the promise, or none.
LEMMA PromiseStep ==
  ASSUME FlowInv, [FlowNext]_all
  PROVE  [Promise!Next]_<<Files, answer>>
<1> DEFINE Goal == [Promise!Next]_<<Files, answer>>
<1> SUFFICES Goal
  OBVIOUS
<1>f. UNCHANGED input => Files' = Files
  BY DEF Files
<1>p. Progress
  BY DEF FlowInv
<1>r. ASSUME UNCHANGED input, UNCHANGED answer \/ (answer = NoAnswer /\ answer' = Refusal)
      PROVE  Goal
  <2>1. CASE UNCHANGED answer
    BY <1>f, <1>r, <2>1
  <2>2. CASE answer = NoAnswer /\ answer' = Refusal
    <3>1. Promise!Give
      BY <1>f, <1>r, <2>2 DEF Promise!Give, Promise!NoAnswer, NoAnswer, Promise!Refusal, Refusal
    <3> QED BY <3>1 DEF Promise!Next
  <2> QED BY <1>r, <2>1, <2>2
<1> HIDE DEF Goal
<1>1. ASSUME Unprepared PROVE Goal
  <2>1. UNCHANGED <<input, answer>>
    BY <1>1 DEF Unprepared
  <2> QED BY <1>r, <2>1
<1>2. ASSUME AttributionStops PROVE Goal
  <2>1. UNCHANGED <<input, answer>>
    BY <1>2 DEF AttributionStops
  <2> QED BY <1>r, <2>1
<1>3. ASSUME AttributeHistory PROVE Goal
  <2>1. UNCHANGED answer
    BY <1>3 DEF AttributeHistory
  <2>2. input'.doc = input.doc
    BY <1>3, <1>p, BindKeeps DEF AttributeHistory, Remember, Progress
  <2> QED BY <2>1, <2>2 DEF Files, Goal
<1>4. ASSUME Deliver PROVE Goal
  <2>1. UNCHANGED <<input, answer>>
    BY <1>4 DEF Deliver
  <2> QED BY <1>r, <2>1
<1>5. ASSUME Regenerate PROVE Goal
  <2>1. answer.kind = "plan" /\ answer' = NoAnswer
    BY <1>5 DEF Regenerate
  <2>2. Promise!AskAgain
    BY <2>1 DEF Promise!AskAgain, Promise!NoAnswer, NoAnswer
  <2> QED BY <2>2 DEF Promise!Next, Goal
<1>6. ASSUME Ended PROVE Goal
  <2>1. UNCHANGED <<input, answer>>
    BY <1>6 DEF Ended, all, vars
  <2> QED BY <1>r, <2>1
<1>7. ASSUME Begin PROVE Goal
  <2>1. UNCHANGED input /\ (UNCHANGED answer \/ (answer = NoAnswer /\ answer' = Refusal))
    BY <1>7, <1>p DEF Progress, Begin, Fail
  <2> QED BY <1>r, <2>1
<1>8. ASSUME Prepare PROVE Goal
  <2>1. UNCHANGED input /\ (UNCHANGED answer \/ (answer = NoAnswer /\ answer' = Refusal))
    BY <1>8, <1>p DEF Progress, Prepare, Fail, Ask
  <2> QED BY <1>r, <2>1
<1>9. ASSUME Invoke PROVE Goal
  <2>1. UNCHANGED input /\ (UNCHANGED answer \/ (answer = NoAnswer /\ answer' = Refusal))
    BY <1>9, <1>p DEF Progress, Invoke, Fail
  <2> QED BY <1>r, <2>1
<1>10. ASSUME ChatFails PROVE Goal
  <2>1. UNCHANGED input /\ (UNCHANGED answer \/ (answer = NoAnswer /\ answer' = Refusal))
    BY <1>10, <1>p DEF Progress, ChatFails, Fail
  <2> QED BY <1>r, <2>1
<1>11. ASSUME RefuseAnswer PROVE Goal
  <2>1. UNCHANGED input /\ (UNCHANGED answer \/ (answer = NoAnswer /\ answer' = Refusal))
    BY <1>11, <1>p DEF Progress, RefuseAnswer, Fail
  <2> QED BY <1>r, <2>1
<1>12. ASSUME Grouping PROVE Goal
  <2>1. UNCHANGED input /\ (UNCHANGED answer \/ (answer = NoAnswer /\ answer' = Refusal))
    BY <1>12, <1>p DEF Progress, Grouping, Fail, Ask, Answered
  <2> QED BY <1>r, <2>1
<1>13. ASSUME Category PROVE Goal
  <2>1. UNCHANGED input /\ (UNCHANGED answer \/ (answer = NoAnswer /\ answer' = Refusal))
    BY <1>13, <1>p DEF Progress, Category, Fail, Ask, Answered
  <2> QED BY <1>r, <2>1
<1>14. ASSUME Text PROVE Goal
  <2>1. UNCHANGED input /\ (UNCHANGED answer \/ (answer = NoAnswer /\ answer' = Refusal))
    BY <1>14, <1>p DEF Progress, Text, Fail, Answered
  <2> QED BY <1>r, <2>1
<1>15. ASSUME Finish PROVE Goal
  <2>1. UNCHANGED input /\ pc = "validate"
    BY <1>15 DEF Finish
  <2>2. CASE answer' = Refusal
    BY <1>p, <1>r, <2>1, <2>2 DEF Progress
  <2>3. CASE Validate(Commits) /\ answer' = [kind |-> "plan", commits |-> Commits]
    <3>1. /\ answer'.kind = "plan" /\ answer'.commits = Commits /\ answer = NoAnswer
      BY <1>p, <2>1, <2>3 DEF Progress
    <3>2. Promise!IsPlan(Commits)
      BY <2>1, <2>3, ValidIsPlan
    <3>3. Promise!Give
      BY <1>f, <2>1, <3>1, <3>2 DEF Promise!Give, Promise!NoAnswer, NoAnswer
    <3> QED BY <3>3 DEF Promise!Next, Goal
  <2> QED BY <1>15, <2>2, <2>3 DEF Finish, Fail
<1>16. ASSUME Return PROVE Goal
  <2>1. UNCHANGED <<input, answer>>
    BY <1>16 DEF Return
  <2> QED BY <1>r, <2>1
<1>17. ASSUME Expire PROVE Goal
  <2>1. UNCHANGED <<input, answer>>
    BY <1>17 DEF Expire
  <2> QED BY <1>r, <2>1
<1>18. CASE UNCHANGED all
  <2>1. UNCHANGED <<input, answer>>
    BY <1>18 DEF all, vars
  <2> QED BY <1>r, <2>1
<1> QED
  BY <1>1, <1>2, <1>3, <1>4, <1>5, <1>6, <1>7, <1>8, <1>9, <1>10, <1>11, <1>12,
     <1>13, <1>14, <1>15, <1>16, <1>17, <1>18 DEF FlowNext

\* The three requests implement the planner's promise: nothing, or one plan that
\* gives every selected file to one commit, for any answers and any interruption.
THEOREM Refinement == FlowSpec => PlanOrNothing
<1>1. FlowInit => Promise!Init
  BY DEF FlowInit, Init, Promise!Init, NoAnswer, Promise!NoAnswer
<1>2. FlowInv /\ [FlowNext]_all => [Promise!Next]_<<Files, answer>>
  BY PromiseStep
<1> QED BY FlowInvariant, <1>1, <1>2, PTL DEF FlowSpec, PlanOrNothing, Promise!Spec

-----------------------------------------------------------------------------
(* The blocks that the two parsers find are sequences                      *)

\* A sequence of something.
IsSeq(s) == \E S : s \in Seq(S)

\* The places of a sequence are the numbers up to its length.
LEMMA SeqDomain ==
  ASSUME NEW s, IsSeq(s)
  PROVE  Len(s) \in Nat /\ DOMAIN s = 1 .. Len(s) /\ IsFiniteSet(DOMAIN s)
<1>1. Len(s) \in Nat /\ DOMAIN s = 1 .. Len(s)
  BY DEF IsSeq
<1>2. QED
  BY <1>1, FS_Interval

\* A sequence of its own members is a sequence.
LEMMA RangeSeq ==
  ASSUME NEW s, s \in Seq(Range(s))
  PROVE  IsSeq(s)
BY DEF IsSeq

\* One more member makes a sequence of a sequence.
LEMMA AppendSeq ==
  ASSUME NEW s, IsSeq(s), NEW e
  PROVE  IsSeq(Append(s, e))
<1>1. PICK S : s \in Seq(S)
  BY DEF IsSeq
<1>2. s \in Seq(S \cup {e})
  BY <1>1
<1>3. Append(s, e) \in Seq(S \cup {e})
  BY <1>2
<1>4. QED
  BY <1>3 DEF IsSeq

\* No member and one member make a sequence.
LEMMA SingleSeq ==
  ASSUME NEW e
  PROVE  IsSeq(<<e>>) /\ IsSeq(<<>>)
<1>1. <<e>> \in Seq({e}) /\ <<>> \in Seq({e})
  OBVIOUS
<1>2. QED
  BY <1>1 DEF IsSeq

\* A set of numbers with some member has a least one.
LEMMA Smallest ==
  ASSUME NEW S, S \subseteq Nat, S # {}
  PROVE  \E n \in S : \A m \in S : n <= m
<1>1. \E n \in S : \A m \in S : ~(<<m, n>> \in OpToRel(<, Nat))
  BY NatLessThanWellFounded, WFMin
<1>2. PICK n \in S : \A m \in S : ~(m < n)
  BY <1>1 DEF OpToRel
<1>3. QED
  BY <1>2

\* A state of a parser, as far as its blocks go.
HasBlocks(s) == "blocks" \in DOMAIN s /\ IsSeq(s.blocks)

\* Where the parser of the attribution starts, and where it is after each of the
\* first lines.
BlockStart == [ok |-> TRUE, blocks |-> <<>>, active |-> <<>>, old |-> 0, new |-> 0,
               hunk |-> FALSE, last |-> ""]
IsBlockRun(f, diff, k) ==
  f = [n \in 0 .. k |-> IF n = 0 THEN BlockStart ELSE BlockStep(f[n - 1], diff[n])]

\* The steps of the parser of the attribution make a run over every number of
\* lines: what BlockRun names exists, by induction on the number.
LEMMA BlockRunExists ==
  ASSUME NEW diff, NEW k \in Nat
  PROVE  \E f : IsBlockRun(f, diff, k)
<1> DEFINE Bad == {j \in Nat : ~ \E f : IsBlockRun(f, diff, j)}
<1> SUFFICES ASSUME Bad # {} PROVE FALSE
  OBVIOUS
<1>1. PICK j \in Bad : \A m \in Bad : j <= m
  BY Smallest
<1>2. j # 0
  <2> SUFFICES ASSUME j = 0 PROVE FALSE
    OBVIOUS
  <2> DEFINE f == [n \in 0 .. 0 |-> BlockStart]
  <2>1. IsBlockRun(f, diff, 0)
    BY DEF IsBlockRun
  <2>2. QED
    BY <2>1
<1>3. PICK f : IsBlockRun(f, diff, j - 1)
  BY <1>1, <1>2
<1> DEFINE g == [n \in 0 .. j |-> IF n = j THEN BlockStep(f[j - 1], diff[j]) ELSE f[n]]
<1>4. IsBlockRun(g, diff, j)
  <2>1. ASSUME NEW n \in 0 .. j
        PROVE  g[n] = IF n = 0 THEN BlockStart ELSE BlockStep(g[n - 1], diff[n])
    <3>1. CASE n = 0
      BY <3>1, <1>2, <1>3 DEF IsBlockRun
    <3>2. CASE n # 0 /\ n # j
      <4>1. n \in 0 .. (j - 1) /\ n - 1 \in 0 .. (j - 1)
        BY <3>2
      <4>2. f[n] = BlockStep(f[n - 1], diff[n])
        BY <3>2, <4>1, <1>3 DEF IsBlockRun
      <4>3. g[n] = f[n] /\ g[n - 1] = f[n - 1]
        BY <3>2, <4>1
      <4>4. QED
        BY <3>2, <4>2, <4>3
    <3>3. CASE n = j
      <4>1. j - 1 \in 0 .. j /\ j - 1 # j
        BY <1>2
      <4>2. g[j - 1] = f[j - 1] /\ g[j] = BlockStep(f[j - 1], diff[j])
        BY <4>1
      <4>3. QED
        BY <3>3, <4>2, <1>2
    <3>4. QED
      BY <3>1, <3>2, <3>3
  <2>2. QED
    BY <2>1 DEF IsBlockRun
<1>5. QED
  BY <1>4

\* Ending a block keeps the blocks a sequence.
LEMMA FlushBlocks ==
  ASSUME NEW s, HasBlocks(s)
  PROVE  HasBlocks(Flush(s))
<1>1. CASE s.active = <<>>
  BY <1>1 DEF Flush
<1>2. CASE s.active # <<>>
  <2>1. IsSeq(Append(s.blocks, s.active))
    BY AppendSeq DEF HasBlocks
  <2>2. Flush(s).blocks = Append(s.blocks, s.active) /\ DOMAIN Flush(s) = DOMAIN s
    BY <1>2 DEF Flush, HasBlocks
  <2>3. QED
    BY <2>1, <2>2 DEF HasBlocks
<1>3. QED
  BY <1>1, <1>2

\* Counting a line leaves the blocks alone.
LEMMA TakeBlocks ==
  ASSUME NEW s, NEW l, HasBlocks(s)
  PROVE  HasBlocks(Take(s, l)) /\ HasBlocks(Fails(s))
BY DEF Take, Fails, HasBlocks

\* No line makes the blocks of the parser anything but a sequence.
LEMMA BlockStepBlocks ==
  ASSUME NEW s, NEW l, HasBlocks(s)
  PROVE  HasBlocks(BlockStep(s, l))
<1> DEFINE r == IF s.hunk /\ l.k = "git" THEN [Flush(s) EXCEPT !.hunk = FALSE] ELSE s
<1>1. HasBlocks(r)
  BY FlushBlocks DEF HasBlocks
<1>2. HasBlocks(Flush(r)) /\ HasBlocks(Fails(r)) /\ HasBlocks(Take(Flush(r), l)) /\ HasBlocks(Fails(s))
  BY <1>1, FlushBlocks, TakeBlocks
<1> DEFINE a == [r EXCEPT !.active = Append(@, l)]
           e == [r EXCEPT !.active = Append(@, [k |-> "eof", t |-> r.last])]
           h == [Flush(r) EXCEPT !.hunk = TRUE, !.old = l.old, !.new = l.new, !.last = ""]
<1>3. HasBlocks(a) /\ HasBlocks(e) /\ HasBlocks(h)
  BY <1>1, <1>2 DEF HasBlocks
<1>4. HasBlocks(Take(a, l))
  BY <1>3, TakeBlocks
<1>5. BlockStep(s, l) \in {s, Fails(s), h, r, Fails(r), e, Take(Flush(r), l), Take(a, l)}
  BY DEF BlockStep
<1>6. QED
  BY <1>1, <1>2, <1>3, <1>4, <1>5

\* The blocks are a sequence after all lines of any diff, by induction.
LEMMA BlockRunBlocks ==
  ASSUME NEW diff, Len(diff) \in Nat
  PROVE  HasBlocks(BlockRun(diff))
<1> DEFINE N == Len(diff)
           run == CHOOSE f : IsBlockRun(f, diff, N)
<1>1. IsBlockRun(run, diff, N)
  BY BlockRunExists
<1>2. BlockRun(diff) = run[N]
  BY DEF BlockRun, IsBlockRun, BlockStart
<1> HIDE DEF run
<1> DEFINE Bad == {n \in 0 .. N : ~HasBlocks(run[n])}
<1>3. ASSUME Bad # {} PROVE FALSE
  <2>0. Bad \subseteq Nat
    OBVIOUS
  <2>1. PICK n \in Bad : \A m \in Bad : n <= m
    <3> HIDE DEF Bad
    <3>1. QED
      BY <1>3, <2>0, Smallest
  <2>2. HasBlocks(BlockStart)
    BY SingleSeq DEF HasBlocks, BlockStart
  <2>3. run[0] = BlockStart
    BY <1>1 DEF IsBlockRun
  <2>4. n # 0
    BY <2>2, <2>3
  <2>5. n - 1 \in 0 .. N /\ HasBlocks(run[n - 1])
    BY <2>1, <2>4
  <2>6. run[n] = BlockStep(run[n - 1], diff[n])
    BY <1>1, <2>4 DEF IsBlockRun
  <2>7. HasBlocks(run[n])
    BY <2>5, <2>6, BlockStepBlocks
  <2>8. QED
    BY <2>7
<1>4. N \in 0 .. N
  OBVIOUS
<1>5. HasBlocks(run[N])
  BY <1>3, <1>4
<1>6. QED
  BY <1>2, <1>5

\* So are the blocks of an updated file,
LEMMA UpdateBlocksSeq ==
  ASSUME NEW diff, Len(diff) \in Nat
  PROVE  IsSeq(UpdateBlocks(diff).blocks)
<1>1. HasBlocks(Flush(BlockRun(diff)))
  BY BlockRunBlocks, FlushBlocks
<1>2. QED
  BY <1>1, SingleSeq DEF UpdateBlocks, HasBlocks, NoBlocks, Found

\* and those of any change of a path.
LEMMA ComparisonBlocksSeq ==
  ASSUME NEW kind, NEW diff, NEW old, Len(diff) \in Nat
  PROVE  IsSeq(ComparisonBlocks(kind, diff, old).blocks)
<1>1. IsSeq(NoBlocks.blocks) /\ IsSeq(Found(<<<<>>>>).blocks)
  BY SingleSeq DEF NoBlocks, Found
<1>2. \A sign : IsSeq(ContentBlocks(sign, diff).blocks)
  BY SingleSeq DEF ContentBlocks, Found
<1>3. \A k : IsSeq(ParseBlocks(k, diff).blocks)
  BY <1>1, <1>2, UpdateBlocksSeq DEF ParseBlocks
<1>4. QED
  BY <1>1, <1>3 DEF ComparisonBlocks


\* The same of the parser of the planner.
GroupingStart == [ok |-> TRUE, blocks |-> <<>>, start |-> 0, end |-> 0, old |-> 0, new |-> 0,
                  hunk |-> FALSE, last |-> "", saw |-> FALSE, meta |-> FALSE]

IsGroupingRun(f, diff, k) ==
  f = [n \in 0 .. k |-> IF n = 0 THEN GroupingStart ELSE GroupingStep(f[n - 1], diff[n], n)]

\* The same of the parser of the planner: its steps make a run,
LEMMA GroupingRunExists ==
  ASSUME NEW diff, NEW k \in Nat
  PROVE  \E f : IsGroupingRun(f, diff, k)
<1> DEFINE Bad == {j \in Nat : ~ \E f : IsGroupingRun(f, diff, j)}
<1> SUFFICES ASSUME Bad # {} PROVE FALSE
  OBVIOUS
<1>1. PICK j \in Bad : \A m \in Bad : j <= m
  BY Smallest
<1>2. j # 0
  <2> SUFFICES ASSUME j = 0 PROVE FALSE
    OBVIOUS
  <2> DEFINE f == [n \in 0 .. 0 |-> GroupingStart]
  <2>1. IsGroupingRun(f, diff, 0)
    BY DEF IsGroupingRun
  <2>2. QED
    BY <2>1
<1>3. PICK f : IsGroupingRun(f, diff, j - 1)
  BY <1>1, <1>2
<1> DEFINE g == [n \in 0 .. j |-> IF n = j THEN GroupingStep(f[j - 1], diff[j], j) ELSE f[n]]
<1>4. IsGroupingRun(g, diff, j)
  <2>1. ASSUME NEW n \in 0 .. j
        PROVE  g[n] = IF n = 0 THEN GroupingStart ELSE GroupingStep(g[n - 1], diff[n], n)
    <3>1. CASE n = 0
      BY <3>1, <1>2, <1>3 DEF IsGroupingRun
    <3>2. CASE n # 0 /\ n # j
      <4>1. n \in 0 .. (j - 1) /\ n - 1 \in 0 .. (j - 1)
        BY <3>2
      <4>2. f[n] = GroupingStep(f[n - 1], diff[n], n)
        BY <3>2, <4>1, <1>3 DEF IsGroupingRun
      <4>3. g[n] = f[n] /\ g[n - 1] = f[n - 1]
        BY <3>2, <4>1
      <4>4. QED
        BY <3>2, <4>2, <4>3
    <3>3. CASE n = j
      <4>1. j - 1 \in 0 .. j /\ j - 1 # j
        BY <1>2
      <4>2. g[j - 1] = f[j - 1] /\ g[j] = GroupingStep(f[j - 1], diff[j], j)
        BY <4>1
      <4>3. QED
        BY <3>3, <4>2, <1>2
    <3>4. QED
      BY <3>1, <3>2, <3>3
  <2>2. QED
    BY <2>1 DEF IsGroupingRun
<1>5. QED
  BY <1>4

\* ending a block keeps the blocks a sequence,
LEMMA CloseBlocks ==
  ASSUME NEW s, HasBlocks(s)
  PROVE  HasBlocks(Close(s))
<1>1. CASE s.start = 0
  BY <1>1 DEF Close
<1>2. CASE s.start # 0
  <2>1. IsSeq(Append(s.blocks, <<s.start, s.end>>))
    BY AppendSeq DEF HasBlocks
  <2>2. Close(s).blocks = Append(s.blocks, <<s.start, s.end>>) /\ DOMAIN Close(s) = DOMAIN s
    BY <1>2 DEF Close, HasBlocks
  <2>3. QED
    BY <2>1, <2>2 DEF HasBlocks
<1>3. QED
  BY <1>1, <1>2

\* every line does,
LEMMA GroupingStepBlocks ==
  ASSUME NEW s, NEW l, NEW n, HasBlocks(s)
  PROVE  HasBlocks(GroupingStep(s, l, n))
<1> DEFINE r == IF s.hunk /\ l.k = "git" THEN [Close(s) EXCEPT !.hunk = FALSE] ELSE s
<1>1. HasBlocks(r)
  BY CloseBlocks DEF HasBlocks
<1>2. HasBlocks(Close(r)) /\ HasBlocks(Fails(r)) /\ HasBlocks(Take(Close(r), l)) /\ HasBlocks(Fails(s))
  BY <1>1, CloseBlocks, TakeBlocks
<1> DEFINE c == [r EXCEPT !.start = IF @ = 0 THEN n ELSE @, !.end = n]
           e == [r EXCEPT !.end = IF r.start > 0 /\ r.last # " " THEN n ELSE @, !.last = "eof"]
           h == [Close(r) EXCEPT !.hunk = TRUE, !.saw = TRUE, !.old = l.old,
                                 !.new = l.new, !.last = ""]
           m == [r EXCEPT !.meta = @ \/ l.k \in Metadata]
<1>3. HasBlocks(c) /\ HasBlocks(e) /\ HasBlocks(h) /\ HasBlocks(m)
  BY <1>1, <1>2 DEF HasBlocks
<1>4. HasBlocks(Take(c, l))
  BY <1>3, TakeBlocks
<1>5. GroupingStep(s, l, n) \in {s, Fails(s), h, m, Fails(r), e, Take(Close(r), l), Take(c, l)}
  BY DEF GroupingStep
<1>6. QED
  BY <1>1, <1>2, <1>3, <1>4, <1>5

\* and so does every diff.
LEMMA GroupingRunBlocks ==
  ASSUME NEW diff, Len(diff) \in Nat
  PROVE  HasBlocks(GroupingRun(diff))
<1> DEFINE N == Len(diff)
           run == CHOOSE f : IsGroupingRun(f, diff, N)
<1>1. IsGroupingRun(run, diff, N)
  BY GroupingRunExists
<1>2. GroupingRun(diff) = run[N]
  BY DEF GroupingRun, IsGroupingRun, GroupingStart
<1> HIDE DEF run
<1> DEFINE Bad == {n \in 0 .. N : ~HasBlocks(run[n])}
<1>3. ASSUME Bad # {} PROVE FALSE
  <2>0. Bad \subseteq Nat
    OBVIOUS
  <2>1. PICK n \in Bad : \A m \in Bad : n <= m
    <3> HIDE DEF Bad
    <3>1. QED
      BY <1>3, <2>0, Smallest
  <2>2. HasBlocks(GroupingStart)
    BY SingleSeq DEF HasBlocks, GroupingStart
  <2>3. run[0] = GroupingStart
    BY <1>1 DEF IsGroupingRun
  <2>4. n # 0
    BY <2>2, <2>3
  <2>5. n - 1 \in 0 .. N /\ HasBlocks(run[n - 1])
    BY <2>1, <2>4
  <2>6. run[n] = GroupingStep(run[n - 1], diff[n], n)
    BY <1>1, <2>4 DEF IsGroupingRun
  <2>7. HasBlocks(run[n])
    BY <2>5, <2>6, GroupingStepBlocks
  <2>8. QED
    BY <2>7
<1>4. N \in 0 .. N
  OBVIOUS
<1>5. HasBlocks(run[N])
  BY <1>3, <1>4
<1>6. QED
  BY <1>2, <1>5

\* The blocks the planner shows of a file are a sequence.
LEMMA ProjectedBlocksSeq ==
  ASSUME NEW file, Len(file.diff) \in Nat
  PROVE  IsSeq(ProjectedBlocks(file).blocks)
<1>1. HasBlocks(Close(GroupingRun(file.diff)))
  BY GroupingRunBlocks, CloseBlocks
<1>2. IsSeq(GroupingBlocks(file.diff).blocks)
  BY <1>1, SingleSeq DEF GroupingBlocks, HasBlocks, NoBlocks, Found
<1>3. IsSeq(Found(<<>>).blocks) /\ IsSeq(Found(<<<<1, Len(file.diff)>>>>).blocks)
  BY SingleSeq DEF Found
<1>4. QED
  BY <1>2, <1>3 DEF ProjectedBlocks, OrHeaders

-----------------------------------------------------------------------------
(* The comparison of one block with the operations                         *)

\* The only operation on a file that has to do with the block holds it once.
Only(op, b, f, ops) ==
  /\ op \in ops /\ Relevant(op, f) /\ Cardinality(Positions(op, b)) = 1
  /\ \A o \in ops : Relevant(o, f) =>
       OpBlocks(o).ok /\ (Positions(o, b) # {} \/ Touches(o, b) => o = op)

\* A verdict is a status, and a match has no reason and one candidate.
LEMMA VerdictMatch ==
  ASSUME NEW reasons, NEW unparsed \in BOOLEAN, NEW cands, NEW exact
  PROVE  /\ Verdict(reasons, unparsed, cands, exact) \in MatchStatuses
         /\ Verdict(reasons, unparsed, cands, exact) = "matched" =>
              reasons = {} /\ Cardinality(cands) = 1 /\ Cardinality(exact) = 1
BY DEF Verdict, MatchStatuses

\* A block that the comparison matches, in a finite history, is held by one
\* operation of all those about its file, once, and touched by no other; there
\* is no reason against it and the history is complete.
LEMMA CompareMatch ==
  ASSUME NEW b, NEW f, NEW blocks, NEW ops, NEW status, IsFiniteSet(ops),
         \A op \in ops : IsSeq(OpBlocks(op).blocks),
         Compare(b, f, blocks, ops, status).status = "matched"
  PROVE  /\ Compare(b, f, blocks, ops, status).reasons = {}
         /\ status = "complete"
         /\ \E op \in ops : /\ Only(op, b, f, ops)
                            /\ Compare(b, f, blocks, ops, status).cands = {[op |-> op, exact |-> TRUE]}
<1> DEFINE rename  == f.kind = "rename"
           about   == {op \in ops : Relevant(op, f)}
           unknown == {op \in about : ~OpBlocks(op).ok}
           same    == {op \in about \ unknown : Comparable(op, f)}
           exact   == {op \in same : Positions(op, b) # {}}
           partial == {op \in same : Touches(op, b)}
           cands   == exact \cup partial
           moved   == {MoveReason(op, f, ops) : op \in (about \ unknown) \ same}
           r       == Compare(b, f, blocks, ops, status)
           none    == When(unknown # {}, {IF rename THEN "rename_unresolved" ELSE "history_parse_failed"})
           part    == When(partial \ exact # {}, {"partial_match"})
           twice   == When(\E op \in exact : Cardinality(Positions(op, b)) > 1, {"overlapping_candidates"})
           lacks   == When(status # "complete", {"history_incomplete"})
           found   == none \cup moved \cup part \cup twice
                      \cup When(exact = {} /\ Rewritten(b, f, ops), {"history_superseded_or_rewritten"})
                      \cup When(Cardinality(exact) > 1,
                                {IF rename THEN "rename_multiple_candidates" ELSE "multiple_history_candidates"})
                      \cup When(Cardinality({i \in DOMAIN blocks : blocks[i] = b}) > 1,
                                {"overlapping_candidates"})
           reasons == found \cup When(rename /\ exact = {} /\ found = {}, {"rename_unresolved"}) \cup lacks
<1>1. /\ r.reasons = reasons
      /\ r.status = Verdict(reasons, unknown # {} /\ ~rename, cands, exact)
  BY DEF Compare
<1>2. r.cands = {[op |-> op, exact |-> op \in exact] : op \in cands}
  BY DEF Compare
<1>3. reasons = {} /\ Cardinality(cands) = 1 /\ Cardinality(exact) = 1
  <2>1. (unknown # {} /\ ~rename) \in BOOLEAN
    OBVIOUS
  <2> HIDE DEF unknown, rename, cands, exact, r, reasons
  <2>2. Verdict(reasons, unknown # {} /\ ~rename, cands, exact) = "matched"
    BY <1>1 DEF r
  <2>3. QED
    BY <2>1, <2>2, VerdictMatch
<1>4. unknown = {}
  BY <1>1, <1>3 DEF When
<1>5. same = about
  <2>1. moved = {}
    BY <1>1, <1>3
  <2>2. (about \ unknown) \ same = {}
    BY <2>1
  <2>3. QED
    BY <2>2, <1>4
<1>6. partial \subseteq exact
  BY <1>1, <1>3 DEF When
<1>7. status = "complete"
  BY <1>1, <1>3 DEF When
<1>8. \A op \in exact : ~(Cardinality(Positions(op, b)) > 1)
  BY <1>1, <1>3 DEF When
<1>9. PICK op : exact = {op}
  <2>1. IsFiniteSet(exact)
    BY FS_Subset
  <2>2. QED
    BY <2>1, <1>3, FS_Singleton
<1>10. op \in ops /\ Relevant(op, f) /\ Positions(op, b) # {}
  BY <1>9
<1>11. Cardinality(Positions(op, b)) = 1
  <2>1. IsFiniteSet(DOMAIN OpBlocks(op).blocks)
    BY <1>10, SeqDomain
  <2>2. Positions(op, b) \in SUBSET DOMAIN OpBlocks(op).blocks
    BY DEF Positions
  <2>3. IsFiniteSet(Positions(op, b)) /\ Cardinality(Positions(op, b)) \in Nat
    BY <2>1, <2>2, FS_Subset, FS_CardinalityType
  <2>4. Cardinality(Positions(op, b)) # 0
    BY <2>3, <1>10, FS_EmptySet
  <2>5. QED
    BY <1>8, <1>9, <2>3, <2>4
<1>12. Only(op, b, f, ops)
  <2>1. ASSUME NEW o \in ops, Relevant(o, f)
        PROVE  OpBlocks(o).ok /\ (Positions(o, b) # {} \/ Touches(o, b) => o = op)
    <3>1. o \in about /\ o \in same /\ o \notin unknown
      BY <2>1, <1>4, <1>5
    <3>2. Positions(o, b) # {} \/ Touches(o, b) => o \in exact
      BY <3>1, <1>6
    <3>3. QED
      BY <3>1, <3>2, <1>9
  <2>2. QED
    BY <2>1, <1>10, <1>11 DEF Only
<1>13. r.cands = {[op |-> op, exact |-> TRUE]}
  <2>1. cands = {op}
    BY <1>6, <1>9
  <2>2. op \in exact
    BY <1>9
  <2>3. QED
    BY <1>2, <2>1, <2>2
<1>14. QED
  BY <1>1, <1>3, <1>7, <1>10, <1>12, <1>13

\* The comparison gives every block a status.
LEMMA CompareStatus ==
  ASSUME NEW b, NEW f, NEW blocks, NEW ops, NEW status
  PROVE  Compare(b, f, blocks, ops, status).status \in MatchStatuses
<1> DEFINE rename  == f.kind = "rename"
           about   == {op \in ops : Relevant(op, f)}
           unknown == {op \in about : ~OpBlocks(op).ok}
           same    == {op \in about \ unknown : Comparable(op, f)}
           exact   == {op \in same : Positions(op, b) # {}}
           cands   == exact \cup {op \in same : Touches(op, b)}
           r       == Compare(b, f, blocks, ops, status)
<1>1. r.status = Verdict(r.reasons, unknown # {} /\ ~rename, cands, exact)
  BY DEF Compare
<1>2. (unknown # {} /\ ~rename) \in BOOLEAN
  OBVIOUS
<1> HIDE DEF unknown, rename, cands, exact, r
<1>3. QED
  BY <1>1, <1>2, VerdictMatch DEF r

\* A block that is marked as split or merged is not matched any more.
LEMMA MarkMatch ==
  ASSUME NEW r, NEW ops
  PROVE  /\ Mark(r, ops).status = "matched" => Mark(r, ops) = r
         /\ r.status \in MatchStatuses => Mark(r, ops).status \in MatchStatuses
BY DEF Mark, MatchStatuses

TurnIds(h) == {t.id : t \in h.turns}

\* A block of the history that the planner takes.
Taken(a, h) ==
  /\ a.status \in MatchStatuses /\ DOMAIN a.cands \subseteq TurnIds(h)
  /\ Range(a.cands) \subseteq MatchKinds /\ a.omitted # {"input_budget_exceeded"}

\* The turn of a known id is a turn of the history with that id.
LEMMA TurnKnown ==
  ASSUME NEW id, NEW h
  PROVE  HasTurn(id, h) => Turn(id, h) \in h.turns /\ Turn(id, h).id = id /\ id \in TurnIds(h)
<1> SUFFICES ASSUME HasTurn(id, h)
             PROVE  Turn(id, h) \in h.turns /\ Turn(id, h).id = id /\ id \in TurnIds(h)
  OBVIOUS
<1>1. \E t \in h.turns : t.id = id
  BY DEF HasTurn
<1>2. Turn(id, h) \in h.turns /\ Turn(id, h).id = id
  BY <1>1 DEF Turn
<1>3. QED
  BY <1>2 DEF TurnIds

\* The contexts of a block are turns of the history, with kinds of matches.
LEMMA ContextualTaken ==
  ASSUME NEW b, NEW r, NEW f, NEW h, r.status \in MatchStatuses
  PROVE  Taken(Contextual(b, r, f, h), h)
<1> DEFINE empty    == f.kind = "rename" /\ b = <<>>
           turns    == {c.op.turn : c \in r.cands}
           known    == {t \in turns : HasTurn(t, h)}
           ended    == {t \in known : Turn(t, h).status \in {"completed", "interrupted", "failed"}}
           active   == {t \in known : Turn(t, h).status = "inProgress"}
           broken   == h.error = "history_parse_failed" \/ known # turns \/ ended \cup active # known
           spoken   == {t \in known : Speaks(t, h)}
           kinds(t) == {MatchOf(c, b, empty) : c \in {c \in r.cands : c.op.turn = t}}
           cands    == [t \in spoken |-> IF Cardinality(kinds(t)) = 1 THEN CHOOSE k \in kinds(t) : TRUE
                                         ELSE "exact_and_partial"]
           omitted  == When(spoken # known, {"candidate_context_omitted"})
           status   == CASE broken \/ r.status = "error" -> "error"
                         [] ~broken /\ r.status # "error"
                            /\ (active # {} \/ (empty /\ r.cands # {})) -> "ambiguous"
                         [] OTHER -> r.status
           shaken   == status = "matched" /\ ~(Cardinality(spoken) = 1 /\ Range(cands) = {"exact"})
           a        == Contextual(b, r, f, h)
<1>1. /\ a.status = (IF shaken THEN "ambiguous" ELSE status) /\ a.cands = cands /\ a.omitted = omitted
  BY DEF Contextual
<1>2. status \in MatchStatuses
  BY DEF MatchStatuses
<1>3. a.status \in MatchStatuses
  BY <1>1, <1>2 DEF MatchStatuses
<1>4. DOMAIN cands = spoken /\ spoken \subseteq TurnIds(h)
  BY TurnKnown
<1>5. ASSUME NEW t \in spoken PROVE cands[t] \in MatchKinds
  <2>1. kinds(t) \subseteq MatchKinds
    BY DEF MatchOf, MatchKinds
  <2>2. CASE Cardinality(kinds(t)) = 1
    <3>1. kinds(t) # {}
      BY <2>2, FS_EmptySet
    <3>2. (CHOOSE k \in kinds(t) : TRUE) \in kinds(t)
      BY <3>1
    <3>3. QED
      BY <2>1, <2>2, <3>2
  <2>3. CASE Cardinality(kinds(t)) # 1
    BY <2>3 DEF MatchKinds
  <2>4. QED
    BY <2>2, <2>3
<1>6. Range(cands) \subseteq MatchKinds
  BY <1>4, <1>5 DEF Range
<1>7. omitted # {"input_budget_exceeded"}
  BY DEF When
<1>8. QED
  BY <1>1, <1>3, <1>4, <1>6, <1>7 DEF Taken

\* A match of a block with one operation stays one.
\* A match stays one only with one context, an exact one: its turn has ended,
\* has words to show, and the block is not touched elsewhere.
LEMMA ContextualMatch ==
  ASSUME NEW b, NEW r, NEW f, NEW h, Contextual(b, r, f, h).status = "matched"
  PROVE  LET a == Contextual(b, r, f, h)
         IN  /\ r.status = "matched" /\ a.reasons = r.reasons
             /\ Cardinality(DOMAIN a.cands) = 1 /\ Range(a.cands) = {"exact"}
             /\ \A op : r.cands = {[op |-> op, exact |-> TRUE]} =>
                  /\ ~(Positions(op, b) # {} /\ Touches(op, b))
                  /\ \E t \in h.turns : t.id = op.turn /\ t.final = "safe" /\ t.status # "inProgress"
<1> DEFINE empty    == f.kind = "rename" /\ b = <<>>
           turns    == {c.op.turn : c \in r.cands}
           known    == {t \in turns : HasTurn(t, h)}
           ended    == {t \in known : Turn(t, h).status \in {"completed", "interrupted", "failed"}}
           active   == {t \in known : Turn(t, h).status = "inProgress"}
           broken   == h.error = "history_parse_failed" \/ known # turns \/ ended \cup active # known
           spoken   == {t \in known : Speaks(t, h)}
           kinds(t) == {MatchOf(c, b, empty) : c \in {c \in r.cands : c.op.turn = t}}
           cands    == [t \in spoken |-> IF Cardinality(kinds(t)) = 1 THEN CHOOSE k \in kinds(t) : TRUE
                                         ELSE "exact_and_partial"]
           omitted  == When(spoken # known, {"candidate_context_omitted"})
           status   == CASE broken \/ r.status = "error" -> "error"
                         [] ~broken /\ r.status # "error"
                            /\ (active # {} \/ (empty /\ r.cands # {})) -> "ambiguous"
                         [] OTHER -> r.status
           shaken   == status = "matched" /\ ~(Cardinality(spoken) = 1 /\ Range(cands) = {"exact"})
           a        == Contextual(b, r, f, h)
<1>1. /\ a.status = (IF shaken THEN "ambiguous" ELSE status) /\ a.cands = cands
      /\ a.reasons = r.reasons
         \cup When(empty /\ r.cands # {}, {"rename_content_unverified"})
         \cup When(broken, {"history_parse_failed"})
         \cup When(active # {}, {"history_incomplete"})
         \cup When(shaken, IF omitted = {} THEN {"partial_match"} ELSE omitted)
  BY DEF Contextual
<1>2. ~shaken /\ status = "matched"
  BY <1>1
<1>3. ~broken /\ active = {} /\ ~(empty /\ r.cands # {}) /\ r.status = "matched"
  BY <1>2
<1>4. a.reasons = r.reasons
  BY <1>1, <1>2, <1>3 DEF When
<1>5. Cardinality(spoken) = 1 /\ Range(cands) = {"exact"}
  BY <1>2
<1>6. ASSUME NEW op, r.cands = {[op |-> op, exact |-> TRUE]}
      PROVE  /\ ~(Positions(op, b) # {} /\ Touches(op, b))
             /\ \E t \in h.turns : t.id = op.turn /\ t.final = "safe" /\ t.status # "inProgress"
  <2>1. turns = {op.turn} /\ spoken \subseteq turns
    BY <1>6
  <2>2. spoken # {}
    BY <1>5, FS_EmptySet
  <2>3. op.turn \in spoken
    BY <2>1, <2>2
  <2>4. HasTurn(op.turn, h) /\ Speaks(op.turn, h) /\ op.turn \notin active /\ op.turn \in known
    BY <2>3, <1>3
  <2>5. Turn(op.turn, h) \in h.turns /\ Turn(op.turn, h).id = op.turn
        /\ Turn(op.turn, h).final = "safe" /\ Turn(op.turn, h).status # "inProgress"
    BY <2>4, TurnKnown DEF Speaks
  <2>6. cands[op.turn] = "exact"
    BY <2>3, <1>5 DEF Range
  <2>7. kinds(op.turn) = {MatchOf([op |-> op, exact |-> TRUE], b, empty)}
    BY <1>6
  <2>8. Cardinality(kinds(op.turn)) = 1
    BY <2>7, FS_Singleton
  <2>9. MatchOf([op |-> op, exact |-> TRUE], b, empty) = "exact"
    BY <2>3, <2>6, <2>7, <2>8
  <2>10. ~(Positions(op, b) # {} /\ Touches(op, b))
    BY <2>9 DEF MatchOf
  <2>11. QED
    BY <2>5, <2>10
<1>7. QED
  BY <1>1, <1>3, <1>4, <1>5, <1>6

-----------------------------------------------------------------------------
(* The history that is attributed                                          *)

\* A finite set has a sequence of its members without repetition.
LEMMA SetToSeqFits ==
  ASSUME NEW S, IsFiniteSet(S)
  PROVE  IsInjective(SetToSeq(S)) /\ Range(SetToSeq(S)) = S
<1> DEFINE N == Cardinality(S)
           s == SetToSeq(S)
<1>1. N \in Nat /\ \E f : f \in Bijection(1 .. N, S)
  BY FS_CardinalityType DEF ExistsBijection
<1>2. PICK f : f \in Bijection(1 .. N, S)
  BY <1>1
<1>3. f \in [1 .. N -> S] /\ IsInjective(f)
  BY <1>2 DEF Bijection, Injection, IsInjective
<1>4. s \in [1 .. N -> S] /\ IsInjective(s)
  BY <1>3 DEF SetToSeq
<1>5. s \in Injection(1 .. N, S)
  BY <1>4 DEF Injection, IsInjective
<1>6. Cardinality(1 .. N) = N
  BY <1>1, FS_Interval
<1>7. s \in Surjection(1 .. N, S)
  BY <1>5, <1>6, FS_Injection
<1>8. Range(s) = S
  BY <1>4, <1>7 DEF Surjection, Range
<1>9. QED
  BY <1>4, <1>8

\* Every attributed block is fit for the planner, and a matched one was compared.
LEMMA BlockTaken ==
  ASSUME NEW b, NEW r, NEW f, NEW h, NEW hidden, r.status \in MatchStatuses
  PROVE  /\ Taken(AttributedBlock(b, r, f, h, hidden), h)
         /\ AttributedBlock(b, r, f, h, hidden).status = "matched" =>
              AttributedBlock(b, r, f, h, hidden) = Contextual(b, r, f, h)
<1> DEFINE a == AttributedBlock(b, r, f, h, hidden)
<1>1. DOMAIN <<>> = {} /\ Range(<<>>) = {}
  BY DEF Range
<1>2. \A reasons : Taken([status |-> "error", reasons |-> reasons, cands |-> <<>>, omitted |-> {}], h)
  BY <1>1 DEF Taken, MatchStatuses
<1>3. \/ a = Contextual(b, r, f, h)
      \/ \E reasons : a = [status |-> "error", reasons |-> reasons, cands |-> <<>>, omitted |-> {}]
  BY DEF AttributedBlock
<1>4. QED
  BY <1>2, <1>3, ContextualTaken

\* What is collected is what was read, or nothing.
LEMMA CollectedFields ==
  ASSUME NEW read, NEW files, NEW hidden, ReadOK(read)
  PROVE  LET got == Collected(read, files, hidden)
         IN  /\ ReadOK(got) /\ got.ops \subseteq read.ops /\ got.turns \subseteq read.turns
             /\ got.ops # {} => got = read /\ ~read.stalled
<1>1. IsFiniteSet({})
  BY FS_EmptySet
<1> DEFINE got == Collected(read, files, hidden)
           none == [read EXCEPT !.status = "complete", !.error = "none", !.ops = {}, !.turns = {}]
           lost == [read EXCEPT !.status = "unavailable", !.ops = {}, !.turns = {}]
<1>2. got \in {none, lost} \/ (got = read /\ ~read.stalled)
  BY DEF Collected
<1>3. ReadOK(none) /\ none.ops = {} /\ none.turns = {}
  BY <1>1 DEF ReadOK, Acquisitions
<1>4. ReadOK(lost) /\ lost.ops = {} /\ lost.turns = {}
  BY <1>1 DEF ReadOK, Acquisitions
<1>5. QED
  BY <1>2, <1>3, <1>4

\* A history that is complete after operations were left out lost none.
LEMMA RetainFields ==
  ASSUME NEW h, NEW hidden, ReadOK(h)
  PROVE  LET kept == Retain(h, hidden)
         IN  /\ ReadOK(kept) /\ kept.ops \subseteq h.ops /\ kept.turns = h.turns
             /\ kept.status = "complete" =>
                  h.status = "complete" /\ kept.ops = h.ops /\ \A op \in h.ops : Readable(op, hidden)
<1> DEFINE ops  == {op \in h.ops : Readable(op, hidden)}
           kept == [h EXCEPT !.ops = ops, !.status = IF ops = h.ops THEN @ ELSE "partial"]
<1>1. Retain(h, hidden) = kept
  BY DEF Retain
<1>2. ops \subseteq h.ops /\ IsFiniteSet(ops)
  BY FS_Subset DEF ReadOK
<1>3. /\ DOMAIN kept = DOMAIN h /\ kept.ops = ops /\ kept.turns = h.turns
      /\ kept.status = IF ops = h.ops THEN h.status ELSE "partial"
  BY DEF ReadOK
<1>4. ops = h.ops => \A op \in h.ops : Readable(op, hidden)
  OBVIOUS
<1> HIDE DEF ops, kept
<1>5. kept.status = "complete" => h.status = "complete" /\ ops = h.ops
  BY <1>3
<1>6. ReadOK(kept)
  BY <1>2, <1>3 DEF ReadOK, Acquisitions
<1>7. QED
  BY <1>1, <1>2, <1>3, <1>4, <1>5, <1>6

\* Operations with their blocks are as many and as readable as before.
LEMMA ParsedFields ==
  ASSUME NEW ops, IsFiniteSet(ops),
         \A op \in ops : /\ {"path", "old", "has", "safe"} \subseteq DOMAIN op
                         /\ op.diff \in Seq(Range(op.diff))
  PROVE  /\ IsFiniteSet(Parsed(ops))
         /\ \A op \in Parsed(ops) : IsSeq(OpBlocks(op).blocks)
         /\ \A hidden : (\A op \in ops : Readable(op, hidden)) => \A op \in Parsed(ops) : Readable(op, hidden)
<1>1. IsFiniteSet(Parsed(ops))
  <2> DEFINE g == [op \in ops |-> WithBlocks(op)]
  <2>1. g \in Surjection(ops, Parsed(ops))
    BY DEF Surjection, Parsed
  <2>2. QED
    BY <2>1, FS_Surjection
<1>2. ASSUME NEW op \in ops
      PROVE  /\ IsSeq(OpBlocks(WithBlocks(op)).blocks)
             /\ \A hidden : Readable(op, hidden) => Readable(WithBlocks(op), hidden)
  <2>1. WithBlocks(op).parsed = IF op.has THEN ComparisonBlocks(op.kind, op.diff, op.old) ELSE NoBlocks
    BY DEF WithBlocks
  <2>2. Len(op.diff) \in Nat
    BY RangeSeq, SeqDomain
  <2>3. IsSeq(ComparisonBlocks(op.kind, op.diff, op.old).blocks) /\ IsSeq(NoBlocks.blocks)
    BY <2>2, ComparisonBlocksSeq, SingleSeq DEF NoBlocks
  <2>4. IsSeq(OpBlocks(WithBlocks(op)).blocks)
    BY <2>1, <2>3 DEF OpBlocks
  <2>5. \A x \in {"path", "old", "has", "safe"} : WithBlocks(op)[x] = op[x]
    BY DEF WithBlocks
  <2>6. \A hidden : Readable(op, hidden) => Readable(WithBlocks(op), hidden)
    BY <2>5 DEF Readable, Paths
  <2>7. QED
    BY <2>4, <2>6
<1>3. QED
  BY <1>1, <1>2 DEF Parsed

\* What a matched block is, of the history it was compared with.
Alone(a, b, f, h) ==
  a.status = "matched" =>
    /\ Cardinality(DOMAIN a.cands) = 1 /\ Range(a.cands) = {"exact"} /\ a.reasons = {}
    /\ h.status = "complete"
    /\ \E op \in h.ops :
         /\ Only(op, b, f, h.ops) /\ ~Touches(op, b)
         /\ \E t \in h.turns : t.id = op.turn /\ t.final = "safe" /\ t.status # "inProgress"

\* A block comes out fit for the planner, and matched only if it stands alone.
LEMMA BlockAlone ==
  ASSUME NEW b, NEW f, NEW blocks, NEW h, NEW hidden, NEW marks, IsFiniteSet(h.ops),
         \A op \in h.ops : IsSeq(OpBlocks(op).blocks)
  PROVE  LET a == AttributedBlock(b, Mark(Compare(b, f, blocks, h.ops, h.status), marks), f, h, hidden)
         IN  Taken(a, h) /\ Alone(a, b, f, h)
<1> DEFINE c == Compare(b, f, blocks, h.ops, h.status)
           r == Mark(c, marks)
           a == AttributedBlock(b, r, f, h, hidden)
<1>1. r.status \in MatchStatuses
  BY CompareStatus, MarkMatch
<1>2. Taken(a, h)
  BY <1>1, BlockTaken
<1>3. ASSUME a.status = "matched"
      PROVE  Alone(a, b, f, h)
  <2>1. a = Contextual(b, r, f, h)
    BY <1>1, <1>3, BlockTaken
  <2> HIDE DEF a
  <2>2. r.status = "matched" /\ a.reasons = r.reasons
        /\ Cardinality(DOMAIN a.cands) = 1 /\ Range(a.cands) = {"exact"}
        /\ \A op : r.cands = {[op |-> op, exact |-> TRUE]} =>
             /\ ~(Positions(op, b) # {} /\ Touches(op, b))
             /\ \E t \in h.turns : t.id = op.turn /\ t.final = "safe" /\ t.status # "inProgress"
    BY <1>3, <2>1, ContextualMatch
  <2>3. r = c
    BY <2>2, MarkMatch
  <2>4. PICK op \in h.ops : /\ Only(op, b, f, h.ops) /\ c.cands = {[op |-> op, exact |-> TRUE]}
                            /\ c.reasons = {} /\ h.status = "complete"
    BY <2>2, <2>3, CompareMatch
  <2>5. Positions(op, b) # {}
    BY <2>4, FS_EmptySet DEF Only
  <2>6. ~Touches(op, b) /\ \E t \in h.turns : t.id = op.turn /\ t.final = "safe" /\ t.status # "inProgress"
    BY <2>2, <2>3, <2>4, <2>5
  <2>7. QED
    BY <2>2, <2>3, <2>4, <2>6 DEF Alone
<1>4. Alone(a, b, f, h)
  BY <1>3 DEF Alone
<1>5. QED
  BY <1>2, <1>4

\* So does every block of every file.
LEMMA AttributedFields ==
  ASSUME NEW blocks, NEW files, NEW h, NEW hidden, IsFiniteSet(h.ops),
         \A op \in h.ops : IsSeq(OpBlocks(op).blocks)
  PROVE  LET found == Attributed(blocks, files, h, hidden)
         IN  /\ DOMAIN found = DOMAIN blocks
             /\ \A f \in DOMAIN blocks :
                  /\ DOMAIN found[f] = DOMAIN blocks[f]
                  /\ \A n \in DOMAIN blocks[f] :
                       Taken(found[f][n], h) /\ Alone(found[f][n], blocks[f][n], files[f], h)
<1> DEFINE found == Attributed(blocks, files, h, hidden)
<1>1. /\ DOMAIN found = DOMAIN blocks
      /\ \A f \in DOMAIN blocks : DOMAIN found[f] = DOMAIN blocks[f]
  BY DEF Attributed
<1>2. ASSUME NEW f \in DOMAIN blocks, NEW n \in DOMAIN blocks[f]
      PROVE  Taken(found[f][n], h) /\ Alone(found[f][n], blocks[f][n], files[f], h)
  <2>1. \E marks : found[f][n] = AttributedBlock(blocks[f][n],
           Mark(Compare(blocks[f][n], files[f], blocks[f], h.ops, h.status), marks), files[f], h, hidden)
    BY DEF Attributed
  <2>2. PICK marks : found[f][n] = AttributedBlock(blocks[f][n],
           Mark(Compare(blocks[f][n], files[f], blocks[f], h.ops, h.status), marks), files[f], h, hidden)
    BY <2>1
  <2>3. QED
    BY <2>2, BlockAlone
<1>3. QED
  BY <1>1, <1>2

\* What Attribute returns for these files.
AttributedFiles(read, files, hidden) ==
  LET h == Retain(Collected(read, files, hidden), hidden)
  IN  Attributed(TextBlocks(files), files, [h EXCEPT !.ops = Parsed(@)], hidden)

\* The history the blocks are compared with: finite, and where it is complete
\* and has operations, it is all that was read and all of it could be looked at.
LEMMA ParsedHistory ==
  ASSUME NEW read, NEW files, NEW hidden, ReadOK(read)
  PROVE  LET got == Collected(read, files, hidden)
             h   == [Retain(got, hidden) EXCEPT !.ops = Parsed(@)]
         IN  /\ h.ops = Parsed(Retain(got, hidden).ops) /\ h.status = Retain(got, hidden).status
             /\ h.turns = got.turns /\ h.status \in Acquisitions
             /\ IsFiniteSet(h.ops) /\ \A op \in h.ops : IsSeq(OpBlocks(op).blocks)
             /\ h.status = "complete" /\ h.ops # {} =>
                  /\ got = read /\ ~read.stalled /\ read.status = "complete" /\ h.ops = Parsed(read.ops)
                  /\ \A op \in h.ops : Readable(op, hidden)
<1> DEFINE got  == Collected(read, files, hidden)
           kept == Retain(got, hidden)
           h    == [kept EXCEPT !.ops = Parsed(@)]
<1>1. ReadOK(got) /\ (got.ops # {} => got = read /\ ~read.stalled)
  BY CollectedFields
<1>2. /\ ReadOK(kept) /\ kept.ops \subseteq got.ops /\ kept.turns = got.turns
      /\ kept.status = "complete" =>
           got.status = "complete" /\ kept.ops = got.ops /\ \A op \in got.ops : Readable(op, hidden)
  BY <1>1, RetainFields
<1> HIDE DEF kept, got
<1>3. h.ops = Parsed(kept.ops) /\ h.status = kept.status /\ h.turns = kept.turns
  BY <1>2 DEF ReadOK
<1>4. /\ IsFiniteSet(h.ops) /\ \A op \in h.ops : IsSeq(OpBlocks(op).blocks)
      /\ (\A op \in kept.ops : Readable(op, hidden)) => \A op \in h.ops : Readable(op, hidden)
  BY <1>2, <1>3, ParsedFields DEF ReadOK
<1> HIDE DEF h
<1>5. h.ops # {} => kept.ops # {}
  BY <1>3 DEF Parsed
<1>6. h.status = "complete" /\ h.ops # {} =>
        /\ got = read /\ ~read.stalled /\ read.status = "complete" /\ h.ops = Parsed(read.ops)
        /\ \A op \in h.ops : Readable(op, hidden)
  BY <1>1, <1>2, <1>3, <1>4, <1>5
<1>7. QED
  BY <1>2, <1>3, <1>4, <1>6 DEF h, kept, got, ReadOK

\* Every block of the files that have some is fit for the planner, and matched
\* only if it stands alone in that history.
LEMMA AttributedOK ==
  ASSUME NEW read, NEW files, NEW hidden, ReadOK(read)
  PROVE  LET got   == Collected(read, files, hidden)
             h     == [Retain(got, hidden) EXCEPT !.ops = Parsed(@)]
             found == AttributedFiles(read, files, hidden)
             texts == TextBlocks(files)
         IN  /\ DOMAIN found = DOMAIN texts
             /\ \A f \in DOMAIN texts :
                  /\ DOMAIN found[f] = DOMAIN texts[f]
                  /\ \A n \in DOMAIN texts[f] :
                       Taken(found[f][n], got) /\ Alone(found[f][n], texts[f][n], files[f], h)
<1> DEFINE got   == Collected(read, files, hidden)
           h     == [Retain(got, hidden) EXCEPT !.ops = Parsed(@)]
           found == AttributedFiles(read, files, hidden)
           texts == TextBlocks(files)
<1>1. found = Attributed(texts, files, h, hidden)
  BY DEF AttributedFiles
<1>2. /\ h.turns = got.turns
      /\ IsFiniteSet(h.ops) /\ \A op \in h.ops : IsSeq(OpBlocks(op).blocks)
  BY ParsedHistory
<1> HIDE DEF h, texts, found, got
<1>3. /\ DOMAIN found = DOMAIN texts
      /\ \A f \in DOMAIN texts :
                  /\ DOMAIN found[f] = DOMAIN texts[f]
                  /\ \A n \in DOMAIN texts[f] :
                       Taken(found[f][n], h) /\ Alone(found[f][n], texts[f][n], files[f], h)
  BY <1>1, <1>2, AttributedFields
<1>4. \A a : Taken(a, h) => Taken(a, got)
  BY <1>2 DEF Taken, TurnIds
<1>5. QED
  BY <1>3, <1>4 DEF h, texts, found, got

\* Where the parsers agree on the number of blocks of a file, the attributed
\* blocks have the numbers of the planner's.
LEMMA TextBlocksAligned ==
  ASSUME NEW files, NEW f \in DOMAIN files,
         files[f].diff \in Seq(Range(files[f].diff)), Aligned(files[f])
  PROVE  LET own == DOMAIN ProjectedBlocks(files[f]).blocks
         IN  /\ f \in DOMAIN TextBlocks(files) => DOMAIN TextBlocks(files)[f] = own
             /\ own # {} => f \in DOMAIN TextBlocks(files)
<1> DEFINE p == ProjectedBlocks(files[f])
           c == ComparisonBlocks(files[f].kind, files[f].diff, files[f].old)
<1>1. Len(files[f].diff) \in Nat
  BY RangeSeq, SeqDomain
<1>2. IsSeq(p.blocks) /\ IsSeq(c.blocks)
  BY <1>1, ComparisonBlocksSeq, ProjectedBlocksSeq
<1>3. p.blocks # <<>> => Len(c.blocks) = Len(p.blocks)
  BY DEF Aligned, Agree
<1>4. f \in DOMAIN TextBlocks(files) <=> p.blocks # <<>>
  BY DEF TextBlocks
<1>5. f \in DOMAIN TextBlocks(files) => TextBlocks(files)[f] = c.blocks
  BY DEF TextBlocks
<1> HIDE DEF p, c
<1>6. p.blocks # <<>> => DOMAIN c.blocks = DOMAIN p.blocks
  BY <1>2, <1>3, SeqDomain
<1>7. DOMAIN p.blocks # {} => p.blocks # <<>>
  OBVIOUS
<1>8. QED
  BY <1>4, <1>5, <1>6, <1>7 DEF p

\* The files with blocks are among the selected ones.
LEMMA TextBlocksDomain ==
  ASSUME NEW files
  PROVE  DOMAIN TextBlocks(files) \subseteq DOMAIN files
BY DEF TextBlocks

\* A command belongs to a turn and mentions some of the files.
LEMMA CommandsFields ==
  ASSUME NEW files, NEW h, NEW hidden, NEW c \in Commands(files, h, hidden)
  PROVE  c.ref \in TurnIds(h) /\ c.files # {} /\ c.files \subseteq DOMAIN files
<1>1. c.files # {} /\ \E t \in h.turns : \E x \in {x \in t.commands : x.safe /\ t.final = "safe"} :
        c = [id |-> x.id, ref |-> t.id,
             files |-> {f \in DOMAIN files : (Paths(files[f]) \ hidden) \cap x.mentions # {}}]
  BY DEF Commands
<1>2. QED
  BY <1>1 DEF TurnIds

\* Finitely many turns have finitely many ids.
LEMMA TurnIdsFinite ==
  ASSUME NEW h, IsFiniteSet(h.turns)
  PROVE  IsFiniteSet(TurnIds(h))
<1> DEFINE g == [t \in h.turns |-> t.id]
<1>1. g \in Surjection(h.turns, TurnIds(h))
  BY DEF Surjection, TurnIds
<1>2. QED
  BY <1>1, FS_Surjection

\* The history of the host for these files, as the planner wants it.
Fits(h, files) ==
  /\ h.given /\ h.acquisition \in Acquisitions /\ IsInjective(h.contexts)
  /\ {"given", "acquisition", "contexts", "commands", "files"} \subseteq DOMAIN h
  /\ \A c \in h.commands : c.ref \in Range(h.contexts) /\ c.files # {} /\ c.files \subseteq DOMAIN files
  /\ DOMAIN h.files \subseteq DOMAIN files
  /\ \A f \in DOMAIN files : LET own == DOMAIN ProjectedBlocks(files[f]).blocks
                             IN  own # {} => f \in DOMAIN h.files
  /\ \A f \in DOMAIN h.files :
       /\ h.files[f].diff = files[f].diff
       /\ DOMAIN h.files[f].blocks = {f} \X DOMAIN ProjectedBlocks(files[f]).blocks
       /\ \A b \in DOMAIN h.files[f].blocks : AcceptsBlock(h.files[f].blocks[b], h)

\* The history that is attributed to files whose parsers agree fits them.
LEMMA AttributeFits ==
  ASSUME NEW read, NEW files, NEW hidden, ReadOK(read), FilesOK(files),
         \A f \in DOMAIN files : Aligned(files[f])
  PROVE  Fits(Attribute(read, files, hidden), files)
<1> DEFINE got   == Collected(read, files, hidden)
           kept  == Retain(got, hidden)
           h     == [kept EXCEPT !.ops = Parsed(@)]
           found == AttributedFiles(read, files, hidden)
           texts == TextBlocks(files)
           comms == Commands(files, got, hidden)
           told == UNION {UNION {DOMAIN found[f][n].cands : n \in DOMAIN found[f]} : f \in DOMAIN found}
           cited == {c.ref : c \in comms}
           refs  == told \cup cited
           H     == Attribute(read, files, hidden)
<1>1. H = GroupingHistory(found, comms, files, kept.status)
  BY DEF Attribute, AttributedFiles
<1>2. /\ DOMAIN found = DOMAIN texts
      /\ \A f \in DOMAIN texts :
           /\ DOMAIN found[f] = DOMAIN texts[f]
           /\ \A n \in DOMAIN texts[f] :
                Taken(found[f][n], got) /\ Alone(found[f][n], texts[f][n], files[f], h)
  BY AttributedOK
<1>3. h.status = kept.status /\ h.status \in Acquisitions
  BY ParsedHistory
<1>4. IsFiniteSet(TurnIds(got))
  BY CollectedFields, TurnIdsFinite DEF ReadOK
<1>5. \A c \in comms : c.ref \in TurnIds(got) /\ c.files # {} /\ c.files \subseteq DOMAIN files
  BY CommandsFields
<1> HIDE DEF found, texts, comms, h, kept, got, H
<1>0. \A x : x \in refs <=> \/ \E f \in DOMAIN found : \E n \in DOMAIN found[f] : x \in DOMAIN found[f][n].cands
                            \/ \E c \in comms : x = c.ref
  <2>1. \A f \in DOMAIN found : \A x : x \in UNION {DOMAIN found[f][n].cands : n \in DOMAIN found[f]}
                <=> \E n \in DOMAIN found[f] : x \in DOMAIN found[f][n].cands
    OBVIOUS
  <2>2. \A x : x \in told
                <=> \E f \in DOMAIN found : x \in UNION {DOMAIN found[f][n].cands : n \in DOMAIN found[f]}
    OBVIOUS
  <2>3. \A x : x \in cited <=> \E c \in comms : x = c.ref
    OBVIOUS
  <2> HIDE DEF told, cited
  <2>4. \A x : x \in refs <=> x \in told \/ x \in cited
    OBVIOUS
  <2> HIDE DEF refs
  <2>5. QED
    BY <2>1, <2>2, <2>3, <2>4, Zenon
<1> HIDE DEF refs
<1>6. refs \subseteq TurnIds(got)
  BY <1>0, <1>2, <1>5 DEF Taken
<1>7. IsInjective(SetToSeq(refs)) /\ Range(SetToSeq(refs)) = refs
  BY <1>4, <1>6, FS_Subset, SetToSeqFits
<1>8. /\ H.given /\ H.acquisition = kept.status /\ H.contexts = SetToSeq(refs) /\ H.commands = comms
      /\ {"given", "acquisition", "contexts", "commands", "files"} \subseteq DOMAIN H
      /\ H.files = [f \in DOMAIN found |->
                [diff |-> files[f].diff,
                 blocks |-> [b \in {<<f, n>> : n \in DOMAIN found[f]} |-> found[f][b[2]]]]]
  BY <1>1 DEF GroupingHistory, refs, told, cited
<1>9. Range(H.contexts) = refs
  BY <1>7, <1>8
<1>10. \A c \in H.commands : c.ref \in Range(H.contexts) /\ c.files # {} /\ c.files \subseteq DOMAIN files
  <2>1. \A c \in comms : c.ref \in refs
    BY <1>0
  <2>2. QED
    BY <2>1, <1>5, <1>8, <1>9
<1>11. DOMAIN H.files = DOMAIN texts /\ DOMAIN texts \subseteq DOMAIN files
  BY <1>2, <1>8, TextBlocksDomain DEF texts
<1>12. ASSUME NEW f \in DOMAIN files
       PROVE  LET own == DOMAIN ProjectedBlocks(files[f]).blocks
              IN  own # {} => f \in DOMAIN H.files
  BY <1>11, TextBlocksAligned DEF FilesOK, texts
<1>13. ASSUME NEW f \in DOMAIN H.files
       PROVE  /\ H.files[f].diff = files[f].diff
              /\ DOMAIN H.files[f].blocks = {f} \X DOMAIN ProjectedBlocks(files[f]).blocks
              /\ \A b \in DOMAIN H.files[f].blocks : AcceptsBlock(H.files[f].blocks[b], H)
  <2>1. f \in DOMAIN texts /\ f \in DOMAIN files /\ f \in DOMAIN found /\ DOMAIN found[f] = DOMAIN texts[f]
    BY <1>2, <1>11
  <2>2. /\ H.files[f].diff = files[f].diff
        /\ H.files[f].blocks = [b \in {<<f, n>> : n \in DOMAIN found[f]} |-> found[f][b[2]]]
    BY <1>8, <2>1
  <2>3. DOMAIN texts[f] = DOMAIN ProjectedBlocks(files[f]).blocks
    BY <2>1, TextBlocksAligned DEF FilesOK, texts
  <2>4. DOMAIN H.files[f].blocks = {f} \X DOMAIN ProjectedBlocks(files[f]).blocks
    BY <2>1, <2>2, <2>3
  <2>5. ASSUME NEW n \in DOMAIN found[f]
        PROVE  AcceptsBlock(found[f][n], H)
    <3>1. Taken(found[f][n], got) /\ Alone(found[f][n], texts[f][n], files[f], h)
      BY <1>2, <2>1
    <3>2. DOMAIN found[f][n].cands \subseteq refs
      BY <2>1, <1>0
    <3>3. found[f][n].status = "matched" =>
            /\ Cardinality(DOMAIN found[f][n].cands) = 1 /\ Range(found[f][n].cands) = {"exact"}
            /\ H.acquisition = "complete" /\ found[f][n].reasons = {}
      BY <3>1, <1>3, <1>8 DEF Alone
    <3>4. QED
      BY <3>1, <3>2, <3>3, <1>9 DEF AcceptsBlock, Taken
  <2>6. QED
    BY <2>2, <2>4, <2>5
<1>14. QED
  BY <1>3, <1>7, <1>8, <1>10, <1>11, <1>12, <1>13 DEF Fits, H

\* A history that fits the files is accepted by the checks of the generator,
\* once it is bound to them.
LEMMA BoundAccepted ==
  ASSUME NEW h, NEW files, NEW S, DOMAIN files \subseteq S, Fits(h, files)
  PROVE  Accepts(Bound(h, files), S, OwnBlocks(files)) /\ Bound(h, files).given
<1> DEFINE B == Bound(h, files)
           blocks == OwnBlocks(files)
<1>1. /\ B.given = h.given /\ B.acquisition = h.acquisition /\ B.contexts = h.contexts
      /\ B.commands = h.commands
      /\ B.files = [f \in DOMAIN h.files |-> [current |-> f \in DOMAIN files /\ files[f].diff = h.files[f].diff,
                                              blocks |-> h.files[f].blocks]]
  BY DEF Bound, Fits
<1> HIDE DEF B
<1>2. ASSUME NEW f \in DOMAIN B.files
      PROVE  /\ B.files[f].current
             /\ DOMAIN B.files[f].blocks = BlocksOf(f, blocks)
             /\ \A b \in DOMAIN B.files[f].blocks : AcceptsBlock(B.files[f].blocks[b], B)
  <2>0. f \in DOMAIN h.files /\ f \in DOMAIN files /\ files[f].diff = h.files[f].diff
    BY <1>1 DEF Fits
  <2>1. B.files[f] = [current |-> f \in DOMAIN files /\ files[f].diff = h.files[f].diff,
                      blocks |-> h.files[f].blocks]
    BY <1>1, <2>0, Zenon
  <2>10. (f \in DOMAIN files /\ files[f].diff = h.files[f].diff) = TRUE
    BY <2>0
  <2>12. B.files[f] = [current |-> TRUE, blocks |-> h.files[f].blocks]
    BY <2>1, <2>10, Zenon
  <2>11. B.files[f].blocks = h.files[f].blocks /\ B.files[f].current
    BY <2>12
  <2>2. BlocksOf(f, blocks) = {f} \X DOMAIN ProjectedBlocks(files[f]).blocks
    <3> DEFINE own(g) == DOMAIN ProjectedBlocks(files[g]).blocks
    <3>0. blocks = UNION {{g} \X own(g) : g \in DOMAIN files}
      BY DEF OwnBlocks
    <3> HIDE DEF blocks, own
    <3>1. \A b : b \in blocks <=> \E g \in DOMAIN files : b \in {g} \X own(g)
      BY <3>0
    <3> HIDE DEF blocks, own
    <3>2. \A b : b \in BlocksOf(f, blocks) <=> b \in blocks /\ b[1] = f
      BY DEF BlocksOf
    <3>3. \A g, b : b \in {g} \X own(g) => b[1] = g
      OBVIOUS
    <3>4. \A b : b \in BlocksOf(f, blocks) <=> b \in {f} \X own(f)
      BY <2>0, <3>1, <3>2, <3>3, Zenon
    <3>5. BlocksOf(f, blocks) = {f} \X own(f)
      BY <3>4
    <3>6. QED
      BY <3>5 DEF own
  <2>3. \A a : AcceptsBlock(a, h) => AcceptsBlock(a, B)
    BY <1>1 DEF AcceptsBlock
  <2>4. QED
    BY <2>0, <2>11, <2>2, <2>3 DEF Fits
<1>3. ASSUME NEW b \in blocks
      PROVE  b[1] \in DOMAIN B.files
  <2>1. PICK f \in DOMAIN files : b \in {f} \X DOMAIN ProjectedBlocks(files[f]).blocks
    BY DEF OwnBlocks
  <2>2. b[1] = f /\ DOMAIN ProjectedBlocks(files[f]).blocks # {}
    BY <2>1
  <2>3. QED
    BY <1>1, <2>2 DEF Fits
<1>4. QED
  BY <1>1, <1>2, <1>3 DEF Accepts, Fits, B

-----------------------------------------------------------------------------
(* The attributed history of a run                                         *)

\* What is shown of a block of these files that is matched in this history.
Story(file, lines, read, hidden) ==
  LET about == {op \in Parsed(read.ops) : Relevant(op, file)}
      holds == {op \in about : Positions(op, lines) # {} \/ Touches(op, lines)}
  IN  /\ read.status = "complete" /\ ~read.stalled
      /\ \A op \in about : Readable(op, hidden) /\ OpBlocks(op).ok
      /\ \E op \in holds :
           /\ holds = {op} /\ Cardinality(Positions(op, lines)) = 1 /\ ~Touches(op, lines)
           /\ \E t \in read.turns : t.id = op.turn /\ t.final = "safe" /\ t.status # "inProgress"

\* A block that stands alone in what was compared does so in what was read.
LEMMA AloneIsStory ==
  ASSUME NEW read, NEW files, NEW hidden, ReadOK(read), NEW a, NEW lines, NEW file, a.status = "matched",
         Alone(a, lines, file, [Retain(Collected(read, files, hidden), hidden) EXCEPT !.ops = Parsed(@)])
  PROVE  Story(file, lines, read, hidden)
<1> DEFINE got == Collected(read, files, hidden)
           h   == [Retain(got, hidden) EXCEPT !.ops = Parsed(@)]
           about == {o \in Parsed(read.ops) : Relevant(o, file)}
           holds == {o \in about : Positions(o, lines) # {} \/ Touches(o, lines)}
<1>1. /\ h.turns = got.turns
      /\ h.status = "complete" /\ h.ops # {} =>
           /\ got = read /\ ~read.stalled /\ read.status = "complete" /\ h.ops = Parsed(read.ops)
           /\ \A o \in h.ops : Readable(o, hidden)
  BY ParsedHistory
<1> HIDE DEF h, got
<1>2. h.status = "complete"
  BY DEF Alone, h, got
<1>3. PICK op \in h.ops : 
        /\ Only(op, lines, file, h.ops) /\ ~Touches(op, lines)
        /\ \E t \in h.turns : t.id = op.turn /\ t.final = "safe" /\ t.status # "inProgress"
  BY DEF Alone, h, got
<1>4. /\ ~read.stalled /\ read.status = "complete" /\ h.ops = Parsed(read.ops) /\ h.turns = read.turns
      /\ \A o \in Parsed(read.ops) : Readable(o, hidden)
  BY <1>1, <1>2, <1>3
<1>5. /\ op \in about /\ Cardinality(Positions(op, lines)) = 1
      /\ \A o \in about : OpBlocks(o).ok /\ (Positions(o, lines) # {} \/ Touches(o, lines) => o = op)
  BY <1>3, <1>4 DEF Only
<1>6. Positions(op, lines) # {}
  BY <1>5, FS_EmptySet
<1>7. holds = {op}
  BY <1>5, <1>6
<1>8. \A o \in about : Readable(o, hidden) /\ OpBlocks(o).ok
  BY <1>4, <1>5
<1>9. \E t \in read.turns : t.id = op.turn /\ t.final = "safe" /\ t.status # "inProgress"
  BY <1>3, <1>4
<1> HIDE DEF about, holds
<1>10. /\ \A o \in about : Readable(o, hidden) /\ OpBlocks(o).ok
       /\ \E o \in holds :
           /\ holds = {o} /\ Cardinality(Positions(o, lines)) = 1 /\ ~Touches(o, lines)
           /\ \E t \in read.turns : t.id = o.turn /\ t.final = "safe" /\ t.status # "inProgress"
  <2>1. op \in holds
    BY <1>7
  <2>2. QED
    BY <2>1, <1>3, <1>5, <1>7, <1>8, <1>9
<1>11. QED
  BY <1>4, <1>10 DEF Story, about, holds

\* Every matched block of an attributed history is the whole story.
LEMMA AttributeUnique ==
  ASSUME NEW read, NEW files, NEW hidden, ReadOK(read),
         NEW f \in DOMAIN Attribute(read, files, hidden).files,
         NEW b \in DOMAIN Attribute(read, files, hidden).files[f].blocks,
         Attribute(read, files, hidden).files[f].blocks[b].status = "matched"
  PROVE  Story(files[f], ComparisonBlocks(files[f].kind, files[f].diff, files[f].old).blocks[b[2]],
               read, hidden)
<1> DEFINE got   == Collected(read, files, hidden)
           h     == [Retain(got, hidden) EXCEPT !.ops = Parsed(@)]
           found == AttributedFiles(read, files, hidden)
           texts == TextBlocks(files)
           H     == Attribute(read, files, hidden)
<1>1. H = GroupingHistory(found, Commands(files, got, hidden), files, Retain(got, hidden).status)
  BY DEF Attribute, AttributedFiles
<1>2. /\ DOMAIN found = DOMAIN texts
      /\ \A g \in DOMAIN texts :
           /\ DOMAIN found[g] = DOMAIN texts[g]
           /\ \A n \in DOMAIN texts[g] : Alone(found[g][n], texts[g][n], files[g], h)
  BY AttributedOK
<1> HIDE DEF found, texts, h, H, got
<1>3. H.files = [g \in DOMAIN found |->
                [diff |-> files[g].diff,
                 blocks |-> [c \in {<<g, n>> : n \in DOMAIN found[g]} |-> found[g][c[2]]]]]
  BY <1>1 DEF GroupingHistory
<1>4. f \in DOMAIN found
      /\ H.files[f].blocks = [c \in {<<f, n>> : n \in DOMAIN found[f]} |-> found[f][c[2]]]
  BY <1>3 DEF H
<1>5. b[2] \in DOMAIN found[f] /\ H.files[f].blocks[b] = found[f][b[2]]
  BY <1>4 DEF H
<1>6. found[f][b[2]].status = "matched"
  BY <1>5 DEF H
<1>7. Alone(found[f][b[2]], texts[f][b[2]], files[f], h)
  BY <1>2, <1>4, <1>5
<1>8. texts[f] = ComparisonBlocks(files[f].kind, files[f].diff, files[f].old).blocks
  BY <1>2, <1>4 DEF texts, TextBlocks
<1>9. Story(files[f], texts[f][b[2]], read, hidden)
  BY <1>6, <1>7, AloneIsStory DEF h, got
<1>10. QED
  BY <1>8, <1>9

\* The input that is collected for, its history once it is attributed, and what
\* is kept of it.
Selected ==
  input.collect =>
    /\ {"doc", "host", "blocks", "history", "unsafe", "collect", "files", "hidden",
        "read"} \subseteq DOMAIN input
    /\ DOMAIN input.files \subseteq Files /\ FilesOK(input.files) /\ ReadOK(input.read)
Fitting ==
  input.collect =>
    /\ input.history.given => Accepts(input.history, Files, input.blocks)
    /\ pc = "prepare" => input.history.given
Remembered ==
  cache.given =>
    /\ FilesOK(cache.files) /\ ReadOK(cache.read) /\ \A f \in DOMAIN cache.files : Aligned(cache.files[f])
    /\ cache.history = Attribute(cache.read, cache.files, cache.hidden)
AttributionInv == Selected /\ Fitting /\ Remembered

\* What is kept of an attribution shows that its matches are unique.
LEMMA RememberedUnique == Remembered => MatchedIsUnique
<1> SUFFICES ASSUME Remembered, cache.given,
                    NEW f \in DOMAIN cache.history.files,
                    NEW b \in DOMAIN cache.history.files[f].blocks,
                    cache.history.files[f].blocks[b].status = "matched"
             PROVE  Story(cache.files[f],
                          ComparisonBlocks(cache.files[f].kind, cache.files[f].diff, cache.files[f].old).blocks[b[2]],
                          cache.read, cache.hidden)
  BY DEF MatchedIsUnique, Story
<1>1. QED
  BY AttributeUnique DEF Remembered

\* Binding a history that fits the files makes the input of the generator.
LEMMA BindFits ==
  ASSUME NEW h, Bind(h), input.collect, Selected, Fits(h, input.files)
  PROVE  /\ input'.history.given /\ Accepts(input'.history, Files', input'.blocks)
         /\ input'.collect /\ Selected'
<1> DEFINE x == OwnBlocks(input.files)
           y == Bound(h, input.files)
<1>1. {"doc", "blocks", "history", "files", "read", "collect"} \subseteq DOMAIN input
  BY DEF Selected
<1>2. input' = [input EXCEPT !.blocks = x, !.history = y]
  BY DEF Bind
<1> HIDE DEF x, y
<1>3. /\ DOMAIN input' = DOMAIN input /\ input'.blocks = x /\ input'.history = y
      /\ input'.doc = input.doc /\ input'.files = input.files /\ input'.read = input.read
  BY <1>1, <1>2
<1>8. input'.collect
  BY <1>1, <1>2
<1>4. Files' = Files
  BY <1>3 DEF Files
<1>5. Selected'
  BY <1>3, <1>4, <1>8 DEF Selected
<1>6. Accepts(Bound(h, input.files), Files, OwnBlocks(input.files)) /\ Bound(h, input.files).given
  BY BoundAccepted DEF Selected
<1>7. QED
  BY <1>3, <1>4, <1>5, <1>6, <1>8 DEF x, y

\* Every input is fit to be collected for and has no history yet.
LEMMA SelectedInput ==
  ASSUME input \in Inputs
  PROVE  Selected /\ (input.collect => ~input.history.given)
BY CollectedOK, InputsOK DEF Selected, Files

\* The first input is one of these, and nothing is kept.
LEMMA AttributionInit == FlowInit => AttributionInv
<1> SUFFICES ASSUME FlowInit PROVE AttributionInv
  OBVIOUS
<1>1. input \in Inputs /\ pc = "begin" /\ ~cache.given
  BY DEF FlowInit, Init, Nothing
<1>2. Selected /\ (input.collect => ~input.history.given)
  BY <1>1, SelectedInput
<1>3. Fitting
  BY <1>1, <1>2 DEF Fitting
<1>4. Remembered
  BY <1>1 DEF Remembered
<1>5. QED
  BY <1>2, <1>3, <1>4 DEF AttributionInv

\* An attribution, a new one or the one that is kept, gives the input a history
\* that the generator accepts, and keeps what it was made of.
LEMMA AttributeKeeps ==
  ASSUME AttributionInv, AttributeHistory
  PROVE  AttributionInv'
<1>1. Collecting /\ input.collect /\ pc = "begin"
  BY DEF AttributeHistory, Collecting
<1>2. CASE Reusable
  <2>1. Bind(cache.history) /\ UNCHANGED <<pc, cache>>
    BY <1>2 DEF AttributeHistory
  <2>2. cache.files = input.files /\ Fits(cache.history, cache.files)
    BY <1>2, AttributeFits DEF Reusable, AttributionInv, Remembered
  <2>3. input'.history.given /\ Accepts(input'.history, Files', input'.blocks) /\ Selected'
    BY <1>1, <2>1, <2>2, BindFits DEF AttributionInv
  <2>4. Remembered'
    BY <2>1 DEF AttributionInv, Remembered
  <2>5. QED
    BY <2>3, <2>4 DEF AttributionInv, Fitting
<1>3. CASE ~Reusable /\ \A f \in DOMAIN input.files : Aligned(input.files[f])
  <2> DEFINE h == Attribute(input.read, input.files, input.hidden)
  <2>1. Remember(h)
    BY <1>3 DEF AttributeHistory
  <2>2. Selected /\ FilesOK(input.files) /\ ReadOK(input.read)
    BY <1>1 DEF AttributionInv, Selected
  <2>3. Fits(h, input.files)
    BY <1>3, <2>2, AttributeFits
  <2> HIDE DEF h
  <2>4. input'.history.given /\ Accepts(input'.history, Files', input'.blocks) /\ Selected'
    BY <1>1, <2>1, <2>2, <2>3, BindFits DEF Remember
  <2>5. Remembered'
    BY <1>3, <2>1, <2>2 DEF Remember, Remembered, h
  <2>6. QED
    BY <2>4, <2>5 DEF AttributionInv, Fitting
<1>4. CASE ~Reusable /\ ~ \A f \in DOMAIN input.files : Aligned(input.files[f])
  <2>1. UNCHANGED <<input, cache>> /\ pc' = "refused"
    BY <1>4 DEF AttributeHistory
  <2>2. QED
    BY <2>1 DEF AttributionInv, Selected, Fitting, Remembered, Files
<1>5. QED
  BY <1>2, <1>3, <1>4

\* A step that changes neither the input nor what is kept keeps both.
LEMMA AttributionKept ==
  ASSUME AttributionInv, UNCHANGED <<input, cache>>, pc' = "prepare" => pc = "prepare"
  PROVE  AttributionInv'
BY DEF AttributionInv, Selected, Fitting, Remembered, Files

\* Every step keeps the invariant of the attribution.
LEMMA AttributionStep == AttributionInv /\ [FlowNext]_all => AttributionInv'
<1> SUFFICES ASSUME AttributionInv, [FlowNext]_all PROVE AttributionInv'
  OBVIOUS
<1>1. ASSUME AttributeHistory PROVE AttributionInv'
  BY <1>1, AttributeKeeps
<1>2. ASSUME Regenerate PROVE AttributionInv'
  <2>1. input' \in Inputs /\ pc' = "begin" /\ UNCHANGED cache
    BY <1>2 DEF Regenerate, flow
  <2>2. Selected' /\ (input'.collect => ~input'.history.given)
    BY <2>1, CollectedOK, InputsOK DEF Selected, Files
  <2>3. QED
    BY <2>1, <2>2 DEF AttributionInv, Fitting, Remembered
<1>3. ASSUME ~Collecting, Begin, UNCHANGED flow PROVE AttributionInv'
  <2>1. UNCHANGED <<input, cache>> /\ (input.collect => input.history.given)
    BY <1>3 DEF Begin, Collecting, flow
  <2>2. QED
    BY <2>1 DEF AttributionInv, Selected, Fitting, Remembered, Files
<1>4. ASSUME Unprepared \/ AttributionStops \/ Deliver \/ Ended PROVE AttributionInv'
  BY <1>4, AttributionKept DEF Unprepared, AttributionStops, Deliver, Ended, all, vars, flow
<1>5. ASSUME UNCHANGED flow, Prepare \/ Invoke \/ ChatFails \/ RefuseAnswer PROVE AttributionInv'
  BY <1>5, AttributionKept DEF Prepare, Invoke, ChatFails, RefuseAnswer, Fail, Ask, flow
<1>6. ASSUME UNCHANGED flow, Grouping \/ Category \/ Text PROVE AttributionInv'
  BY <1>6, AttributionKept DEF Grouping, Category, Text, Answered, Fail, Ask, flow
<1>7. ASSUME UNCHANGED flow, Finish \/ Return \/ Expire PROVE AttributionInv'
  BY <1>7, AttributionKept DEF Finish, Return, Expire, Fail, flow
<1>8. CASE UNCHANGED all
  BY <1>8, AttributionKept DEF all, vars, flow
<1>9. QED
  BY <1>1, <1>2, <1>3, <1>4, <1>5, <1>6, <1>7, <1>8 DEF FlowNext

\* The input, its history and the history that is kept belong together throughout.
THEOREM AttributionInvariant == FlowSpec => []AttributionInv
BY AttributionInit, AttributionStep, PTL DEF FlowSpec

\* A block is matched only if that is the whole story: whatever was read, in
\* whatever order, one operation holds the block and no other one touches it.
THEOREM MatchesUnique == FlowSpec => []MatchedIsUnique
<1>1. AttributionInv => MatchedIsUnique
  BY RememberedUnique DEF AttributionInv
<1>2. QED
  BY AttributionInvariant, <1>1, PTL

\* The generator never refuses a history that this program attributed, a new one
\* or one that was kept for another plan.
THEOREM HistoryFitting == FlowSpec => []HistoryFits
<1>1. AttributionInv => HistoryFits
  BY DEF AttributionInv, Fitting, HistoryFits
<1>2. QED
  BY AttributionInvariant, <1>1, PTL
=============================================================================
