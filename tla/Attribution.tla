---------------------------- MODULE Attribution ----------------------------
(***************************************************************************)
(* Which agent turn wrote which block of the diff: Collect and attribute   *)
(* (internal/historyattribution/pipeline.go) over compare (model.go), the  *)
(* marks of split and merged blocks (mapping.go) and the commands that     *)
(* mention a file (commands.go).                                           *)
(*                                                                         *)
(* The history that was read is [status, error, stalled, ops, turns]; an   *)
(* operation [turn, item, n, order, path, old, kind, has, diff, safe] is a *)
(* completed change of a path; has: its diff was recorded.  A turn is      *)
(* [id, status, final, commands].  The thread is part of the turn.  A path *)
(* is a number, 0 stands for none, and "hidden" holds the paths whose      *)
(* content must not be read.  A context is named by its turn.              *)
(***************************************************************************)
EXTENDS PhaseHistory, DiffBlocks

When(condition, S) == IF condition THEN S ELSE {}

-----------------------------------------------------------------------------
(* The operations that may be evidence                                     *)

Paths(x) == {x.path, x.old} \ {0}
Readable(op, hidden) == Paths(op) \cap hidden = {} /\ (op.has => op.safe)

\* Mutant: what is left out is forgotten.
RetainQuietly(h, hidden) == [h EXCEPT !.ops = {op \in @ : Readable(op, hidden)}]

\* What cannot be evidence is left out, and the history is then incomplete.
Retain(h, hidden) ==
  LET kept == {op \in h.ops : Readable(op, hidden)}
  IN  [h EXCEPT !.ops = kept, !.status = IF kept = h.ops THEN @ ELSE "partial"]

\* The operations with the blocks of their diffs.
WithBlocks(op) ==
  [x \in DOMAIN op \cup {"parsed"} |->
     IF x # "parsed" THEN op[x]
     ELSE IF op.has THEN ComparisonBlocks(op.kind, op.diff, op.old) ELSE NoBlocks]
Parsed(ops) == {WithBlocks(op) : op \in ops}
OpBlocks(op) == op.parsed

\* Operations on the path of the file, before or after a rename of either.
Relevant(op, f) ==
  \/ op.path = f.path
  \/ f.old # 0 /\ (op.path = f.old \/ op.old = f.old)
  \/ op.old # 0 /\ op.old = f.path

-----------------------------------------------------------------------------
(* compare: one block against the operations                               *)

Overlaps(a, b) == \E i \in DOMAIN a : a[i].k # "eof" /\ Contains(b, a[i])
Positions(op, b) == {i \in DOMAIN OpBlocks(op).blocks : OpBlocks(op).blocks[i] = b}
Touches(op, b) == \E i \in DOMAIN OpBlocks(op).blocks \ Positions(op, b) :
                    Overlaps(b, OpBlocks(op).blocks[i])

\* The texts of one side of a block (blockSide).
Side(b, sign) ==
  LET own == SelectSeq(b, LAMBDA l : l.k = sign \/ (l.k = "eof" /\ l.t = sign))
  IN  [i \in DOMAIN own |-> IF own[i].k = "eof" THEN "EOF" ELSE own[i].t]

\* A rewriting chain inside one turn: old to middle, then middle to new.
Rewritten(b, f, ops) ==
  /\ Side(b, "-") # <<>> /\ Side(b, "+") # <<>>
  /\ \E first, last \in {op \in ops : op.path = f.path /\ OpBlocks(op).ok} :
       /\ first.turn = last.turn /\ first.order < last.order
       /\ \E i \in DOMAIN OpBlocks(first).blocks, j \in DOMAIN OpBlocks(last).blocks :
            LET x == OpBlocks(first).blocks[i]
                y == OpBlocks(last).blocks[j]
            IN  /\ Side(x, "+") # <<>> /\ Side(x, "+") = Side(y, "-")
                /\ Side(x, "-") = Side(b, "-") /\ Side(y, "+") = Side(b, "+")

\* Whether the contents of an operation and of a file may be compared.
Comparable(op, f) ==
  IF f.kind = "rename" THEN op.kind = "rename" /\ op.path = f.path /\ op.old = f.old
                       ELSE op.kind # "rename"
MoveReason(op, f, ops) ==
  LET ends == {o.path : o \in {o \in ops : OpBlocks(o).ok /\ o.kind = "rename" /\ o.old = f.old}}
  IN  IF /\ f.kind = "rename" /\ op.kind = "rename" /\ op.old = f.old
         /\ op.path # f.path /\ Cardinality(ends) > 1
      THEN "rename_multiple_candidates" ELSE "rename_unresolved"

Verdict(reasons, unparsed, cands, exact) ==
  CASE reasons # {} /\ unparsed -> "error"
    [] reasons # {} /\ ~unparsed -> "ambiguous"
    [] reasons = {} -> IF Cardinality(cands) = 1 /\ Cardinality(exact) = 1
                       THEN "matched" ELSE "unmatched"

Compare(b, f, blocks, ops, status) ==
  LET rename  == f.kind = "rename"
      about   == {op \in ops : Relevant(op, f)}
      unknown == {op \in about : ~OpBlocks(op).ok}
      same    == {op \in about \ unknown : Comparable(op, f)}
      exact   == {op \in same : Positions(op, b) # {}}
      partial == {op \in same : Touches(op, b)}
      found   ==
        When(unknown # {}, {IF rename THEN "rename_unresolved" ELSE "history_parse_failed"})
        \cup {MoveReason(op, f, ops) : op \in (about \ unknown) \ same}
        \cup When(partial \ exact # {}, {"partial_match"})
        \cup When(\E op \in exact : Cardinality(Positions(op, b)) > 1, {"overlapping_candidates"})
        \cup When(exact = {} /\ Rewritten(b, f, ops), {"history_superseded_or_rewritten"})
        \cup When(Cardinality(exact) > 1,
                  {IF rename THEN "rename_multiple_candidates" ELSE "multiple_history_candidates"})
        \cup When(Cardinality({i \in DOMAIN blocks : blocks[i] = b}) > 1,
                  {"overlapping_candidates"})
      reasons == found \cup When(rename /\ exact = {} /\ found = {}, {"rename_unresolved"})
                       \cup When(status # "complete", {"history_incomplete"})
      cands   == exact \cup partial
  IN  [reasons |-> reasons,
       cands   |-> {[op |-> op, exact |-> op \in exact] : op \in cands},
       status  |-> Verdict(reasons, unknown # {} /\ ~rename, cands, exact)]

-----------------------------------------------------------------------------
(* Blocks that were split over files or merged from several                *)

ContentOf(b) == SelectSeq(b, LAMBDA l : l.k # "eof")
Fragments(path, of, blocks) ==
  {[path |-> path, of |-> of, lines |-> ContentOf(blocks[i]), n |-> i] :
     i \in {i \in DOMAIN blocks :
              ContentOf(blocks[i]) # <<>> /\ Cardinality({l.k : l \in Range(ContentOf(blocks[i]))}) = 1}}

Starts(whole, part) ==
  {s \in 1..(Len(whole) - Len(part) + 1) : SubSeq(whole, s, s + Len(part) - 1) = part}
\* Two fragments of other paths lie side by side in a whole, where they first occur.
Apart(whole, p, q) ==
  LET first(x) == CHOOSE s \in Starts(whole, x) : \A t \in Starts(whole, x) : s <= t
  IN  /\ p.path # q.path /\ Starts(whole, p.lines) # {} /\ Starts(whole, q.lines) # {}
      /\ \/ first(p.lines) + Len(p.lines) <= first(q.lines)
         \/ first(q.lines) + Len(q.lines) <= first(p.lines)

CurrentFragments(files, blocks) ==
  UNION {Fragments(files[f].path, f, blocks[f]) :
           f \in {g \in DOMAIN blocks : files[g].kind # "rename"}}
HistoryFragments(ops) ==
  UNION {Fragments(op.path, op, OpBlocks(op).blocks) :
           op \in {o \in ops : o.kind # "rename" /\ OpBlocks(o).ok}}

\* The operations that mark the block of a current fragment as uncertain.
Marks(c, current, history) ==
  {h.of : h \in {h \in history :
     \/ \E d \in current : Apart(h.lines, c, d)
     \/ \E g \in history : Apart(c.lines, h, g)}}

Mark(r, ops) ==
  IF r.status = "error" \/ ops = {} THEN r
  ELSE [reasons |-> r.reasons \cup {"split_merge_mapping_uncertain"}, status |-> "ambiguous",
        cands |-> r.cands \cup {[op |-> op, exact |-> FALSE] : op \in ops}]

-----------------------------------------------------------------------------
(* attribute: from operations to contexts                                  *)

HasTurn(id, h) == \E t \in h.turns : t.id = id
Turn(id, h) == CHOOSE t \in h.turns : t.id = id
Speaks(id, h) == Turn(id, h).final = "safe"   \* safeFinalResponses

MatchOf(c, b, empty) ==
  CASE Positions(c.op, b) # {} /\ Touches(c.op, b) -> "exact_and_partial"
    [] ~(Positions(c.op, b) # {} /\ Touches(c.op, b)) /\ c.exact /\ ~empty -> "exact"
    [] OTHER -> "partial"

\* The edits of a turn become one candidate, and a match stays one only if its
\* turn is known, has ended, and ended with words that may be sent.
Contextual(b, r, f, h) ==
  LET empty   == f.kind = "rename" /\ b = <<>>
      turns   == {c.op.turn : c \in r.cands}
      known   == {t \in turns : HasTurn(t, h)}
      ended   == {t \in known : Turn(t, h).status \in {"completed", "interrupted", "failed"}}
      active  == {t \in known : Turn(t, h).status = "inProgress"}
      broken  == h.error = "history_parse_failed" \/ known # turns \/ ended \cup active # known
      spoken  == {t \in known : Speaks(t, h)}
      kinds(t) == {MatchOf(c, b, empty) : c \in {c \in r.cands : c.op.turn = t}}
      cands   == [t \in spoken |-> IF Cardinality(kinds(t)) = 1 THEN CHOOSE k \in kinds(t) : TRUE
                                   ELSE "exact_and_partial"]
      omitted == When(spoken # known, {"candidate_context_omitted"})
      status  == CASE broken \/ r.status = "error" -> "error"
                   [] ~broken /\ r.status # "error"
                      /\ (active # {} \/ (empty /\ r.cands # {})) -> "ambiguous"
                   [] OTHER -> r.status
      shaken  == status = "matched" /\ ~(Cardinality(spoken) = 1 /\ Range(cands) = {"exact"})
  IN  [status  |-> IF shaken THEN "ambiguous" ELSE status, cands |-> cands, omitted |-> omitted,
       reasons |-> r.reasons
         \cup When(empty /\ r.cands # {}, {"rename_content_unverified"})
         \cup When(broken, {"history_parse_failed"})
         \cup When(active # {}, {"history_incomplete"})
         \cup When(shaken, IF omitted = {} THEN {"partial_match"} ELSE omitted)]

Acquired(h) ==
  When(h.status = "unavailable", {"history_unavailable"})
  \cup When(h.status = "partial", {"history_incomplete"})
  \cup ({h.error} \ {"none"})

AttributedBlock(b, r, f, h, hidden) ==
  CASE h.status = "unavailable" ->
         [status |-> "error", reasons |-> Acquired(h), cands |-> <<>>, omitted |-> {}]
    [] h.status # "unavailable" /\ f.path \in hidden ->
         [status |-> "error", reasons |-> {"history_unavailable"}, cands |-> <<>>, omitted |-> {}]
    [] OTHER -> Contextual(b, r, f, h)

\* appendCommandContexts: what ran in the turns and mentions a selected file.
Commands(files, h, hidden) ==
  {x \in UNION {{[id |-> c.id, ref |-> t.id,
                  files |-> {f \in DOMAIN files : (Paths(files[f]) \ hidden) \cap c.mentions # {}}] :
                   c \in {c \in t.commands : c.safe /\ t.final = "safe"}} : t \in h.turns} :
     x.files # {}}

\* A stalled service adds nothing, and nothing is asked for hidden files.
Collected(read, files, hidden) ==
  CASE UNION {Paths(files[f]) : f \in DOMAIN files} \subseteq hidden ->
         [read EXCEPT !.status = "complete", !.error = "none", !.ops = {}, !.turns = {}]
    [] OTHER -> IF read.stalled
                THEN [read EXCEPT !.status = "unavailable", !.ops = {}, !.turns = {}]
                ELSE read

\* Both parsers see the same blocks (else the history cannot be attributed).
Agree(projected, found) ==
  projected.ok /\ (projected.blocks # <<>> =>
                     found.ok /\ Len(found.blocks) = Len(projected.blocks))
Aligned(f) == Agree(ProjectedBlocks(f), ComparisonBlocks(f.kind, f.diff, f.old))

\* The blocks of the files that have some.
TextBlocks(files) ==
  [f \in {f \in DOMAIN files : ProjectedBlocks(files[f]).blocks # <<>>} |->
     ComparisonBlocks(files[f].kind, files[f].diff, files[f].old).blocks]

Attributed(blocks, files, h, hidden) ==
  LET current == CurrentFragments(files, blocks)
      history == HistoryFragments(h.ops)
      marks(f, n) == UNION {Marks(c, current, history) : c \in {c \in current : c.of = f /\ c.n = n}}
  IN  [f \in DOMAIN blocks |-> [n \in DOMAIN blocks[f] |->
         AttributedBlock(blocks[f][n],
           Mark(Compare(blocks[f][n], files[f], blocks[f], h.ops, h.status), marks(f, n)),
           files[f], h, hidden)]]

GroupingHistory(found, commands, files, status) ==
  [given |-> TRUE, acquisition |-> status, commands |-> commands,
   contexts |-> SetToSeq((UNION {UNION {DOMAIN found[f][n].cands : n \in DOMAIN found[f]} :
                                   f \in DOMAIN found})
                         \cup {c.ref : c \in commands}),
   files |-> [f \in DOMAIN found |->
                [diff |-> files[f].diff,
                 blocks |-> [b \in {<<f, n>> : n \in DOMAIN found[f]} |-> found[f][b[2]]]]]]

Attribute(read, files, hidden) ==
  LET all == Collected(read, files, hidden)
      h   == Retain(all, hidden)
  IN  GroupingHistory(Attributed(TextBlocks(files), files, [h EXCEPT !.ops = Parsed(@)], hidden),
                      Commands(files, all, hidden), files, h.status)
=============================================================================
