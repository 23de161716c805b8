----------------------------- MODULE DiffBlocks -----------------------------
(***************************************************************************)
(* The change blocks of a diff, found twice: by the planner that sends     *)
(* them to the model (parseGroupingBlocks, internal/planning) and by the   *)
(* attribution that looks for them in agent history (parseBlocks and       *)
(* comparisonBlocks, internal/historyattribution).                         *)
(*                                                                         *)
(* A diff is a sequence of lines.  A line is a header of Git (its kind is  *)
(* all that matters), a hunk header with its two counts, or a context,     *)
(* removed or added line with a text; "eof" is the mark of a last line     *)
(* without newline.                                                        *)
(***************************************************************************)
EXTENDS Integers, Sequences, SequencesExt

Header(k) == [k |-> k]
Hunk(old, new) == [k |-> "@@", old |-> old, new |-> new]
Line(k, t) == [k |-> k, t |-> t]
Eof == [k |-> "eof"]

\* "similar" is a similarity index of 100 %, "alike" a lower one.
Headers == {"git", "index", "names", "created", "similar", "alike", "rename", "mode"}
Metadata == {"mode", "created", "rename"}

Holds(diff, k) == \E i \in DOMAIN diff : diff[i].k = k

NoBlocks == [ok |-> FALSE, blocks |-> <<>>]
Found(blocks) == [ok |-> TRUE, blocks |-> blocks]

-----------------------------------------------------------------------------
(* What both parsers keep count of in a hunk                               *)

Whole(s) == s.old = 0 /\ s.new = 0
Fails(s) == [s EXCEPT !.ok = FALSE]
\* A line takes its share of the hunk, which must not be exceeded.
Take(s, l) ==
  LET old == s.old - IF l.k \in {" ", "-"} THEN 1 ELSE 0
      new == s.new - IF l.k \in {" ", "+"} THEN 1 ELSE 0
  IN  [s EXCEPT !.old = old, !.new = new, !.last = l.k, !.ok = old >= 0 /\ new >= 0]

-----------------------------------------------------------------------------
(* parseBlocks: a block is a sequence of changed lines                     *)

Flush(s) == IF s.active = <<>> THEN s
            ELSE [s EXCEPT !.blocks = Append(@, s.active), !.active = <<>>]

BlockStep(s, l) ==
  LET r == IF s.hunk /\ l.k = "git" THEN [Flush(s) EXCEPT !.hunk = FALSE] ELSE s
  IN  IF ~s.ok THEN s
      ELSE IF s.hunk /\ l.k \in {"git", "@@"} /\ ~Whole(s) THEN Fails(s)
      ELSE
        CASE l.k = "@@" -> [Flush(r) EXCEPT !.hunk = TRUE, !.old = l.old, !.new = l.new, !.last = ""]
        [] l.k # "@@" /\ ~r.hunk -> IF l.k \in Headers THEN r ELSE Fails(r)
        [] l.k = "eof" /\ r.hunk ->
             IF r.last = "" THEN Fails(r)
             ELSE IF r.last = " " THEN r
             ELSE [r EXCEPT !.active = Append(@, [k |-> "eof", t |-> r.last])]
        [] l.k = " " /\ r.hunk -> Take(Flush(r), l)
        [] l.k \in {"-", "+"} /\ r.hunk -> Take([r EXCEPT !.active = Append(@, l)], l)
        [] OTHER -> Fails(r)

\* The parser after all lines.
BlockRun(diff) ==
  LET run[n \in 0 .. Len(diff)] ==
        IF n = 0 THEN [ok |-> TRUE, blocks |-> <<>>, active |-> <<>>, old |-> 0, new |-> 0,
                       hunk |-> FALSE, last |-> ""]
                 ELSE BlockStep(run[n - 1], diff[n])
  IN  run[Len(diff)]

UpdateBlocks(diff) ==
  LET s == BlockRun(diff)
  IN  IF s.ok /\ s.hunk /\ Whole(s) THEN Found(Flush(s).blocks) ELSE NoBlocks

\* The diff of an added or deleted file is its content.
ContentBlocks(sign, diff) ==
  Found(IF diff = <<>> THEN <<>>
        ELSE <<[i \in DOMAIN diff |-> IF diff[i] = Eof THEN [k |-> "eof", t |-> sign]
                                      ELSE Line(sign, diff[i].t)]>>)

ParseBlocks(kind, diff) ==
  CASE kind = "add" -> ContentBlocks("+", diff)
    [] kind = "delete" -> ContentBlocks("-", diff)
    [] kind = "update" -> UpdateBlocks(diff)
    [] OTHER -> NoBlocks

\* comparisonBlocks: a rename needs both its ends.  Without a hunk it is one
\* block with no lines, if nothing but the rename is in the diff.
OnlyRenamed(diff) ==
  \/ diff = <<>>
  \/ /\ Holds(diff, "similar") /\ ~Holds(diff, "@@")
     /\ \A i \in DOMAIN diff : diff[i].k \in {"git", "similar", "rename"}
ComparisonBlocks(kind, diff, old) ==
  CASE kind = "rename" /\ old = 0 -> NoBlocks
    [] kind = "rename" /\ old # 0 /\ OnlyRenamed(diff) -> Found(<<<<>>>>)
    [] OTHER -> ParseBlocks(IF kind = "rename" THEN "update" ELSE kind, diff)

-----------------------------------------------------------------------------
(* parseGroupingBlocks: a block is the range of its lines in the diff      *)

Close(s) == IF s.start = 0 THEN s
            ELSE [s EXCEPT !.blocks = Append(@, <<s.start, s.end>>), !.start = 0, !.end = 0]

GroupingStep(s, l, n) ==
  LET r == IF s.hunk /\ l.k = "git" THEN [Close(s) EXCEPT !.hunk = FALSE] ELSE s
      changed == [r EXCEPT !.start = IF @ = 0 THEN n ELSE @, !.end = n]
  IN  IF ~s.ok THEN s
      ELSE IF s.hunk /\ l.k \in {"git", "@@"} /\ ~Whole(s) THEN Fails(s)
      ELSE
        CASE l.k = "@@" -> [Close(r) EXCEPT !.hunk = TRUE, !.saw = TRUE, !.old = l.old,
                                          !.new = l.new, !.last = ""]
        [] l.k # "@@" /\ ~r.hunk ->
             IF l.k \in Headers THEN [r EXCEPT !.meta = @ \/ l.k \in Metadata] ELSE Fails(r)
        [] l.k = "eof" /\ r.hunk ->
             IF r.last \in {"", "eof"} THEN Fails(r)
             ELSE [r EXCEPT !.end = IF r.start > 0 /\ r.last # " " THEN n ELSE @,
                            !.last = "eof"]
        [] l.k = " " /\ r.hunk -> Take(Close(r), l)
        [] l.k \in {"-", "+"} /\ r.hunk -> Take(changed, l)
        [] OTHER -> Fails(r)

GroupingRun(diff) ==
  LET run[n \in 0 .. Len(diff)] ==
        IF n = 0 THEN [ok |-> TRUE, blocks |-> <<>>, start |-> 0, end |-> 0, old |-> 0, new |-> 0,
                       hunk |-> FALSE, last |-> "", saw |-> FALSE, meta |-> FALSE]
                 ELSE GroupingStep(run[n - 1], diff[n], n)
  IN  run[Len(diff)]

GroupingBlocks(diff) ==
  LET s == GroupingRun(diff)
  IN  IF s.ok /\ (s.hunk => Whole(s)) /\ (s.saw \/ s.meta)
      THEN Found(Close(s).blocks) ELSE NoBlocks

\* groupingProjection: a file that is only metadata has no blocks; a rename
\* that keeps the content has one over its headers.
OrHeaders(g, file) ==
  IF /\ g.ok /\ g.blocks = <<>> /\ file.kind = "rename" /\ file.old # 0
     /\ Holds(file.diff, "similar") /\ ~Holds(file.diff, "@@")
  THEN Found(<<<<1, Len(file.diff)>>>>) ELSE g
ProjectedBlocks(file) ==
  IF file.text THEN OrHeaders(GroupingBlocks(file.diff), file) ELSE Found(<<>>)
=============================================================================
