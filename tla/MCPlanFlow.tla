----------------------------- MODULE MCPlanFlow -----------------------------
(* Small instances of PlanFlow: histories given to the generator, every     *)
(* short diff without history, and a few diffs with many histories.         *)
EXTENDS PlanFlow, TLC

MCTypes == {"feat"}
NoHistory == [given |-> FALSE]
Plain == [doc |-> <<1, 2>>, plain |-> TRUE, usable |-> TRUE,
          blocks |-> {<<1, 1>>, <<2, 1>>}, host |-> <<>>, history |-> NoHistory,
          unsafe |-> {}, collect |-> FALSE, again |-> FALSE]
Witness(id, files) == [id |-> id, named |-> id # "none", files |-> files]

-----------------------------------------------------------------------------
(* Inputs of the generator                                                  *)

\* Documents and host evidence, without history.
Documents ==
  {[Plain EXCEPT !.doc = d, !.blocks = @ \cap (Range(d) \X {1})] :
     d \in {<<>>, <<1>>, <<1, 1>>, <<2, 1>>, <<4, 3, 2, 1>>}}
  \cup {[Plain EXCEPT !.plain = FALSE], [Plain EXCEPT !.usable = FALSE],
        [Plain EXCEPT !.doc = <<3, 1, 2>>, !.host = <<Witness("e1", <<2, 3>>)>>]}
Evidence ==
  {[Plain EXCEPT !.host = e] :
     e \in {<<Witness("e1", <<2>>)>>, <<Witness("e1", <<1>>), Witness("e2", <<1, 2>>)>>,
            <<Witness("e1", <<1>>), Witness("e1", <<2>>)>>, <<Witness("none", <<1>>)>>,
            <<Witness("e1", <<3>>)>>, <<Witness("e1", <<>>)>>}}

\* Histories: one block of each file, found in one context, two or none.
Match(status, cands) ==
  [status |-> status, reasons |-> IF status = "matched" THEN {} ELSE {"found"},
   cands |-> cands, omitted |-> {}]
Blocks == {Match("matched", "c1" :> "exact"),
           Match("ambiguous", "c1" :> "exact" @@ "c2" :> "partial"),
           Match("unmatched", <<>>)}
Command(id, ref) == [id |-> id, ref |-> ref, files |-> {1}]
Histories ==
  {[given |-> TRUE, acquisition |-> a, contexts |-> <<"c1", "c2">>,
    commands |-> {Command("x1", "c1"), Command("x2", "c2")},
    files |-> [f \in 1..2 |-> [current |-> f = 1 \/ fresh,
                               blocks |-> (<<f, 1>> :> IF f = 1 THEN b ELSE bb)]]] :
     a \in {"complete", "partial"}, fresh \in BOOLEAN, b \in Blocks, bb \in Blocks}
WithHistory ==
  {[Plain EXCEPT !.history = h, !.unsafe = u] :
     h \in Histories, u \in {{}, {"c1"}, {"c2", "x1"}}}

-----------------------------------------------------------------------------
(* Diffs                                                                     *)

Del == Line("-", "a")
Add == Line("+", "b")
Same == Line(" ", "c")
Heads(ks) == [i \in DOMAIN ks |-> Header(ks[i])]
Counted(body) ==
  <<Hunk(Len(SelectSeq(body, LAMBDA l : l.k \in {" ", "-"})),
         Len(SelectSeq(body, LAMBDA l : l.k \in {" ", "+"})))>> \o body
Update(body) == Heads(<<"git", "index", "names">>) \o Counted(body)

\* Hunks of up to three lines, the last of each side perhaps without newline.
Bodies ==
  LET lines == UNION {[1..n -> {Del, Add, Same}] : n \in 1..3}
      marked(b, S) == FlattenSeq([i \in DOMAIN b |-> IF i \in S THEN <<b[i], Eof>> ELSE <<b[i]>>])
      last(b, ks) == {i \in DOMAIN b : b[i].k \in ks /\ \A j \in DOMAIN b : j > i => b[j].k \notin ks}
  IN  UNION {{marked(c, S) : S \in SUBSET (last(c, {" ", "-"}) \cup last(c, {" ", "+"}))} :
               c \in lines}
HunkHeads == {<<>>, <<"git", "index", "names">>, <<"git", "created", "index", "names">>,
              <<"git", "mode", "index", "names">>}
RenameHeads == {<<"git", "alike", "rename", "index", "names">>,
                <<"git", "mode", "alike", "rename", "index", "names">>}
HunklessHeads == {<<"git", "mode">>, <<"git", "created", "index">>}
SimilarHeads == {<<"git", "similar", "rename">>, <<"git", "mode", "similar", "rename">>}

File(kind, diff) ==
  [text |-> TRUE, path |-> 1, old |-> IF kind = "rename" THEN 2 ELSE 0, kind |-> kind, diff |-> diff]
Diffs ==
  {File("update", Heads(h) \o Counted(b)) : h \in {<<"git", "index", "names">>}, b \in Bodies}
  \cup {File("update", Heads(h) \o Counted(b)) : h \in HunkHeads, b \in {<<Add>>, <<Del, Add, Eof>>}}
  \cup {File("update", Heads(<<"git", "index", "names">>) \o Counted(b) \o Counted(c)) :
          b \in {<<Add>>, <<Del, Add>>, <<Same, Add>>}, c \in {<<Add>>, <<Del, Add, Eof>>}}
  \cup {File("rename", Heads(h) \o Counted(b)) : h \in RenameHeads, b \in {<<Add>>, <<Del, Add>>}}
  \cup {File("update", Heads(h)) : h \in HunklessHeads}
  \cup {File("rename", Heads(h)) : h \in SimilarHeads}
  \cup {[File("update", <<>>) EXCEPT !.text = FALSE], File("update", <<Hunk(0, 0)>>)}

NoRead == [status |-> "unavailable", error |-> "history_unavailable", stalled |-> FALSE,
           ops |-> {}, turns |-> {}]
Collect(files, read) ==
  [doc |-> [i \in 1..Cardinality(DOMAIN files) |-> i], plain |-> TRUE, usable |-> TRUE,
   blocks |-> {}, host |-> <<>>, history |-> NoHistory, unsafe |-> {}, collect |-> TRUE,
   again |-> FALSE, files |-> files, hidden |-> {}, read |-> read]
WithoutHistory == {Collect(<<f>>, NoRead) : f \in Diffs}

-----------------------------------------------------------------------------
(* Histories that were read                                                  *)

Op(turn, order, kind, diff) ==
  [turn |-> turn, item |-> order, n |-> 0, order |-> order, path |-> 1, old |-> 0,
   kind |-> kind, has |-> TRUE, diff |-> diff, safe |-> TRUE]
Changed == <<Line("-", "a"), Line("+", "b")>>
EditShapes ==
  LET op == Op("t1", 1, "update", Update(Changed))
  IN  {op,
       [op EXCEPT !.diff = Update(Changed \o <<Same>> \o Changed)],
       [op EXCEPT !.diff = Update(Changed \o <<Same, Line("+", "b")>>)],
       [op EXCEPT !.diff = Update(<<Line("-", "a"), Line("+", "c")>>)],
       [op EXCEPT !.diff = Update(<<Line("-", "c"), Line("+", "b")>>)],
       [op EXCEPT !.diff = <<Hunk(2, 1)>> \o Changed],
       [op EXCEPT !.has = FALSE], [op EXCEPT !.safe = FALSE],
       [op EXCEPT !.path = 3],
       [op EXCEPT !.kind = "rename", !.old = 2],
       [op EXCEPT !.kind = "add", !.diff = <<Line("+", "b")>>]}
Second == {[o EXCEPT !.turn = "t1", !.order = 2, !.item = 2] : o \in EditShapes}
          \cup {[o EXCEPT !.turn = "t2"] : o \in EditShapes}
RenameShapes ==
  LET op == [Op("t1", 1, "rename", <<>>) EXCEPT !.old = 2]
  IN  {op, [op EXCEPT !.diff = Update(Changed)], [op EXCEPT !.path = 3],
       [op EXCEPT !.kind = "update", !.diff = Update(Changed)], [op EXCEPT !.path = 4, !.turn = "t2"]}

Spoken(id, status, final, commands) ==
  [id |-> id, status |-> status, final |-> final, commands |-> commands]
Ran(id, paths) == [id |-> id, safe |-> TRUE, mentions |-> paths]
Ended2 == {Spoken("t1", "completed", "safe", {}), Spoken("t2", "failed", "safe", {})}
Turns1 ==
  {{Spoken("t1", s, f, {})} : s \in {"completed", "inProgress", "other"}, f \in {"safe", "none"}}
  \cup {{Spoken("t1", "completed", f, {Ran("x1", {1}), Ran("x2", {3})}),
         Spoken("t2", "completed", "safe", {Ran("x3", {1, 3}), [Ran("x4", {1}) EXCEPT !.safe = FALSE]})} :
          f \in {"safe", "unsafe"}}
Read(ops, turns) ==
  [status |-> "complete", error |-> "none", stalled |-> FALSE, ops |-> ops, turns |-> turns]
Reads1 ==
  {Read({o}, t) : o \in EditShapes, t \in Turns1}
  \cup {[Read({o}, Ended2) EXCEPT !.status = "partial", !.error = e] :
          o \in EditShapes, e \in {"history_incomplete", "history_parse_failed"}}
  \cup {[Read({o}, Ended2) EXCEPT !.stalled = TRUE, !.status = "partial",
                                  !.error = "history_unavailable"] : o \in EditShapes}
Reads2 == {Read({o, p}, Ended2) : o \in EditShapes, p \in Second}

Edited == File("update", Update(Changed))
WithReads ==
  {Collect(<<Edited>>, r) : r \in Reads1 \cup Reads2}
  \cup {Collect(<<File("update", Update(<<Line("+", "b"), Line("+", "d")>>))>>, Read(ops, Ended2)) :
          ops \in {{Op("t1", 1, "add", <<Line("+", "b")>>),
                    [Op("t2", 1, "update", Update(<<Line("+", "d")>>)) EXCEPT !.path = p]} : p \in {1, 3}}}
  \cup {Collect(<<File("rename", d)>>, Read(ops, Ended2)) :
          d \in {Heads(<<"git", "similar", "rename">>),
                 Heads(<<"git", "alike", "rename", "index", "names">>) \o Counted(Changed)},
          ops \in {{o} : o \in RenameShapes} \cup {{o, p} : o \in RenameShapes, p \in RenameShapes}}
  \cup {[Collect(<<Edited>>, Read({o}, Ended2)) EXCEPT !.hidden = h] :
          o \in EditShapes, h \in {{1}, {2}}}

\* Two files that were one block of the history.
Split ==
  {Collect(<<File("update", Update(<<Line("+", "b")>>)),
             [File("update", Update(<<Line("+", "d")>>)) EXCEPT !.path = 3]>>, Read({o}, Ended2)) :
     o \in {Op("t1", 1, "add", <<Line("+", "b"), Line("+", "d")>>),
            Op("t1", 1, "add", <<Line("+", "b")>>)}}

\* One run that asks for a plan again, for the same files or others.
Regenerated ==
  {[Collect(fs, Read({Op("t1", 1, "update", Update(Changed))}, Ended2)) EXCEPT !.again = TRUE] :
     fs \in {<<Edited>>, <<File("update", Update(<<Add>>))>>}}

MCInputs == Documents \cup Evidence \cup WithHistory \cup WithoutHistory \cup WithReads
            \cup Split \cup Regenerated
=============================================================================
