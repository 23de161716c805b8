----------------------------- MODULE MCStartup ------------------------------
(* Scenarios of Startup: configuration layers, command lines, overlapping   *)
(* initializations, and sequences of runs around the update check.          *)
EXTENDS Startup

MCRunCodes == {Success, LLM}
MCDrafts == {Table("push.confirm" :> "false"), Table("llm.endpoint" :> "none")}

\* The files of a user who has set up everything.
CleanDisk ==
  [git |-> "repo", ignore |-> [state |-> "file", lines |-> <<"typed">>],
   global |-> Absent, repo |-> Absent, trust |-> TRUE, model |-> TRUE,
   cache |-> [state |-> "absent", at |-> 0, latest |-> 0],
   metrics |-> <<>>, commits |-> 0]
Host == [interactive |-> TRUE, identity |-> TRUE, platform |-> TRUE,
         helper |-> TRUE, probe |-> "ok"]
Quiet == [overlap |-> FALSE, lines |-> <<>>, disk |-> CleanDisk, host |-> Host,
          current |-> 1, released |-> 2, budget |-> 0,
          edits |-> FALSE, days |-> 0]
Alone(line) == 1 :> line

Pin(model, revision) ==
  "llm.model" :> model @@ "llm.model_revision" :> revision
Planner(name) == "llm.planner" :> name
Globals ==
  {Absent, Broken, Template("global")} \cup
  {Table(t) : t \in
    {<<>>, "push.confirm" :> "false", "metrics.persist" :> "true",
     Planner("three-phase"), Planner("three-phase") @@ Pin("qwen", "0e7f"),
     Planner("three-phase") @@ "llm.model" :> "qwen", Pin("qwen", "0e7f"),
     "verification.autodetect" :> "false", "llm.endpoint" :> "none",
     "commit.language" :> "mistyped"}}
Repos ==
  {Absent, Broken, Template("repo")} \cup
  {Table(t) : t \in
    {"push.confirm" :> "false", "metrics.persist" :> "true",
     Planner("single-pass"), Pin("qwen", "0e7f"), "llm.model" :> "gemma",
     Planner("three-phase") @@ Pin("gemma", "475b"), "llm.context" :> "8k",
     "verification.timeout_seconds" :> "not positive",
     "verification.commands" :> "inside", "verification.commands" :> "outside",
     "analysis.exclude" :> "escaping", "commit.language" :> "ja"}}
ConfigLines ==
  {<<"--dry-run">>, <<"--json", "--dry-run">>, <<"--model", "qwen", "config", "show">>,
   <<"--model", "other">>, <<"--model", "gemma", "--no-confirm-push">>,
   <<"--language", "fr">>, <<"--json", "doctor">>, <<"setup">>}
Layers ==
  {[Quiet EXCEPT !.lines = Alone(l), !.disk.global = g, !.disk.repo = r] :
     l \in ConfigLines, g \in Globals, r \in Repos}

Lined ==
  {<<"--json", "--help">>, <<"--json", "--unknown">>, <<"--model">>, <<"--", "--json">>,
   <<"src", "--dry-run", "--record-metrics">>, <<"version">>, <<"--json", "version">>,
   <<"--json", "version", "x">>, <<"--json", "init">>, <<"--json", "setup">>, <<"--json">>,
   <<"--json", "--dry-run", "--record-metrics">>, <<"setup">>, <<"doctor">>,
   <<"setup", "--update-model">>, <<"--json", "doctor">>, <<"config">>,
   <<"config", "show", "x">>, <<"--json", "config", "show">>,
   <<"config", "init", "--global">>, <<"config", "init", "--repo">>,
   <<"--json", "config", "path", "--repo">>, <<"config", "path", "--global">>,
   <<"--json", "trust", "list">>, <<"--json", "trust", "revoke", "r">>,
   <<"trust", "revoke", "r">>, <<"trust", "list", "r">>, <<"init", "--ignore">>}
Hosts ==
  {Host, [Host EXCEPT !.platform = FALSE], [Host EXCEPT !.helper = FALSE],
   [Host EXCEPT !.probe = "start"], [Host EXCEPT !.identity = FALSE]}
Words ==
  {[Quiet EXCEPT !.lines = Alone(l), !.host = h, !.disk.git = g, !.disk.model = m,
                 !.budget = 1] :
     l \in Lined, h \in Hosts, g \in {"repo", "none"}, m \in BOOLEAN}

InitLines ==
  {<<"init">>, <<"init", "--ignore", "x">>, <<"config", "init", "--repo">>,
   <<"init", "--ignore", "typed", "--ignore", "y", "--ignore", "y">>}
Ignores == {[state |-> "absent", lines |-> <<>>], [state |-> "file", lines |-> <<"typed">>],
            [state |-> "link", lines |-> <<>>]}
Inits ==
  {[Quiet EXCEPT !.lines = l, !.overlap = TRUE, !.disk.git = g, !.disk.ignore = i,
                 !.budget = 2, !.edits = TRUE] :
     l \in [1..2 -> InitLines], g \in {"repo", "none", "bare", "invalid"}, i \in Ignores}

RunLines == {<<>>, <<"--json", "--dry-run">>, <<"--dry-run", "--record-metrics">>}
Caches == {[state |-> "absent", at |-> 0, latest |-> 0],
           [state |-> "torn", at |-> 0, latest |-> 0],
           [state |-> "ok", at |-> 0, latest |-> 2]}
Checks ==
  {[Quiet EXCEPT !.lines = l, !.disk.cache = c, !.released = r, !.budget = 1,
                 !.days = 1] :
     l \in {<<x, <<"--dry-run">>, <<"--dry-run">>>> : x \in {<<>>, <<"--json", "--dry-run">>}},
     c \in Caches, r \in {0, 2}}
  \cup
  {[Quiet EXCEPT !.lines = l, !.overlap = TRUE, !.budget = 1] : l \in [1..2 -> RunLines]}

MCScenarios == Layers \cup Words \cup Inits \cup Checks
=============================================================================
