---------------------------- MODULE CommandLine -----------------------------
(***************************************************************************)
(* The words of a command line and what they mean, internal/cli/cli.go.    *)
(* --model=m is written as the two words it stands for.                    *)
(***************************************************************************)
EXTENDS Naturals, Sequences, SequencesExt

\* Words of the command line.
Commands == {"init", "setup", "doctor", "config", "trust", "version"}
Switches == {"--json", "--dry-run", "--no-push", "--no-confirm-commit",
             "--no-confirm-push", "--record-metrics", "--help"}
ValueFlags == {"--language", "--model"}
Unknown == {"--unknown"}

NoOptions == [reading |-> "words", flags |-> {}, values |-> <<>>,
              command |-> "", args |-> <<>>, paths |-> <<>>]

ParseWord(o, w) ==
  CASE o.reading = "error" -> o
    [] o.reading = "args" -> [o EXCEPT !.args = Append(@, w)]
    [] o.reading = "paths" -> [o EXCEPT !.paths = Append(@, w)]
    [] o.reading \in ValueFlags ->
         [o EXCEPT !.values = (o.reading :> w) @@ @, !.reading = "words"]
    [] w = "--" -> [o EXCEPT !.reading = "paths"]
    [] w \in Commands -> [o EXCEPT !.command = w, !.reading = "args"]
    [] w \in Switches -> [o EXCEPT !.flags = @ \cup {w}]
    [] w \in ValueFlags -> [o EXCEPT !.reading = w]
    [] w \in Unknown -> [o EXCEPT !.reading = "error"]
    [] OTHER -> [o EXCEPT !.paths = Append(@, w)]

\* After all words; a value flag at the end has no value.
Parse(line) ==
  LET read[n \in 0 .. Len(line)] ==
        IF n = 0 THEN NoOptions ELSE ParseWord(read[n - 1], line[n])
      o == read[Len(line)]
  IN IF o.reading \in ValueFlags THEN [o EXCEPT !.reading = "error"] ELSE o

JSON(o) == "--json" \in o.flags
DryRun(o) == "--dry-run" \in o.flags
Command(o) == IF o.command \in {"config", "trust"} /\ o.args # <<>>
              THEN o.args[1] ELSE o.command
Of(o, command, sub) == o.command = command /\ Command(o) = sub

-----------------------------------------------------------------------------
\* Mutant: every trust command is taken for a read-only one.
JSONForTrust(o) ==
  JSON(o) => \/ o.command \in {"version", "doctor", "trust"}
             \/ Of(o, "config", "show") \/ Of(o, "config", "path")
             \/ (o.command = "" /\ DryRun(o))

\* validateJSONMode
JSONAllowed(o) ==
  JSON(o) => \/ o.command \in {"version", "doctor"}
             \/ Of(o, "config", "show") \/ Of(o, "config", "path")
             \/ Of(o, "trust", "list")
             \/ (o.command = "" /\ DryRun(o))

Targets == {<<"--global">>, <<"--repo">>}
Target(o) == IF o.args[2] = "--repo" THEN "repo" ELSE "global"

\* parseInitArgs: --ignore before every pattern.
InitArgs(args) ==
  /\ Len(args) % 2 = 0
  /\ \A i \in DOMAIN args : i % 2 = 1 => args[i] = "--ignore"
\* normalizeGitignorePatterns and missingGitignorePatterns: every pattern that
\* .gitignore does not have, once, at its first place.
Missing(args, lines) ==
  LET missing[n \in 0 .. Len(args)] ==
        IF n = 0 THEN <<>>
        ELSE IF args[n] \in {"--ignore"} \cup ToSet(lines) \cup ToSet(missing[n - 1])
             THEN missing[n - 1]
             ELSE Append(missing[n - 1], args[n])
  IN missing[Len(args)]

\* The arguments a command takes.
WellFormed(o) ==
  CASE o.command \in {"", "version", "doctor"} -> o.args = <<>>
    [] o.command = "init" -> InitArgs(o.args)
    [] o.command = "setup" -> o.args \in {<<>>, <<"--update-model">>}
    [] o.command = "config" ->
         \/ Command(o) = "show" /\ Tail(o.args) \in {<<>>, <<"--effective">>}
         \/ Command(o) \in {"init", "path"} /\ Tail(o.args) \in Targets
    [] o.command = "trust" ->
         \/ Command(o) = "list" /\ Len(o.args) = 1
         \/ Command(o) = "revoke" /\ Len(o.args) = 2
    [] OTHER -> FALSE

\* overrides: the keys that flags set, and to what; setup and doctor take the
\* model only.
FlagKeys == {"llm.model", "commit.language", "commit.confirm", "push.enabled",
             "push.confirm", "metrics.persist"}
Overrides(o) ==
  LET keys == IF o.command \in {"setup", "doctor"} THEN {"llm.model"} ELSE FlagKeys
      given(k) == CASE k = "llm.model" -> "--model" \in DOMAIN o.values
                    [] k = "commit.language" -> "--language" \in DOMAIN o.values
                    [] k = "commit.confirm" -> "--no-confirm-commit" \in o.flags
                    [] k = "push.enabled" -> "--no-push" \in o.flags
                    [] k = "push.confirm" -> "--no-confirm-push" \in o.flags
                    [] k = "metrics.persist" -> "--record-metrics" \in o.flags
  IN [k \in {key \in keys : given(key)} |->
        CASE k = "llm.model" -> o.values["--model"]
          [] k = "commit.language" -> o.values["--language"]
          [] k = "metrics.persist" -> "true"
          [] OTHER -> "false"]
=============================================================================
