------------------------------ MODULE Settings ------------------------------
(***************************************************************************)
(* The effective configuration, internal/config/config.go: defaults, the   *)
(* global file, the repository's file and the flags of the command line,   *)
(* each layer over the earlier ones and validated before the next.         *)
(*                                                                         *)
(* A value is named after what the code distinguishes about it.  A file is *)
(* absent, broken (unreadable, too large, not TOML) or a table of dotted   *)
(* keys.                                                                   *)
(***************************************************************************)
EXTENDS Naturals

ModelKeys == {"llm.model", "llm.backend", "llm.model_revision",
              "llm.model_quantization"}
UserKeys == {"commit.confirm", "push.enabled", "push.confirm", "metrics.persist",
             "analysis.untracked", "safety.additional_sensitive_patterns"}
RepoKeys == {"verification.autodetect", "verification.timeout_seconds",
             "verification.commands"}
SharedKeys == ModelKeys \cup
  {"schema_version", "commit.language", "llm.planner", "llm.context",
   "llm.max_context_tokens", "analysis.include", "analysis.exclude"}
Keys == UserKeys \cup RepoKeys \cup SharedKeys

\* Mutant: any file may set any key.
AllowedAnywhere(source) == Keys

\* schema: the keys a file may set.
Allowed(source) == SharedKeys \cup (IF source = "global" THEN UserKeys ELSE RepoKeys)

\* The revisions pinned in the program.
Pinned == [gemma |-> "475b", qwen |-> "0e7f"]
Quantization == "4bit"

Absent == [state |-> "absent", entries |-> <<>>]
Broken == [state |-> "broken", entries |-> <<>>]
Table(entries) == [state |-> "table", entries |-> entries]
Given(file) == DOMAIN file.entries

DefaultValue(k) ==
  CASE k = "schema_version" -> "1"
    [] k = "commit.language" -> "en"
    [] k \in {"commit.confirm", "push.enabled", "push.confirm",
              "verification.autodetect"} -> "true"
    [] k = "metrics.persist" -> "false"
    [] k = "llm.planner" -> "three-phase"
    [] k = "llm.model" -> "gemma"
    [] k = "llm.model_revision" -> "475b"
    [] k = "llm.model_quantization" -> "4bit"
    [] k = "llm.backend" -> "mlx"
    [] k = "llm.context" -> "64k"
    [] k = "llm.max_context_tokens" -> "65536"
    [] k = "analysis.untracked" -> "auto-safe"
    [] k = "verification.timeout_seconds" -> "600"
    [] OTHER -> "none"

Defaults ==
  [ok |-> TRUE,
   values |-> [k \in Keys |-> DefaultValue(k)],
   sources |-> [k \in Keys |-> IF k = "verification.commands" THEN "unset"
                                                              ELSE "default"]]
Rejected == [Defaults EXCEPT !.ok = FALSE]

\* A layer replaces values, arrays included, and says where they come from.
Overlay(e, entries, source) ==
  [e EXCEPT
     !.values = [k \in Keys |-> IF k \in DOMAIN entries THEN entries[k] ELSE @[k]],
     !.sources = [k \in Keys |-> IF k \in DOMAIN entries THEN source ELSE @[k]]]

\* Model settings need a planner chosen in this file or in an earlier one.
Migrated(e, file) ==
  \/ "llm.planner" \in Given(file) \/ e.sources["llm.planner"] # "default"
  \/ Given(file) \cap ModelKeys = {}

ApplyFile(e, file, source) ==
  IF ~e.ok THEN e
  ELSE IF /\ file.state # "broken"
          /\ Given(file) \subseteq Allowed(source)   \* no llm.endpoint, no unknown key
          /\ Migrated(e, file)
          /\ \A k \in Given(file) : file.entries[k] # "mistyped"
       THEN Overlay(e, file.entries, source)
       ELSE Rejected

\* --model chooses the revision and the quantization with the model.
Flags(cli) ==
  [k \in DOMAIN cli \cup (IF "llm.model" \in DOMAIN cli
                          THEN {"llm.model_revision", "llm.model_quantization"}
                          ELSE {}) |->
     CASE k = "llm.model_revision" -> Pinned[cli["llm.model"]]
       [] k = "llm.model_quantization" -> Quantization
       [] OTHER -> cli[k]]

ApplyCLI(e, cli) ==
  IF ~e.ok THEN e
  ELSE IF "llm.model" \in DOMAIN cli /\ cli["llm.model"] \notin DOMAIN Pinned
       THEN Rejected
       ELSE Overlay(e, Flags(cli), "cli")

SupportedPlannerModel(v) ==
  /\ v["llm.backend"] = "mlx"
  /\ v["llm.model_quantization"] = Quantization
  /\ v["llm.model"] \in DOMAIN Pinned
  /\ v["llm.model_revision"] = Pinned[v["llm.model"]]

Valid(v) ==
  /\ v["schema_version"] = "1"
  /\ v["commit.language"] \in {"en", "ja"}
  /\ v["llm.planner"] = "three-phase"
  /\ SupportedPlannerModel(v)
  /\ v["llm.max_context_tokens"] = "65536" /\ v["llm.context"] \in {"auto", "64k"}
  /\ v["verification.timeout_seconds"] # "not positive"
  /\ v["analysis.include"] # "escaping" /\ v["analysis.exclude"] # "escaping"
  /\ v["verification.commands"] # "outside"   \* resolved through symbolic links

Validated(e) == IF e.ok /\ ~Valid(e.values) THEN Rejected ELSE e

Resolve(global, repo, cli) ==
  LET g == Validated(ApplyFile(Defaults, global, "global"))
      r == Validated(ApplyFile(g, repo, "repo"))
  IN Validated(ApplyCLI(r, cli))
=============================================================================
