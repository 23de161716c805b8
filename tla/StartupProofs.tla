--------------------------- MODULE StartupProofs ----------------------------
(* What invocations of the program keep to, for all command lines, files,    *)
(* edits and failures, and any number of processes.                          *)
EXTENDS Startup, WellFoundedInduction, TLAPS

-----------------------------------------------------------------------------
(* The layers of the configuration                                           *)

\* A layer that was accepted replaces what it gives, and nothing else.
LEMMA OverlayValues ==
  ASSUME NEW e, DOMAIN e = {"ok", "values", "sources"}, NEW entries, NEW source
  PROVE  /\ Overlay(e, entries, source).ok = e.ok
         /\ Overlay(e, entries, source).values =
              [k \in Keys |-> IF k \in DOMAIN entries THEN entries[k] ELSE e.values[k]]
         /\ DOMAIN Overlay(e, entries, source) = {"ok", "values", "sources"}
BY DEF Overlay

\* The flags give no key but their own, and metrics only when asked for.
LEMMA OverridesKeys ==
  ASSUME NEW o
  PROVE  /\ DOMAIN Overrides(o) \subseteq FlagKeys
         /\ "metrics.persist" \in DOMAIN Overrides(o) => "--record-metrics" \in o.flags
BY DEF Overrides, FlagKeys

\* A layer that was accepted.
Accepted(e) == /\ DOMAIN e = {"ok", "values", "sources"} /\ e.ok = TRUE
               /\ e.values = [k \in Keys |-> e.values[k]] /\ Valid(e.values)

\* What the global file gives, if it is accepted.
Layer(global) == Validated(ApplyFile(Defaults, global, "global"))

LEMMA GlobalLayer ==
  ASSUME NEW global, Layer(global).ok
  PROVE  /\ Accepted(Layer(global))
         /\ Layer(global).values =
              [k \in Keys |-> IF k \in Given(global) THEN global.entries[k] ELSE DefaultValue(k)]
<1> DEFINE e == ApplyFile(Defaults, global, "global")
<1>1. /\ DOMAIN Defaults = {"ok", "values", "sources"} /\ Defaults.ok = TRUE
      /\ Defaults.values = [k \in Keys |-> DefaultValue(k)]
  BY DEF Defaults
<1>2. DOMAIN Rejected = {"ok", "values", "sources"} /\ Rejected.ok = FALSE
  BY <1>1 DEF Rejected
<1>3. e = Rejected \/ e = Overlay(Defaults, global.entries, "global")
  BY <1>1 DEF ApplyFile
<1>4. Layer(global) = e /\ Valid(e.values) /\ e.ok
  BY <1>2 DEF Layer, Validated
<1>5. e = Overlay(Defaults, global.entries, "global")
  BY <1>2, <1>3, <1>4
<1> QED BY <1>1, <1>4, <1>5, OverlayValues DEF Accepted, Given

\* A layer of a file over an accepted one, if it is accepted as well.
LEMMA FileLayer ==
  ASSUME NEW g, Accepted(g), NEW file, NEW source,
         Validated(ApplyFile(g, file, source)).ok
  PROVE  LET e == Validated(ApplyFile(g, file, source)) IN
         /\ Accepted(e) /\ Given(file) \subseteq Allowed(source)
         /\ e.values = [k \in Keys |-> IF k \in Given(file) THEN file.entries[k]
                                                           ELSE g.values[k]]
<1> DEFINE a == ApplyFile(g, file, source)
<1>1. Rejected.ok = FALSE
  BY DEF Rejected, Defaults
<1>2. Validated(a) = a /\ a.ok /\ Valid(a.values)
  BY <1>1 DEF Validated
<1>3. /\ Given(file) \subseteq Allowed(source)
      /\ a = Overlay(g, file.entries, source)
  BY <1>1, <1>2 DEF ApplyFile, Accepted
<1> QED BY <1>2, <1>3, OverlayValues DEF Accepted, Given

\* A file that is absent changes nothing.
LEMMA AbsentLayer ==
  ASSUME NEW g, Accepted(g), NEW source
  PROVE  LET e == Validated(ApplyFile(g, Absent, source)) IN
         Accepted(e) /\ e.values = g.values
<1> DEFINE a == ApplyFile(g, Absent, source)
<1>1. Given(Absent) = {} /\ Absent.state # "broken" /\ DOMAIN Absent.entries = {}
  BY DEF Given, Absent
<1>2. Migrated(g, Absent)
  BY <1>1 DEF Migrated
<1>3. a = Overlay(g, Absent.entries, source)
  BY <1>1, <1>2 DEF ApplyFile, Accepted
<1>4. /\ a.ok = TRUE /\ DOMAIN a = {"ok", "values", "sources"}
      /\ a.values = [k \in Keys |-> g.values[k]]
  BY <1>1, <1>3, OverlayValues DEF Accepted
<1>5. a.values = g.values
  BY <1>4 DEF Accepted
<1> QED BY <1>4, <1>5 DEF Validated, Accepted

\* The flags over a layer that was accepted.
Chosen(cli, values) ==
  [k \in Keys |-> IF k \in DOMAIN Flags(cli) THEN Flags(cli)[k] ELSE values[k]]
Refused(cli) == "llm.model" \in DOMAIN cli /\ cli["llm.model"] \notin DOMAIN Pinned

LEMMA FlagsLayer ==
  ASSUME NEW r, Accepted(r), NEW cli
  PROVE  LET e == Validated(ApplyCLI(r, cli)) IN
         /\ e.ok <=> ~Refused(cli) /\ Valid(Chosen(cli, r.values))
         /\ e.ok => e.values = Chosen(cli, r.values)
<1> DEFINE a == ApplyCLI(r, cli)
<1>1. Rejected.ok = FALSE
  BY DEF Rejected, Defaults
<1>2. CASE Refused(cli)
  BY <1>1, <1>2 DEF ApplyCLI, Validated, Refused, Accepted
<1>3. CASE ~Refused(cli)
  <2>1. a = Overlay(r, Flags(cli), "cli")
    BY <1>3 DEF ApplyCLI, Refused, Accepted
  <2>2. a.ok = TRUE /\ a.values = Chosen(cli, r.values)
    BY <2>1, OverlayValues DEF Accepted, Chosen
  <2> QED BY <1>1, <1>3, <2>2 DEF Validated
<1> QED BY <1>2, <1>3

\* Flags that are good over one layer are good over every one: a model brings
\* its revision and quantization with it.
LEMMA FlagsAnywhere ==
  ASSUME NEW o, NEW g, NEW r, Valid(g), ~Refused(Overrides(o)),
         Valid(Chosen(Overrides(o), r))
  PROVE  Valid(Chosen(Overrides(o), g))
<1> DEFINE cli == Overrides(o)
           f == Flags(cli)
           v == Chosen(cli, g)
           w == Chosen(cli, r)
<1>1. DOMAIN cli \subseteq FlagKeys
  BY OverridesKeys
<1>2. /\ DOMAIN f = DOMAIN cli \cup (IF "llm.model" \in DOMAIN cli
                          THEN {"llm.model_revision", "llm.model_quantization"} ELSE {})
      /\ \A k \in DOMAIN f : f[k] = CASE k = "llm.model_revision" -> Pinned[cli["llm.model"]]
                                     [] k = "llm.model_quantization" -> Quantization
                                     [] OTHER -> cli[k]
  BY DEF Flags
<1>3. \A k \in Keys : v[k] = IF k \in DOMAIN f THEN f[k] ELSE g[k]
  BY DEF Chosen
<1>4. \A k \in Keys : w[k] = IF k \in DOMAIN f THEN f[k] ELSE r[k]
  BY DEF Chosen
<1> HIDE DEF cli, f, v, w
<1>5. "llm.model_revision" \in DOMAIN f \/ "llm.model_quantization" \in DOMAIN f
        => "llm.model" \in DOMAIN cli
  BY <1>1, <1>2 DEF FlagKeys
<1>6. "llm.backend" \notin DOMAIN f
  BY <1>1, <1>2 DEF FlagKeys
<1>7. {"llm.backend", "llm.model", "llm.model_revision", "llm.model_quantization"} \subseteq Keys
  BY DEF Keys, SharedKeys, ModelKeys
<1>8. SupportedPlannerModel(v)
  <2>1. v["llm.backend"] = "mlx"
    BY <1>3, <1>6, <1>7 DEF Valid, SupportedPlannerModel
  <2>2. CASE "llm.model" \in DOMAIN cli
    <3>1. cli["llm.model"] \in DOMAIN Pinned
      BY <2>2 DEF Refused, cli
    <3>2. /\ v["llm.model"] = cli["llm.model"] /\ v["llm.model_quantization"] = Quantization
          /\ v["llm.model_revision"] = Pinned[cli["llm.model"]]
      BY <1>2, <1>3, <1>7, <2>2
    <3> QED BY <2>1, <3>1, <3>2 DEF SupportedPlannerModel
  <2>3. CASE "llm.model" \notin DOMAIN cli
    <3>1. DOMAIN f \cap {"llm.model", "llm.model_revision", "llm.model_quantization"} = {}
      BY <1>2, <1>5, <2>3
    <3> QED BY <1>3, <1>7, <2>1, <3>1 DEF Valid, SupportedPlannerModel
  <2> QED BY <2>2, <2>3
<1>9. \A k \in Keys : v[k] = w[k] \/ v[k] = g[k]
  BY <1>3, <1>4
<1>10. {"schema_version", "commit.language", "llm.planner", "llm.context",
        "llm.max_context_tokens", "verification.timeout_seconds", "analysis.include",
        "analysis.exclude", "verification.commands"} \subseteq Keys
  BY DEF Keys, SharedKeys, RepoKeys
<1>11. Valid(w)
  BY DEF w, cli
<1>12. Valid(v)
  BY <1>8, <1>9, <1>10, <1>11 DEF Valid
<1> QED BY <1>12 DEF v, cli

\* The repository's file adds nothing to what the user's settings say: leaving
\* it out gives the same, for any files and any command line.
LEMMA RepoAddsNothing ==
  ASSUME NEW global, NEW repo, NEW o, Resolve(global, repo, Overrides(o)).ok
  PROVE  LET e == Resolve(global, repo, Overrides(o))
             without == Resolve(global, Absent, Overrides(o)) IN
         /\ without.ok /\ Layer(global).ok
         /\ \A k \in UserKeys : /\ e.values[k] = without.values[k]
                               /\ e.values[k] = Chosen(Overrides(o), Layer(global).values)[k]
<1> DEFINE cli == Overrides(o)
           g == Layer(global)
           r == Validated(ApplyFile(g, repo, "repo"))
           a == Validated(ApplyFile(g, Absent, "repo"))
<1>1. /\ Resolve(global, repo, cli) = Validated(ApplyCLI(r, cli))
      /\ Resolve(global, Absent, cli) = Validated(ApplyCLI(a, cli))
  BY DEF Resolve, Layer
<1>2. Rejected.ok = FALSE
  BY DEF Rejected, Defaults
<1>3. r.ok
  <2> SUFFICES ASSUME ~r.ok PROVE FALSE
    OBVIOUS
  <2>1. ApplyCLI(r, cli) = r
    BY DEF ApplyCLI
  <2> QED BY <1>1, <1>2, <2>1 DEF Validated
<1>4. g.ok
  <2> SUFFICES ASSUME ~g.ok PROVE FALSE
    OBVIOUS
  <2>1. ApplyFile(g, repo, "repo") = g
    BY DEF ApplyFile
  <2> QED BY <1>2, <1>3, <2>1 DEF Validated
<1>5. Accepted(g)
  BY <1>4, GlobalLayer
<1>6. /\ Accepted(r) /\ Given(repo) \subseteq Allowed("repo")
      /\ r.values = [k \in Keys |-> IF k \in Given(repo) THEN repo.entries[k]
                                                        ELSE g.values[k]]
  BY <1>3, <1>5, FileLayer
<1>7. Accepted(a) /\ a.values = g.values
  BY <1>5, AbsentLayer
<1> HIDE DEF g, r, a, cli
<1>8. ~Refused(cli) /\ Valid(Chosen(cli, r.values))
  BY <1>1, <1>6, FlagsLayer DEF cli
<1>9. Valid(Chosen(cli, a.values))
  BY <1>5, <1>7, <1>8, FlagsAnywhere DEF Accepted, cli
<1>10. /\ Resolve(global, repo, cli).values = Chosen(cli, r.values)
       /\ Resolve(global, Absent, cli).ok
       /\ Resolve(global, Absent, cli).values = Chosen(cli, g.values)
  BY <1>1, <1>6, <1>7, <1>8, <1>9, FlagsLayer DEF cli
<1>11. \A k \in UserKeys : k \in Keys /\ r.values[k] = g.values[k]
  <2>1. UserKeys \cap Allowed("repo") = {} /\ UserKeys \subseteq Keys
    BY DEF UserKeys, Allowed, SharedKeys, RepoKeys, ModelKeys, Keys
  <2> QED BY <1>6, <2>1
<1>12. \A k \in UserKeys : Chosen(cli, r.values)[k] = Chosen(cli, g.values)[k]
  BY <1>11 DEF Chosen
<1> QED BY <1>4, <1>10, <1>12 DEF cli, g

-----------------------------------------------------------------------------
(* The parts of the inductive invariant                                      *)

\* What a process holds is a record with the fields of Fresh.
Fields == {"opts", "root", "global", "repo", "settings", "plan", "saved", "verdict",
           "exit", "out", "faulted"}
Shape == /\ DOMAIN me = Process /\ DOMAIN pc = Process
         /\ \A p \in Process : DOMAIN me[p] = Fields

\* The steps of init and of a run, and those before the settings are known.
InitSteps == {"init", "confirm", "again", "git", "compare", "append", "write"}
RunSteps == {"check", "cached", "attempt", "record", "get", "result", "store", "run",
             "report", "persist"}
Before == {"start", "dispatch", "root", "global", "repo"}
UpdateSteps == {"cached", "attempt", "record", "get", "result", "store"}

\* Which command a process can be at a step of.
Known(p) ==
  LET o == me[p].opts IN
  /\ pc[p] \notin {"start", "dispatch", "exit"} => JSONAllowed(o) /\ WellFormed(o)
  /\ pc[p] \in {"root", "global", "repo"} =>
       o.command \in {"", "config", "setup", "doctor"}
  /\ pc[p] \in {"global", "repo"} =>
       Command(o) \in {"", "show", "setup", "doctor"}
  /\ pc[p] = "create" => Of(o, "config", "init")
  /\ pc[p] = "revoke" => Of(o, "trust", "revoke")
  /\ pc[p] \in {"setup", "download"} => o.command = "setup"
  /\ pc[p] \in InitSteps => o.command = "init"
  /\ pc[p] \in UpdateSteps => ~JSON(o)
  /\ pc[p] \in RunSteps <=> pc[p] \notin Before \cup {"exit"} /\ o.command = ""

\* The settings of a process are those of its files and flags.
Resolved(p) ==
  /\ pc[p] \in Before => ~me[p].settings.ok
  /\ me[p].settings.ok =>
       me[p].settings = Resolve(me[p].global, me[p].repo, Overrides(me[p].opts))
  /\ pc[p] \in RunSteps => me[p].settings.ok

\* How a run ends, and what a process has written to stdout.
Decided(p) ==
  Ended(p) /\ me[p].opts.command = "" /\ me[p].settings.ok =>
    me[p].exit = me[p].verdict \/ (me[p].faulted /\ me[p].exit = Internal)
Printed(p) ==
  /\ pc[p] \notin {"report", "persist", "exit"} => me[p].out = <<>>
  /\ pc[p] \in {"report", "persist"} /\ JSON(me[p].opts) => me[p].out = <<"json">>
  /\ Ended(p) /\ JSON(me[p].opts) /\ ~me[p].faulted => me[p].out = <<"json">>

Lawful(p) == Known(p) /\ Resolved(p) /\ Decided(p) /\ Printed(p)

\* What the program keeps is there, and commits are counted.
Stored == {"cache", "commits"} \subseteq DOMAIN disk /\ disk.commits \in Nat

Inv == Shape /\ Stored /\ \A p \in Process : Lawful(p)

\* All processes but one keep what they have.
Others(p) == \A q \in Process \ {p} : me'[q] = me[q] /\ pc'[q] = pc[q]

-----------------------------------------------------------------------------
(* How processes end                                                         *)

\* What the end of a process leaves of it.
Kept(p) == /\ me'[p].opts = me[p].opts /\ me'[p].global = me[p].global
           /\ me'[p].repo = me[p].repo /\ me'[p].settings = me[p].settings
           /\ me'[p].verdict = me[p].verdict

LEMMA ExitKeeps ==
  ASSUME Shape, NEW p \in Process, NEW code, NEW printed, Exit(p, code, printed)
  PROVE  /\ Shape' /\ Others(p) /\ Kept(p) /\ pc'[p] = "exit" /\ me'[p].exit = code
         /\ me'[p].faulted = me[p].faulted
         /\ me'[p].out = IF JSON(me[p].opts) THEN me[p].out \o printed ELSE me[p].out
BY DEF Shape, Fields, Exit, Goto, Others, Kept

LEMMA FaultKeeps ==
  ASSUME Shape, NEW p \in Process, OutputFault(p)
  PROVE  /\ Shape' /\ Others(p) /\ Kept(p) /\ pc'[p] = "exit" /\ me'[p].exit = Internal
         /\ me'[p].faulted = TRUE
BY DEF Shape, Fields, OutputFault, Goto, Others, Kept

\* A line that cannot be written is an end that may be wrong in its output.
LEMMA Faulting ==
  ASSUME Shape, NEW p \in Process, Lawful(p), OutputFault(p)
  PROVE  Shape' /\ Others(p) /\ Lawful(p)'
<1>1. /\ Shape' /\ Others(p) /\ Kept(p) /\ pc'[p] = "exit" /\ me'[p].exit = Internal
      /\ me'[p].faulted = TRUE
  BY FaultKeeps
<1>2. Known(p)'
  BY <1>1 DEF Known, InitSteps, RunSteps, UpdateSteps, Before
<1>3. Resolved(p)'
  BY <1>1 DEF Lawful, Resolved, RunSteps, Before, Kept
<1>4. Decided(p)' /\ Printed(p)'
  BY <1>1 DEF Decided, Printed
<1> QED BY <1>1, <1>2, <1>3, <1>4 DEF Lawful

\* Every command but a run ends with one document or with lines of text.
LEMMA Closing ==
  ASSUME Shape, NEW p \in Process, Lawful(p), pc[p] \notin RunSteps \cup {"exit"},
         NEW code,
         \/ Fail(p, code) \/ Value(p, code)
         \/ Lines(p, code) /\ ~JSON(me[p].opts)
  PROVE  Shape' /\ Others(p) /\ Lawful(p)'
<1>1. CASE OutputFault(p)
  BY <1>1, Faulting
<1>2. ASSUME NEW printed, Exit(p, code, printed),
             printed = <<"json">> \/ ~JSON(me[p].opts)
      PROVE  Shape' /\ Others(p) /\ Lawful(p)'
  <2>1. /\ Shape' /\ Others(p) /\ Kept(p) /\ pc'[p] = "exit"
        /\ me'[p].faulted = me[p].faulted
        /\ me'[p].out = IF JSON(me[p].opts) THEN me[p].out \o printed ELSE me[p].out
    BY <1>2, ExitKeeps
  <2>2. Known(p)'
    BY <2>1 DEF Known, InitSteps, RunSteps, UpdateSteps, Before
  <2>3. Resolved(p)'
    BY <2>1 DEF Lawful, Resolved, RunSteps, Before, Kept
  <2>4. Decided(p)'
    <3>1. ~(me[p].opts.command = "" /\ me[p].settings.ok)
      BY DEF Lawful, Known, Resolved
    <3> QED BY <2>1, <3>1 DEF Decided, Kept
  <2>5. Printed(p)'
    <3>1. me[p].out = <<>>
      BY DEF Lawful, Printed, RunSteps
    <3>2. <<>> \o <<"json">> = <<"json">>
      OBVIOUS
    <3> QED BY <1>2, <2>1, <3>1, <3>2 DEF Printed, Kept
  <2> QED BY <2>1, <2>2, <2>3, <2>4, <2>5 DEF Lawful
<1> QED BY <1>1, <1>2 DEF Fail, Value, Lines

\* A run ends with its verdict, and has written its document.
LEMMA Concluding ==
  ASSUME Shape, NEW p \in Process, Lawful(p), pc[p] = "persist",
         Exit(p, me[p].verdict, <<>>)
  PROVE  Shape' /\ Others(p) /\ Lawful(p)'
<1>1. /\ Shape' /\ Others(p) /\ Kept(p) /\ pc'[p] = "exit" /\ me'[p].exit = me[p].verdict
      /\ me'[p].out = IF JSON(me[p].opts) THEN me[p].out \o <<>> ELSE me[p].out
  BY ExitKeeps
<1>2. Known(p)'
  BY <1>1 DEF Known, InitSteps, RunSteps, UpdateSteps, Before
<1>3. Resolved(p)'
  BY <1>1 DEF Lawful, Resolved, RunSteps, Before, Kept
<1>4. Decided(p)'
  BY <1>1 DEF Decided, Kept
<1>5. Printed(p)'
  <2>1. JSON(me[p].opts) => me[p].out = <<"json">>
    BY DEF Lawful, Printed
  <2>2. <<"json">> \o <<>> = <<"json">>
    OBVIOUS
  <2> QED BY <1>1, <2>1, <2>2 DEF Printed, Kept
<1> QED BY <1>1, <1>2, <1>3, <1>4, <1>5 DEF Lawful

\* A process that is killed says nothing.
LEMMA Dying ==
  ASSUME Shape, NEW p \in Process, Lawful(p), Crash(p)
  PROVE  Shape' /\ Others(p) /\ Lawful(p)'
<1>1. /\ Shape' /\ Others(p) /\ Kept(p) /\ pc'[p] = "exit" /\ me'[p].exit = Killed
  BY DEF Shape, Fields, Crash, Goto, Others, Kept
<1>2. Known(p)'
  BY <1>1 DEF Known, InitSteps, RunSteps, UpdateSteps, Before
<1>3. Resolved(p)'
  BY <1>1 DEF Lawful, Resolved, RunSteps, Before, Kept
<1>4. Decided(p)' /\ Printed(p)'
  BY <1>1 DEF Decided, Printed, Ended
<1> QED BY <1>1, <1>2, <1>3, <1>4 DEF Lawful

-----------------------------------------------------------------------------
(* How processes go on                                                       *)

\* From one step to another of the same kind, with the same settings.
LEMMA Moving ==
  ASSUME NEW p \in Process, Lawful(p), Kept(p), me'[p].out = me[p].out, Known(p)',
         pc[p] # "exit", pc'[p] # "exit",
         pc'[p] \in Before => pc[p] \in Before, pc'[p] \in RunSteps => pc[p] \in RunSteps,
         pc'[p] \in {"report", "persist"} <=> pc[p] \in {"report", "persist"}
  PROVE  Lawful(p)'
<1>1. Resolved(p)'
  BY DEF Lawful, Resolved, Kept
<1>2. Decided(p)' /\ Printed(p)'
  BY DEF Lawful, Decided, Printed, Ended, Kept
<1> QED BY <1>1, <1>2 DEF Lawful

\* The same for a step that changes nothing but the place of the process.
LEMMA Going ==
  ASSUME Shape, NEW p \in Process, NEW l, Goto(p, l), me' = me
  PROVE  /\ Shape' /\ Others(p) /\ Kept(p) /\ me'[p] = me[p] /\ pc'[p] = l
BY DEF Shape, Goto, Others, Kept

LEMMA BeginStep ==
  ASSUME Shape, NEW p \in Process, Lawful(p), Begin(p)
  PROVE  Shape' /\ Others(p) /\ Lawful(p)'
<1>1. /\ Shape' /\ Others(p) /\ pc[p] = "start" /\ pc'[p] = "dispatch"
      /\ me'[p].settings = me[p].settings /\ me'[p].out = me[p].out
  BY DEF Shape, Fields, Begin, Goto, Others
<1>2. Known(p)'
  BY <1>1 DEF Known, InitSteps, RunSteps, UpdateSteps, Before
<1>3. Resolved(p)'
  BY <1>1 DEF Lawful, Resolved, RunSteps, Before
<1>4. Decided(p)' /\ Printed(p)'
  BY <1>1 DEF Lawful, Decided, Printed, Ended
<1> QED BY <1>1, <1>2, <1>3, <1>4 DEF Lawful

\* The first step of a command is one of its own.
LEMMA FirstSteps ==
  ASSUME NEW o, JSONAllowed(o), WellFormed(o)
  PROVE  \/ First(o) = "version" /\ o.command = "version"
         \/ First(o) = "init" /\ o.command = "init"
         \/ First(o) = "list" /\ o.command = "trust"
         \/ First(o) = "revoke" /\ Of(o, "trust", "revoke")
         \/ First(o) = "create" /\ Of(o, "config", "init")
         \/ First(o) = "path" /\ o.command = "config"
         \/ First(o) = "root" /\ o.command \in {"", "config", "setup", "doctor"}
<1>1. CASE o.command \in {"", "version", "doctor", "init", "setup"}
  <2>1. o.command \notin {"config", "trust"}
    BY <1>1
  <2>2. First(o) = IF o.command \in {"version", "init"} THEN o.command ELSE "root"
    BY <2>1 DEF First, Of
  <2> QED BY <1>1, <2>2
<1>2. CASE o.command = "config"
  <2>1. Command(o) \in {"show", "init", "path"}
    BY <1>2 DEF WellFormed
  <2> QED BY <1>2, <2>1 DEF First, Of
<1>3. CASE o.command = "trust"
  <2>1. Command(o) \in {"list", "revoke"}
    BY <1>3 DEF WellFormed
  <2> QED BY <1>3, <2>1 DEF First, Of
<1>4. o.command \in {"", "version", "doctor", "init", "setup", "config", "trust"}
  BY DEF WellFormed
<1> QED BY <1>1, <1>2, <1>3, <1>4

LEMMA DispatchStep ==
  ASSUME Shape, NEW p \in Process, Lawful(p), Dispatch(p)
  PROVE  Shape' /\ Others(p) /\ Lawful(p)'
<1> DEFINE o == me[p].opts
<1>1. pc[p] = "dispatch"
  BY DEF Dispatch
<1>2. CASE Fail(p, Usage) \/ Value(p, Success)
  BY <1>1, <1>2, Closing DEF RunSteps
<1>3. CASE JSONAllowed(o) /\ WellFormed(o) /\ Goto(p, First(o)) /\ me' = me
  <2>1. /\ Shape' /\ Others(p) /\ Kept(p) /\ me'[p] = me[p] /\ pc'[p] = First(o)
    BY <1>3, Going
  <2>2. Known(p)'
    BY <1>3, <2>1, FirstSteps DEF Known, Of, Command, Before, RunSteps, UpdateSteps, InitSteps
  <2>3. /\ pc'[p] # "exit" /\ pc'[p] \notin RunSteps
    BY <1>3, <2>1, FirstSteps DEF RunSteps
  <2> QED BY <1>1, <2>1, <2>2, <2>3, Moving DEF Before, RunSteps
<1> QED BY <1>2, <1>3 DEF Dispatch

LEMMA RootStep ==
  ASSUME Shape, NEW p \in Process, Lawful(p), FindRoot(p)
  PROVE  Shape' /\ Others(p) /\ Lawful(p)'
<1> DEFINE o == me[p].opts
<1>1. pc[p] = "root" /\ WellFormed(o) /\ o.command \in {"", "config", "setup", "doctor"}
  BY DEF FindRoot, Lawful, Known
<1>2. CASE Fail(p, Usage)
  BY <1>1, <1>2, Closing DEF RunSteps
<1>3. CASE ~Fail(p, Usage)
  <2>1. PICK r : /\ me' = [me EXCEPT ![p].root = r]
                 /\ Goto(p, CASE Of(o, "config", "init") -> "create"
                              [] Command(o) = "path" -> "path"
                              [] o.command = "doctor" /\ disk.git # "repo" -> "doctor"
                              [] OTHER -> "global")
    BY <1>3 DEF FindRoot
  <2>2. /\ Shape' /\ Others(p) /\ Kept(p) /\ me'[p].out = me[p].out
        /\ me'[p].opts = o
        /\ pc'[p] = CASE Of(o, "config", "init") -> "create"
                      [] Command(o) = "path" -> "path"
                      [] o.command = "doctor" /\ disk.git # "repo" -> "doctor"
                      [] OTHER -> "global"
    BY <2>1 DEF Shape, Fields, Goto, Others, Kept
  <2>3. o.command = "config" => Command(o) \in {"show", "init", "path"}
    BY DEF WellFormed, Lawful, Known, FindRoot
  <2>4. o.command \in {"", "setup", "doctor"} => Command(o) = o.command
    BY DEF Command
  <2>5. \/ pc'[p] = "create" /\ Of(o, "config", "init")
        \/ pc'[p] = "path" /\ o.command = "config"
        \/ pc'[p] = "doctor" /\ o.command = "doctor"
        \/ pc'[p] = "global" /\ Command(o) \in {"", "show", "setup", "doctor"}
    BY <1>1, <2>2, <2>3, <2>4 DEF Of
  <2>6. Known(p)'
    BY <1>1, <2>2, <2>5 DEF Lawful, Known, Of, Before, RunSteps, UpdateSteps, InitSteps
  <2> QED BY <1>1, <2>2, <2>5, <2>6, Moving DEF Before, RunSteps
<1> QED BY <1>2, <1>3

LEMMA GlobalStep ==
  ASSUME Shape, NEW p \in Process, Lawful(p), ReadGlobal(p)
  PROVE  Shape' /\ Others(p) /\ Lawful(p)'
<1>1. /\ Shape' /\ Others(p) /\ pc[p] = "global" /\ pc'[p] = "repo"
      /\ me'[p].settings = me[p].settings /\ me'[p].out = me[p].out
      /\ me'[p].opts = me[p].opts
  BY DEF Shape, Fields, ReadGlobal, Goto, Others
<1>2. Known(p)'
  BY <1>1 DEF Lawful, Known, InitSteps, RunSteps, UpdateSteps, Before
<1>3. Resolved(p)'
  BY <1>1 DEF Lawful, Resolved, RunSteps, Before
<1>4. Decided(p)' /\ Printed(p)'
  BY <1>1 DEF Lawful, Decided, Printed, Ended
<1> QED BY <1>1, <1>2, <1>3, <1>4 DEF Lawful

LEMMA RepoStep ==
  ASSUME Shape, NEW p \in Process, Lawful(p), ReadRepo(p)
  PROVE  Shape' /\ Others(p) /\ Lawful(p)'
<1> DEFINE o == me[p].opts
<1>1. /\ pc[p] = "repo" /\ o.command \in {"", "config", "setup", "doctor"}
      /\ Command(o) \in {"", "show", "setup", "doctor"} /\ me[p].out = <<>>
      /\ JSONAllowed(o) /\ WellFormed(o)
  BY DEF ReadRepo, Lawful, Known, Printed
<1>2. CASE Fail(p, Usage)
  BY <1>1, <1>2, Closing DEF RunSteps
<1>3. CASE ~Fail(p, Usage)
  <2>1. PICK repo : LET s == Resolve(me[p].global, repo, Overrides(o)) IN
          /\ s.ok \/ o.command = "doctor"
          /\ Goto(p, IF o.command = "" THEN "check" ELSE Command(o))
          /\ me' = [me EXCEPT ![p] = [me[p] EXCEPT !.repo = repo, !.settings = s]]
    BY <1>3 DEF ReadRepo
  <2>2. /\ Shape' /\ Others(p) /\ me'[p].opts = o /\ me'[p].global = me[p].global
        /\ me'[p].repo = repo /\ me'[p].out = <<>>
        /\ me'[p].settings = Resolve(me[p].global, repo, Overrides(o))
        /\ me'[p].settings.ok \/ o.command = "doctor"
        /\ pc'[p] = IF o.command = "" THEN "check" ELSE Command(o)
    BY <1>1, <2>1 DEF Shape, Fields, Goto, Others
  <2>3. o.command \in {"setup", "doctor"} => Command(o) = o.command
    BY DEF Command
  <2>4. o.command = "config" => Command(o) \in {"show", "init", "path"}
    BY <1>1 DEF WellFormed
  <2>5. \/ pc'[p] = "check" /\ o.command = ""
        \/ pc'[p] = "show" /\ o.command = "config"
        \/ pc'[p] \in {"setup", "doctor"} /\ o.command = pc'[p]
    BY <1>1, <2>2, <2>3, <2>4
  <2>6. Known(p)'
    BY <1>1, <2>2, <2>5 DEF Known, Before, RunSteps, UpdateSteps, InitSteps
  <2>7. Resolved(p)'
    BY <2>2, <2>5 DEF Resolved, Before, RunSteps
  <2>8. Decided(p)' /\ Printed(p)'
    BY <2>2, <2>5 DEF Decided, Printed, Ended
  <2> QED BY <2>2, <2>6, <2>7, <2>8 DEF Lawful
<1> QED BY <1>2, <1>3

\* Only the commands that validateJSONMode names write JSON.
LEMMA TextOnly ==
  ASSUME NEW p \in Process, Lawful(p),
         pc[p] \in {"create", "revoke", "setup", "download"} \cup InitSteps
  PROVE  ~JSON(me[p].opts)
<1> DEFINE o == me[p].opts
<1>1. JSONAllowed(o)
  BY DEF Lawful, Known, InitSteps
<1>2. \/ Of(o, "config", "init") \/ Of(o, "trust", "revoke")
      \/ o.command \in {"setup", "init"}
  BY DEF Lawful, Known
<1> QED BY <1>1, <1>2 DEF JSONAllowed, Of

\* The commands besides init and the run.
LEMMA CommandStep ==
  ASSUME Shape, NEW p \in Process, Lawful(p),
         \/ PrintOnly(p) \/ Show(p) \/ CreateConfig(p) \/ TrustList(p) \/ TrustRevoke(p)
         \/ Doctor(p) \/ Setup(p) \/ Download(p)
  PROVE  Shape' /\ Others(p) /\ Lawful(p)'
<1>1. CASE /\ pc[p] \notin RunSteps \cup {"exit"}
           /\ \/ \E code : Fail(p, code) \/ Value(p, code)
              \/ \E code : Lines(p, code) /\ ~JSON(me[p].opts)
  BY <1>1, Closing
<1>2. CASE PrintOnly(p)
  BY <1>1, <1>2 DEF PrintOnly, RunSteps
<1>3. CASE Show(p)
  BY <1>1, <1>3 DEF Show, RunSteps
<1>4. CASE CreateConfig(p)
  BY <1>1, <1>4, TextOnly DEF CreateConfig, RunSteps
<1>5. CASE TrustList(p)
  BY <1>1, <1>5 DEF TrustList, RunSteps
<1>6. CASE TrustRevoke(p)
  BY <1>1, <1>6, TextOnly DEF TrustRevoke, RunSteps
<1>7. CASE Doctor(p)
  BY <1>1, <1>7 DEF Doctor, RunSteps, Fail
<1>8. CASE Setup(p)
  <2>1. pc[p] = "setup" /\ ~JSON(me[p].opts)
    BY <1>8, TextOnly DEF Setup
  <2>2. CASE Goto(p, "download") /\ UNCHANGED me
    <3>1. Shape' /\ Others(p) /\ Kept(p) /\ me'[p] = me[p] /\ pc'[p] = "download"
      BY <2>2, Going
    <3>2. Known(p)'
      BY <2>1, <3>1 DEF Lawful, Known, Before, RunSteps, UpdateSteps, InitSteps
    <3> QED BY <2>1, <3>1, <3>2, Moving DEF Before, RunSteps
  <2>3. CASE \E code : Fail(p, code) \/ Lines(p, code)
    BY <1>1, <2>1, <2>3 DEF RunSteps
  <2>4. CASE OutputFault(p)
    BY <2>3, <2>4 DEF Lines
  <2> QED BY <1>8, <2>2, <2>3, <2>4 DEF Setup, Capability, OrFault
<1>9. CASE Download(p)
  BY <1>1, <1>9, TextOnly DEF Download, Capability, RunSteps
<1> QED BY <1>2, <1>3, <1>4, <1>5, <1>6, <1>7, <1>8, <1>9

\* The steps of init: another one, or the end.
LEMMA InitStep ==
  ASSUME Shape, NEW p \in Process, Lawful(p),
         \/ PlanInit(p) \/ Confirm(p) \/ PlanAgain(p) \/ GitInit(p) \/ CompareIgnore(p)
         \/ AppendIgnore(p) \/ CreateIgnore(p)
  PROVE  Shape' /\ Others(p) /\ Lawful(p)'
<1>1. pc[p] \in InitSteps
  BY DEF PlanInit, Confirm, PlanAgain, GitInit, CompareIgnore, AppendIgnore, CreateIgnore,
         InitSteps
<1>2. ~JSON(me[p].opts)
  BY <1>1, TextOnly
<1>3. CASE \E code : Fail(p, code) \/ Lines(p, code)
  BY <1>1, <1>2, <1>3, Closing DEF InitSteps, RunSteps
<1>4. CASE \E l \in InitSteps : Goto(p, l) /\ \E plan : me' = [me EXCEPT ![p].plan = plan]
  <2>1. /\ Shape' /\ Others(p) /\ Kept(p) /\ me'[p].out = me[p].out /\ pc'[p] \in InitSteps
    BY <1>4 DEF Shape, Fields, Goto, Others, Kept
  <2>2. Known(p)'
    BY <1>1, <2>1 DEF Lawful, Known, Kept, Before, RunSteps, UpdateSteps, InitSteps
  <2> QED BY <1>1, <2>1, <2>2, Moving DEF Before, RunSteps, InitSteps
<1>5. CASE \E l \in InitSteps : Goto(p, l) /\ me' = me
  <2>1. /\ Shape' /\ Others(p) /\ Kept(p) /\ me'[p] = me[p] /\ pc'[p] \in InitSteps
    BY <1>5, Going
  <2>2. Known(p)'
    BY <1>1, <2>1 DEF Lawful, Known, Before, RunSteps, UpdateSteps, InitSteps
  <2> QED BY <1>1, <2>1, <2>2, Moving DEF Before, RunSteps, InitSteps
<1>6. CASE PlanInit(p)
  <2>1. CASE OutputFault(p)
    BY <1>3, <2>1 DEF Lines
  <2> QED BY <1>3, <1>4, <1>6, <2>1 DEF PlanInit, InitSteps
<1>7. CASE Confirm(p)
  BY <1>3, <1>5, <1>7 DEF Confirm, InitSteps
<1>8. CASE PlanAgain(p)
  BY <1>3, <1>5, <1>8 DEF PlanAgain, InitSteps
<1>9. CASE GitInit(p)
  BY <1>3, <1>5, <1>9 DEF GitInit, InitSteps
<1>10. CASE CompareIgnore(p)
  BY <1>3, <1>5, <1>10 DEF CompareIgnore, OrFault, InitSteps
<1>11. CASE AppendIgnore(p) \/ CreateIgnore(p)
  BY <1>3, <1>11 DEF AppendIgnore, CreateIgnore
<1> QED BY <1>6, <1>7, <1>8, <1>9, <1>10, <1>11

\* The update check goes on to the run, or ends at the notice of a version.
LEMMA CheckStep ==
  ASSUME Shape, NEW p \in Process, Lawful(p),
         \/ Check(p) \/ ReadCache(p) \/ BeginAttempt(p) \/ RecordAttempt(p) \/ Get(p)
         \/ BeginResult(p) \/ StoreResult(p)
  PROVE  Shape' /\ Others(p) /\ Lawful(p)'
<1> DEFINE Checking == RunSteps \ {"report", "persist"}
<1>1. pc[p] \in Checking
  BY DEF Check, ReadCache, BeginAttempt, RecordAttempt, Get, BeginResult, StoreResult, RunSteps
<1>a. pc[p] \in UpdateSteps => ~JSON(me[p].opts)
  BY DEF Lawful, Known
<1>2. CASE OutputFault(p)
  BY <1>2, Faulting
<1>3. CASE /\ \E l \in Checking : Goto(p, l) /\ (l \in UpdateSteps => ~JSON(me[p].opts))
           /\ \/ me' = me \/ \E saved : me' = [me EXCEPT ![p].saved = saved]
              \/ \E latest : me' = [me EXCEPT ![p].saved.latest = latest]
  <2>1. /\ Shape' /\ Others(p) /\ Kept(p) /\ me'[p].out = me[p].out /\ pc'[p] \in Checking
        /\ pc'[p] \in UpdateSteps => ~JSON(me[p].opts)
    <3>1. CASE me' = me
      BY <1>3, <3>1, Going
    <3>2. CASE \E saved : me' = [me EXCEPT ![p].saved = saved]
      BY <1>3, <3>2 DEF Shape, Fields, Goto, Others, Kept
    <3>3. CASE \E latest : me' = [me EXCEPT ![p].saved.latest = latest]
      BY <1>3, <3>3 DEF Shape, Fields, Goto, Others, Kept
    <3> QED BY <1>3, <3>1, <3>2, <3>3
  <2>2. Known(p)'
    BY <1>1, <2>1 DEF Lawful, Known, Kept, Before, RunSteps, UpdateSteps, InitSteps
  <2> QED BY <1>1, <2>1, <2>2, Moving DEF Before, RunSteps, InitSteps
<1>4. CASE Check(p)
  BY <1>3, <1>4 DEF Check, RunSteps, UpdateSteps
<1>5. CASE ReadCache(p)
  BY <1>2, <1>3, <1>a, <1>5 DEF ReadCache, Notify, RunSteps, UpdateSteps
<1>6. CASE BeginAttempt(p) \/ BeginResult(p)
  BY <1>3, <1>a, <1>6 DEF BeginAttempt, BeginResult, Truncate, RunSteps, UpdateSteps
<1>7. CASE RecordAttempt(p)
  BY <1>3, <1>a, <1>7 DEF RecordAttempt, RunSteps, UpdateSteps
<1>8. CASE Get(p)
  BY <1>3, <1>a, <1>8 DEF Get, RunSteps, UpdateSteps
<1>9. CASE StoreResult(p)
  BY <1>2, <1>3, <1>a, <1>9 DEF StoreResult, Notify, RunSteps, UpdateSteps
<1> QED BY <1>4, <1>5, <1>6, <1>7, <1>8, <1>9

\* The run and its metrics.
LEMMA RunStep ==
  ASSUME Shape, NEW p \in Process, Lawful(p), Run(p) \/ Report(p) \/ Persist(p)
  PROVE  Shape' /\ Others(p) /\ Lawful(p)'
<1>1. CASE Run(p)
  <2> DEFINE o == me[p].opts
  <2>1. PICK code \in RunCodes :
          me' = [me EXCEPT ![p].verdict = code,
                           ![p].out = IF JSON(o) THEN Append(@, "json") ELSE @]
    BY <1>1 DEF Run
  <2>a. pc[p] = "run" /\ Goto(p, "report")
    BY <1>1 DEF Run
  <2>2. /\ Shape' /\ Others(p) /\ pc[p] = "run" /\ pc'[p] = "report" /\ me'[p].opts = o
        /\ me'[p].global = me[p].global /\ me'[p].repo = me[p].repo
        /\ me'[p].settings = me[p].settings
        /\ me'[p].out = IF JSON(o) THEN Append(me[p].out, "json") ELSE me[p].out
    BY <2>1, <2>a DEF Shape, Fields, Goto, Others
  <2>3. Known(p)'
    BY <2>2 DEF Lawful, Known, Before, RunSteps, UpdateSteps, InitSteps
  <2>4. Resolved(p)'
    BY <2>2 DEF Lawful, Resolved, Before, RunSteps
  <2>5. Printed(p)'
    <3>1. me[p].out = <<>> /\ Append(<<>>, "json") = <<"json">>
      BY <2>2 DEF Lawful, Printed
    <3> QED BY <2>2, <3>1 DEF Printed, Ended
  <2>6. Decided(p)'
    BY <2>2 DEF Decided, Ended
  <2> QED BY <2>2, <2>3, <2>4, <2>5, <2>6 DEF Lawful
<1>2. CASE OutputFault(p)
  BY <1>2, Faulting
<1>3. CASE pc[p] = "report" /\ Goto(p, "persist") /\ me' = me
  <2>1. Shape' /\ Others(p) /\ Kept(p) /\ me'[p] = me[p] /\ pc'[p] = "persist"
    BY <1>3, Going
  <2>2. Known(p)'
    BY <1>3, <2>1 DEF Lawful, Known, Before, RunSteps, UpdateSteps, InitSteps
  <2> QED BY <1>3, <2>1, <2>2, Moving DEF Before, RunSteps
<1>4. CASE Report(p)
  BY <1>2, <1>3, <1>4 DEF Report
<1>5. CASE Persist(p)
  BY <1>2, <1>5, Concluding DEF Persist
<1> QED BY <1>1, <1>4, <1>5

\* A step of a process keeps it lawful, and is its own.
LEMMA ProcessStep ==
  ASSUME Shape, NEW p \in Process, Lawful(p), Step(p) \/ Crash(p)
  PROVE  Shape' /\ Others(p) /\ Lawful(p)'
BY BeginStep, DispatchStep, RootStep, GlobalStep, RepoStep, CommandStep, InitStep,
   CheckStep, RunStep, Dying DEF Step

\* What others do keeps a process lawful.
LEMMA LawfulKept ==
  ASSUME NEW p \in Process, Lawful(p), me'[p] = me[p], pc'[p] = pc[p]
  PROVE  Lawful(p)'
<1>1. Known(p)'
  BY DEF Lawful, Known
<1>2. Resolved(p)'
  BY DEF Lawful, Resolved
<1>3. Decided(p)'
  BY DEF Lawful, Decided, Ended
<1>4. Printed(p)'
  BY DEF Lawful, Printed, Ended
<1> QED BY <1>1, <1>2, <1>3, <1>4 DEF Lawful

-----------------------------------------------------------------------------
(* What a step touches                                                       *)

\* A step of a process keeps to the files of its command.
Within(p) == Stored' /\ \A f \in DOMAIN disk : disk'[f] # disk[f] => f \in Touches(p)

LEMMA OneFile ==
  ASSUME Stored, NEW p, NEW f, f # "commits", NEW x, disk' = [disk EXCEPT ![f] = x],
         f \in Touches(p)
  PROVE  Within(p)
BY DEF Stored, Within

LEMMA NoFile ==
  ASSUME Stored, NEW p, disk' = disk
  PROVE  Within(p)
BY DEF Stored, Within

\* The metrics are kept if the user's file or flag says so: the repository's
\* file cannot.
LEMMA Asked ==
  ASSUME NEW p \in Process, Lawful(p), pc[p] = "persist",
         me[p].settings.values["metrics.persist"] = "true"
  PROVE  "metrics" \in Touches(p)
<1> DEFINE o == me[p].opts
           cli == Overrides(o)
           g == me[p].global
<1>1. /\ o.command = "" /\ me[p].settings.ok
      /\ me[p].settings = Resolve(g, me[p].repo, cli)
  BY DEF Lawful, Known, Resolved, RunSteps
<1>2. "metrics.persist" \in UserKeys /\ "metrics.persist" \in Keys
  BY DEF UserKeys, Keys
<1>a. Resolve(g, me[p].repo, cli).ok
  BY <1>1
<1>b. /\ Layer(g).ok
      /\ \A k \in UserKeys :
           Resolve(g, me[p].repo, cli).values[k] = Chosen(cli, Layer(g).values)[k]
  BY <1>a, RepoAddsNothing
<1>3. Chosen(cli, Layer(g).values)["metrics.persist"] = "true"
  BY <1>1, <1>2, <1>b
<1> HIDE DEF cli
<1>4. CASE "metrics.persist" \in DOMAIN Flags(cli)
  <2>1. "metrics.persist" \in DOMAIN cli
    BY <1>4 DEF Flags
  <2>2. "--record-metrics" \in o.flags
    BY <2>1, OverridesKeys DEF cli
  <2> QED BY <1>1, <2>2 DEF Touches, Of
<1>5. CASE "metrics.persist" \notin DOMAIN Flags(cli)
  <2>1. Layer(g).values["metrics.persist"] = "true"
    BY <1>2, <1>3, <1>5 DEF Chosen
  <2>2. DefaultValue("metrics.persist") = "false"
    BY DEF DefaultValue
  <2>a. Layer(g).values =
          [k \in Keys |-> IF k \in Given(g) THEN g.entries[k] ELSE DefaultValue(k)]
    BY <1>b, GlobalLayer
  <2>3. "metrics.persist" \in Given(g) /\ g.entries["metrics.persist"] = "true"
    BY <1>2, <2>a, <2>1, <2>2
  <2> QED BY <1>1, <2>3 DEF Touches, Given, Of
<1> QED BY <1>4, <1>5

LEMMA InitTouches ==
  ASSUME Stored, NEW p \in Process, Lawful(p),
         GitInit(p) \/ AppendIgnore(p) \/ CreateIgnore(p)
  PROVE  Within(p)
<1>1. me[p].opts.command = "init"
  BY DEF GitInit, AppendIgnore, CreateIgnore, Lawful, Known, InitSteps
<1>2. {"git", "ignore"} \subseteq Touches(p)
  BY <1>1 DEF Touches, Of
<1>3. CASE GitInit(p)
  BY <1>2, <1>3, OneFile, NoFile DEF GitInit
<1>4. CASE AppendIgnore(p)
  <2>1. disk' = disk \/ \E x : disk' = [disk EXCEPT !.ignore = x]
    BY <1>4 DEF AppendIgnore
  <2> QED BY <1>2, <2>1, OneFile, NoFile
<1>5. CASE CreateIgnore(p)
  <2>1. disk' = disk \/ \E x : disk' = [disk EXCEPT !.ignore = x]
    BY <1>5 DEF CreateIgnore, Written
  <2> QED BY <1>2, <2>1, OneFile, NoFile
<1> QED BY <1>3, <1>4, <1>5

LEMMA CommandTouches ==
  ASSUME Stored, NEW p \in Process, Lawful(p),
         CreateConfig(p) \/ TrustRevoke(p) \/ Download(p)
  PROVE  Within(p)
<1> DEFINE o == me[p].opts
<1>1. CASE CreateConfig(p)
  <2>1. o.command = "config" /\ Of(o, "config", "init")
    BY <1>1 DEF CreateConfig, Lawful, Known, Of
  <2>2. Target(o) \in Touches(p)
    BY <2>1 DEF Touches, Of
  <2>3. Target(o) # "commits"
    BY DEF Target
  <2>4. disk' = disk \/ \E x : disk' = [disk EXCEPT ![Target(o)] = x]
    BY <1>1 DEF CreateConfig
  <2> QED BY <2>2, <2>3, <2>4, OneFile, NoFile
<1>2. CASE TrustRevoke(p)
  <2>1. o.command = "trust" /\ Of(o, "trust", "revoke")
    BY <1>2 DEF TrustRevoke, Lawful, Known, Of
  <2>2. "trust" \in Touches(p)
    BY <2>1 DEF Touches, Of
  <2> QED BY <1>2, <2>2, OneFile, NoFile DEF TrustRevoke
<1>3. CASE Download(p)
  <2>1. o.command = "setup"
    BY <1>3 DEF Download, Lawful, Known
  <2>2. "model" \in Touches(p)
    BY <2>1 DEF Touches, Of
  <2> QED BY <1>3, <2>2, OneFile, NoFile DEF Download
<1> QED BY <1>1, <1>2, <1>3

LEMMA CheckTouches ==
  ASSUME Stored, NEW p \in Process, Lawful(p),
         BeginAttempt(p) \/ RecordAttempt(p) \/ BeginResult(p) \/ StoreResult(p)
  PROVE  Within(p)
<1>1. pc[p] \in UpdateSteps
  BY DEF BeginAttempt, RecordAttempt, BeginResult, StoreResult, UpdateSteps
<1>2. me[p].opts.command = "" /\ ~JSON(me[p].opts)
  BY <1>1 DEF Lawful, Known, UpdateSteps, RunSteps
<1>3. "cache" \in Touches(p)
  BY <1>2 DEF Touches, Of
<1>4. disk' = disk \/ \E x : disk' = [disk EXCEPT !.cache = x]
  BY DEF BeginAttempt, RecordAttempt, BeginResult, StoreResult, Truncate, Store
<1> QED BY <1>3, <1>4, OneFile, NoFile

LEMMA RunTouches ==
  ASSUME Stored, NEW p \in Process, Lawful(p), Run(p) \/ Persist(p)
  PROVE  Within(p)
<1> DEFINE o == me[p].opts
<1>1. CASE Run(p)
  <2>1. o.command = ""
    BY <1>1 DEF Run, Lawful, Known, RunSteps
  <2>2. PICK made \in 0..1, trusts \in BOOLEAN :
          /\ DryRun(o) => made = 0 /\ trusts = disk.trust
          /\ disk' = [disk EXCEPT !.commits = @ + made, !.trust = trusts]
    BY <1>1 DEF Run
  <2>3. Stored'
    BY <2>2 DEF Stored
  <2>4. \A f \in DOMAIN disk : disk'[f] # disk[f] => f \in {"commits", "trust"}
    BY <2>2
  <2>5. CASE DryRun(o)
    <3>1. disk'.commits = disk.commits
      BY <2>2, <2>5 DEF Stored
    <3>2. "trust" \in DOMAIN disk => disk'.trust = disk.trust
      BY <2>2, <2>5
    <3> QED BY <2>3, <2>4, <3>1, <3>2 DEF Within
  <2>6. CASE ~DryRun(o)
    <3>1. {"commits", "trust"} \subseteq Touches(p)
      BY <2>1, <2>6 DEF Touches, Of
    <3> QED BY <2>3, <2>4, <3>1 DEF Within
  <2> QED BY <2>5, <2>6
<1>2. CASE Persist(p)
  <2>1. \/ disk' = disk
        \/ /\ pc[p] = "persist" /\ me[p].settings.values["metrics.persist"] = "true"
           /\ \E x : disk' = [disk EXCEPT !.metrics = x]
    BY <1>2 DEF Persist
  <2> QED BY <2>1, Asked, OneFile, NoFile
<1> QED BY <1>1, <1>2

LEMMA StepTouches ==
  ASSUME Stored, NEW p \in Process, Lawful(p), Step(p) \/ Crash(p)
  PROVE  Within(p)
<1>1. \/ disk' = disk
      \/ GitInit(p) \/ AppendIgnore(p) \/ CreateIgnore(p)
      \/ CreateConfig(p) \/ TrustRevoke(p) \/ Download(p)
      \/ BeginAttempt(p) \/ RecordAttempt(p) \/ BeginResult(p) \/ StoreResult(p)
      \/ Run(p) \/ Persist(p)
  BY DEF Step, Crash, Begin, Dispatch, PrintOnly, FindRoot, ReadGlobal, ReadRepo, Show,
         TrustList, Doctor, Setup, PlanInit, Confirm, PlanAgain, CompareIgnore, Check,
         ReadCache, Get, Report
<1> QED BY <1>1, NoFile, InitTouches, CommandTouches, CheckTouches, RunTouches

-----------------------------------------------------------------------------
(* The invariant is inductive                                                *)

\* In the beginning nobody has done anything, and some never will.
LEMMA InitInv == Init => Inv
<1> SUFFICES ASSUME Init PROVE Inv
  OBVIOUS
<1>1. Shape
  BY DEF Init, Shape, Fresh, Fields
<1>2. ASSUME NEW p \in Process PROVE Lawful(p)
  <2>1. /\ me[p].opts = NoOptions /\ ~me[p].settings.ok /\ me[p].exit = NotYet
        /\ me[p].out = <<>> /\ pc[p] \in {"start", "exit"}
    BY DEF Init, Fresh, Rejected, Defaults
  <2> QED BY <2>1 DEF Lawful, Known, Resolved, Decided, Printed, Ended, Before, RunSteps,
                      UpdateSteps, InitSteps
<1>3. Stored
  BY ConstantsOK DEF Init, Stored
<1> QED BY <1>1, <1>2, <1>3 DEF Inv

\* The user writes files, and invents no commits.
LEMMA Edited ==
  ASSUME Stored, EditIgnore \/ EditConfig
  PROVE  Stored'
BY DEF Stored, EditIgnore, EditConfig, Written

LEMMA InvStep == Inv /\ [Next]_vars => Inv'
<1> SUFFICES ASSUME Inv, [Next]_vars PROVE Inv'
  OBVIOUS
<1>1. CASE EditIgnore \/ EditConfig \/ Tomorrow \/ UNCHANGED vars
  <2>1. me' = me /\ pc' = pc
    BY <1>1 DEF vars, EditIgnore, EditConfig, Tomorrow
  <2>2. Stored'
    BY <1>1, Edited DEF Inv, Stored, Tomorrow, vars
  <2> QED BY <2>1, <2>2, LawfulKept DEF Inv, Shape
<1>2. ASSUME NEW p \in Process, Step(p) \/ Crash(p) PROVE Inv'
  <2>1. Shape' /\ Others(p) /\ Lawful(p)'
    BY <1>2, ProcessStep DEF Inv
  <2>2. Stored'
    BY <1>2, StepTouches DEF Inv, Within
  <2> QED BY <2>1, <2>2, LawfulKept DEF Inv, Others
<1> QED BY <1>1, <1>2 DEF Next

-----------------------------------------------------------------------------
(* One request a day                                                         *)

\* The steps of a process that is going to ask, or asked, for the newest release.
Attempting == {"attempt", "record", "get", "result", "store"}
Cached(d) == disk.cache.state = "ok" /\ disk.cache.at = d

\* Who attempts found no request of the day, and records one before it makes it.
Paced(p) ==
  pc[p] \in Attempting =>
    LET at == me[p].saved.at IN
    /\ DOMAIN me[p].saved = {"at", "latest"} /\ at \in 0 .. day
    /\ \A d \in 0 .. LastDay : d > at => gets[d] = 0
    /\ pc[p] \in {"attempt", "record", "get"} => gets[at] = 0
    /\ pc[p] \in {"get", "result"} => Cached(at)

Counters == /\ start.days \in 0 .. LastDay /\ day \in 0 .. start.days
            /\ gets \in [0 .. LastDay -> Nat]
OneAtATime == ~start.overlap => \A p, q \in Process : AtRest(p) \/ AtRest(q) \/ p = q

\* A request of today is in the cache, or about to be written there.
Counted ==
  /\ \A d \in 0 .. LastDay : gets[d] <= 1 /\ (d > day => gets[d] = 0)
  /\ gets[day] > 0 =>
       Cached(day) \/ \E p \in Process : pc[p] = "store" /\ me[p].saved.at = day
  /\ \A p \in Process : Paced(p)

Count == Counters /\ OneAtATime /\ (~start.overlap /\ calm => Counted)

\* The steps of the update check that are about the cache or a request.
Attempts(p) == \/ ReadCache(p) \/ BeginAttempt(p) \/ RecordAttempt(p) \/ Get(p)
               \/ BeginResult(p) \/ StoreResult(p)

\* A step is from somewhere, and the calendar stands still.
LEMMA StepFrom ==
  ASSUME NEW p \in Process, Step(p) \/ Crash(p)
  PROVE  /\ start' = start /\ day' = day /\ (calm' => calm)
         /\ ~AtRest(p) \/ (~start.overlap => \A q \in Process : AtRest(q))
<1>1. /\ start' = start /\ day' = day
      /\ calm' = calm \/ calm' = FALSE \/ calm' = (calm /\ pc[p] # "store")
  BY DEF Step, Crash, Begin, Dispatch, PrintOnly, FindRoot, ReadGlobal, ReadRepo, Show,
         CreateConfig, TrustList, TrustRevoke, Doctor, Setup, Download, PlanInit, Confirm,
         PlanAgain, GitInit, CompareIgnore, AppendIgnore, CreateIgnore, Check, ReadCache,
         BeginAttempt, RecordAttempt, Get, BeginResult, StoreResult, Run, Report, Persist,
         given, checking
<1>2. Begin(p) \/ ~AtRest(p)
  BY DEF Step, Crash, Dispatch, PrintOnly, FindRoot, ReadGlobal, ReadRepo, Show,
         CreateConfig, TrustList, TrustRevoke, Doctor, Setup, Download, PlanInit, Confirm,
         PlanAgain, GitInit, CompareIgnore, AppendIgnore, CreateIgnore, Check, ReadCache,
         BeginAttempt, RecordAttempt, Get, BeginResult, StoreResult, Run, Report, Persist,
         AtRest
<1>3. Begin(p) => (~start.overlap => \A q \in Process : AtRest(q))
  BY DEF Begin
<1>4. calm' => calm
  BY <1>1, Zenon
<1> QED BY <1>1, <1>2, <1>3, <1>4

LEMMA StillAlone ==
  ASSUME Shape, OneAtATime, NEW p \in Process, Lawful(p), Step(p) \/ Crash(p)
  PROVE  OneAtATime'
<1>1. start' = start /\ \A q \in Process \ {p} : pc'[q] = pc[q]
  BY StepFrom, ProcessStep DEF Others
<1>2. ~start.overlap => \A q \in Process \ {p} : AtRest(q)
  BY StepFrom DEF OneAtATime
<1>3. ~start.overlap => \A q \in Process \ {p} : AtRest(q)'
  BY <1>1, <1>2 DEF AtRest
<1> QED BY <1>1, <1>3 DEF OneAtATime

\* Steps that one way only leads to: no step leads to the first one; requests,
\* and what init does to an existing .gitignore, have steps before them.
Apart == Attempting \cup {"start", "compare", "append"}

LEMMA Leads ==
  ASSUME Shape, NEW p \in Process, Lawful(p), Step(p) \/ Crash(p)
  PROVE  \/ pc'[p] \notin Apart
         \/ pc'[p] \in Attempting /\ Attempts(p)
         \/ pc'[p] = "compare" /\ GitInit(p) /\ ~Creates(me[p].plan) /\ me' = me
         \/ pc'[p] = "append" /\ CompareIgnore(p) /\ me' = me
<1> DEFINE o == me[p].opts
           Led == \/ pc'[p] \notin Apart
                  \/ pc'[p] \in Attempting /\ Attempts(p)
                  \/ pc'[p] = "compare" /\ GitInit(p) /\ ~Creates(me[p].plan) /\ me' = me
                  \/ pc'[p] = "append" /\ CompareIgnore(p) /\ me' = me
<1> SUFFICES Led
  OBVIOUS
<1>0. \A l \in {"dispatch", "create", "path", "doctor", "global", "repo", "exit", "download",
                "confirm", "again", "git", "write", "cached", "run", "report", "persist"} :
        l \notin Apart
  BY DEF Apart, Attempting
<1>1. ASSUME NEW l, Goto(p, l) PROVE pc'[p] = l
  BY <1>1 DEF Shape, Goto
<1>2. CASE \E l : Goto(p, l) /\ l \notin Apart
  BY <1>1, <1>2
<1>3. CASE OutputFault(p)
  BY <1>0, <1>3, FaultKeeps
<1>4. CASE \E code, printed : Exit(p, code, printed) \/ Fail(p, code) \/ Value(p, code)
                              \/ Lines(p, code)
  BY <1>0, <1>3, <1>4, ExitKeeps DEF Fail, Value, Lines
<1> HIDE DEF Led
<1>5. CASE Begin(p) \/ ReadGlobal(p) \/ Run(p) \/ Crash(p)
  <2>1. \E l \in {"dispatch", "repo", "report", "exit"} : Goto(p, l)
    BY <1>5 DEF Begin, ReadGlobal, Run, Crash
  <2> QED BY <1>0, <1>2, <2>1
<1>6. CASE Dispatch(p)
  <2>1. CASE JSONAllowed(o) /\ WellFormed(o) /\ Goto(p, First(o))
    BY <1>2, <2>1, FirstSteps DEF Apart, Attempting
  <2> QED BY <1>4, <1>6, <2>1 DEF Dispatch
<1>7. CASE FindRoot(p)
  BY <1>0, <1>2, <1>4, <1>7 DEF FindRoot
<1>8. CASE ReadRepo(p)
  <2>1. Command(o) \in {"", "show", "setup", "doctor"}
    BY <1>8 DEF ReadRepo, Lawful, Known
  <2>2. CASE Goto(p, IF o.command = "" THEN "check" ELSE Command(o))
    <3>1. (IF o.command = "" THEN "check" ELSE Command(o)) \notin Apart
      BY <2>1 DEF Apart, Attempting
    <3> QED BY <1>2, <2>2, <3>1
  <2> QED BY <1>4, <1>8, <2>2 DEF ReadRepo
<1>9. CASE PrintOnly(p) \/ Show(p) \/ CreateConfig(p) \/ TrustList(p) \/ TrustRevoke(p)
  BY <1>4, <1>9 DEF PrintOnly, Show, CreateConfig, TrustList, TrustRevoke
<1>10. CASE Doctor(p) \/ Setup(p) \/ Download(p)
  BY <1>0, <1>2, <1>3, <1>4, <1>10 DEF Doctor, Setup, Download, Capability, OrFault
<1>11. CASE PlanInit(p) \/ Confirm(p) \/ PlanAgain(p)
  BY <1>0, <1>2, <1>3, <1>4, <1>11 DEF PlanInit, Confirm, PlanAgain
<1>12. CASE GitInit(p)
  <2>1. CASE Goto(p, "compare") /\ ~Creates(me[p].plan) /\ me' = me
    BY <1>1, <1>12, <2>1 DEF Led
  <2> QED BY <1>0, <1>2, <1>4, <1>12, <2>1 DEF GitInit
<1>13. CASE CompareIgnore(p)
  <2>1. CASE Goto(p, "append") /\ me' = me
    BY <1>1, <1>13, <2>1 DEF Led
  <2> QED BY <1>4, <1>13, <2>1 DEF CompareIgnore, OrFault
<1>14. CASE AppendIgnore(p) \/ CreateIgnore(p)
  BY <1>4, <1>14 DEF AppendIgnore, CreateIgnore
<1>15. CASE Check(p)
  BY <1>0, <1>2, <1>15 DEF Check
<1>16. CASE Attempts(p)
  <2>1. CASE \E l \in Attempting : Goto(p, l)
    BY <1>1, <1>16, <2>1 DEF Led
  <2>2. CASE Goto(p, "run")
    BY <1>0, <1>2, <2>2
  <2> QED BY <1>3, <1>16, <2>1, <2>2
          DEF Attempts, ReadCache, BeginAttempt, RecordAttempt, Get, BeginResult, StoreResult,
              Notify, Truncate, Attempting
<1>17. CASE Report(p) \/ Persist(p)
  BY <1>0, <1>2, <1>3, <1>4, <1>17 DEF Report, Persist
<1> QED BY <1>5, <1>6, <1>7, <1>8, <1>9, <1>10, <1>11, <1>12, <1>13, <1>14, <1>15, <1>16, <1>17
        DEF Step, Attempts

\* Everything else leaves the cache and the requests alone, and attempts nothing.
LEMMA Elsewhere ==
  ASSUME Shape, Stored, NEW p \in Process, Lawful(p), Step(p) \/ Crash(p), ~Attempts(p)
  PROVE  /\ disk'.cache = disk.cache /\ gets' = gets /\ pc'[p] \notin Attempting
         /\ pc[p] = "store" => ~calm'
<1> DEFINE o == me[p].opts
<1>1. gets' = gets
  BY DEF Step, Attempts, Crash, Begin, Dispatch, PrintOnly, FindRoot, ReadGlobal, ReadRepo,
         Show, CreateConfig, TrustList, TrustRevoke, Doctor, Setup, Download, PlanInit,
         Confirm, PlanAgain, GitInit, CompareIgnore, AppendIgnore, CreateIgnore, Check, Run,
         Report, Persist, checking
<1>2. disk'.cache = disk.cache
  <2>1. \/ disk' = disk
        \/ GitInit(p) \/ AppendIgnore(p) \/ CreateIgnore(p) \/ CreateConfig(p)
        \/ TrustRevoke(p) \/ Download(p) \/ Run(p) \/ Persist(p)
    BY DEF Step, Attempts, Crash, Begin, Dispatch, PrintOnly, FindRoot, ReadGlobal,
           ReadRepo, Show, TrustList, Doctor, Setup, PlanInit, Confirm, PlanAgain,
           CompareIgnore, Check, Report
  <2>2. CASE CreateConfig(p)
    <3>1. Target(o) # "cache"
      BY DEF Target
    <3>2. disk' = disk \/ \E x : disk' = [disk EXCEPT ![Target(o)] = x]
      BY <2>2 DEF CreateConfig
    <3> QED BY <3>1, <3>2 DEF Stored
  <2>3. CASE GitInit(p)
    BY <2>3 DEF GitInit, Stored
  <2>4. CASE AppendIgnore(p)
    <3>1. disk' = disk \/ \E x : disk' = [disk EXCEPT !.ignore = x]
      BY <2>4 DEF AppendIgnore
    <3> QED BY <3>1 DEF Stored
  <2>5. CASE CreateIgnore(p)
    <3>1. disk' = disk \/ \E x : disk' = [disk EXCEPT !.ignore = x]
      BY <2>5 DEF CreateIgnore, Written
    <3> QED BY <3>1 DEF Stored
  <2>6. CASE TrustRevoke(p) \/ Download(p)
    BY <2>6 DEF TrustRevoke, Download, Stored
  <2>7. CASE Run(p)
    <3>1. \E x, y : disk' = [disk EXCEPT !.commits = x, !.trust = y]
      BY <2>7 DEF Run
    <3> QED BY <3>1 DEF Stored
  <2>8. CASE Persist(p)
    <3>1. disk' = disk \/ \E x : disk' = [disk EXCEPT !.metrics = x]
      BY <2>8 DEF Persist
    <3> QED BY <3>1 DEF Stored
  <2> QED BY <2>1, <2>2, <2>3, <2>4, <2>5, <2>6, <2>7, <2>8
<1>3. pc[p] = "store" => ~calm'
  BY DEF Step, Attempts, Crash, Begin, Dispatch, PrintOnly, FindRoot, ReadGlobal, ReadRepo,
         Show, CreateConfig, TrustList, TrustRevoke, Doctor, Setup, Download, PlanInit,
         Confirm, PlanAgain, GitInit, CompareIgnore, AppendIgnore, CreateIgnore, Check, Run,
         Report, Persist
<1>4. pc'[p] \notin Attempting
  BY Leads DEF Apart, Attempting
<1> QED BY <1>1, <1>2, <1>3, <1>4

\* What a step does to the request it is about.
LEMMA Elsewhen ==
  ASSUME Shape, Stored, Count, NEW p \in Process, Lawful(p), Step(p) \/ Crash(p),
         ~Attempts(p), ~start.overlap, calm'
  PROVE  Counted'
<1>1. /\ disk'.cache = disk.cache /\ gets' = gets /\ pc'[p] \notin Attempting
      /\ pc[p] # "store"
  BY Elsewhere
<1>2. day' = day /\ calm
  BY StepFrom
<1>3. Counted
  BY <1>2 DEF Count
<1>4. \A q \in Process \ {p} : me'[q] = me[q] /\ pc'[q] = pc[q]
  BY ProcessStep DEF Others
<1>5. \A d \in 0 .. LastDay : gets'[d] <= 1 /\ (d > day' => gets'[d] = 0)
  BY <1>1, <1>2, <1>3 DEF Counted
<1>6. gets'[day'] > 0 =>
        Cached(day)' \/ \E q \in Process : pc'[q] = "store" /\ me'[q].saved.at = day'
  BY <1>1, <1>2, <1>3, <1>4 DEF Counted, Cached
<1>7. ASSUME NEW q \in Process PROVE Paced(q)'
  <2>1. CASE q = p
    BY <1>1, <2>1 DEF Paced
  <2>2. CASE q # p
    <3>1. me'[q] = me[q] /\ pc'[q] = pc[q] /\ Paced(q)
      BY <1>3, <1>4, <2>2 DEF Counted
    <3> QED BY <1>1, <1>2, <3>1 DEF Paced, Cached
  <2> QED BY <2>1, <2>2
<1> QED BY <1>5, <1>6, <1>7 DEF Counted

LEMMA Attempted ==
  ASSUME Shape, Stored, Count, NEW p \in Process, Lawful(p), Attempts(p),
         ~start.overlap, calm'
  PROVE  Counted'
<1> DEFINE at == me[p].saved.at
           paced == Paced(p)'
           counts == \A d \in 0 .. LastDay : gets'[d] <= 1 /\ (d > day => gets'[d] = 0)
           known == gets'[day] > 0 =>
                      Cached(day)' \/ (pc'[p] = "store" /\ me'[p].saved.at = day)
<1>1. Step(p)
  BY DEF Attempts, Step
<1>2. start' = start /\ day' = day /\ calm /\ ~AtRest(p)
  BY <1>1, StepFrom DEF Attempts, AtRest, ReadCache, BeginAttempt, RecordAttempt, Get,
                        BeginResult, StoreResult
<1>3. Counted /\ Paced(p)
  BY <1>2 DEF Count, Counted
<1>4. /\ day \in 0 .. LastDay /\ day \in Nat /\ LastDay \in Nat
      /\ \A d \in 0 .. LastDay : gets[d] \in Nat
      /\ gets \in [0 .. LastDay -> Nat]
  BY ConstantsOK DEF Count, Counters
<1>5. \A q \in Process \ {p} : me'[q] = me[q] /\ pc'[q] = pc[q] /\ pc[q] \in {"start", "exit"}
  BY <1>1, <1>2, ProcessStep DEF Count, OneAtATime, Others, AtRest
<1>6. gets[day] > 0 => Cached(day) \/ (pc[p] = "store" /\ at = day)
  BY <1>3, <1>5 DEF Counted
<1>7. \A d \in 0 .. LastDay : gets[d] <= 1 /\ (d > day => gets[d] = 0)
  BY <1>3 DEF Counted
<1>8. ASSUME paced, counts, known PROVE Counted'
  <2>1. \A q \in Process : Paced(q)'
    BY <1>5, <1>8 DEF Paced, Attempting
  <2> QED BY <1>2, <1>8, <2>1 DEF Counted
<1>a. pc[p] \in Attempting =>
        /\ DOMAIN me[p].saved = {"at", "latest"} /\ at \in 0 .. day
        /\ \A d \in 0 .. LastDay : d > at => gets[d] = 0
        /\ pc[p] \in {"attempt", "record", "get"} => gets[at] = 0
        /\ pc[p] \in {"get", "result"} => Cached(at)
  BY <1>3 DEF Paced
<1>b. CASE /\ gets' = gets /\ disk' = disk /\ pc[p] # "store"
           /\ pc'[p] \in {"run", "exit"}
  BY <1>2, <1>6, <1>7, <1>8, <1>b DEF Paced, Attempting, Cached
<1>c. CASE ReadCache(p)
  <2>1. CASE OutputFault(p) \/ Goto(p, "run")
    <3>1. pc'[p] \in {"run", "exit"}
      BY <2>1, FaultKeeps DEF Shape, Goto
    <3> QED BY <1>b, <1>c, <3>1 DEF ReadCache, checking
  <2>2. CASE ~(OutputFault(p) \/ Goto(p, "run"))
    <3>0. day >= day
      BY <1>4
    <3>1. /\ ~Cached(day) /\ pc[p] = "cached" /\ gets' = gets /\ disk' = disk
          /\ Goto(p, "attempt")
          /\ \E l : me' = [me EXCEPT ![p].saved = [at |-> day, latest |-> l]]
      BY <1>c, <2>2, <3>0 DEF ReadCache, Notify, Cached, checking
    <3>2. /\ pc'[p] = "attempt" /\ me'[p].saved.at = day
          /\ DOMAIN me'[p].saved = {"at", "latest"}
      BY <3>1 DEF Shape, Fields, Goto
    <3>3. gets[day] = 0
      BY <1>4, <1>6, <3>1
    <3>4. paced
      BY <1>2, <1>4, <1>7, <3>1, <3>2, <3>3 DEF Paced
    <3> QED BY <1>4, <1>7, <1>8, <3>1, <3>3, <3>4
  <2> QED BY <2>1, <2>2
<1>d. CASE BeginAttempt(p)
  <2>1. /\ pc[p] = "attempt" /\ gets' = gets /\ me' = me
        /\ pc'[p] \in {"record", "run"}
    BY <1>d DEF BeginAttempt, Truncate, Shape, Goto, checking
  <2>a. gets[at] = 0 /\ at \in 0 .. day /\ \A d \in 0 .. LastDay : d > at => gets[d] = 0
    BY <1>a, <2>1 DEF Attempting
  <2>2. gets[day] = 0
    <3>1. day = at \/ day > at
      BY <1>4, <2>a
    <3> QED BY <1>4, <2>a, <3>1
  <2>3. /\ DOMAIN me'[p].saved = {"at", "latest"} /\ me'[p].saved.at = at /\ at \in 0 .. day
        /\ gets[at] = 0 /\ \A d \in 0 .. LastDay : d > at => gets[d] = 0
    BY <1>a, <2>1 DEF Attempting
  <2>4. paced
    BY <1>2, <2>1, <2>3 DEF Paced
  <2> QED BY <1>4, <1>7, <1>8, <2>1, <2>2, <2>4
<1>e. CASE RecordAttempt(p)
  <2>1. /\ pc[p] = "record" /\ gets' = gets /\ me' = me
        /\ (pc'[p] = "get" /\ Store(p)) \/ pc'[p] = "run"
    BY <1>e DEF RecordAttempt, Shape, Goto, checking
  <2>a. gets[at] = 0 /\ at \in 0 .. day /\ \A d \in 0 .. LastDay : d > at => gets[d] = 0
    BY <1>a, <2>1 DEF Attempting
  <2>2. gets[day] = 0
    <3>1. day = at \/ day > at
      BY <1>4, <2>a
    <3> QED BY <1>4, <2>a, <3>1
  <2>3. pc'[p] = "get" => Cached(at)'
    BY <2>1 DEF Store, Cached, Stored
  <2>4. paced
    BY <1>2, <1>a, <2>1, <2>3 DEF Paced, Attempting, Cached
  <2> QED BY <1>4, <1>7, <1>8, <2>1, <2>2, <2>4
<1>f. CASE Get(p)
  <2>1. /\ pc[p] = "get" /\ gets' = [gets EXCEPT ![at] = @ + 1] /\ disk' = disk
        /\ pc'[p] \in {"result", "run"}
        /\ me'[p].saved.at = at /\ DOMAIN me'[p].saved = {"at", "latest"}
    BY <1>a, <1>f DEF Get, Shape, Fields, Goto, Attempting
  <2>2. /\ at \in 0 .. day /\ at \in 0 .. LastDay /\ gets[at] = 0 /\ Cached(at)
        /\ \A d \in 0 .. LastDay : d > at => gets[d] = 0
    BY <1>4, <1>a, <2>1 DEF Attempting
  <2>3. gets'[at] = 1 /\ \A d \in 0 .. LastDay : d # at => gets'[d] = gets[d]
    BY <1>4, <2>1, <2>2
  <2>4. counts
    <3> SUFFICES ASSUME NEW d \in 0 .. LastDay
                 PROVE  gets'[d] <= 1 /\ (d > day => gets'[d] = 0)
      OBVIOUS
    <3>1. CASE d = at
      BY <1>4, <2>2, <2>3, <3>1
    <3>2. CASE d # at
      BY <1>7, <2>3, <3>2
    <3> QED BY <3>1, <3>2
  <2>5. known
    <3>1. gets'[day] > 0 => day = at
      BY <1>4, <2>2, <2>3
    <3> QED BY <1>2, <2>1, <2>2, <3>1 DEF Cached
  <2>6. paced
    BY <1>2, <1>4, <2>1, <2>2, <2>3 DEF Paced, Attempting, Cached
  <2> QED BY <1>8, <2>4, <2>5, <2>6
<1>g. CASE BeginResult(p)
  <2>1. /\ pc[p] = "result" /\ gets' = gets /\ me' = me
        /\ pc'[p] = "store" \/ (pc'[p] = "run" /\ disk' = disk)
    BY <1>g DEF BeginResult, Truncate, Shape, Goto, checking
  <2>2. gets[day] > 0 => at = day
    BY <1>6, <1>a, <2>1 DEF Cached, Attempting
  <2>3. CASE pc'[p] = "store"
    <3>1. paced
      BY <1>2, <1>a, <2>1, <2>3 DEF Paced, Attempting
    <3> QED BY <1>7, <1>8, <2>1, <2>2, <2>3, <3>1
  <2>4. CASE pc'[p] = "run" /\ disk' = disk
    BY <1>b, <2>1, <2>4
  <2> QED BY <2>1, <2>3, <2>4
<1>h. CASE StoreResult(p)
  <2>1. calm' # FALSE
    OBVIOUS
  <2>2. /\ pc[p] = "store" /\ gets' = gets /\ Store(p)
        /\ OutputFault(p) \/ Goto(p, "run")
    BY <1>h, <2>1 DEF StoreResult, Notify
  <2>3. pc'[p] \in {"run", "exit"}
    BY <2>2, FaultKeeps DEF Shape, Goto
  <2>4. disk'.cache.state = "ok" /\ disk'.cache.at = at
    BY <2>2 DEF Store, Stored
  <2>5. gets[day] > 0 => at = day
    BY <1>4, <1>a, <2>2 DEF Attempting
  <2>6. paced
    BY <2>3 DEF Paced, Attempting
  <2>7. known
    BY <1>2, <2>2, <2>4, <2>5 DEF Cached
  <2> QED BY <1>7, <1>8, <2>2, <2>6, <2>7
<1> QED BY <1>c, <1>d, <1>e, <1>f, <1>g, <1>h DEF Attempts

\* In the beginning nothing was asked for.
LEMMA InitCount == Init => Count
<1> SUFFICES ASSUME Init PROVE Count
  OBVIOUS
<1>1. LastDay \in Nat /\ start.days \in 0 .. LastDay
  BY ConstantsOK DEF Init
<1>2. day = 0 /\ \A d \in 0 .. LastDay : gets[d] = 0
  BY DEF Init
<1>3. Counters
  BY <1>1 DEF Init, Counters
<1>4. \A p \in Process : pc[p] \in {"start", "exit"}
  BY DEF Init
<1>5. OneAtATime
  BY <1>4 DEF OneAtATime, AtRest
<1>6. Counted
  BY <1>1, <1>2, <1>4 DEF Counted, Paced, Attempting
<1> QED BY <1>3, <1>5, <1>6 DEF Count

\* The user and the calendar.
LEMMA Outside ==
  ASSUME Stored, Count, EditIgnore \/ EditConfig \/ Tomorrow \/ UNCHANGED vars
  PROVE  Count'
<1>1. start' = start /\ gets' = gets /\ calm' = calm /\ pc' = pc /\ me' = me
  BY DEF EditIgnore, EditConfig, Tomorrow, vars, given, checking
<1>2. disk'.cache = disk.cache
  BY DEF EditIgnore, EditConfig, Tomorrow, vars, Stored, Written
<1>3. day' = day \/ (day < start.days /\ day' = day + 1)
  BY DEF EditIgnore, EditConfig, Tomorrow, vars, given, checking
<1>4. Counters' /\ day' \in Nat /\ day \in Nat /\ day' >= day
  BY <1>1, <1>3, ConstantsOK DEF Count, Counters
<1>5. OneAtATime'
  BY <1>1 DEF Count, OneAtATime, AtRest
<1>6. ASSUME Counted PROVE Counted'
  <2>1. \A d \in 0 .. LastDay : gets'[d] <= 1 /\ (d > day' => gets'[d] = 0)
    BY <1>1, <1>4, <1>6 DEF Counted
  <2>2. CASE day' = day
    BY <1>1, <1>2, <1>6, <2>1, <2>2 DEF Counted, Paced, Cached
  <2>3. CASE day < start.days /\ day' = day + 1
    <3>1. day' \in 0 .. LastDay /\ day' > day
      BY <1>4, <2>3, ConstantsOK DEF Count, Counters
    <3>2. gets'[day'] = 0
      BY <1>1, <1>6, <3>1 DEF Counted
    <3>3. ASSUME NEW p \in Process PROVE Paced(p)'
      <4>1. Paced(p)
        BY <1>6 DEF Counted
      <4> QED BY <1>1, <1>2, <1>4, <4>1 DEF Paced, Cached, Attempting
    <3> QED BY <2>1, <3>2, <3>3 DEF Counted
  <2> QED BY <1>3, <2>2, <2>3
<1> QED BY <1>1, <1>4, <1>5, <1>6 DEF Count

LEMMA CountStep == Inv /\ Count /\ [Next]_vars => Count'
<1> SUFFICES ASSUME Inv, Count, [Next]_vars PROVE Count'
  OBVIOUS
<1>1. CASE EditIgnore \/ EditConfig \/ Tomorrow \/ UNCHANGED vars
  BY <1>1, Outside DEF Inv
<1>2. ASSUME NEW p \in Process, Step(p) \/ Crash(p) PROVE Count'
  <2>1. start' = start /\ day' = day
    BY <1>2, StepFrom
  <2>2. gets' \in [0 .. LastDay -> Nat]
    <3>1. gets \in [0 .. LastDay -> Nat]
      BY DEF Count, Counters
    <3>2. CASE Get(p)
      <4>1. PICK at : gets' = [gets EXCEPT ![at] = @ + 1]
        BY <3>2 DEF Get
      <4>2. CASE at \in 0 .. LastDay
        BY <3>1, <4>1, <4>2
      <4>3. CASE at \notin 0 .. LastDay
        BY <3>1, <4>1, <4>3
      <4> QED BY <4>2, <4>3
    <3>3. CASE ~Get(p)
      BY <1>2, <3>1, <3>3 DEF Step, Crash, Begin, Dispatch, PrintOnly, FindRoot, ReadGlobal,
           ReadRepo, Show, CreateConfig, TrustList, TrustRevoke, Doctor, Setup, Download,
           PlanInit, Confirm, PlanAgain, GitInit, CompareIgnore, AppendIgnore, CreateIgnore,
           Check, ReadCache, BeginAttempt, RecordAttempt, BeginResult, StoreResult, Run,
           Report, Persist, checking
    <3> QED BY <3>2, <3>3
  <2>3. Counters'
    BY <2>1, <2>2 DEF Count, Counters
  <2>4. OneAtATime'
    BY <1>2, StillAlone DEF Inv, Count
  <2>5. ~start'.overlap /\ calm' => Counted'
    BY <1>2, <2>1, Attempted, Elsewhen DEF Inv
  <2> QED BY <2>3, <2>4, <2>5 DEF Count
<1> QED BY <1>1, <1>2 DEF Next

-----------------------------------------------------------------------------
(* The words of a command line and the lines of .gitignore                   *)

\* Sequences of lines, or of words.  The provers do not know that the literal a
\* user types in EditIgnore is a string.
Line == STRING \cup {"typed"}
Text == Seq(Line)

\* A sequence over a set is one over every larger set.
LEMMA WiderText ==
  ASSUME NEW S, NEW T, S \subseteq T, NEW s \in Seq(S)
  PROVE  s \in Seq(T)
OBVIOUS

\* Every sequence of strings is one, and one line is a text.
LEMMA LinesText ==
  /\ \A s \in Seq(STRING) : s \in Text
  /\ \A w \in Line : <<w>> \in Text
<1>1. ASSUME NEW S, NEW w \in S PROVE <<w>> \in Seq(S)
  OBVIOUS
<1>2. STRING \subseteq Line
  BY DEF Line
<1> HIDE DEF Line
<1> QED BY <1>1, <1>2, WiderText DEF Text

\* A set of numbers with some member has a least one.
LEMMA Smallest ==
  ASSUME NEW S, S \subseteq Nat, S # {}
  PROVE  \E n \in S : \A m \in S : n <= m
<1>1. \E n \in S : \A m \in S : ~(<<m, n>> \in OpToRel(<, Nat))
  BY NatLessThanWellFounded, WFMin
<1>2. PICK n \in S : \A m \in S : ~(m < n)
  BY <1>1 DEF OpToRel
<1> QED BY <1>2

\* The options after each of the first words of a line.
IsRead(f, line, k) ==
  f = [n \in 0 .. k |-> IF n = 0 THEN NoOptions ELSE ParseWord(f[n - 1], line[n])]

\* What Parse names exists, by induction on the number of words.
LEMMA ReadExists ==
  ASSUME NEW line, NEW k \in Nat
  PROVE  \E f : IsRead(f, line, k)
<1> DEFINE Bad == {j \in Nat : ~ \E f : IsRead(f, line, j)}
<1> SUFFICES ASSUME Bad # {} PROVE FALSE
  OBVIOUS
<1>1. PICK j \in Bad : \A m \in Bad : j <= m
  BY Smallest
<1>2. j # 0
  <2> DEFINE f == [n \in 0 .. 0 |-> NoOptions]
  <2>1. IsRead(f, line, 0)
    BY DEF IsRead
  <2> QED BY <2>1
<1>3. PICK f : IsRead(f, line, j - 1)
  BY <1>1, <1>2
<1> DEFINE g == [n \in 0 .. j |-> IF n = j THEN ParseWord(f[j - 1], line[j]) ELSE f[n]]
<1>4. ASSUME NEW n \in 0 .. j
      PROVE  g[n] = IF n = 0 THEN NoOptions ELSE ParseWord(g[n - 1], line[n])
  <2>1. CASE n = 0
    BY <2>1, <1>2, <1>3 DEF IsRead
  <2>2. CASE n # 0 /\ n # j
    <3>1. n \in 0 .. (j - 1) /\ n - 1 \in 0 .. (j - 1)
      BY <2>2
    <3>2. f[n] = ParseWord(f[n - 1], line[n])
      BY <2>2, <3>1, <1>3 DEF IsRead
    <3>3. g[n] = f[n] /\ g[n - 1] = f[n - 1]
      BY <2>2, <3>1
    <3> QED BY <2>2, <3>2, <3>3
  <2>3. CASE n = j
    <3>1. j - 1 \in 0 .. j /\ j - 1 # j
      BY <1>2
    <3>2. g[j - 1] = f[j - 1] /\ g[j] = ParseWord(f[j - 1], line[j])
      BY <3>1
    <3> QED BY <2>3, <3>2, <1>2
  <2> QED BY <2>1, <2>2, <2>3
<1>5. IsRead(g, line, j)
  BY <1>4 DEF IsRead
<1> QED BY <1>5

\* The arguments among the options are words.
HasArgs(o) == "args" \in DOMAIN o /\ o.args \in Text

LEMMA WordArgs ==
  ASSUME NEW o, HasArgs(o), NEW w \in Line
  PROVE  HasArgs(ParseWord(o, w))
<1>1. Append(o.args, w) \in Text
  BY DEF HasArgs, Text
<1> QED BY <1>1 DEF HasArgs, ParseWord

LEMMA ParseArgs ==
  ASSUME NEW line \in Text
  PROVE  HasArgs(Parse(line))
<1> DEFINE N == Len(line)
           read == CHOOSE f : IsRead(f, line, N)
<1>1. N \in Nat /\ \A n \in 1 .. N : line[n] \in Line
  BY DEF Text
<1>2. IsRead(read, line, N)
  BY <1>1, ReadExists
<1>3. Parse(line) = IF read[N].reading \in ValueFlags
                    THEN [read[N] EXCEPT !.reading = "error"] ELSE read[N]
  BY DEF Parse, IsRead
<1> HIDE DEF read
<1> DEFINE Bad == {n \in 0 .. N : ~HasArgs(read[n])}
<1>4. ASSUME Bad # {} PROVE FALSE
  <2>1. Bad \subseteq Nat
    OBVIOUS
  <2>2. PICK n \in Bad : \A m \in Bad : n <= m
    <3> HIDE DEF Bad
    <3> QED BY <1>4, <2>1, Smallest
  <2>a. HasArgs(NoOptions)
    BY DEF HasArgs, NoOptions, Text
  <2>3. read[0] = NoOptions
    BY <1>1, <1>2 DEF IsRead
  <2>4. n \in 1 .. N
    BY <1>1, <2>2, <2>a, <2>3
  <2>5. n - 1 \in 0 .. N /\ HasArgs(read[n - 1])
    BY <1>1, <2>2, <2>4
  <2>6. read[n] = ParseWord(read[n - 1], line[n])
    BY <1>2, <2>4 DEF IsRead
  <2>7. HasArgs(read[n])
    <3>1. line[n] \in Line
      BY <1>1, <2>4
    <3> HIDE DEF Bad
    <3> QED BY <2>5, <2>6, <3>1, WordArgs
  <2> QED BY <2>7
<1>5. HasArgs(read[N])
  BY <1>1, <1>4
<1> QED BY <1>3, <1>5 DEF HasArgs

\* The missing patterns after each of the first arguments.
Added(s, lines, w) ==
  IF w \in {"--ignore"} \cup ToSet(lines) \cup ToSet(s) THEN s ELSE Append(s, w)
IsMissing(f, args, lines, k) ==
  f = [n \in 0 .. k |-> IF n = 0 THEN <<>>
        ELSE IF args[n] \in {"--ignore"} \cup ToSet(lines) \cup ToSet(f[n - 1])
             THEN f[n - 1] ELSE Append(f[n - 1], args[n])]

\* What Missing names exists, by induction on the number of arguments.
LEMMA MissingExists ==
  ASSUME NEW args, NEW lines, NEW k \in Nat
  PROVE  \E f : IsMissing(f, args, lines, k)
<1> DEFINE Is(f, j) ==
             f = [n \in 0 .. j |-> IF n = 0 THEN <<>> ELSE Added(f[n - 1], lines, args[n])]
           Bad == {j \in Nat : ~ \E f : Is(f, j)}
<1>0. ASSUME NEW f, Is(f, k) PROVE IsMissing(f, args, lines, k)
  BY <1>0 DEF IsMissing, Added
<1> SUFFICES ASSUME Bad # {} PROVE FALSE
  BY <1>0
<1>1. PICK j \in Bad : \A m \in Bad : j <= m
  BY Smallest
<1>2. j # 0
  <2> DEFINE f == [n \in 0 .. 0 |-> <<>>]
  <2>1. Is(f, 0)
    OBVIOUS
  <2> QED BY <2>1
<1>3. PICK f : Is(f, j - 1)
  BY <1>1, <1>2
<1> DEFINE g == [n \in 0 .. j |-> IF n = j THEN Added(f[j - 1], lines, args[j]) ELSE f[n]]
<1>4. ASSUME NEW n \in 0 .. j
      PROVE  g[n] = IF n = 0 THEN <<>> ELSE Added(g[n - 1], lines, args[n])
  <2>1. CASE n = 0
    BY <2>1, <1>2, <1>3
  <2>2. CASE n # 0 /\ n # j
    <3>1. n \in 0 .. (j - 1) /\ n - 1 \in 0 .. (j - 1)
      BY <2>2
    <3>2. f[n] = Added(f[n - 1], lines, args[n])
      BY <2>2, <3>1, <1>3
    <3>3. g[n] = f[n] /\ g[n - 1] = f[n - 1]
      BY <2>2, <3>1
    <3> QED BY <2>2, <3>2, <3>3
  <2>3. CASE n = j
    <3>1. j - 1 \in 0 .. j /\ j - 1 # j
      BY <1>2
    <3>2. g[j - 1] = f[j - 1] /\ g[j] = Added(f[j - 1], lines, args[j])
      BY <3>1
    <3> QED BY <2>3, <3>2, <1>2
  <2> QED BY <2>1, <2>2, <2>3
<1>5. Is(g, j)
  BY <1>4
<1> QED BY <1>5

\* The lines that init adds are lines.
LEMMA MissingText ==
  ASSUME NEW args \in Text, NEW lines
  PROVE  Missing(args, lines) \in Text
<1> DEFINE N == Len(args)
           missing == CHOOSE f : IsMissing(f, args, lines, N)
<1>1. N \in Nat /\ \A n \in 1 .. N : args[n] \in Line
  BY DEF Text
<1>2. IsMissing(missing, args, lines, N)
  BY <1>1, MissingExists
<1>3. Missing(args, lines) = missing[N]
  BY DEF Missing, IsMissing
<1> HIDE DEF missing
<1> DEFINE Bad == {n \in 0 .. N : missing[n] \notin Text}
<1>4. ASSUME Bad # {} PROVE FALSE
  <2>1. Bad \subseteq Nat
    OBVIOUS
  <2>2. PICK n \in Bad : \A m \in Bad : n <= m
    <3> HIDE DEF Bad
    <3> QED BY <1>4, <2>1, Smallest
  <2>3. missing[0] = <<>> /\ <<>> \in Text
    BY <1>1, <1>2 DEF IsMissing, Text
  <2>4. n \in 1 .. N
    BY <1>1, <2>2, <2>3
  <2>5. n - 1 \in 0 .. N /\ missing[n - 1] \in Text
    BY <1>1, <2>2, <2>4
  <2>6. missing[n] = missing[n - 1] \/ missing[n] = Append(missing[n - 1], args[n])
    <3>1. n \in 0 .. N /\ n # 0
      BY <2>4
    <3> HIDE DEF Bad
    <3> QED BY <1>2, <3>1 DEF IsMissing
  <2>7. missing[n] \in Text
    <3>1. args[n] \in Line
      BY <1>1, <2>4
    <3>2. Append(missing[n - 1], args[n]) \in Text
      BY <2>5, <3>1 DEF Text
    <3> HIDE DEF Bad
    <3> QED BY <2>5, <2>6, <3>2
  <2> QED BY <2>7
<1> QED BY <1>1, <1>3, <1>4

\* Lines at the end leave those before them.
LEMMA PrefixKept ==
  ASSUME NEW s \in Text, NEW t \in Text
  PROVE  s \o t \in Text /\ IsPrefix(s, s \o t) /\ IsPrefix(s, s)
<1>1. s \o t \in Text /\ Len(s \o t) = Len(s) + Len(t) /\ Len(s) \in Nat /\ Len(t) \in Nat
  BY DEF Text
<1>2. SubSeq(s \o t, 1, Len(s)) = SubSeq(s, 1, Len(s))
  BY DEF Text
<1> QED BY <1>1, <1>2 DEF IsPrefix

\* The files with text: where there is no .gitignore it has no lines.
Files ==
  /\ {"ignore", "global", "repo"} \subseteq DOMAIN disk
  /\ disk.ignore \in [state : {"absent", "file", "link"}, lines : Text]
  /\ disk.ignore.state = "absent" => disk.ignore.lines = <<>>

\* What a process has read of its command line, and what it is going to add.
\* A plan that does not create .gitignore has seen it, and nobody deletes it.
Held(p) ==
  /\ me[p].opts.args \in Text /\ me[p].plan.missing \in Text
  /\ ~Creates(me[p].plan) => disk.ignore.state # "absent"
  /\ pc[p] \in {"compare", "append"} => ~Creates(me[p].plan)
Told == start \in Scenarios /\ \A p \in Process : pc[p] = "start" => p \in DOMAIN start.lines

Texts == Files /\ Told /\ \A p \in Process : Held(p)

\* What no step does: lose a line, or replace a configuration file.
KeepsText ==
  /\ IsPrefix(disk.ignore.lines, disk'.ignore.lines)
  /\ \A f \in {"global", "repo"} : disk[f].state = "absent" \/ disk'[f] = disk[f]
  /\ disk'.ignore.state = "absent" => disk.ignore.state = "absent"

\* A .gitignore with other lines.
LEMMA OtherLines ==
  ASSUME NEW old, old \in [state : {"absent", "file", "link"}, lines : Text], NEW lines
  PROVE  [old EXCEPT !.lines = lines] = [state |-> old.state, lines |-> lines]
OBVIOUS

\* Another file is written, or a configuration file created.
LEMMA SameText ==
  ASSUME Files, DOMAIN disk' = DOMAIN disk, disk'.ignore = disk.ignore,
         \A f \in {"global", "repo"} : disk[f].state = "absent" \/ disk'[f] = disk[f]
  PROVE  Files' /\ KeepsText
<1>1. disk.ignore.lines \in Text
  BY DEF Files
<1>2. IsPrefix(disk.ignore.lines, disk.ignore.lines)
  BY <1>1, PrefixKept
<1> QED BY <1>2 DEF Files, KeepsText

\* Lines are added at the end.
LEMMA MoreText ==
  ASSUME Files, NEW more \in Text, NEW state \in {"absent", "file", "link"},
         state # "absent",
         disk' = [disk EXCEPT !.ignore =
                    [state |-> state, lines |-> disk.ignore.lines \o more]]
  PROVE  Files' /\ KeepsText
<1>1. disk.ignore.lines \in Text
  BY DEF Files
<1>2. /\ disk.ignore.lines \o more \in Text
      /\ IsPrefix(disk.ignore.lines, disk.ignore.lines \o more)
  BY <1>1, PrefixKept
<1>3. /\ DOMAIN disk' = DOMAIN disk /\ disk'.global = disk.global /\ disk'.repo = disk.repo
      /\ disk'.ignore = [state |-> state, lines |-> disk.ignore.lines \o more]
  BY DEF Files
<1> QED BY <1>2, <1>3 DEF Files, KeepsText

\* Every step of a process keeps the text.
LEMMA StepText ==
  ASSUME Files, NEW p \in Process, Held(p), Step(p) \/ Crash(p)
  PROVE  Files' /\ KeepsText
<1>1. ASSUME NEW f, f \notin {"ignore", "global", "repo"}, NEW x,
             disk' = [disk EXCEPT ![f] = x]
      PROVE  Files' /\ KeepsText
  BY <1>1, SameText DEF Files
<1>2. CASE disk' = disk
  BY <1>2, SameText
<1>3. CASE GitInit(p)
  <2>1. disk' = disk \/ disk' = [disk EXCEPT !.git = "repo"]
    BY <1>3 DEF GitInit
  <2> QED BY <1>1, <1>2, <2>1
<1>4. CASE TrustRevoke(p) \/ Download(p)
  <2>1. disk' = disk \/ disk' = [disk EXCEPT !.trust = FALSE]
        \/ disk' = [disk EXCEPT !.model = TRUE]
    BY <1>4 DEF TrustRevoke, Download
  <2> QED BY <1>1, <1>2, <2>1
<1>5. CASE BeginAttempt(p) \/ RecordAttempt(p) \/ BeginResult(p) \/ StoreResult(p)
  <2>1. disk' = disk \/ \E x : disk' = [disk EXCEPT !.cache = x]
    BY <1>5 DEF BeginAttempt, RecordAttempt, BeginResult, StoreResult, Truncate, Store
  <2> QED BY <1>1, <1>2, <2>1
<1>6. CASE Run(p)
  <2>1. \E x, y : disk' = [disk EXCEPT !.commits = x, !.trust = y]
    BY <1>6 DEF Run
  <2> QED BY <2>1, SameText DEF Files
<1>7. CASE Persist(p)
  <2>1. disk' = disk \/ \E x : disk' = [disk EXCEPT !.metrics = x]
    BY <1>7 DEF Persist
  <2> QED BY <1>1, <1>2, <2>1
<1>8. CASE CreateConfig(p)
  <2> DEFINE target == Target(me[p].opts)
  <2>1. target \in {"global", "repo"}
    BY DEF Target
  <2>2. \/ disk' = disk
        \/ disk[target].state = "absent" /\ \E x : disk' = [disk EXCEPT ![target] = x]
    BY <1>8 DEF CreateConfig
  <2> HIDE DEF target
  <2>3. CASE disk[target].state = "absent" /\ \E x : disk' = [disk EXCEPT ![target] = x]
    BY <2>1, <2>3, SameText DEF Files
  <2> QED BY <1>2, <2>2, <2>3
<1>9. CASE AppendIgnore(p)
  <2>1. disk' = disk \/ disk' = [disk EXCEPT !.ignore.lines = @ \o me[p].plan.missing]
    BY <1>9 DEF AppendIgnore
  <2>2. CASE disk' = [disk EXCEPT !.ignore.lines = @ \o me[p].plan.missing]
    <3> DEFINE old == disk.ignore
               more == me[p].plan.missing
    <3>1. old \in [state : {"absent", "file", "link"}, lines : Text] /\ more \in Text
      BY DEF Files, Held
    <3>2. [old EXCEPT !.lines = old.lines \o more]
            = [state |-> old.state, lines |-> old.lines \o more]
      BY <3>1, OtherLines
    <3>3. disk' = [disk EXCEPT !.ignore = [old EXCEPT !.lines = old.lines \o more]]
      BY <2>2
    <3>4. old.state # "absent"
      BY <1>9 DEF AppendIgnore, Held
    <3>5. old.state \in {"absent", "file", "link"}
      BY DEF Files
    <3> QED BY <3>1, <3>2, <3>3, <3>4, <3>5, MoreText
  <2> QED BY <1>2, <2>1, <2>2
<1>10. CASE CreateIgnore(p)
  <2>1. \/ disk' = disk
        \/ disk.ignore.state = "absent" /\ \E more \in Text : disk' = Written(more)
    <3>1. me[p].plan.missing \in Text /\ <<>> \in Text
      BY DEF Held, Text
    <3> QED BY <1>10, <3>1 DEF CreateIgnore
  <2>2. ASSUME NEW more \in Text, disk.ignore.state = "absent", disk' = Written(more)
        PROVE  Files' /\ KeepsText
    <3>1. disk.ignore.lines \o more = more
      BY <2>2 DEF Files, Text
    <3>2. disk' = [disk EXCEPT !.ignore =
                    [state |-> "file", lines |-> disk.ignore.lines \o more]]
      BY <2>2, <3>1 DEF Written
    <3> QED BY <3>2, MoreText
  <2> QED BY <1>2, <2>1, <2>2
<1>11. \/ disk' = disk
       \/ GitInit(p) \/ AppendIgnore(p) \/ CreateIgnore(p)
       \/ CreateConfig(p) \/ TrustRevoke(p) \/ Download(p)
       \/ BeginAttempt(p) \/ RecordAttempt(p) \/ BeginResult(p) \/ StoreResult(p)
       \/ Run(p) \/ Persist(p)
  BY DEF Step, Crash, Begin, Dispatch, PrintOnly, FindRoot, ReadGlobal, ReadRepo, Show,
         TrustList, Doctor, Setup, PlanInit, Confirm, PlanAgain, CompareIgnore, Check,
         ReadCache, Get, Report
<1> QED BY <1>2, <1>3, <1>4, <1>5, <1>6, <1>7, <1>8, <1>9, <1>10, <1>11

\* The user adds a line, or creates a configuration file.
LEMMA UserText ==
  ASSUME Files, EditIgnore \/ EditConfig
  PROVE  Files' /\ KeepsText
<1>1. CASE EditIgnore
  <2>1. disk.ignore.lines \in Text /\ <<"typed">> \in Text
    BY LinesText DEF Files, Line
  <2>2. Append(disk.ignore.lines, "typed") = disk.ignore.lines \o <<"typed">>
    <3> DEFINE s == disk.ignore.lines
               a == Append(s, "typed")
               c == s \o <<"typed">>
    <3>1. a \in Text /\ c \in Text /\ Len(a) = Len(s) + 1 /\ Len(c) = Len(s) + 1
      BY <2>1 DEF Text
    <3>2. \A i \in 1 .. Len(s) + 1 : a[i] = c[i]
      BY <2>1 DEF Text
    <3> HIDE DEF a, c
    <3>3. a = c
      BY <3>1, <3>2 DEF Text
    <3> QED BY <3>3 DEF a, c
  <2>3. disk' = [disk EXCEPT !.ignore =
                  [state |-> "file", lines |-> disk.ignore.lines \o <<"typed">>]]
    BY <1>1, <2>2 DEF EditIgnore, Written
  <2> QED BY <2>1, <2>3, MoreText
<1>2. CASE EditConfig
  <2>1. PICK f \in {"global", "repo"}, draft \in Drafts :
          disk[f].state = "absent" /\ disk' = [disk EXCEPT ![f] = draft]
    BY <1>2 DEF EditConfig
  <2> QED BY <2>1, SameText DEF Files
<1> QED BY <1>1, <1>2

\* Only Begin reads a command line, and only PlanInit makes a plan.
LEMMA HeldKept ==
  ASSUME Shape, NEW p \in Process, Step(p) \/ Crash(p)
  PROVE  \/ Begin(p)
         \/ PlanInit(p) /\ me'[p].opts = me[p].opts /\ me'[p].plan = Plan(me[p].opts.args)
         \/ me'[p].opts = me[p].opts /\ me'[p].plan = me[p].plan
<1> DEFINE Same == me'[p].opts = me[p].opts /\ me'[p].plan = me[p].plan
<1>1. CASE me' = me
  BY <1>1
<1>2. ASSUME NEW r, r.opts = me[p].opts, r.plan = me[p].plan, me' = [me EXCEPT ![p] = r]
      PROVE  Same
  BY <1>2 DEF Shape
<1>3. CASE OutputFault(p)
  BY <1>3 DEF OutputFault, Shape, Fields
<1>4. CASE \E code, printed : Exit(p, code, printed) \/ Fail(p, code) \/ Value(p, code)
                              \/ Lines(p, code)
  <2>1. ASSUME NEW code, NEW printed, Exit(p, code, printed) PROVE Same
    BY <2>1 DEF Exit, Shape, Fields
  <2> QED BY <1>3, <1>4, <2>1 DEF Fail, Value, Lines
<1> HIDE DEF Same
<1>5. CASE Dispatch(p) \/ PrintOnly(p) \/ Show(p) \/ CreateConfig(p) \/ TrustList(p)
           \/ TrustRevoke(p)
  BY <1>1, <1>4, <1>5 DEF Dispatch, PrintOnly, Show, CreateConfig, TrustList, TrustRevoke, Same
<1>6. CASE FindRoot(p) \/ ReadGlobal(p)
  <2>1. CASE \E r : me' = [me EXCEPT ![p].root = r] \/ me' = [me EXCEPT ![p].global = r]
    BY <2>1 DEF Shape, Fields, Same
  <2> QED BY <1>4, <1>6, <2>1 DEF FindRoot, ReadGlobal, Same
<1>7. CASE ReadRepo(p)
  <2>1. CASE ~Fail(p, Usage)
    <3>1. PICK repo : LET s == Resolve(me[p].global, repo, Overrides(me[p].opts)) IN
            me' = [me EXCEPT ![p] = [me[p] EXCEPT !.repo = repo, !.settings = s]]
      BY <1>7, <2>1 DEF ReadRepo
    <3> QED BY <3>1 DEF Shape, Fields, Same
  <2> QED BY <1>4, <2>1 DEF Same
<1>8. CASE Doctor(p) \/ Setup(p) \/ Download(p)
  BY <1>1, <1>3, <1>4, <1>8 DEF Doctor, Setup, Download, Capability, OrFault, Same
<1>9. CASE PlanInit(p)
  <2>1. CASE me' = [me EXCEPT ![p].plan = Plan(me[p].opts.args)]
    BY <1>9, <2>1 DEF Shape, Fields
  <2> QED BY <1>3, <1>4, <1>9, <2>1 DEF PlanInit, Same
<1>10. CASE Confirm(p) \/ PlanAgain(p) \/ GitInit(p) \/ CompareIgnore(p) \/ AppendIgnore(p)
            \/ CreateIgnore(p)
  BY <1>1, <1>4, <1>10 DEF Confirm, PlanAgain, GitInit, CompareIgnore, AppendIgnore,
                           CreateIgnore, OrFault, Same
<1>11. CASE Attempts(p) \/ Check(p)
  <2>1. CASE \E r : me' = [me EXCEPT ![p].saved = r] \/ me' = [me EXCEPT ![p].saved.latest = r]
    BY <2>1 DEF Shape, Fields, Same
  <2> QED BY <1>1, <1>3, <1>11, <2>1
          DEF Attempts, Check, ReadCache, BeginAttempt, RecordAttempt, Get, BeginResult,
              StoreResult, Notify, Truncate, Same
<1>12. CASE Run(p)
  <2>1. PICK code, out : me' = [me EXCEPT ![p].verdict = code, ![p].out = out]
    BY <1>12 DEF Run
  <2> QED BY <2>1 DEF Shape, Fields
<1>13. CASE Report(p) \/ Persist(p)
  BY <1>1, <1>3, <1>4, <1>13 DEF Report, Persist, Same
<1>14. CASE Crash(p)
  BY <1>14 DEF Crash, Shape, Fields
<1> QED BY <1>5, <1>6, <1>7, <1>8, <1>9, <1>10, <1>11, <1>12, <1>13, <1>14 DEF Step, Attempts

\* The invariant of the text is inductive.
LEMMA InitTexts == Init => Texts
<1> SUFFICES ASSUME Init PROVE Texts
  OBVIOUS
<1>1. start \in Scenarios /\ disk = start.disk
  BY DEF Init
<1>2. Files
  BY <1>1, ConstantsOK, LinesText DEF Files
<1>3. \A p \in Process : pc[p] = "start" => p \in DOMAIN start.lines
  BY DEF Init
<1>4. ASSUME NEW p \in Process PROVE Held(p)
  <2>1. me[p] = Fresh /\ pc[p] \in {"start", "exit"}
    BY DEF Init
  <2>a. me[p].opts = NoOptions /\ me[p].plan = NoPlan
    BY <2>1 DEF Fresh
  <2>2. me[p].opts.args = <<>> /\ me[p].plan.missing = <<>> /\ Creates(me[p].plan)
    <3>1. NoOptions.args = <<>>
      BY DEF NoOptions
    <3>2. NoPlan.missing = <<>> /\ NoPlan.before.state = "absent"
      BY DEF NoPlan
    <3> QED BY <2>a, <3>1, <3>2 DEF Creates
  <2>3. <<>> \in Text
    BY DEF Text
  <2> QED BY <2>1, <2>2, <2>3 DEF Held
<1> QED BY <1>1, <1>2, <1>3, <1>4 DEF Texts, Told

\* A step that keeps the files keeps what the processes that do not act hold.
LEMMA HeldByOthers ==
  ASSUME NEW q \in Process, Held(q), me'[q] = me[q], pc'[q] = pc[q], KeepsText
  PROVE  Held(q)'
<1>1. Creates(me'[q].plan) = Creates(me[q].plan)
  OBVIOUS
<1> QED BY <1>1 DEF Held, KeepsText, Creates

LEMMA TextsStep == Inv /\ Texts /\ [Next]_vars => Texts' /\ KeepsText
<1> SUFFICES ASSUME Inv, Texts, [Next]_vars PROVE Texts' /\ KeepsText
  OBVIOUS
<1>1. CASE EditIgnore \/ EditConfig \/ Tomorrow \/ UNCHANGED vars
  <2>1. me' = me /\ pc' = pc /\ start' = start
    BY <1>1 DEF vars, EditIgnore, EditConfig, Tomorrow, given
  <2>2. Files' /\ KeepsText
    <3>1. CASE disk' = disk
      BY <3>1, SameText DEF Texts
    <3> QED BY <1>1, <3>1, UserText DEF Texts, Tomorrow, vars
  <2> QED BY <2>1, <2>2, HeldByOthers DEF Texts, Told
<1>2. ASSUME NEW p \in Process, Step(p) \/ Crash(p) PROVE Texts' /\ KeepsText
  <2>1. Files' /\ KeepsText
    BY <1>2, StepText DEF Texts
  <2>2. Shape /\ Lawful(p) /\ Files /\ Held(p) /\ Told
    BY DEF Inv, Texts
  <2>3. Others(p) /\ start' = start
    BY <1>2, <2>2, ProcessStep, StepFrom
  <2>4. pc'[p] # "start" /\ (pc'[p] \in {"compare", "append"} => ~Creates(me[p].plan) /\ me' = me)
    <3>1. CompareIgnore(p) => pc[p] = "compare"
      BY DEF CompareIgnore
    <3> QED BY <1>2, <2>2, <3>1, Leads DEF Apart, Attempting, Held
  <2>5. CASE Begin(p)
    <3>1. /\ pc[p] = "start" /\ me'[p].opts = Parse(start.lines[p]) /\ me'[p].plan = me[p].plan
          /\ pc'[p] = "dispatch"
      BY <2>2, <2>5 DEF Begin, Goto, Shape, Fields
    <3>2. start.lines[p] \in Text
      BY <2>2, <3>1, ConstantsOK, LinesText DEF Told
    <3>3. me'[p].opts.args \in Text
      BY <3>1, <3>2, ParseArgs DEF HasArgs
    <3>4. Held(p)'
      BY <2>1, <2>2, <3>1, <3>3 DEF Held, KeepsText, Creates
    <3> QED BY <2>1, <2>3, <2>4, <3>4, HeldByOthers DEF Texts, Told, Others
  <2>6. CASE PlanInit(p) /\ me'[p].opts = me[p].opts /\ me'[p].plan = Plan(me[p].opts.args)
    <3>1. disk' = disk
      BY <2>6 DEF PlanInit
    <3>2. me'[p].plan.missing \in Text /\ me'[p].plan.before = disk.ignore
      BY <2>2, <2>6, MissingText DEF Plan, Held
    <3>3. pc'[p] \notin {"compare", "append"}
      <4>1. CASE Goto(p, "confirm")
        BY <2>2, <4>1 DEF Goto, Shape
      <4>2. CASE Fail(p, Usage) \/ Lines(p, Success) \/ OutputFault(p)
        BY <2>2, <4>2, ExitKeeps, FaultKeeps DEF Fail, Lines
      <4> QED BY <2>6, <4>1, <4>2 DEF PlanInit
    <3>4. Held(p)'
      BY <2>2, <2>6, <3>1, <3>2, <3>3 DEF Held, Creates
    <3> QED BY <2>1, <2>3, <2>4, <3>4, HeldByOthers DEF Texts, Told, Others
  <2>7. CASE me'[p].opts = me[p].opts /\ me'[p].plan = me[p].plan
    <3>1. Held(p)'
      BY <2>1, <2>2, <2>4, <2>7 DEF Held, KeepsText, Creates
    <3> QED BY <2>1, <2>3, <2>4, <3>1, HeldByOthers DEF Texts, Told, Others
  <2> QED BY <1>2, <2>2, <2>5, <2>6, <2>7, HeldKept
<1> QED BY <1>1, <1>2 DEF Next

-----------------------------------------------------------------------------
(* The theorems                                                              *)

\* What holds of every invocation at every step, for any command line.
THEOREM Invariant == Spec => []Inv
BY InitInv, InvStep, PTL DEF Spec

(* The repository's file decides nothing that is the user's: with it, the    *)
(* settings of the user are those that the other layers give.                *)
THEOREM UserDecides == Spec => []RepoCannotWeaken
<1>1. Inv => RepoCannotWeaken
  BY RepoAddsNothing DEF Inv, Lawful, Resolved, RepoCannotWeaken
<1> QED BY <1>1, Invariant, PTL

(* A run exits with its own code, unless the metrics or a line of output     *)
(* cannot be written: not even the update check changes that.                *)
THEOREM ExitsOfRun == Spec => []RunDecides
<1>1. Inv => RunDecides
  BY DEF Inv, Lawful, Decided, RunDecides
<1> QED BY <1>1, Invariant, PTL

(* In JSON mode an invocation that ended has written one document.           *)
THEOREM DocumentWhole == Spec => []OneDocument
<1>1. Inv => OneDocument
  BY DEF Inv, Lawful, Printed, OneDocument
<1> QED BY <1>1, Invariant, PTL

(* A step of an invocation touches what its command is for, and nothing of   *)
(* anybody else.                                                             *)
THEOREM FilesOfStep == Spec => Footprint
<1> DEFINE A == \A p \in Process : pc'[p] # pc[p] =>
                  \A f \in DOMAIN disk : disk'[f] # disk[f] => f \in Touches(p)
<1>1. Inv /\ [Next]_vars => [A]_vars
  <2> SUFFICES ASSUME Inv, Next, NEW q \in Process, pc'[q] # pc[q]
               PROVE  \A f \in DOMAIN disk : disk'[f] # disk[f] => f \in Touches(q)
    BY DEF vars
  <2>1. PICK p \in Process : Step(p) \/ Crash(p)
    BY DEF Next, EditIgnore, EditConfig, Tomorrow
  <2>2. p = q
    BY <2>1, ProcessStep DEF Inv, Others
  <2> QED BY <2>1, <2>2, StepTouches DEF Inv, Within
<1> QED BY <1>1, Invariant, PTL DEF Spec, Footprint

(* Invocations that do not overlap ask for the newest release at most once a *)
(* day, whatever fails and wherever they are killed, as long as the answer   *)
(* of a request is not cut off while it is written to the cache.             *)
THEOREM RequestsOfDay == Spec => []OneGetPerDay
<1>1. Init => Inv /\ Count
  BY InitInv, InitCount
<1>2. Inv /\ Count /\ [Next]_vars => Inv' /\ Count'
  BY InvStep, CountStep
<1>3. Count => OneGetPerDay
  BY DEF Count, Counters, Counted, OneGetPerDay
<1> QED BY <1>1, <1>2, <1>3, PTL DEF Spec

(* No step loses a line of .gitignore or replaces a configuration file that  *)
(* has contents, whoever writes them in between.                             *)
THEOREM TextStays == Spec => TextKept
<1> DEFINE A == /\ IsPrefix(disk.ignore.lines, disk'.ignore.lines)
                /\ \A f \in {"global", "repo"} : disk[f].state = "absent" \/ disk'[f] = disk[f]
<1>1. Init => Inv /\ Texts
  BY InitInv, InitTexts
<1>2. Inv /\ Texts /\ [Next]_vars => Inv' /\ Texts' /\ [A]_vars
  BY InvStep, TextsStep DEF KeepsText
<1> QED BY <1>1, <1>2, PTL DEF Spec, TextKept
=============================================================================
