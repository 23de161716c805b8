---------------------------- MODULE CommitPromise ----------------------------
(***************************************************************************)
(* What commit execution promises to the pipeline around it, whatever      *)
(* shares the repository: commits are reported in plan order, the first    *)
(* one that is not exactly its plan entry is also the last one, and        *)
(* success means that every entry was made.                                *)
(***************************************************************************)
EXTENDS Naturals, Sequences

CONSTANT Path

VARIABLES
  order,   \* the plan: the path set of each commit, in order
  made,    \* the path sets of the commits reported so far
  outcome  \* "running", "stopped" or "success"

vars == <<order, made, outcome>>

OnPlan == Len(made) <= Len(order) /\ \A i \in 1 .. Len(made) : made[i] = order[i]

Init ==
  /\ order \in Seq(SUBSET Path)
  /\ made = <<>> /\ outcome = "running"

\* Report a commit.  Whatever it holds is kept, but only an exact one lets
\* another follow: OnPlan asks that all before this one were.
Make ==
  /\ outcome = "running" /\ OnPlan /\ Len(made) < Len(order)
  /\ \E P \in SUBSET Path : made' = Append(made, P)
  /\ UNCHANGED <<order, outcome>>

Stop == outcome = "running" /\ outcome' = "stopped" /\ UNCHANGED <<order, made>>

Succeed ==
  /\ outcome = "running" /\ made = order
  /\ outcome' = "success" /\ UNCHANGED <<order, made>>

Next == Make \/ Stop \/ Succeed
Spec == Init /\ [][Next]_vars
=============================================================================
