----------------------------- MODULE MCRunCycle -----------------------------
(* Small instances of RunCycle: two paths, plans of one or two commits.      *)
EXTENDS RunCycle
CONSTANTS a, b

SomeOrders == {<<{a, b}>>, <<{a}, {b}>>}

\* Package scripts with every way to ask and to push ...
Asking == {m \in Mode : m.check = "autodetect" /\ m.push /\ ~m.dry}
\* ... and the other settings one by one: no push, a dry run, other commands.
Plain == [dry |-> FALSE, confirm |-> TRUE, push |-> TRUE, pushConfirm |-> FALSE,
          candidates |-> TRUE, check |-> "autodetect"]
SomeModes ==
  Asking \cup {[Plain EXCEPT !.push = FALSE], [Plain EXCEPT !.dry = TRUE],
               [Plain EXCEPT !.check = "none"], [Plain EXCEPT !.check = "repo"]}
=============================================================================
