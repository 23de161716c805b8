---------------------------- MODULE MCModelStore ----------------------------
(* Small instances of ModelStore.                                            *)
EXTENDS ModelStore

\* Nothing, what an interrupted copy leaves, a model of which a file is gone,
\* one with a damaged file, and a good one.
SomeFound ==
  {NoDir, Empty}
    \cup [metadata : {TRUE},
          file : {g \in [File -> {"good", "bad", "missing"}] : g[Config] = "good"}]
=============================================================================
