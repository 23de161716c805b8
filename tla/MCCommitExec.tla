---------------------------- MODULE MCCommitExec ----------------------------
(* Small instances of CommitExec: three paths, two contents.                 *)
EXTENDS CommitExec
CONSTANTS p1, p2, p3, x, y

\* Every shape a repository of three paths can have at the start: the paths
\* of HEAD all hold x.
HeadTrees == {h \in Tree : \A p \in Path : h[p] \in {x, Absent}}
AllStarts == [head : HeadTrees, index : Tree, worktree : Tree]

\* The old path of a staged rename exists again in the worktree.
Recreated(s) == \E r \in Renames(s.head, s.index) : s.worktree[r[1]] # Absent
PlainStarts == {s \in AllStarts : ~Recreated(s)}
RecreatedStarts == {s \in AllStarts : Recreated(s) /\ s.head[p3] = Absent
                      /\ s.index[p3] = Absent /\ s.worktree[p3] = Absent}

\* Starts for the runs with interference: p1 modified, p2 renamed, deleted or
\* modified, p3 untracked, staged or absent, part of it staged.
SomeStarts ==
  {s \in PlainStarts :
     /\ s.head[p1] = x /\ s.worktree[p1] = y
     /\ s.head[p2] = x /\ s.head[p3] = Absent
     /\ s.index[p1] \in {x, y} /\ s.worktree[p2] \in {Absent, y}
     /\ s.index[p2] \in {x, Absent} /\ s.index[p3] \in {x, Absent}
     /\ s.worktree[p3] # y}
=============================================================================
