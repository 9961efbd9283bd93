----------------------------- MODULE MCWatcher -----------------------------
(***************************************************************************)
(* Small clusters for the watcher: a PipelineRun with one child, and a run *)
(* on its own.                                                             *)
(***************************************************************************)
EXTENDS Watcher, TLC

CONSTANTS pr, run

\* pr owns run.
Family == {pr, run}
FamilyOwner == (pr :> NoOwner) @@ (run :> pr)
FamilyResult == [r \in Family |-> pr]

\* run alone.
Single == {run}
SingleOwner == [r \in Single |-> NoOwner]
SingleResult == [r \in Single |-> run]

OnlyPipelineRun == {pr}
OnlyRun == {run}

\* -completed_run_grace_period < 0: delete runs as soon as they are done.
Immediately == -1
=============================================================================
