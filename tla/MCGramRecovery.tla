--------------------------- MODULE MCGramRecovery ---------------------------
(***************************************************************************)
(* Small instances of GramRecovery for TLC.                                *)
(***************************************************************************)
EXTENDS GramRecovery

Job(two_phase, stage_in, stage_out) ==
    [dry_run |-> FALSE, two_phase |-> two_phase, stage_in |-> stage_in,
     stage_out |-> stage_out, stream |-> FALSE]

AllStates == [c \in {"all"} |-> JobStates]

\* Condor jobs: nothing to stage out, files, and files with the output streams.
CondorJobs == {Job(FALSE, FALSE, FALSE), Job(FALSE, FALSE, TRUE),
               [Job(FALSE, FALSE, TRUE) EXCEPT !.stream = TRUE]}
CancelOnly == {"cancel"}

\* LRMs that are polled, and a client that restarts its request.
RestartJobs == {Job(TRUE, FALSE, FALSE), Job(FALSE, FALSE, TRUE)}
RestartOps  == {"cancel", "commit_request", "commit_end", "restart"}

\* A two-phase job whose client only commits.
TwoPhaseJobs == {Job(TRUE, FALSE, FALSE)}
CommitOnly   == {"commit_request"}
=============================================================================
