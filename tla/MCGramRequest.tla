--------------------------- MODULE MCGramRequest ---------------------------
(***************************************************************************)
(* Small instances of GramRequest for TLC.  The configurations choose      *)
(* among the RSLs, the contacts and the client operations defined here.    *)
(***************************************************************************)
EXTENDS GramRequest

Job(two_phase, stage_in, stage_out, stream) ==
    [dry_run |-> FALSE, two_phase |-> two_phase, stage_in |-> stage_in,
     stage_out |-> stage_out, stream |-> stream]

DryRun(two_phase, stage_in) ==
    [Job(two_phase, stage_in, FALSE, FALSE) EXCEPT !.dry_run = TRUE]

\* A contact that asks for every job state.
AllStates == [c \in {"all"} |-> JobStates]

\* A two-phase job, and a plain one with files to stage out.
\* A commit may be extended for ever, so COMMIT_EXTEND is left out.
TwoPhaseJobs == {Job(TRUE, FALSE, FALSE, FALSE), Job(FALSE, FALSE, TRUE, FALSE)}
TwoPhaseOps  == {"cancel", "suspend", "commit_request", "commit_end"}

\* Jobs submitted without a commit; everything but the commits, the stdio
\* update, STOP_MANAGER and the PRIORITY signal, which goes the way of RESUME.
PlainJobs == {Job(FALSE, FALSE, FALSE, FALSE), Job(FALSE, TRUE, TRUE, FALSE)}
SignalOps == {"cancel", "signal_cancel", "suspend", "resume", "register",
              "unregister"}

\* LRMs without an event generator, memory and network failures, dry runs,
\* and the operations that rewrite or stop a request.
PollJobs == {DryRun(FALSE, TRUE), DryRun(TRUE, FALSE),
             Job(FALSE, TRUE, FALSE, TRUE), Job(TRUE, FALSE, FALSE, FALSE)}
PollOps  == {"signal_cancel", "commit_request",
             "commit_extend", "stop_manager", "stdio_update"}

=============================================================================
