---------------------------- MODULE GramRecovery ----------------------------
(***************************************************************************)
(* A request that outlives its job manager.  The process may stop at any   *)
(* moment; the next one loads every job state file it finds                *)
(* (request_load_all_from_dir) and rebuilds the request from it.  A client *)
(* may also restart a request that is still alive                          *)
(* (startup_socket.c), which the job manager serves by merging the new     *)
(* RSL and sending a stopped request back to START.                        *)
(*                                                                         *)
(* The scripts and the callbacks in flight die with the process; the LRM   *)
(* job goes on, and the SEG replays the events from the time the state     *)
(* file recorded.                                                          *)
(***************************************************************************)
EXTENDS GramRequest

CONSTANTS
    MaxCrashes,   \* bound: crashes per behaviour
    MaxRestarts   \* bound: restarts by the client per behaviour

ASSUME RecoveryAssumption == MaxCrashes \in Nat /\ MaxRestarts \in Nat

VARIABLES
    crashes, restarts,
    stale   \* a client's restart had a file written that has a known job
            \* submitted again (history)

recoveryVars == <<vars, crashes, restarts, stale>>

\* A job manager that loads this file submits the job although the file has
\* its id: set_restart_state() does not lead it past the submit script.
Resubmits(file) ==
    /\ file.job_id_string # "null"
    /\ \/ file.restart_state \in {"START", "TWO_PHASE", "TWO_PHASE_QUERY1",
                                  "TWO_PHASE_QUERY2", "TWO_PHASE_COMMITTED",
                                  "STAGE_IN"}
       \/ file.restart_state = "SUBMIT" /\ ~Condor

\* request_init() with restart set: state_file_read(), then the state machine
\* starts just after the first commit.
LoadedRequest(file) ==
    [jobmanager_state |-> "TWO_PHASE_COMMITTED",
     restart_state |-> file.restart_state,
     status |-> file.status, failure_code |-> file.failure_code,
     cached_status |-> file.status, cached_failure_code |-> file.failure_code,
     unsent_status_change |-> FALSE, commit_extend |-> FALSE,
     jm_restart |-> TRUE, job_id_string |-> file.job_id_string,
     expected_terminal_state |-> file.expected_terminal_state,
     pending_queries |-> <<>>, seg_event_queue |-> <<>>,
     stage_in_todo |-> file.stage_in_todo,
     stage_out_todo |-> file.stage_out_todo,
     stage_stream_todo |-> file.stage_stream_todo, poll_timer |-> FALSE,
     client_contacts |-> file.client_contacts]

\* Mutant: a job loaded in POLL2 is left to the SEG, whether there is one or
\* not.
Reloaded_noTimer(file) ==
    IF file.restart_state \in RestartPolling
      THEN To(LoadedRequest(file), "POLL2") ELSE Register(LoadedRequest(file))

\* A job that was being polled waits in POLL2: for the SEG, its job id being
\* registered again, or for the timer armed when it leaves pending_restarts.
\* Every other job is run from TWO_PHASE_COMMITTED.
Reloaded(file) ==
    LET polling == file.restart_state \in RestartPolling
    IN CASE polling /\ SegStarted  -> To(LoadedRequest(file), "POLL2")
         [] polling /\ ~SegStarted ->
              Register(To(LoadedRequest(file), "POLL2"))
         [] OTHER -> Register(LoadedRequest(file))

\* The events a SEG restarted at the recorded timestamp reads again.
Replayed ==
    IF ~SegStarted THEN {}
    ELSE seg_events \union (SegEvents \intersect {lrm})
         \union {request.seg_event_queue[i] :
                   i \in DOMAIN request.seg_event_queue}

CrashAndReload ==
    /\ crashes < MaxCrashes
    /\ state_file # NoStateFile
    /\ crashes' = crashes + 1
    /\ request' = Reloaded(state_file)
    /\ running' = FALSE
    /\ scripts' = <<>> /\ restart_callbacks' = 0
    /\ LET polling == state_file.restart_state \in RestartPolling
       IN /\ registered' = (/\ polling /\ SegStarted
                            /\ state_file.job_id_string = "set")
          /\ seg_pause_count' = IF polling /\ ~SegStarted THEN 1 ELSE 0
    /\ seg_events' = Replayed
    /\ UNCHANGED <<rsl, staged_out, sent, lrm, submissions, clientVars,
                   state_file, restarts, stale>>

\* A restart request for a job this manager already has: stdio_update(), the
\* new contact, and START again for a job that stopped or waits for its end
\* commit.
ClientRestart(c) ==
    /\ MayAsk("restart")
    /\ restarts < MaxRestarts
    /\ restarts' = restarts + 1
    /\ State \notin {"DONE", "FAILED_DONE"}
    /\ LET updated == StdioUpdated(request)
           r == [updated EXCEPT !.client_contacts = @ \union {c}]
           again == [To(r, "START") EXCEPT !.jm_restart = TRUE]
       IN /\ state_file' = StateFileOf(updated)
          /\ stale' = (stale \/ Resubmits(StateFileOf(updated)))
          /\ request' =
               CASE State = "STOP" ->
                      Register([again EXCEPT !.unsent_status_change = TRUE])
                 [] State \in {"TWO_PHASE_END", "FAILED_TWO_PHASE"} -> again
                 [] OTHER -> r
    /\ UNCHANGED <<rsl, running, scriptVars, callbackVars, lrmVars,
                   managerVars, clientVars, crashes>>

InitRecovery == Init /\ crashes = 0 /\ restarts = 0 /\ stale = FALSE

NextRecovery ==
    \/ Next /\ UNCHANGED <<crashes, restarts, stale>>
    \/ CrashAndReload
    \/ \E c \in Contacts : ClientRestart(c)

SpecRecovery == InitRecovery /\ [][NextRecovery]_recoveryVars

FairSpecRecovery == SpecRecovery /\ Fairness

-----------------------------------------------------------------------------
(* Properties                                                               *)

\* Every variable keeps its type across crashes and restarts.
TypeOKRecovery == /\ TypeOK
                  /\ crashes \in 0..MaxCrashes
                  /\ restarts \in 0..MaxRestarts
                  /\ stale \in BOOLEAN

\* A job whose LRM id is known is never handed to the LRM again: no submit
\* script that may still submit runs for it, in this job manager or in one
\* that loaded its state file.
KnownJobNotResubmitted ==
    \A i \in DOMAIN scripts :
        /\ scripts[i].cmd = "submit" /\ "ACCEPTED" \notin scripts[i].said
        => request.job_id_string = "null"

\* Type correctness, and a known job is submitted again only after a client's
\* restart came while the job was being submitted or before a reloaded request
\* had run, and stdio_update() wrote that state to the file.
RestartInvariant == TypeOKRecovery /\ (KnownJobNotResubmitted \/ stale)

=============================================================================
