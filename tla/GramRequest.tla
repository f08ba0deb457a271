---------------------------- MODULE GramRequest ----------------------------
(***************************************************************************)
(* One job request of the GRAM5 job manager: the state machine of          *)
(* globus_gram_job_manager_state.c, the client queries and signals of      *)
(* globus_gram_job_manager_query.c that move it, the LRM scripts it runs,  *)
(* the scheduler events it consumes, the state callbacks it sends and the  *)
(* state file it leaves for a later job manager.                           *)
(*                                                                         *)
(* Atomicity.  state_machine_callback() holds the request mutex while it   *)
(* loops over the cases of the state machine, so `running' is TRUE from    *)
(* the moment a timer enters the loop until a case returns                 *)
(* event_registered.  Queries, script output, scheduler events and         *)
(* callback replies take the same mutex (and main() chooses the            *)
(* single-threaded callback model), so they wait for running = FALSE.      *)
(* The LRM goes on whatever the job manager does.                          *)
(*                                                                         *)
(* Time.  Delays are not modelled: an armed poll_timer may fire at any     *)
(* moment, so every race between a timeout and a late signal is explored.  *)
(***************************************************************************)
EXTENDS Integers, Sequences, FiniteSets

CONSTANTS
    Requests,      \* the RSLs a client may send (records, see RSL below)
    Mask,          \* contact -> the job states its registration asks for
    ClientOps,     \* the queries and signals the client may send
    SegStarted,    \* manager->seg_started: SEG, fork or condor monitoring
    Condor,        \* jobmanager_type is "condor": job ids can be recovered
    MaxQueries,    \* bound: queued queries per behaviour
    MaxSubmissions,\* bound: jobs the LRM accepts per behaviour
    GridMonitor,   \* a grid monitor file may answer a poll (poll_fast)
    OutOfMemory,   \* script_run() and register_job_id() may fail
    PostFails      \* globus_gram_protocol_post() may fail for every contact

Contacts == DOMAIN Mask

RSL == [dry_run : BOOLEAN, two_phase : BOOLEAN, stage_in : BOOLEAN,
        stage_out : BOOLEAN, stream : BOOLEAN]

JobStates == {"UNSUBMITTED", "STAGE_IN", "PENDING", "ACTIVE", "SUSPENDED",
              "STAGE_OUT", "DONE", "FAILED"}

ManagerStates ==
    {"START", "TWO_PHASE", "TWO_PHASE_QUERY1", "TWO_PHASE_QUERY2",
     "TWO_PHASE_COMMITTED", "STAGE_IN", "SUBMIT", "POLL1", "POLL2",
     "POLL_QUERY1", "POLL_QUERY2", "PRE_CLOSE_OUTPUT", "CLOSE_OUTPUT",
     "STAGE_OUT", "TWO_PHASE_END", "TWO_PHASE_END_COMMITTED",
     "FILE_CLEAN_UP", "SCRATCH_CLEAN_UP", "CACHE_CLEAN_UP", "DONE",
     "FAILED", "FAILED_CLOSE_OUTPUT", "FAILED_TWO_PHASE",
     "FAILED_TWO_PHASE_COMMITTED", "FAILED_FILE_CLEAN_UP",
     "FAILED_SCRATCH_CLEAN_UP", "FAILED_CACHE_CLEAN_UP", "FAILED_DONE",
     "STOP"}

FailureCodes == {"SUCCESS", "COMMIT_TIMED_OUT", "USER_CANCELLED", "DRYRUN",
                 "STAGE_IN_FAILED", "STAGE_OUT_FAILED", "OPENING_STDOUT",
                 "SUBMIT_UNKNOWN", "SCRIPT_ERROR", "INVALID_SCRIPT_STATUS",
                 "MALLOC_FAILED"}

QueryKinds == {"cancel", "signal_cancel", "suspend", "resume", "priority"}
CancelKinds == {"cancel", "signal_cancel"}
Signals    == QueryKinds \ {"cancel"}
Queries    == [id : Nat, kind : QueryKinds]

SegEvents == {"PENDING", "ACTIVE", "DONE", "FAILED"}
LrmStates == {"none"} \union SegEvents
JobIds    == {"null", "set", "empty"}

ScriptCmds == {"stage_in", "submit", "poll", "cancel", "signal", "stage_out"}
ScriptVars == {"ACCEPTED", "JOB_ID", "JOB_STATE", "ERROR", "STAGED",
               "STREAMED"}
NoQuery    == [id |-> 0, kind |-> "priority"]
Scripts    == [cmd : ScriptCmds, start : ManagerStates, query : Queries,
               said : SUBSET ScriptVars]

RequestRecord ==
    [jobmanager_state : ManagerStates, restart_state : ManagerStates,
     status : JobStates, failure_code : FailureCodes,
     cached_status : JobStates, cached_failure_code : FailureCodes,
     unsent_status_change : BOOLEAN, commit_extend : BOOLEAN,
     jm_restart : BOOLEAN, job_id_string : JobIds,
     expected_terminal_state : {"DONE", "FAILED"},
     pending_queries : Seq(Queries), seg_event_queue : Seq(SegEvents),
     stage_in_todo : BOOLEAN, stage_out_todo : BOOLEAN,
     stage_stream_todo : BOOLEAN, poll_timer : BOOLEAN,
     client_contacts : SUBSET Contacts]

StateFiles ==
    [restart_state : ManagerStates, status : JobStates,
     failure_code : FailureCodes, job_id_string : JobIds,
     expected_terminal_state : {"DONE", "FAILED"},
     stage_in_todo : BOOLEAN, stage_out_todo : BOOLEAN,
     stage_stream_todo : BOOLEAN, client_contacts : SUBSET Contacts]
NoStateFile == [restart_state |-> "none"]

ASSUME ConstantsAssumption ==
    /\ Requests \subseteq RSL
    /\ Mask \in [Contacts -> SUBSET JobStates]
    /\ SegStarted \in BOOLEAN /\ Condor \in BOOLEAN
    /\ MaxQueries \in Nat /\ MaxSubmissions \in Nat
    /\ GridMonitor \in BOOLEAN
    /\ OutOfMemory \in BOOLEAN /\ PostFails \in BOOLEAN

VARIABLES
    rsl,              \* the job description, fixed at request_init()
    request,          \* globus_gram_jobmanager_request_t
    running,          \* the state machine loop holds the request mutex
    scripts,          \* LRM scripts in flight, in launch order
    restart_callbacks,\* state callbacks in flight that restart the machine
    state_file,       \* the job state file on disk
    seg_pause_count,  \* manager->seg_pause_count, this job's share
    registered,       \* the job id is in manager->job_id_hash
    lrm,              \* external: the job in the local resource manager
    seg_events,       \* external: scheduler events not yet delivered
    sent,             \* history: the job states sent to the contacts
    submissions,      \* history: jobs the LRM accepted for this request
    committed,        \* history: the client committed the request
    answered,         \* history: queued queries that got their reply
    staged_out        \* history: a stage-out script staged everything out

requestVars  == <<rsl, request, running>>
scriptVars   == <<scripts, staged_out>>
callbackVars == <<restart_callbacks, sent>>
lrmVars      == <<lrm, seg_events, submissions>>
managerVars  == <<seg_pause_count, registered>>
clientVars   == <<committed, answered>>
vars == <<requestVars, scriptVars, callbackVars, lrmVars, managerVars,
          clientVars, state_file>>

-----------------------------------------------------------------------------
(* Helpers of the source                                                    *)

State == request.jobmanager_state

To(r, s) == [r EXCEPT !.jobmanager_state = s]

\* Mutant: the manager's copy keeps its old failure code.
SetStatus_stale(r, s) == [r EXCEPT !.status = s, !.cached_status = s]

\* request_set_status(): also refreshes the copy the manager keeps for
\* status queries, with the failure code as it is at that moment.
SetStatus(r, s) ==
    [r EXCEPT !.status = s, !.cached_status = s,
              !.cached_failure_code = r.failure_code]

\* state_machine_register(): a second registration while one is armed is
\* dropped.  Moving an armed timer forward is the same thing here.
Register(r) == [r EXCEPT !.poll_timer = TRUE]

\* state_file_write(): what the file says, the rename being atomic.
StateFileOf(r) ==
    [restart_state |-> IF r.jobmanager_state = "STOP"
                         THEN r.restart_state ELSE r.jobmanager_state,
     status |-> r.status, failure_code |-> r.failure_code,
     job_id_string |-> r.job_id_string,
     expected_terminal_state |-> r.expected_terminal_state,
     stage_in_todo |-> r.stage_in_todo, stage_out_todo |-> r.stage_out_todo,
     stage_stream_todo |-> r.stage_stream_todo,
     client_contacts |-> r.client_contacts]

\* script_valid_state_change()
ValidStateChange(old, new) ==
    CASE old \in {"FAILED", "DONE"}       -> FALSE
      [] old = "STAGE_OUT"                -> new \in {"DONE", "FAILED"}
      [] old \in {"ACTIVE", "SUSPENDED"}  -> new \notin {"PENDING", old}
      [] OTHER                            -> new # old

\* A status reported by a script or an event; DONE becomes STAGE_OUT when
\* the RSL asks for files to be staged out.
ReportStatus(r, s) ==
    IF ~ValidStateChange(r.status, s) THEN r
    ELSE [SetStatus(r, IF s = "DONE" /\ (rsl.stage_out \/ rsl.stream)
                         THEN "STAGE_OUT" ELSE s)
            EXCEPT !.unsent_status_change = TRUE]

\* seg_handle_event() for the event at the head of the queue (one sub-job).
HandleEvent(r) ==
    LET event    == Head(r.seg_event_queue)
        terminal == event \in {"DONE", "FAILED"}
        popped   == [r EXCEPT !.seg_event_queue = Tail(@)]
        finished == [popped EXCEPT
                       !.job_id_string = "empty",
                       !.expected_terminal_state =
                           IF event = "FAILED" THEN "FAILED" ELSE @]
    IN IF terminal
         THEN ReportStatus(finished, finished.expected_terminal_state)
         ELSE ReportStatus(popped, event)

\* The contacts whose registration covers the request's status.
Recipients(r) == {c \in r.client_contacts : r.status \in Mask[c]}

\* Mutant: with nobody to tell, the machine is not re-armed.
ContactStateCallback_noRearm(r, restart) ==
    \/ /\ Recipients(r) = {}
       /\ request' = r
       /\ UNCHANGED callbackVars
    \/ /\ Recipients(r) # {}
       /\ request' = r
       /\ sent' = sent \union {IF r.jobmanager_state = "STOP" THEN "STOP"
                                                            ELSE r.status}
       /\ restart_callbacks' = restart_callbacks + (IF restart THEN 1 ELSE 0)

\* contact_state_callback(): r is the request once the calling case is done
\* with it.  With nobody to tell, the machine is re-armed at once; a context
\* none of whose posts succeeds is freed and re-arms nothing.
ContactStateCallback(r, restart) ==
    \/ /\ Recipients(r) = {}
       /\ request' = IF restart THEN Register(r) ELSE r
       /\ UNCHANGED callbackVars
    \/ /\ Recipients(r) # {}
       /\ request' = r
       /\ sent' = sent \union {IF r.jobmanager_state = "STOP" THEN "STOP"
                                                            ELSE r.status}
       /\ restart_callbacks' = restart_callbacks + (IF restart THEN 1 ELSE 0)
    \/ /\ Recipients(r) # {} /\ PostFails
       /\ request' = r
       /\ UNCHANGED callbackVars

\* script_run(): the script remembers the state it was started in.
Launch(cmd, start, query) ==
    scripts' = Append(scripts, [cmd |-> cmd, start |-> start,
                                query |-> query, said |-> {}])

\* Mutant: the queue is emptied without a reply.
AllAnswered_none(r) == answered

\* The queries answered once everything that is queued got its reply.
AllAnswered(r) == answered \union {r.pending_queries[i].id :
                                     i \in DOMAIN r.pending_queries}

-----------------------------------------------------------------------------
(* The state machine: one action per case of the switch                     *)

At(states) == running /\ State \in states

\* event_registered = GLOBUS_TRUE ends the loop and releases the mutex.
Sleep    == running' = FALSE
KeepLoop == running' = TRUE

\* A case that only changes the request.
Becomes(r) == request' = r /\ UNCHANGED callbackVars

\* state_machine_callback(): the oneshot fires and the loop starts.
TimerFires ==
    /\ request.poll_timer /\ ~running
    /\ running' = TRUE
    /\ request' = [request EXCEPT !.poll_timer = FALSE]
    /\ UNCHANGED <<rsl, scriptVars, callbackVars, lrmVars, managerVars,
                   clientVars, state_file>>

CaseStart ==
    /\ At({"START"})
    /\ IF rsl.two_phase /\ ~rsl.dry_run
         THEN Becomes(Register(To(request, "TWO_PHASE"))) /\ Sleep
         ELSE Becomes(To(request, "TWO_PHASE")) /\ KeepLoop
    /\ UNCHANGED <<rsl, scriptVars, lrmVars, managerVars, clientVars,
                   state_file>>

\* Mutant: a timeout counts as a commit.
TwoPhaseExpired_commits == To(request, "TWO_PHASE_COMMITTED")

\* TWO_PHASE after its timeout: a restarted request stops, a new one fails.
TwoPhaseExpired ==
    IF request.jm_restart
      THEN To(request, "STOP")
      ELSE [To(request, "FAILED") EXCEPT !.failure_code = "COMMIT_TIMED_OUT",
                                         !.unsent_status_change = TRUE]

CaseTwoPhase ==
    /\ At({"TWO_PHASE"})
    /\ \/ /\ rsl.two_phase /\ request.commit_extend
          /\ Becomes(Register([request EXCEPT !.commit_extend = FALSE]))
          /\ Sleep
       \/ /\ ~rsl.two_phase
          /\ Becomes(To(request, "TWO_PHASE_COMMITTED"))
          /\ KeepLoop
       \/ /\ rsl.two_phase /\ ~request.commit_extend
          /\ Becomes(TwoPhaseExpired)
          /\ KeepLoop
    /\ UNCHANGED <<rsl, scriptVars, lrmVars, managerVars, clientVars,
                   state_file>>

\* Mutant: a state the file is written in is not covered.
RestartPolling_partial == {"POLL2", "POLL_QUERY1", "POLL_QUERY2"}

\* set_restart_state(): where a restarted request picks up its work.
RestartPolling == {"POLL1", "POLL2", "POLL_QUERY1", "POLL_QUERY2"}
RestartFailed  == {"FAILED", "FAILED_TWO_PHASE"}
RestartDone    == {"CLOSE_OUTPUT", "PRE_CLOSE_OUTPUT", "STAGE_OUT",
                   "TWO_PHASE_END", "TWO_PHASE_END_COMMITTED"}

\* Mutant: the Condor log is never looked at.
CondorJobFound_never == FALSE

\* seg_parse_condor_id() finds the job in its Condor log.
CondorJobFound == request.restart_state = "SUBMIT" /\ Condor /\ lrm # "none"

\* set_restart_state() returns GLOBUS_TRUE: the case is over.
RestartStateChanges(r) ==
    \/ CondorJobFound
    \/ r.restart_state \in RestartPolling \union RestartDone
    \/ /\ r.restart_state \in RestartFailed
       /\ r.failure_code \in {"STAGE_OUT_FAILED", "OPENING_STDOUT",
                              "STAGE_IN_FAILED"}

\* The request as set_restart_state() leaves it.
SetRestartState(r) ==
    LET retry(s, next) ==
            [To(SetStatus([r EXCEPT !.failure_code = "SUCCESS"], s), next)
               EXCEPT !.unsent_status_change = TRUE]
        settle(s) == [To(SetStatus(r, s), "POLL1")
                        EXCEPT !.unsent_status_change = TRUE]
    IN CASE CondorJobFound ->
              [To(r, "SUBMIT") EXCEPT !.job_id_string = "set",
                                      !.status = "PENDING"]
         [] r.restart_state \in RestartPolling -> To(r, "SUBMIT")
         [] r.restart_state \in RestartDone -> settle("DONE")
         [] /\ r.restart_state \in RestartFailed
            /\ r.failure_code \in {"STAGE_OUT_FAILED", "OPENING_STDOUT"} ->
              retry("STAGE_OUT", "POLL1")
         [] /\ r.restart_state \in RestartFailed
            /\ r.failure_code = "STAGE_IN_FAILED" ->
              retry("UNSUBMITTED", "TWO_PHASE_COMMITTED")
         [] /\ r.restart_state \in RestartFailed
            /\ r.failure_code \notin {"STAGE_OUT_FAILED", "OPENING_STDOUT",
                                      "STAGE_IN_FAILED"} ->
              settle("FAILED")
         [] OTHER -> r

\* The request when stage-in begins, whatever set_restart_state() did.
EnterStageIn ==
    To(IF request.jm_restart THEN SetRestartState(request) ELSE request,
       "STAGE_IN")

CaseTwoPhaseCommitted ==
    /\ At({"TWO_PHASE_COMMITTED"})
    /\ \/ /\ request.jm_restart /\ RestartStateChanges(request)
          /\ Becomes(SetRestartState(request))
          /\ seg_pause_count' = seg_pause_count
                                + (IF CondorJobFound THEN 1 ELSE 0)
          /\ KeepLoop
          /\ UNCHANGED scriptVars
       \/ /\ ~(request.jm_restart /\ RestartStateChanges(request))
          /\ ~rsl.stage_in
          /\ Becomes(EnterStageIn)
          /\ KeepLoop
          /\ UNCHANGED <<seg_pause_count, scriptVars>>
       \/ /\ ~(request.jm_restart /\ RestartStateChanges(request))
          /\ rsl.stage_in
          /\ LET r == SetStatus(EnterStageIn, "STAGE_IN")
             IN \/ /\ IF rsl.dry_run THEN Becomes(r)
                                     ELSE ContactStateCallback(r, FALSE)
                   /\ Launch("stage_in", "STAGE_IN", NoQuery)
                   /\ UNCHANGED staged_out
                   /\ Sleep
                \/ /\ OutOfMemory
                   /\ LET f == [To(r, "FAILED")
                                  EXCEPT !.failure_code = "MALLOC_FAILED"]
                      IN IF rsl.dry_run THEN Becomes(f)
                                        ELSE ContactStateCallback(f, FALSE)
                   /\ UNCHANGED scriptVars
                   /\ KeepLoop
          /\ UNCHANGED seg_pause_count
    /\ UNCHANGED <<rsl, lrmVars, registered, clientVars, state_file>>

\* Mutant: the file is written before the state changes.
SubmitFile_early(r) == StateFileOf(request)

\* The state file written before the submit script is started.
SubmitFile(r) == StateFileOf(r)

\* STAGE_IN: the SEG is paused before the submit script is started, so that
\* events of a job whose id is not known yet are kept.
CaseStageIn ==
    /\ At({"STAGE_IN"})
    /\ \/ /\ request.stage_in_todo
          /\ Becomes([To(request, "FAILED") EXCEPT
                        !.failure_code = IF @ = "SUCCESS"
                                           THEN "STAGE_IN_FAILED" ELSE @])
          /\ KeepLoop
          /\ UNCHANGED <<scriptVars, seg_pause_count, state_file>>
       \/ /\ ~request.stage_in_todo /\ request.status = "FAILED"
          /\ Becomes(To(request, IF rsl.dry_run
                                   THEN "FAILED_TWO_PHASE_COMMITTED"
                                   ELSE "FAILED"))
          /\ KeepLoop
          /\ UNCHANGED <<scriptVars, seg_pause_count, state_file>>
       \/ /\ ~request.stage_in_todo /\ request.status # "FAILED"
          /\ LET r == [To(request, "SUBMIT") EXCEPT !.restart_state = "SUBMIT"]
             IN /\ state_file' = SubmitFile(r)
                /\ \/ /\ ~rsl.dry_run
                      /\ Becomes(r)
                      /\ Launch("submit", "SUBMIT", NoQuery)
                      /\ seg_pause_count' = seg_pause_count + 1
                      /\ Sleep
                      /\ UNCHANGED staged_out
                   \/ /\ rsl.dry_run \/ OutOfMemory
                      /\ LET f == SetStatus(
                                    [r EXCEPT !.failure_code =
                                       IF rsl.dry_run THEN "DRYRUN"
                                                      ELSE "MALLOC_FAILED"],
                                    "FAILED")
                         IN Becomes(IF rsl.dry_run THEN f
                                    ELSE [To(f, "FAILED") EXCEPT
                                            !.unsent_status_change = TRUE])
                      /\ KeepLoop
                      \* seg_pause() undone by seg_resume()
                      /\ UNCHANGED <<scriptVars, seg_pause_count>>
    /\ UNCHANGED <<rsl, lrmVars, registered, clientVars>>

\* POLL1, also reached by falling through from SUBMIT (first): r and file are
\* the request and the state file when the case is entered.
Poll(r, file, first) ==
    LET seen   == IF r.seg_event_queue # <<>> THEN HandleEvent(r) ELSE r
        saved  == IF seen.unsent_status_change
                    THEN [seen EXCEPT !.restart_state = "POLL1"] ELSE seen
        told   == [saved EXCEPT !.unsent_status_change = FALSE]
        tell(next) == IF saved.unsent_status_change
                        THEN ContactStateCallback(next, FALSE)
                        ELSE Becomes(next)
        more   == saved.seg_event_queue # <<>>
    IN /\ state_file' = IF seen.unsent_status_change
                          THEN StateFileOf(saved) ELSE file
       /\ \/ /\ saved.status = "FAILED"
             /\ Becomes(To(saved, "FAILED")) /\ KeepLoop
          \/ /\ saved.status \in {"DONE", "STAGE_OUT"}
             /\ Becomes(To(saved, "PRE_CLOSE_OUTPUT")) /\ KeepLoop
          \/ /\ saved.status \notin {"FAILED", "DONE", "STAGE_OUT"}
             /\ \/ /\ saved.pending_queries # <<>>
                   /\ tell(To(told, "POLL_QUERY1")) /\ KeepLoop
                \/ /\ saved.pending_queries = <<>> /\ ~SegStarted /\ ~first
                   /\ tell(Register(To(told, "POLL2"))) /\ Sleep
                \/ /\ saved.pending_queries = <<>> /\ ~SegStarted /\ first
                   /\ tell(To(told, "POLL2")) /\ KeepLoop
                \/ /\ saved.pending_queries = <<>> /\ SegStarted /\ more
                   /\ tell(To(told, "POLL1")) /\ KeepLoop
                \/ /\ saved.pending_queries = <<>> /\ SegStarted /\ ~more
                   /\ tell(To(told, "POLL2")) /\ Sleep

\* SUBMIT, entered when the submit script is done, falls through to POLL1.
CaseSubmit ==
    /\ At({"SUBMIT"})
    /\ seg_pause_count' = seg_pause_count - 1
    /\ \/ /\ rsl.dry_run /\ request.status = "FAILED"
          /\ Becomes(To(request, "FAILED_TWO_PHASE_COMMITTED"))
          /\ KeepLoop
          /\ UNCHANGED <<registered, state_file>>
       \/ /\ ~(rsl.dry_run /\ request.status = "FAILED")
          /\ LET fails(code) ==
                     [SetStatus([request EXCEPT !.failure_code = code],
                                "FAILED") EXCEPT !.unsent_status_change = TRUE]
                 toPoll(r) == [To(r, "POLL1") EXCEPT !.restart_state = "POLL1"]
                 poll(r) == Poll(toPoll(r), StateFileOf(toPoll(r)), TRUE)
             IN \/ /\ request.job_id_string = "null"
                   /\ poll(fails(IF request.failure_code = "SUCCESS"
                                   THEN "SUBMIT_UNKNOWN"
                                   ELSE request.failure_code))
                   /\ UNCHANGED registered
                \/ /\ request.job_id_string # "null"
                   /\ poll(request)
                   /\ registered' = (request.job_id_string = "set")
                \/ /\ request.job_id_string # "null" /\ OutOfMemory
                   /\ poll(fails("MALLOC_FAILED"))
                   /\ UNCHANGED registered
    /\ UNCHANGED <<rsl, scriptVars, lrmVars, clientVars>>

CasePoll1 ==
    /\ At({"POLL1"})
    /\ Poll(request, state_file, FALSE)
    /\ UNCHANGED <<rsl, scriptVars, lrmVars, managerVars, clientVars>>

\* script_poll_fast(): the grid monitor's file has the job's status, written
\* over the request's without script_valid_state_change().
PollFast ==
    \E s \in {request.status} \union ({lrm} \ {"none", "FAILED"}) :
        LET r == To(request, "POLL1")
        IN Becomes(Register(IF s = r.status THEN r
                            ELSE [SetStatus(r, s) EXCEPT
                                    !.unsent_status_change = TRUE]))

CasePoll2 ==
    /\ At({"POLL2"})
    /\ \/ /\ ~SegStarted
          /\ Becomes(To(request, "POLL1"))
          /\ Launch("poll", "POLL1", NoQuery)
          /\ Sleep
       \/ /\ ~SegStarted /\ OutOfMemory
          /\ Becomes(To(request, "POLL1"))
          /\ UNCHANGED scripts
          /\ KeepLoop
       \/ /\ ~SegStarted /\ GridMonitor
          /\ PollFast
          /\ UNCHANGED scripts
          /\ Sleep
       \/ /\ SegStarted /\ request.seg_event_queue # <<>>
          /\ Becomes(To(request, "POLL1"))
          /\ UNCHANGED scripts
          /\ KeepLoop
       \/ /\ SegStarted /\ request.seg_event_queue = <<>>
          /\ Becomes(request)
          /\ UNCHANGED scripts
          /\ Sleep
    /\ UNCHANGED <<rsl, staged_out, lrmVars, managerVars,
                   clientVars, state_file>>

\* POLL_QUERY1 and TWO_PHASE_QUERY1: the script of the oldest query.
CaseQuery1 ==
    /\ At({"POLL_QUERY1", "TWO_PHASE_QUERY1"})
    /\ LET query == Head(request.pending_queries)
           cmd   == IF query.kind = "cancel" THEN "cancel" ELSE "signal"
           rest  == Tail(request.pending_queries)
       IN \/ /\ Launch(cmd, State, query)
             /\ Becomes(To(request, IF State = "POLL_QUERY1"
                                      THEN "POLL_QUERY2"
                                      ELSE "TWO_PHASE_QUERY2"))
             /\ Sleep
             /\ UNCHANGED answered
          \/ /\ OutOfMemory
             /\ LET r == [request EXCEPT !.pending_queries = rest]
                IN Becomes(IF rest = <<>> THEN To(r, "POLL2") ELSE r)
             /\ answered' = answered \union {query.id}
             /\ KeepLoop
             /\ UNCHANGED scripts
    /\ UNCHANGED <<rsl, staged_out, lrmVars, managerVars,
                   committed, state_file>>

\* The query at the head of the queue is answered and freed.
Dequeued == [request EXCEPT !.pending_queries = Tail(@)]

CaseTwoPhaseQuery2 ==
    /\ At({"TWO_PHASE_QUERY2"})
    /\ answered' = answered \union {Head(request.pending_queries).id}
    /\ IF Dequeued.pending_queries = <<>>
         THEN Becomes(Register(To(Dequeued, "TWO_PHASE"))) /\ Sleep
         ELSE Becomes(To(Dequeued, "TWO_PHASE_QUERY1")) /\ KeepLoop
    /\ UNCHANGED <<rsl, scriptVars, lrmVars, managerVars, committed,
                   state_file>>

\* Mutant: the queue is assumed to hold another query.
AfterPollQuery_again(r) ==
    IF r.unsent_status_change \/ r.seg_event_queue # <<>>
      THEN "POLL1" ELSE "POLL_QUERY1"

\* POLL_QUERY2: the next query, the news this one brought, or POLL2.
AfterPollQuery(r) ==
    CASE r.pending_queries # <<>> -> "POLL_QUERY1"
      [] /\ r.pending_queries = <<>>
         /\ r.unsent_status_change \/ r.seg_event_queue # <<>> -> "POLL1"
      [] OTHER -> "POLL2"

CasePollQuery2 ==
    /\ At({"POLL_QUERY2"})
    /\ answered' = answered \union {Head(request.pending_queries).id}
    /\ Becomes(To(Dequeued, AfterPollQuery(Dequeued)))
    /\ KeepLoop
    /\ UNCHANGED <<rsl, scriptVars, lrmVars, managerVars, committed,
                   state_file>>

\* PRE_CLOSE_OUTPUT and FAILED: record the end, deny what is still queued.
CasePreClose ==
    /\ At({"PRE_CLOSE_OUTPUT", "FAILED"})
    /\ LET unsent == request.unsent_status_change
           saved  == IF unsent THEN [request EXCEPT !.restart_state = State]
                               ELSE request
           next   == [To(saved, IF State = "FAILED" THEN "FAILED_CLOSE_OUTPUT"
                                                    ELSE "CLOSE_OUTPUT")
                        EXCEPT !.pending_queries = <<>>]
       IN /\ state_file' = IF unsent THEN StateFileOf(saved) ELSE state_file
          /\ IF unsent /\ request.status = "STAGE_OUT"
               THEN ContactStateCallback(
                      [next EXCEPT !.unsent_status_change = FALSE], FALSE)
               ELSE Becomes(next)
    /\ answered' = AllAnswered(request)
    /\ KeepLoop
    /\ UNCHANGED <<rsl, scriptVars, lrmVars, managerVars, committed>>

StageOutTodo(r) == r.stage_out_todo \/ r.stage_stream_todo

\* Mutant: the end of the job is not marked as unsent.
ToStageOut_quiet(r) == To(r, "STAGE_OUT")

\* Stage-out begins, or is over at once: the final status is to be sent.
ToStageOut(r) == [To(r, "STAGE_OUT") EXCEPT !.unsent_status_change = TRUE]

CaseCloseOutput ==
    /\ At({"CLOSE_OUTPUT"})
    /\ LET failed == /\ request.status = "FAILED"
                     /\ request.failure_code = "STAGE_OUT_FAILED"
           r == ToStageOut(request)
       IN \/ /\ failed
             /\ Becomes(To(request, "FAILED_CLOSE_OUTPUT"))
             /\ KeepLoop
             /\ UNCHANGED scripts
          \/ /\ ~failed /\ ~StageOutTodo(request)
             /\ Becomes(r) /\ KeepLoop
             /\ UNCHANGED scripts
          \/ /\ ~failed /\ StageOutTodo(request)
             /\ Becomes(r) /\ Sleep
             /\ Launch("stage_out", "STAGE_OUT", NoQuery)
          \/ /\ ~failed /\ StageOutTodo(request) /\ OutOfMemory
             /\ Becomes([To(request, "FAILED")
                           EXCEPT !.failure_code = "MALLOC_FAILED"])
             /\ KeepLoop
             /\ UNCHANGED scripts
    /\ UNCHANGED <<rsl, staged_out, lrmVars, managerVars,
                   clientVars, state_file>>

\* Mutant: only the streamed output is looked at.
StageOutLeft_streamOnly(r) ==
    IF r.stage_stream_todo
      THEN [To(r, "FAILED_CLOSE_OUTPUT")
              EXCEPT !.failure_code = "OPENING_STDOUT"]
      ELSE r

\* STAGE_OUT: what the stage-out script left undone.
StageOutLeft(r) ==
    CASE r.stage_stream_todo ->
           [To(r, "FAILED_CLOSE_OUTPUT") EXCEPT
              !.failure_code = IF @ \in {"SUCCESS", "STAGE_OUT_FAILED"}
                                 THEN "OPENING_STDOUT" ELSE @]
      [] ~r.stage_stream_todo /\ r.stage_out_todo ->
           [To(r, "FAILED_CLOSE_OUTPUT") EXCEPT
              !.failure_code = IF @ = "SUCCESS"
                                 THEN "STAGE_OUT_FAILED" ELSE @]
      [] OTHER -> r

\* STAGE_OUT falls through to FAILED_CLOSE_OUTPUT: the final job state, and
\* its callback, which restarts the machine of a two-phase job.
CaseFinalStatus ==
    /\ At({"STAGE_OUT", "FAILED_CLOSE_OUTPUT"})
    /\ LET r == IF State = "STAGE_OUT" THEN StageOutLeft(request) ELSE request
           final == IF r.jobmanager_state = "STAGE_OUT"
                      THEN To(SetStatus(r, "DONE"), "TWO_PHASE_END")
                      ELSE To(SetStatus(r, "FAILED"), "FAILED_TWO_PHASE")
       IN IF final.unsent_status_change
            THEN /\ ContactStateCallback(
                      [final EXCEPT !.unsent_status_change = FALSE],
                      rsl.two_phase)
                 /\ running' = ~rsl.two_phase
            ELSE Becomes(final) /\ KeepLoop
    /\ UNCHANGED <<rsl, scriptVars, lrmVars, managerVars, clientVars,
                   state_file>>

CaseTwoPhaseEnd ==
    /\ At({"TWO_PHASE_END", "FAILED_TWO_PHASE"})
    /\ LET timedOut == request.failure_code = "COMMIT_TIMED_OUT"
           extend == rsl.two_phase /\ request.commit_extend /\ ~timedOut
           free == \/ ~rsl.two_phase \/ timedOut
                   \/ request.client_contacts = {}
       IN \/ /\ extend
             /\ Becomes(Register([request EXCEPT !.commit_extend = FALSE]))
             /\ Sleep
          \/ /\ ~extend /\ free
             /\ Becomes(To(request, IF State = "TWO_PHASE_END"
                                      THEN "TWO_PHASE_END_COMMITTED"
                                      ELSE "FAILED_TWO_PHASE_COMMITTED"))
             /\ KeepLoop
          \/ /\ ~extend /\ ~free
             /\ Becomes([To(request, "STOP") EXCEPT !.restart_state = State])
             /\ Sleep
    /\ UNCHANGED <<rsl, scriptVars, lrmVars, managerVars, clientVars,
                   state_file>>

\* The clean-up cases, in order, for a finished and for a failed job.
CleanUpNext ==
    [s \in {"TWO_PHASE_END_COMMITTED", "FAILED_TWO_PHASE_COMMITTED",
            "FILE_CLEAN_UP", "FAILED_FILE_CLEAN_UP",
            "SCRATCH_CLEAN_UP", "FAILED_SCRATCH_CLEAN_UP"} |->
       CASE s = "TWO_PHASE_END_COMMITTED"    -> "FILE_CLEAN_UP"
         [] s = "FAILED_TWO_PHASE_COMMITTED" -> "FAILED_FILE_CLEAN_UP"
         [] s = "FILE_CLEAN_UP"              -> "SCRATCH_CLEAN_UP"
         [] s = "FAILED_FILE_CLEAN_UP"       -> "FAILED_SCRATCH_CLEAN_UP"
         [] s = "SCRATCH_CLEAN_UP"           -> "CACHE_CLEAN_UP"
         [] OTHER                            -> "FAILED_CACHE_CLEAN_UP"]

CaseCleanUp ==
    /\ At(DOMAIN CleanUpNext)
    /\ Becomes(To(request, IF State = "FILE_CLEAN_UP"
                              /\ request.status = "FAILED"
                             THEN "FAILED_SCRATCH_CLEAN_UP"
                             ELSE CleanUpNext[State]))
    /\ KeepLoop
    /\ UNCHANGED <<rsl, scriptVars, lrmVars, managerVars, clientVars,
                   state_file>>

CaseCacheCleanUp ==
    /\ At({"CACHE_CLEAN_UP", "FAILED_CACHE_CLEAN_UP"})
    /\ Becomes([To(request, IF State = "CACHE_CLEAN_UP" THEN "DONE"
                                                        ELSE "FAILED_DONE")
                  EXCEPT !.pending_queries = <<>>])
    /\ state_file' = NoStateFile
    /\ answered' = AllAnswered(request)
    /\ KeepLoop
    /\ UNCHANGED <<rsl, scriptVars, lrmVars, managerVars, committed>>

\* DONE and FAILED_DONE: the job id is forgotten, the events still queued
\* are drained, and nothing runs the machine again.
CaseDone ==
    /\ At({"DONE", "FAILED_DONE"})
    /\ LET r == [request EXCEPT !.restart_state = State,
                                !.pending_queries = <<>>]
       IN \/ /\ r.seg_event_queue # <<>>
             /\ Becomes(HandleEvent(r)) /\ KeepLoop
          \/ /\ r.seg_event_queue = <<>>
             /\ Becomes(r) /\ Sleep
    /\ registered' = FALSE
    /\ state_file' = IF State = "FAILED_DONE" THEN NoStateFile ELSE state_file
    /\ answered' = AllAnswered(request)
    /\ UNCHANGED <<rsl, scriptVars, lrmVars, seg_pause_count, committed>>

CaseStop ==
    /\ At({"STOP"})
    /\ ContactStateCallback(request, FALSE)
    /\ state_file' = StateFileOf(request)
    /\ Sleep
    /\ UNCHANGED <<rsl, scriptVars, lrmVars, managerVars, clientVars>>

StateMachine ==
    \/ CaseStart \/ CaseTwoPhase \/ CaseTwoPhaseCommitted \/ CaseStageIn
    \/ CaseSubmit \/ CasePoll1 \/ CasePoll2
    \/ CaseQuery1 \/ CaseTwoPhaseQuery2 \/ CasePollQuery2
    \/ CasePreClose \/ CaseCloseOutput \/ CaseFinalStatus
    \/ CaseTwoPhaseEnd \/ CaseCleanUp \/ CaseCacheCleanUp \/ CaseDone
    \/ CaseStop

-----------------------------------------------------------------------------
(* Queries and signals of the client, handled under the request mutex       *)

MayAsk(op) == ~running /\ op \in ClientOps

Cancelled(r) ==
    [SetStatus(To(r, "FAILED"), "FAILED")
       EXCEPT !.failure_code = "USER_CANCELLED"]

\* Mutant: a signal is queued in every state.
QueryValid_all == ManagerStates \ {"STOP"}

\* query_valid(): the states in which a signal is passed to a script.
QueryValid == {"START", "TWO_PHASE", "TWO_PHASE_COMMITTED",
               "TWO_PHASE_QUERY1", "TWO_PHASE_QUERY2", "STAGE_IN", "SUBMIT",
               "POLL1", "POLL2", "POLL_QUERY1", "POLL_QUERY2"}

\* Queries are numbered in the order in which they are queued.
NextId == Cardinality(answered) + Len(request.pending_queries) + 1

Enqueue(kind) ==
    [request EXCEPT !.pending_queries =
        Append(@, [id |-> NextId, kind |-> kind])]

\* Mutant: a job whose submit script runs is cancelled at once.
CancelAtOnce_submit == {"TWO_PHASE", "TWO_PHASE_COMMITTED", "STAGE_IN",
                        "SUBMIT"}

\* The states a cancel ends by moving the machine to FAILED.
CancelAtOnce == {"TWO_PHASE", "TWO_PHASE_COMMITTED", "STAGE_IN"}

\* globus_l_gram_job_manager_cancel()
Cancel ==
    /\ MayAsk("cancel")
    /\ \/ /\ State = "START"
          /\ request' = Cancelled(request)
       \/ /\ State \in CancelAtOnce
          /\ request' = [Cancelled(request)
                           EXCEPT !.unsent_status_change = TRUE]
       \/ /\ State \in {"SUBMIT", "POLL1", "POLL2", "POLL_QUERY1",
                        "POLL_QUERY2"}
          /\ NextId <= MaxQueries
          /\ request' = IF State = "POLL2"
                          THEN Register(To(Enqueue("cancel"), "POLL_QUERY1"))
                          ELSE Enqueue("cancel")
    /\ UNCHANGED <<rsl, running, scriptVars, callbackVars, lrmVars,
                   managerVars, clientVars, state_file>>

\* globus_l_gram_job_manager_signal(): CANCEL, SUSPEND, RESUME, PRIORITY
Signal(kind) ==
    /\ MayAsk(kind)
    /\ State \in QueryValid
    /\ NextId <= MaxQueries
    /\ request' =
         CASE State = "POLL2" ->
                Register(To(Enqueue(kind), "POLL_QUERY1"))
           [] State = "TWO_PHASE" ->
                Register(To(Enqueue(kind), "TWO_PHASE_QUERY1"))
           [] OTHER -> Enqueue(kind)
    /\ UNCHANGED <<rsl, running, scriptVars, callbackVars, lrmVars,
                   managerVars, clientVars, state_file>>

\* COMMIT_REQUEST; in every other state it is denied or ignored.
CommitRequest ==
    /\ MayAsk("commit_request")
    /\ rsl.two_phase
    /\ State \in {"START", "TWO_PHASE", "TWO_PHASE_QUERY1",
                  "TWO_PHASE_QUERY2"}
    /\ request' = Register(To(request, "TWO_PHASE_COMMITTED"))
    /\ committed' = TRUE
    /\ UNCHANGED <<rsl, running, scriptVars, callbackVars, lrmVars,
                   managerVars, answered, state_file>>

CommitEndFrom(r) ==
    Register(To(r, IF r.jobmanager_state = "FAILED_TWO_PHASE"
                     THEN "FAILED_TWO_PHASE_COMMITTED"
                     ELSE "TWO_PHASE_END_COMMITTED"))

CommitEnd ==
    /\ MayAsk("commit_end")
    /\ rsl.two_phase
    /\ State \in {"TWO_PHASE_END", "STOP", "FAILED_TWO_PHASE"}
    /\ request' = CommitEndFrom(request)
    /\ UNCHANGED <<rsl, running, scriptVars, callbackVars, lrmVars,
                   managerVars, clientVars, state_file>>

CommitExtend ==
    /\ MayAsk("commit_extend")
    /\ rsl.two_phase
    /\ State \in {"TWO_PHASE", "TWO_PHASE_END", "FAILED_TWO_PHASE",
                  "TWO_PHASE_QUERY1", "TWO_PHASE_QUERY2"}
    /\ request' = [request EXCEPT !.commit_extend = TRUE]
    /\ UNCHANGED <<rsl, running, scriptVars, callbackVars, lrmVars,
                   managerVars, clientVars, state_file>>

\* globus_l_gram_job_manager_query_stop_manager()
Stoppable == QueryValid \union
             {"PRE_CLOSE_OUTPUT", "CLOSE_OUTPUT", "STAGE_OUT",
              "TWO_PHASE_END", "TWO_PHASE_END_COMMITTED",
              "FAILED_TWO_PHASE", "FAILED_TWO_PHASE_COMMITTED"}

StopManager ==
    /\ MayAsk("stop_manager")
    /\ \/ /\ State = "STOP"
          /\ request' = [request EXCEPT !.unsent_status_change = TRUE]
       \/ /\ State \in Stoppable
          /\ LET r == [To(request, "STOP") EXCEPT
                         !.unsent_status_change = TRUE,
                         !.restart_state = State]
             IN request' = IF State = "POLL2" THEN Register(r) ELSE r
    /\ UNCHANGED <<rsl, running, scriptVars, callbackVars, lrmVars,
                   managerVars, clientVars, state_file>>

\* globus_l_gram_job_manager_register() and _unregister(); the last contact
\* to leave a job in TWO_PHASE_END stands for the COMMIT_END signal.
RegisterContact(c) ==
    /\ MayAsk("register")
    /\ State \notin {"DONE", "FAILED_DONE"}
    /\ c \notin request.client_contacts
    /\ request' = [request EXCEPT !.client_contacts = @ \union {c}]
    /\ UNCHANGED <<rsl, running, scriptVars, callbackVars, lrmVars,
                   managerVars, clientVars, state_file>>

UnregisterContact(c) ==
    /\ MayAsk("unregister")
    /\ State \notin {"DONE", "FAILED_DONE"}
    /\ c \in request.client_contacts
    /\ LET r == [request EXCEPT !.client_contacts = @ \ {c}]
       IN request' = IF /\ r.client_contacts = {}
                        /\ State = "TWO_PHASE_END" /\ rsl.two_phase
                       THEN CommitEndFrom(r) ELSE r
    /\ UNCHANGED <<rsl, running, scriptVars, callbackVars, lrmVars,
                   managerVars, clientVars, state_file>>

\* STDIO_UPDATE (stdio_update()): the staging lists are freed and created
\* again from the RSL; staging_create_list() does nothing for a request that
\* was restarted.
StdioUpdated(r) ==
    [r EXCEPT !.stage_in_todo = rsl.stage_in /\ ~r.jm_restart,
              !.stage_out_todo = rsl.stage_out /\ ~r.jm_restart,
              !.stage_stream_todo = rsl.stream /\ ~r.jm_restart]

StdioUpdate ==
    /\ MayAsk("stdio_update")
    /\ State \in QueryValid
    /\ request' = StdioUpdated(request)
    /\ state_file' = StateFileOf(request')
    /\ UNCHANGED <<rsl, running, scriptVars, callbackVars, lrmVars,
                   managerVars, clientVars>>

Client ==
    \/ Cancel \/ CommitRequest \/ CommitEnd \/ CommitExtend \/ StopManager
    \/ StdioUpdate
    \/ \E kind \in Signals : Signal(kind)
    \/ \E c \in Contacts : RegisterContact(c) \/ UnregisterContact(c)

-----------------------------------------------------------------------------
(* Script output, scheduler events and callback replies                     *)

\* A script prints each variable at most once, and none after an error.
MaySay(i, var) ==
    /\ ~running
    /\ i \in DOMAIN scripts
    /\ scripts[i].said \cap {var, "ERROR"} = {}

Said(i, var) == scripts' = [scripts EXCEPT ![i].said = @ \union {var}]

\* default_done(), GRAM_SCRIPT_JOB_ID: the LRM has accepted the job.
ScriptJobId(i) ==
    /\ MaySay(i, "JOB_ID")
    /\ scripts[i].cmd = "submit" /\ "ACCEPTED" \in scripts[i].said
    /\ Said(i, "JOB_ID")
    /\ request' = [request EXCEPT !.job_id_string = "set"]
    /\ UNCHANGED <<rsl, running, staged_out, callbackVars, lrmVars,
                   managerVars, clientVars, state_file>>

\* default_done(), GRAM_SCRIPT_JOB_STATE: the status the LRM has now.
ScriptJobState(i) ==
    /\ MaySay(i, "JOB_STATE") /\ lrm # "none"
    /\ \/ scripts[i].cmd = "submit" /\ "ACCEPTED" \in scripts[i].said
       \/ scripts[i].cmd = "poll"
    /\ Said(i, "JOB_STATE")
    /\ request' = ReportStatus(request, lrm)
    /\ UNCHANGED <<rsl, running, staged_out, callbackVars, lrmVars,
                   managerVars, clientVars, state_file>>

\* default_done(), GRAM_SCRIPT_ERROR: ignored when the request has moved on.
\* The failure code is stored after request_set_status().
ScriptError(i) ==
    /\ MaySay(i, "ERROR")
    /\ scripts[i].query = NoQuery
    /\ Said(i, "ERROR")
    /\ request' = IF State # scripts[i].start THEN request
                  ELSE [SetStatus(request, "FAILED") EXCEPT
                          !.failure_code = "SCRIPT_ERROR",
                          !.unsent_status_change = TRUE]
    /\ UNCHANGED <<rsl, running, staged_out, callbackVars, lrmVars,
                   managerVars, clientVars, state_file>>

\* default_done(), GRAM_SCRIPT_STAGED_IN: staged_done() for every pair.
ScriptStagedIn(i) ==
    /\ MaySay(i, "STAGED")
    /\ scripts[i].cmd = "stage_in"
    /\ Said(i, "STAGED")
    /\ request' = [request EXCEPT !.stage_in_todo = FALSE]
    /\ state_file' = IF State = "STOP" THEN state_file
                                       ELSE StateFileOf(request')
    /\ UNCHANGED <<rsl, running, staged_out, callbackVars, lrmVars,
                   managerVars, clientVars>>

\* default_done(), GRAM_SCRIPT_STAGED_OUT and GRAM_SCRIPT_STAGED_STREAM
ScriptStagedOut(i, var) ==
    /\ MaySay(i, var)
    /\ scripts[i].cmd = "stage_out"
    /\ Said(i, var)
    /\ IF State = scripts[i].start
         THEN /\ request' = IF var = "STAGED"
                              THEN [request EXCEPT !.stage_out_todo = FALSE]
                              ELSE [request EXCEPT !.stage_stream_todo = FALSE]
              /\ state_file' = StateFileOf(request')
         ELSE UNCHANGED <<request, state_file>>
    /\ staged_out' = (staged_out \/ var = "STAGED")
    /\ UNCHANGED <<rsl, running, callbackVars, lrmVars, managerVars,
                   clientVars>>

\* query_done(), GRAM_SCRIPT_JOB_STATE: the answer of a cancel or signal
\* script the LRM obeyed.
QueryReport(kind) ==
    CASE kind \in CancelKinds -> "FAILED"
      [] kind = "suspend"     -> "SUSPENDED"
      [] OTHER                -> "ACTIVE"

ScriptQueryState(i) ==
    /\ MaySay(i, "JOB_STATE")
    /\ scripts[i].query # NoQuery /\ "ACCEPTED" \in scripts[i].said
    /\ Said(i, "JOB_STATE")
    /\ LET status == QueryReport(scripts[i].query.kind)
       IN request' = IF ~ValidStateChange(request.status, status) THEN request
                     ELSE [SetStatus(request, status) EXCEPT
                             !.unsent_status_change = TRUE,
                             !.failure_code = IF status = "FAILED"
                                                THEN "USER_CANCELLED" ELSE @]
    /\ UNCHANGED <<rsl, running, staged_out, callbackVars, lrmVars,
                   managerVars, clientVars, state_file>>

\* script_read() at the end of the output: default_done() or query_done()
\* without a variable.  broken: the script ended without its terminator.
ScriptDone(i, broken) ==
    /\ ~running
    /\ i \in DOMAIN scripts
    /\ scripts' = SubSeq(scripts, 1, i - 1)
                  \o SubSeq(scripts, i + 1, Len(scripts))
    /\ request' = Register([request EXCEPT
                    !.failure_code = IF broken THEN "INVALID_SCRIPT_STATUS"
                                               ELSE @])
    /\ UNCHANGED <<rsl, running, staged_out, callbackVars, lrmVars,
                   managerVars, clientVars, state_file>>

ScriptOutput ==
    \E i \in DOMAIN scripts :
        \/ ScriptJobId(i) \/ ScriptJobState(i) \/ ScriptError(i)
        \/ ScriptStagedIn(i) \/ ScriptQueryState(i)
        \/ \E var \in {"STAGED", "STREAMED"} : ScriptStagedOut(i, var)

ScriptEnds == \E i \in DOMAIN scripts, broken \in BOOLEAN :
                  ScriptDone(i, broken)

\* External: the submit script hands the job to the LRM.
LrmAccepts(i) ==
    /\ i \in DOMAIN scripts
    /\ scripts[i].cmd = "submit"
    /\ scripts[i].said \cap {"ACCEPTED", "ERROR"} = {}
    /\ submissions < MaxSubmissions
    /\ Said(i, "ACCEPTED")
    /\ lrm' = "PENDING"
    /\ seg_events' = IF SegStarted THEN {"PENDING"} ELSE {}
    /\ submissions' = submissions + 1
    /\ UNCHANGED <<requestVars, staged_out, callbackVars, managerVars,
                   clientVars, state_file>>

\* External: the LRM obeys a cancel or signal script.
LrmObeys(i) ==
    /\ i \in DOMAIN scripts
    /\ scripts[i].query # NoQuery /\ "ACCEPTED" \notin scripts[i].said
    /\ \/ /\ scripts[i].query.kind \in CancelKinds
          /\ lrm \in {"PENDING", "ACTIVE"}
          /\ lrm' = "FAILED"
          /\ seg_events' = IF SegStarted THEN seg_events \union {lrm'} ELSE {}
       \/ /\ scripts[i].query.kind \in {"suspend", "resume"}
          /\ lrm = "ACTIVE"
          /\ UNCHANGED <<lrm, seg_events>>
    /\ Said(i, "ACCEPTED")
    /\ UNCHANGED <<requestVars, staged_out, callbackVars, submissions,
                   managerVars, clientVars, state_file>>

\* External: the job starts or ends in the LRM.
LrmMoves ==
    /\ \/ lrm = "PENDING" /\ lrm' \in {"ACTIVE", "DONE", "FAILED"}
       \/ lrm = "ACTIVE"  /\ lrm' \in {"DONE", "FAILED"}
    /\ seg_events' = IF SegStarted THEN seg_events \union {lrm'} ELSE {}
    /\ UNCHANGED <<requestVars, scriptVars, callbackVars, submissions,
                   managerVars, clientVars, state_file>>

\* Mutant: the state is changed, the machine is not registered.
Wake_noTimer(r) ==
    IF r.jobmanager_state = "POLL2" THEN To(r, "POLL1") ELSE r

\* Mutant: the machine is run whatever it waits for.
Wake_always(r) ==
    Register(IF r.jobmanager_state = "POLL2" THEN To(r, "POLL1") ELSE r)

\* An event wakes a machine that waits for it in POLL2.
Wake(r) ==
    IF r.jobmanager_state = "POLL2" THEN Register(To(r, "POLL1")) ELSE r

\* deliver_event(): an event of a registered job id.  The manager-wide queue
\* of paused events may let a later event overtake an earlier one.
SegDelivers(event) ==
    /\ ~running
    /\ registered /\ event \in seg_events
    /\ request' = Wake([request EXCEPT !.seg_event_queue = Append(@, event)])
    /\ seg_events' = seg_events \ {event}
    /\ registered' = (event \notin {"DONE", "FAILED"})
    /\ UNCHANGED <<rsl, running, scriptVars, callbackVars, lrm, submissions,
                   seg_pause_count, clientVars, state_file>>

\* callback_reply() for a context with restart_state_when_done
CallbackReply ==
    /\ ~running
    /\ restart_callbacks > 0
    /\ restart_callbacks' = restart_callbacks - 1
    /\ request' = Register(request)
    /\ UNCHANGED <<rsl, running, scriptVars, lrmVars, managerVars,
                   clientVars, state_file, sent>>

Environment ==
    \/ ScriptOutput \/ ScriptEnds \/ CallbackReply \/ LrmMoves
    \/ \E i \in DOMAIN scripts : LrmAccepts(i) \/ LrmObeys(i)
    \/ \E event \in SegEvents : SegDelivers(event)

-----------------------------------------------------------------------------
(* The specification                                                        *)

\* request_init(): the record of a new request, as the first state file
\* describes it.
NewRequest(d) ==
    [jobmanager_state |-> "START", restart_state |-> "START",
     status |-> "UNSUBMITTED", failure_code |-> "SUCCESS",
     cached_status |-> "UNSUBMITTED", cached_failure_code |-> "SUCCESS",
     unsent_status_change |-> FALSE, commit_extend |-> FALSE,
     jm_restart |-> FALSE, job_id_string |-> "null",
     expected_terminal_state |-> "DONE",
     pending_queries |-> <<>>, seg_event_queue |-> <<>>,
     stage_in_todo |-> d.stage_in, stage_out_todo |-> d.stage_out,
     stage_stream_todo |-> d.stream, poll_timer |-> FALSE,
     client_contacts |-> {}]

\* request_start(): the first contact, the dry-run status, the first timer.
StartedRequest(d, contacts) ==
    LET r == Register([NewRequest(d) EXCEPT !.client_contacts = contacts])
    IN IF d.dry_run
         THEN SetStatus([r EXCEPT !.failure_code = "DRYRUN"], "FAILED")
         ELSE r

Init ==
    /\ rsl \in Requests
    /\ \E contacts \in SUBSET Contacts :
           request = StartedRequest(rsl, contacts)
    /\ state_file = StateFileOf(NewRequest(rsl))
    /\ running = FALSE
    /\ scripts = <<>> /\ staged_out = FALSE
    /\ restart_callbacks = 0 /\ sent = {}
    /\ seg_pause_count = 0 /\ registered = FALSE
    /\ lrm = "none" /\ seg_events = {} /\ submissions = 0
    /\ committed = FALSE /\ answered = {}

\* Nothing in the process acts on the request any more.
AtRest == /\ ~running /\ ~request.poll_timer
          /\ scripts = <<>> /\ restart_callbacks = 0
          /\ State \in {"DONE", "FAILED_DONE", "STOP"}

Next == TimerFires \/ StateMachine \/ Client \/ Environment

Spec == Init /\ [][Next]_vars

\* Timers fire, the loop runs on, scripts end, contacts answer or time out
\* in the protocol library, and the SEG delivers what it read.
Fairness ==
    /\ WF_vars(TimerFires)
    /\ WF_vars(StateMachine)
    /\ WF_vars(ScriptEnds)
    /\ WF_vars(CallbackReply)
    /\ WF_vars(LrmMoves)
    /\ WF_vars(\E event \in {"DONE", "FAILED"} : SegDelivers(event))

FairSpec == Spec /\ Fairness

-----------------------------------------------------------------------------
(* Properties                                                               *)

\* Every variable keeps its type: the request only ever has the states,
\* statuses and failure codes of the enumerations in the job manager's header.
TypeOK ==
    /\ rsl \in Requests
    /\ request \in RequestRecord
    /\ running \in BOOLEAN
    /\ scripts \in Seq(Scripts)
    /\ restart_callbacks \in Nat
    /\ state_file \in StateFiles \union {NoStateFile}
    /\ seg_pause_count \in Int
    /\ registered \in BOOLEAN
    /\ lrm \in LrmStates
    /\ seg_events \subseteq SegEvents
    /\ sent \subseteq JobStates \union {"STOP"}
    /\ submissions \in Nat
    /\ committed \in BOOLEAN
    /\ answered \subseteq Nat /\ IsFiniteSet(answered)
    /\ staged_out \in BOOLEAN

\* A state that works on the oldest query has one: the QUERY1 and QUERY2 cases
\* take it from pending_queries without looking whether there is any.  POLL2,
\* where the machine may wait for the SEG, has none to leave waiting.
QueryStates == {"POLL_QUERY1", "POLL_QUERY2", "TWO_PHASE_QUERY1",
                "TWO_PHASE_QUERY2"}
QueriesMatchState ==
    /\ State \in QueryStates => request.pending_queries # <<>>
    /\ State = "POLL2" => request.pending_queries = <<>>

\* States in which the machine has nothing left to do by itself.
Resting == {"DONE", "FAILED_DONE", "STOP"}

\* No lost wake-up: a request whose machine is not running will be run again.
\* A timer, a script or a restarting callback is outstanding, or the machine
\* waits in POLL2 for the SEG with no event and no query queued, or its work
\* is over.  (Every case that returns event_registered must have left one of
\* these behind, and no query, signal or event may take it away.)
NoLostWakeup ==
    \/ running \/ request.poll_timer
    \/ scripts # <<>> \/ restart_callbacks > 0
    \/ State \in Resting
    \/ /\ State = "POLL2" /\ SegStarted
       /\ request.seg_event_queue = <<>> /\ request.pending_queries = <<>>

\* The LRM never sees a two-phase job its client has not committed, whatever
\* timeouts, signals and failures come between START and COMMIT_REQUEST.
NoSubmitBeforeCommit == rsl.two_phase /\ submissions > 0 => committed

\* Why: before the commit the machine is outside the states that lead to the
\* submit script, and no such script runs.
PreCommit ==
    rsl.two_phase /\ ~committed =>
        /\ State \notin {"TWO_PHASE_COMMITTED", "STAGE_IN", "SUBMIT"}
        /\ \A i \in DOMAIN scripts : scripts[i].cmd # "submit"
        /\ submissions = 0

\* The inductive invariant behind TypeOK, NoLostWakeup and
\* NoSubmitBeforeCommit.  A wake-up can be lost when every post of a callback
\* fails (contact_state_callback()), so that case is set apart.
RequestInvariant ==
    /\ TypeOK
    /\ QueriesMatchState
    /\ PreCommit
    /\ PostFails \/ NoLostWakeup

\* The LRM gets the job at most once.
AtMostOneSubmission == submissions <= 1

\* seg_pause() and seg_resume() balance: this job holds the SEG paused
\* exactly while its submit script is outstanding, however the submission
\* ends.
PauseBalanced == seg_pause_count = IF State = "SUBMIT" THEN 1 ELSE 0

\* When a job has come to its end the copy of the status that the manager
\* answers status queries from agrees with the request, although the failure
\* code is often assigned after request_set_status() took the copy.
StatusCoherent ==
    ~running /\ State \in {"TWO_PHASE_END", "FAILED_TWO_PHASE"} \union Resting
        => /\ request.cached_status = request.status
           /\ request.cached_failure_code = request.failure_code

\* A job the LRM accepted is not forgotten (its state file removed) before
\* its contacts were sent the final status it ended with.
SubmittedJobNotified ==
    /\ submissions > 0 /\ state_file = NoStateFile
    /\ Recipients(request) # {}
    => request.status \in sent

\* The query a cancel or signal script works for is still queued: query_done()
\* writes to it, so it must not be answered and freed before the script ends.
ScriptQueryLive ==
    \A i \in DOMAIN scripts : scripts[i].query # NoQuery =>
        \E j \in DOMAIN request.pending_queries :
            request.pending_queries[j] = scripts[i].query

\* Contacts hear DONE for a job with files to stage out only after a stage-out
\* script has staged them.
StageOutBeforeDone == "DONE" \in sent /\ rsl.stage_out => staged_out

\* Once the LRM may have the job, the state file never says that it is still
\* to be submitted: a later job manager would submit it a second time.
SubmitRecorded ==
    submissions > 0 /\ state_file # NoStateFile =>
        state_file.restart_state \notin
            {"START", "TWO_PHASE", "TWO_PHASE_COMMITTED", "STAGE_IN"}

\* A request at rest owes nobody an answer: every query that was queued has
\* been replied to, also those that came while the job was failing.
QueriesAnswered == AtRest /\ State # "STOP" => request.pending_queries = <<>>

\* Every job comes to rest for good, done, failed or stopped waiting for its
\* end commit, whatever its scripts say or fail to say.
JobSettles == <>[](~running /\ State \in Resting)

\* Every queued query is answered.
QueryAnswered ==
    \A n \in 1..MaxQueries :
        (\E i \in DOMAIN request.pending_queries :
             request.pending_queries[i].id = n) ~> (n \in answered)

=============================================================================
