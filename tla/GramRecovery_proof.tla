------------------------- MODULE GramRecovery_proof -------------------------
(***************************************************************************)
(* Proofs about GramRecovery, for any number of crashes and restarts.  The *)
(* first part extends the invariant of GramRequest_proof to them: types,   *)
(* the match of state and query queue, and no lost wake-up.  The second is *)
(* about crashes alone: what a later job manager finds in the state file   *)
(* never makes it submit a job whose LRM id is known, or, for Condor, one  *)
(* the LRM has.                                                            *)
(***************************************************************************)
EXTENDS GramRecovery, GramRequestJob_proof

USE DEF requestVars, scriptVars, callbackVars, lrmVars, managerVars, clientVars

-----------------------------------------------------------------------------
(* Types and wake-ups across crashes and restarts                           *)

\* The record of a new request is well typed.
LEMMA NewRequestTyped ==
    ASSUME rsl \in Requests
    PROVE  NewRequest(rsl) \in RequestRecord
  <1>1. /\ rsl.stage_in \in BOOLEAN /\ rsl.stage_out \in BOOLEAN
        /\ rsl.stream \in BOOLEAN
    BY ConstantsAssumption DEF RSL
  <1>2. <<>> \in Seq(Queries) /\ <<>> \in Seq(SegEvents)
    OBVIOUS
  <1> QED BY <1>1, <1>2 DEF NewRequest, RequestRecord, ManagerStates,
                            JobStates, FailureCodes, JobIds

\* What state_file_read() leaves: the file's word on the job, in a request
\* that has been committed and owes nobody anything.
LEMMA LoadedFacts ==
    ASSUME NEW file \in StateFiles
    PROVE  /\ LoadedRequest(file) \in RequestRecord
           /\ LoadedRequest(file).jobmanager_state = "TWO_PHASE_COMMITTED"
           /\ LoadedRequest(file).pending_queries = <<>>
           /\ LoadedRequest(file).seg_event_queue = <<>>
           /\ LoadedRequest(file).jm_restart
           /\ LoadedRequest(file).restart_state = file.restart_state
           /\ LoadedRequest(file).job_id_string = file.job_id_string
           /\ LoadedRequest(file).failure_code = file.failure_code
           /\ LoadedRequest(file).stage_in_todo = file.stage_in_todo
           /\ LoadedRequest(file).stage_out_todo = file.stage_out_todo
  <1>1. "TWO_PHASE_COMMITTED" \in ManagerStates
    BY DEF ManagerStates
  <1>2. <<>> \in Seq(Queries) /\ <<>> \in Seq(SegEvents)
    OBVIOUS
  <1>3. LoadedRequest(file) \in RequestRecord
    BY <1>1, <1>2 DEF LoadedRequest, RequestRecord, StateFiles
  <1> QED BY <1>3 DEF LoadedRequest

\* The request a new job manager starts with: it waits in POLL2 for the SEG,
\* or its timer is armed.
LEMMA ReloadedFacts ==
    ASSUME NEW file \in StateFiles
    PROVE  /\ Reloaded(file) \in RequestRecord
           /\ Reloaded(file).pending_queries = <<>>
           /\ Reloaded(file).seg_event_queue = <<>>
           /\ \/ /\ Reloaded(file).jobmanager_state = "POLL2"
                 /\ SegStarted \/ Reloaded(file).poll_timer
              \/ /\ Reloaded(file).jobmanager_state = "TWO_PHASE_COMMITTED"
                 /\ Reloaded(file).poll_timer
  <1> DEFINE r == LoadedRequest(file)
             p == To(r, "POLL2")
  <1>1. /\ r \in RequestRecord /\ r.jobmanager_state = "TWO_PHASE_COMMITTED"
        /\ r.pending_queries = <<>> /\ r.seg_event_queue = <<>>
    BY LoadedFacts
  <1>2. SegStarted \in BOOLEAN
    BY ConstantsAssumption
  <1>3. \/ SegStarted /\ Reloaded(file) = p
        \/ Reloaded(file) = Register(p)
        \/ Reloaded(file) = Register(r)
    BY <1>2 DEF Reloaded
  <1> HIDE DEF r
  <1>4. /\ p \in RequestRecord /\ p.jobmanager_state = "POLL2"
        /\ p.pending_queries = <<>> /\ p.seg_event_queue = <<>>
    <2>1. "POLL2" \in ManagerStates
      BY DEF ManagerStates
    <2> QED BY <1>1, <2>1, ToFacts DEF SameQueues
  <1> HIDE DEF p
  <1> QED BY <1>1, <1>3, <1>4, RegisterFacts

\* The SEG replays events of the job.
LEMMA ReplayedTyped ==
    ASSUME TypeOK PROVE Replayed \subseteq SegEvents
  <1>1. request.seg_event_queue \in Seq(SegEvents) /\ seg_events \subseteq SegEvents
    BY DEF TypeOK, RequestRecord
  <1> DEFINE q == request.seg_event_queue
  <1> HIDE DEF q
  <1>2. q \in Seq(SegEvents)
    BY <1>1 DEF q
  <1>3. \A i \in DOMAIN q : q[i] \in SegEvents
    BY <1>2
  <1>4. {q[i] : i \in DOMAIN q} \subseteq SegEvents
    BY <1>3
  <1> QED BY <1>1, <1>4 DEF Replayed, q

\* A crash leaves a well-typed request that will be run, or waits for the SEG
\* with nothing queued.
LEMMA CrashStep ==
    ASSUME RequestCore, CrashAndReload PROVE RequestCore'
  <1>1. /\ TypeOK /\ rsl \in Requests /\ state_file \in StateFiles
        /\ request' = Reloaded(state_file) /\ running' = FALSE
        /\ scripts' = <<>> /\ restart_callbacks' = 0
        /\ seg_events' = Replayed
        /\ UNCHANGED <<rsl, staged_out, sent, lrm, submissions, committed,
                       answered, state_file>>
    BY DEF RequestCore, TypeOK, CrashAndReload
  <1>2. registered' \in BOOLEAN /\ seg_pause_count' \in Int
    BY DEF CrashAndReload
  <1>3. seg_events' \subseteq SegEvents
    BY <1>1, ReplayedTyped
  <1>4. /\ request' \in RequestRecord
        /\ request'.pending_queries = <<>> /\ request'.seg_event_queue = <<>>
        /\ \/ State' = "POLL2" /\ (SegStarted \/ request'.poll_timer)
           \/ State' = "TWO_PHASE_COMMITTED" /\ request'.poll_timer
    BY <1>1, ReloadedFacts DEF State
  <1>5. scripts' \in Seq(Scripts) /\ restart_callbacks' \in Nat
    BY <1>1
  <1>6. TypeOK'
    BY <1>1, <1>2, <1>3, <1>4, <1>5 DEF TypeOK
  <1>7. QueriesMatchState' /\ NoLostWakeup'
    BY <1>4 DEF QueriesMatchState, QueryStates, NoLostWakeup
  <1> QED BY <1>6, <1>7 DEF RequestCore

\* A restart by the client leaves the machine where it is, or sends it back to
\* START with the wake-up it had or a new one.
LEMMA ClientRestartStep ==
    ASSUME RequestCore, NEW c \in Contacts, ClientRestart(c)
    PROVE  RequestCore'
  <1> DEFINE u == StdioUpdated(request)
             r == [u EXCEPT !.client_contacts = @ \union {c}]
             s == To(r, "START")
             again == [s EXCEPT !.jm_restart = TRUE]
             told == [again EXCEPT !.unsent_status_change = TRUE]
  <1>1. /\ TypeOK /\ rsl \in Requests /\ request \in RequestRecord /\ ~running
        /\ state_file' = StateFileOf(u)
        /\ \/ State = "STOP" /\ request' = Register(told)
           \/ State \notin Resting \union {"POLL2"} /\ request' = again
           \/ request' = r
        /\ UNCHANGED <<rsl, running, scriptVars, callbackVars, lrmVars,
                       managerVars, clientVars>>
    BY DEF RequestCore, TypeOK, ClientRestart, MayAsk, Resting
  <1>2. /\ rsl.stage_in \in BOOLEAN /\ rsl.stage_out \in BOOLEAN
        /\ rsl.stream \in BOOLEAN
    BY <1>1, ConstantsAssumption DEF RSL
  <1>3. /\ u \in RequestRecord /\ u.jobmanager_state = State
        /\ SameQueues(request, u)
    BY <1>1, <1>2 DEF RequestRecord, StdioUpdated, State, SameQueues
  <1> HIDE DEF u
  <1>4. /\ r \in RequestRecord /\ r.jobmanager_state = State
        /\ SameQueues(request, r)
    BY <1>3 DEF RequestRecord, SameQueues
  <1> HIDE DEF r
  <1>5. /\ s \in RequestRecord /\ s.jobmanager_state = "START"
        /\ SameQueues(request, s)
    BY <1>4, ToFacts DEF ManagerStates, SameQueues
  <1> HIDE DEF s
  <1>6. /\ again \in RequestRecord /\ again.jobmanager_state = "START"
        /\ SameQueues(request, again)
    BY <1>5 DEF RequestRecord, SameQueues
  <1> HIDE DEF again
  <1>7. told \in RequestRecord /\ told.jobmanager_state = "START"
    BY <1>6 DEF RequestRecord
  <1> HIDE DEF told
  <1>8. /\ request' \in RequestRecord
        /\ \/ State' = "START" /\ request'.poll_timer
           \/ /\ State' = "START" /\ State \notin Resting \union {"POLL2"}
              /\ SameQueues(request, request')
           \/ State' = State /\ SameQueues(request, request')
    BY <1>1, <1>4, <1>6, <1>7, RegisterFacts DEF State
  <1>9. TypeOK'
    <2>1. StateFileOf(u) \in StateFiles
      BY <1>3, StateFileTyped
    <2> QED BY <1>1, <1>8, <2>1 DEF TypeOK
  <1>10. QueriesMatchState'
    BY <1>8 DEF RequestCore, QueriesMatchState, QueryStates, SameQueues
  <1>11. PostFails \/ NoLostWakeup'
    BY <1>1, <1>8, AwakeBefore DEF RequestCore, NoLostWakeup, SameQueues
  <1> QED BY <1>9, <1>10, <1>11 DEF RequestCore

\* The counters stay within their bounds, the history of restarts is a Boolean.
Counted == /\ crashes \in 0..MaxCrashes /\ restarts \in 0..MaxRestarts
           /\ stale \in BOOLEAN

\* Every step keeps the request's invariant.
LEMMA RecoveryStep ==
    ASSUME RequestCore, Counted, [NextRecovery]_recoveryVars
    PROVE  RequestCore' /\ Counted'
  <1>1. CASE [Next]_vars /\ UNCHANGED <<crashes, restarts, stale>>
    BY <1>1, NextStep DEF RequestKept, Counted
  <1>2. CASE CrashAndReload
    <2>1. Counted'
      BY <1>2, RecoveryAssumption DEF CrashAndReload, Counted
    <2> QED BY <1>2, <2>1, CrashStep
  <1>3. ASSUME NEW c \in Contacts, ClientRestart(c) PROVE RequestCore' /\ Counted'
    <2>1. Counted'
      BY <1>3, RecoveryAssumption DEF ClientRestart, Counted
    <2> QED BY <1>3, <2>1, ClientRestartStep
  <1> QED BY <1>1, <1>2, <1>3 DEF NextRecovery, recoveryVars

\* It holds throughout.
LEMMA RequestCoreHolds == SpecRecovery => [](RequestCore /\ Counted)
  <1>1. InitRecovery => RequestCore /\ Counted
    <2>1. InitRecovery => Counted
      <3> SUFFICES ASSUME InitRecovery PROVE Counted
        OBVIOUS
      <3>1. crashes = 0 /\ restarts = 0 /\ stale = FALSE
        BY DEF InitRecovery
      <3>2. crashes \in 0..MaxCrashes /\ restarts \in 0..MaxRestarts
        BY <3>1, RecoveryAssumption
      <3>3. stale \in BOOLEAN
        BY <3>1
      <3> QED BY <3>2, <3>3 DEF Counted
    <2>2. InitRecovery => RequestCore
      BY InitInvariant DEF InitRecovery, RequestInvariant, RequestCore
    <2> QED BY <2>1, <2>2
  <1>2. RequestCore /\ Counted /\ [NextRecovery]_recoveryVars
            => RequestCore' /\ Counted'
    BY RecoveryStep
  <1> QED BY <1>1, <1>2, PTL DEF SpecRecovery

\* Every variable keeps its type, however often the job manager crashes and
\* the client restarts its request: a state file always loads into a
\* well-formed request.
THEOREM RecoveryTypeCorrect == SpecRecovery => []TypeOKRecovery
  <1>1. RequestCore /\ Counted => TypeOKRecovery
    BY DEF RequestCore, Counted, TypeOKRecovery
  <1> QED BY <1>1, RequestCoreHolds, PTL

\* Nor does a reloaded or restarted request work on a query that is not there.
THEOREM RecoveredQueriesMatch == SpecRecovery => []QueriesMatchState
  <1>1. RequestCore => QueriesMatchState
    BY DEF RequestCore
  <1> QED BY <1>1, RequestCoreHolds, PTL

\* No crash and no restart loses a wake-up, if not all posts of a callback
\* fail: a reloaded request has its timer, or waits in POLL2 for a SEG that
\* will replay what it missed; a restarted one keeps what would have run it.
THEOREM RecoveredWakeup ==
    ASSUME ~PostFails
    PROVE  SpecRecovery => []NoLostWakeup
  <1>1. RequestCore => NoLostWakeup
    BY DEF RequestCore
  <1> QED BY <1>1, RequestCoreHolds, PTL

-----------------------------------------------------------------------------
(* What a later job manager may find: the invariant                         *)

\* Crashes alone: the client does not restart its request, update its staging
\* lists or stop the manager, and no job has files to stage in.  For each of the
\* four TLC finds a behaviour of one or two crashes in which a job manager
\* submits a job whose id it has.
CrashesOnly ==
    /\ ClientOps \cap {"restart", "stdio_update", "stop_manager"} = {}
    /\ \A d \in Requests : ~d.stage_in

\* The states before the commit.
Uncommitted == {"START", "TWO_PHASE", "TWO_PHASE_QUERY1", "TWO_PHASE_QUERY2"}

\* The states in which the state file is written.
Written == {"SUBMIT", "POLL1", "PRE_CLOSE_OUTPUT", "FAILED", "STAGE_OUT",
            "TWO_PHASE_END", "FAILED_TWO_PHASE"}

\* The restart states that lead a reloaded request to the submit script.  For
\* Condor, SUBMIT leads there only if the job is not in the Condor log.
Resubmit == IF Condor THEN {"START"} ELSE {"START", "SUBMIT"}

\* A submit script runs, or has handed over the job and not ended.
Submitting == \E i \in DOMAIN scripts : SubmitIn(scripts, i)

\* This job manager has heard of a job in the LRM.
Heard == \/ request.job_id_string # "null" \/ registered
         \/ request.seg_event_queue # <<>>

\* The job that must not be submitted again: with Condor the one the LRM has,
\* otherwise the one whose id this job manager has.
Known == IF Condor THEN lrm # "none" ELSE Heard

\* The machine is on its way to the submit script.
Heading(r) ==
    \/ r.jobmanager_state \in Uncommitted
    \/ /\ r.jobmanager_state = "TWO_PHASE_COMMITTED"
       /\ ~r.jm_restart \/ r.restart_state \in Resubmit
    \/ r.jobmanager_state = "STAGE_IN" /\ r.status # "FAILED"

\* One submit script at most; it hands over no job that is known, and the
\* machine does not come back to the states before it.
OneSubmitter ==
    /\ \A i, j \in DOMAIN scripts :
          SubmitIn(scripts, i) /\ SubmitIn(scripts, j) => i = j
    /\ \A i \in DOMAIN scripts :
          SubmitIn(scripts, i) /\ "ACCEPTED" \notin scripts[i].said => ~Known
    /\ Submitting => State \notin PreSubmit

\* A known job is not on its way to the submit script.
NotAgain == Known => ~Heading(request)

\* A script is started in the state its output is for, and the LRM has the job
\* that a script says it accepted.
Honest(s, job) == /\ s.cmd # "stage_in"
                  /\ s.cmd = "stage_out" => s.start = "STAGE_OUT"
                  /\ "ACCEPTED" \in s.said => job # "none"

HonestScripts == \A i \in DOMAIN scripts : Honest(scripts[i], lrm)

\* A reloaded request begins after the commit with the restart state of a
\* state file; a request that stopped waits for its end commit.
RestartKnown ==
    /\ ~request.stage_in_todo /\ request.failure_code # "STAGE_IN_FAILED"
    /\ request.jm_restart => State \notin Uncommitted
    /\ request.jm_restart /\ State = "TWO_PHASE_COMMITTED" =>
          request.restart_state \in {"START"} \union Written
    /\ State = "STOP" =>
          request.restart_state \in {"TWO_PHASE_END", "FAILED_TWO_PHASE"}

\* What a state file may say.
GoodFile(file) ==
    /\ file.restart_state \in {"START"} \union Written
    /\ lrm # "none" \/ Submitting => file.restart_state # "START"
    /\ file.job_id_string # "null" =>
          lrm # "none" /\ file.restart_state \notin Resubmit
    /\ ~file.stage_in_todo /\ file.failure_code # "STAGE_IN_FAILED"
    /\ rsl.stage_out /\ ~staged_out => file.stage_out_todo

FileKnown == state_file # NoStateFile => GoodFile(state_file)

\* The LRM has what was submitted, and everything heard of is in the LRM.
LrmKnown == /\ lrm # "none" <=> submissions > 0
            /\ Heard \/ seg_events # {} => lrm # "none"
            /\ Condor => submissions <= 1

\* The inductive invariant.
RecoveryCore ==
    /\ OneSubmitter
    /\ NotAgain
    /\ HonestScripts
    /\ RestartKnown
    /\ FileKnown
    /\ LrmKnown
    /\ StageOutKept

-----------------------------------------------------------------------------
(* What the helpers of the model keep of it                                 *)

\* Request b is as known to its job manager as request a, with its lists.
Inherits(a, b) ==
    /\ b.jm_restart = a.jm_restart
    /\ b.stage_in_todo = a.stage_in_todo
    /\ b.stage_out_todo = a.stage_out_todo
    /\ b.failure_code = "STAGE_IN_FAILED" => a.failure_code = "STAGE_IN_FAILED"
    /\ b.job_id_string # "null" =>
          a.job_id_string # "null" \/ a.seg_event_queue # <<>>
    /\ b.seg_event_queue # <<>> => a.seg_event_queue # <<>>

\* What two changes keep, both together keep.
LEMMA InheritsOn ==
    ASSUME NEW a, NEW b, NEW c, Inherits(a, b), Inherits(b, c)
    PROVE  Inherits(a, c)
  BY DEF Inherits

\* A move of the machine keeps it.
LEMMA InheritsTo ==
    ASSUME NEW r \in RequestRecord, NEW s \in ManagerStates
    PROVE  /\ Inherits(r, To(r, s)) /\ To(r, s) \in RequestRecord
           /\ To(r, s).jobmanager_state = s /\ To(r, s).status = r.status
           /\ To(r, s).restart_state = r.restart_state
  BY DEF RequestRecord, To, Inherits

\* So does a registration of the machine.
LEMMA InheritsRegister ==
    ASSUME NEW r \in RequestRecord
    PROVE  /\ Inherits(r, Register(r)) /\ Register(r) \in RequestRecord
           /\ Register(r).jobmanager_state = r.jobmanager_state
           /\ Register(r).status = r.status
           /\ Register(r).restart_state = r.restart_state
  BY DEF RequestRecord, Register, Inherits

\* So does a new status.
LEMMA InheritsStatus ==
    ASSUME NEW r \in RequestRecord, NEW s \in JobStates
    PROVE  /\ Inherits(r, SetStatus(r, s)) /\ SetStatus(r, s) \in RequestRecord
           /\ SetStatus(r, s).jobmanager_state = r.jobmanager_state
           /\ SetStatus(r, s).status = s
           /\ SetStatus(r, s).restart_state = r.restart_state
  BY DEF RequestRecord, SetStatus, Inherits

\* A reported status does not revive a failed job.
LEMMA InheritsReport ==
    ASSUME NEW r \in RequestRecord, NEW s \in JobStates
    PROVE  /\ Inherits(r, ReportStatus(r, s))
           /\ ReportStatus(r, s) \in RequestRecord
           /\ ReportStatus(r, s).jobmanager_state = r.jobmanager_state
           /\ ReportStatus(r, s).restart_state = r.restart_state
           /\ r.status = "FAILED" => ReportStatus(r, s).status = "FAILED"
  <1> DEFINE new == IF s = "DONE" /\ (rsl.stage_out \/ rsl.stream)
                      THEN "STAGE_OUT" ELSE s
             set == SetStatus(r, new)
  <1>1. new \in JobStates
    BY DEF JobStates
  <1> HIDE DEF new
  <1>2. /\ set \in RequestRecord /\ Inherits(r, set)
        /\ set.jobmanager_state = r.jobmanager_state
        /\ set.restart_state = r.restart_state
    BY <1>1, InheritsStatus
  <1> HIDE DEF set
  <1> DEFINE told == [set EXCEPT !.unsent_status_change = TRUE]
  <1>3. /\ told \in RequestRecord /\ Inherits(r, told)
        /\ told.jobmanager_state = r.jobmanager_state
        /\ told.restart_state = r.restart_state
    BY <1>2 DEF RequestRecord, Inherits
  <1>4. \/ ReportStatus(r, s) = r
        \/ ReportStatus(r, s) = told /\ r.status # "FAILED"
    BY DEF ReportStatus, ValidStateChange, told, set, new
  <1>5. Inherits(r, r)
    BY DEF Inherits
  <1> HIDE DEF told
  <1> QED BY <1>3, <1>4, <1>5

\* An event that is handled was heard before.
LEMMA InheritsEvent ==
    ASSUME NEW r \in RequestRecord, r.seg_event_queue # <<>>
    PROVE  /\ Inherits(r, HandleEvent(r)) /\ HandleEvent(r) \in RequestRecord
           /\ HandleEvent(r).jobmanager_state = r.jobmanager_state
  <1> DEFINE event    == Head(r.seg_event_queue)
             popped   == [r EXCEPT !.seg_event_queue = Tail(@)]
             finished == [popped EXCEPT
                            !.job_id_string = "empty",
                            !.expected_terminal_state =
                                IF event = "FAILED" THEN "FAILED" ELSE @]
  <1>1. r.seg_event_queue \in Seq(SegEvents)
    BY DEF RequestRecord
  <1>2. event \in SegEvents /\ Tail(r.seg_event_queue) \in Seq(SegEvents)
    BY <1>1, HeadTailProperties
  <1>3. event \in JobStates
    BY <1>2 DEF SegEvents, JobStates
  <1>4. popped \in RequestRecord /\ Inherits(r, popped)
        /\ popped.jobmanager_state = r.jobmanager_state
    BY <1>2 DEF RequestRecord, Inherits
  <1>5. /\ finished \in RequestRecord /\ Inherits(r, finished)
        /\ finished.jobmanager_state = r.jobmanager_state
        /\ finished.expected_terminal_state \in {"DONE", "FAILED"}
    BY <1>2, <1>4 DEF RequestRecord, JobIds, Inherits
  <1>6. finished.expected_terminal_state \in JobStates
    BY <1>5 DEF JobStates
  <1>7. \/ HandleEvent(r) = ReportStatus(finished,
                                         finished.expected_terminal_state)
        \/ HandleEvent(r) = ReportStatus(popped, event)
    BY DEF HandleEvent
  <1> HIDE DEF event, popped, finished
  <1>8. CASE HandleEvent(r) = ReportStatus(finished,
                                           finished.expected_terminal_state)
    BY <1>5, <1>6, <1>8, InheritsReport, InheritsOn
  <1>9. CASE HandleEvent(r) = ReportStatus(popped, event)
    BY <1>3, <1>4, <1>9, InheritsReport, InheritsOn
  <1> QED BY <1>7, <1>8, <1>9

\* A callback changes nothing but the timer.
LEMMA InheritsCallback ==
    ASSUME NEW r \in RequestRecord, NEW restart, ContactStateCallback(r, restart)
    PROVE  /\ Inherits(r, request') /\ request' \in RequestRecord
           /\ State' = r.jobmanager_state
           /\ request'.restart_state = r.restart_state
           /\ request'.status = r.status
           /\ "DONE" \in sent' =>
                 \/ "DONE" \in sent
                 \/ r.status = "DONE" /\ r.jobmanager_state # "STOP"
  <1>1. request' = r \/ request' = Register(r)
    BY DEF ContactStateCallback
  <1>2. "DONE" \in sent' => \/ "DONE" \in sent
                            \/ r.status = "DONE" /\ r.jobmanager_state # "STOP"
    BY DEF ContactStateCallback
  <1>3. Inherits(r, r)
    BY DEF Inherits
  <1> QED BY <1>1, <1>2, <1>3, InheritsRegister DEF State

\* A new failure code, if it is not the one of stage-in.
LEMMA InheritsCode ==
    ASSUME NEW r \in RequestRecord, NEW code \in FailureCodes,
           code = "STAGE_IN_FAILED" => r.failure_code = "STAGE_IN_FAILED"
    PROVE  LET x == [r EXCEPT !.failure_code = code]
           IN /\ Inherits(r, x) /\ x \in RequestRecord
              /\ x.jobmanager_state = r.jobmanager_state
              /\ x.status = r.status /\ x.restart_state = r.restart_state
              /\ x.failure_code = code
  BY DEF RequestRecord, Inherits

\* The mark of a status change that was not sent yet.
LEMMA InheritsUnsent ==
    ASSUME NEW r \in RequestRecord, NEW v \in BOOLEAN
    PROVE  LET x == [r EXCEPT !.unsent_status_change = v]
           IN /\ Inherits(r, x) /\ x \in RequestRecord
              /\ x.jobmanager_state = r.jobmanager_state
              /\ x.status = r.status /\ x.restart_state = r.restart_state
  BY DEF RequestRecord, Inherits

\* A new restart state.
LEMMA InheritsRestart ==
    ASSUME NEW r \in RequestRecord, NEW s \in ManagerStates
    PROVE  LET x == [r EXCEPT !.restart_state = s]
           IN /\ Inherits(r, x) /\ x \in RequestRecord
              /\ x.jobmanager_state = r.jobmanager_state
              /\ x.status = r.status /\ x.restart_state = s
  BY DEF RequestRecord, Inherits

\* Another queue of queries.
LEMMA InheritsQueries ==
    ASSUME NEW r \in RequestRecord, NEW q \in Seq(Queries)
    PROVE  LET x == [r EXCEPT !.pending_queries = q]
           IN /\ Inherits(r, x) /\ x \in RequestRecord
              /\ x.jobmanager_state = r.jobmanager_state
              /\ x.status = r.status /\ x.restart_state = r.restart_state
  BY DEF RequestRecord, Inherits

\* A step that leaves the scripts alone.
LEMMA SameHonest ==
    ASSUME HonestScripts, UNCHANGED scripts, lrm # "none" => lrm' # "none"
    PROVE  ScriptsKept /\ HonestScripts'
  <1>1. HonestScripts'
    BY DEF HonestScripts, Honest
  <1> QED BY <1>1, SameScripts

\* A script that stages nothing in is started.
LEMMA LaunchHonest ==
    ASSUME TypeOK, HonestScripts, UNCHANGED lrm,
           NEW cmd \in ScriptCmds \ {"stage_in"}, NEW start, NEW query,
           Launch(cmd, start, query),
           cmd = "stage_out" => start = "STAGE_OUT"
    PROVE  HonestScripts'
  <1> DEFINE new == [cmd |-> cmd, start |-> start, query |-> query, said |-> {}]
  <1>1. /\ scripts \in Seq(Scripts)
        /\ new.cmd = cmd /\ new.start = start /\ new.said = {}
    BY DEF TypeOK
  <1>2. scripts' = Append(scripts, new)
    BY DEF Launch
  <1> HIDE DEF new
  <1>3. /\ DOMAIN scripts' = 1..(Len(scripts) + 1)
        /\ DOMAIN scripts = 1..Len(scripts) /\ Len(scripts) \in Nat
        /\ \A i \in DOMAIN scripts : scripts'[i] = scripts[i]
        /\ scripts'[Len(scripts) + 1] = new
    BY <1>1, <1>2
  <1>4. Honest(new, lrm')
    BY <1>1 DEF Honest
  <1>5. \A i \in DOMAIN scripts : Honest(scripts'[i], lrm')
    BY <1>3 DEF HonestScripts, Honest
  <1> QED BY <1>3, <1>4, <1>5 DEF HonestScripts

\* A script says something; that its job was accepted, only if the LRM has it.
LEMMA SaidHonest ==
    ASSUME TypeOK, HonestScripts, NEW i \in DOMAIN scripts,
           NEW var \in ScriptVars, Said(i, var),
           lrm # "none" => lrm' # "none",
           var = "ACCEPTED" => lrm' # "none"
    PROVE  ScriptsKept /\ HonestScripts'
  <1> DEFINE new == [scripts[i] EXCEPT !.said = @ \union {var}]
  <1>1. scripts \in Seq(Scripts) /\ scripts[i] \in Scripts
    BY DEF TypeOK
  <1>2. /\ new.cmd = scripts[i].cmd /\ new.start = scripts[i].start
        /\ "ACCEPTED" \in new.said =>
              "ACCEPTED" \in scripts[i].said \/ var = "ACCEPTED"
    BY <1>1 DEF Scripts
  <1>3. scripts' = [scripts EXCEPT ![i] = new]
    BY DEF Said
  <1> HIDE DEF new
  <1>4. /\ DOMAIN scripts' = DOMAIN scripts /\ scripts'[i] = new
        /\ \A k \in DOMAIN scripts : k # i => scripts'[k] = scripts[k]
    BY <1>1, <1>3
  <1>5. Honest(new, lrm')
    BY <1>2 DEF HonestScripts, Honest
  <1>6. \A k \in DOMAIN scripts : k # i => Honest(scripts'[k], lrm')
    BY <1>4 DEF HonestScripts, Honest
  <1>7. HonestScripts'
    BY <1>4, <1>5, <1>6 DEF HonestScripts
  <1> QED BY <1>7, ScriptSaid

\* A script ends.
LEMMA RemovedHonest ==
    ASSUME TypeOK, HonestScripts, UNCHANGED lrm, NEW i \in DOMAIN scripts,
           scripts' = SubSeq(scripts, 1, i - 1)
                      \o SubSeq(scripts, i + 1, Len(scripts))
    PROVE  ScriptsKept /\ HonestScripts'
  <1>1. /\ ScriptsKept
        /\ \A k \in DOMAIN scripts' : \E m \in DOMAIN scripts :
              scripts'[k] = scripts[m]
    BY ScriptRemoved
  <1> QED BY <1>1 DEF HonestScripts, Honest

-----------------------------------------------------------------------------
(* Steps that carry the invariant on                                        *)

\* The state file is written from a request as known as the present one: in a
\* state after the submission, or in SUBMIT when the job has no id.
FileWrittenFrom(r) ==
    /\ state_file' = StateFileOf(r)
    /\ Inherits(request, r)
    /\ StateFileOf(r).restart_state \in Written
    /\ StateFileOf(r).restart_state = "SUBMIT" => r.job_id_string = "null"

\* The state file is kept, removed, or written like this.
FileKept == \/ state_file' = state_file
            \/ state_file' = NoStateFile
            \/ \E r \in RequestRecord : FileWrittenFrom(r)

\* What most steps do: they submit nothing and learn of no job that was not
\* heard of.
Carried ==
    /\ request'.jm_restart = request.jm_restart
    /\ request'.stage_in_todo = request.stage_in_todo
    /\ request'.stage_out_todo = request.stage_out_todo
    /\ request'.failure_code = "STAGE_IN_FAILED" =>
          request.failure_code = "STAGE_IN_FAILED"
    /\ Heard' => Heard \/ (Condor /\ lrm # "none")
    /\ ScriptsKept /\ HonestScripts'
    /\ FileKept
    /\ UNCHANGED <<rsl, staged_out, submissions>>
    /\ lrm' = "none" <=> lrm = "none"
    /\ seg_events' # {} => lrm # "none"
    /\ "DONE" \in sent' => "DONE" \in sent \/ ~request.stage_out_todo

\* A state file that is written is good.
LEMMA WrittenGood ==
    ASSUME RecoveryCore, NEW r \in RequestRecord, FileWrittenFrom(r),
           UNCHANGED <<rsl, staged_out>>, lrm' = "none" <=> lrm = "none"
    PROVE  GoodFile(state_file)'
  <1> DEFINE f == StateFileOf(r)
  <1>1. /\ f.job_id_string = r.job_id_string
        /\ f.stage_in_todo = r.stage_in_todo
        /\ f.stage_out_todo = r.stage_out_todo
        /\ f.failure_code = r.failure_code
    BY DEF StateFileOf
  <1>2. /\ state_file' = f /\ f.restart_state \in Written
        /\ f.restart_state = "SUBMIT" => f.job_id_string = "null"
        /\ Inherits(request, r)
    BY <1>1 DEF FileWrittenFrom
  <1> HIDE DEF f
  <1>3. /\ f.restart_state # "START"
        /\ f.restart_state \in Resubmit => f.restart_state = "SUBMIT"
    BY <1>2 DEF Written, Resubmit
  <1>4. f.job_id_string # "null" => lrm' # "none"
    BY <1>1, <1>2 DEF Inherits, RecoveryCore, LrmKnown, Heard
  <1>5. ~f.stage_in_todo /\ f.failure_code # "STAGE_IN_FAILED"
    BY <1>1, <1>2 DEF Inherits, RecoveryCore, RestartKnown
  <1>6. rsl'.stage_out /\ ~staged_out' => f.stage_out_todo
    BY <1>1, <1>2 DEF Inherits, RecoveryCore, StageOutKept
  <1> QED BY <1>2, <1>3, <1>4, <1>5, <1>6 DEF GoodFile

\* The state file stays good.
LEMMA CarriedFile ==
    ASSUME RecoveryCore, Carried PROVE FileKnown'
  <1>1. Submitting' => Submitting
    BY DEF Carried, ScriptsKept, Submitting
  <1>2. CASE state_file' = state_file
    BY <1>1, <1>2 DEF RecoveryCore, FileKnown, GoodFile, Carried
  <1>3. CASE state_file' = NoStateFile
    BY <1>3 DEF FileKnown
  <1>4. ASSUME NEW r \in RequestRecord, FileWrittenFrom(r)
        PROVE  GoodFile(state_file)'
    BY <1>4, WrittenGood DEF Carried
  <1> QED BY <1>2, <1>3, <1>4 DEF Carried, FileKept, FileKnown

\* What is left to show of such a step: where it leads.
LEMMA CarriedOn ==
    ASSUME RecoveryCore, Carried, RestartKnown',
           Heading(request') => Heading(request) \/ ~Known,
           State' \in PreSubmit => State \in PreSubmit
    PROVE  RecoveryCore'
  <1>1. Submitting' => Submitting
    BY DEF Carried, ScriptsKept, Submitting
  <1>2. Known' => Known
    BY DEF Carried, Known
  <1>3. OneSubmitter'
    <2>1. \A i, j \in DOMAIN scripts' :
             SubmitIn(scripts', i) /\ SubmitIn(scripts', j) => i = j
      BY DEF Carried, ScriptsKept, RecoveryCore, OneSubmitter
    <2>2. \A i \in DOMAIN scripts' :
             SubmitIn(scripts', i) /\ "ACCEPTED" \notin scripts'[i].said
             => ~Known'
      BY <1>2 DEF Carried, ScriptsKept, RecoveryCore, OneSubmitter
    <2>3. Submitting' => State' \notin PreSubmit
      BY <1>1 DEF RecoveryCore, OneSubmitter
    <2> QED BY <2>1, <2>2, <2>3 DEF OneSubmitter
  <1>4. NotAgain'
    BY <1>2 DEF RecoveryCore, NotAgain
  <1>5. LrmKnown'
    BY DEF RecoveryCore, LrmKnown, Carried
  <1>6. StageOutKept'
    BY DEF RecoveryCore, StageOutKept, Carried
  <1> QED BY <1>3, <1>4, <1>5, <1>6, CarriedFile DEF RecoveryCore, Carried

\* A step to a state after the submission.
LEMMA CarriedLater ==
    ASSUME RecoveryCore, Carried, State' \notin PreSubmit \union {"STOP"}
    PROVE  RecoveryCore'
  <1>1. RestartKnown'
    BY DEF RecoveryCore, RestartKnown, Carried, PreSubmit, Uncommitted
  <1>2. ~Heading(request')
    BY DEF Heading, PreSubmit, Uncommitted, State
  <1> QED BY <1>1, <1>2, CarriedOn

\* A step that leaves the machine in its state, and a failed job failed.
LEMMA CarriedStays ==
    ASSUME RecoveryCore, Carried, State' = State,
           request'.restart_state = request.restart_state,
           request.status = "FAILED" => request'.status = "FAILED"
    PROVE  RecoveryCore'
  <1>1. RestartKnown'
    BY DEF RecoveryCore, RestartKnown, Carried
  <1>2. Heading(request') => Heading(request)
    BY DEF Heading, State, Carried
  <1> QED BY <1>1, <1>2, CarriedOn

\* A step before the commit, or the commit itself.
LEMMA CarriedEarly ==
    ASSUME RecoveryCore, Carried, State \in Uncommitted,
           State' \in Uncommitted \union {"TWO_PHASE_COMMITTED"}
    PROVE  RecoveryCore'
  <1>1. ~request'.jm_restart
    BY DEF RecoveryCore, RestartKnown, Carried
  <1>2. RestartKnown'
    BY <1>1 DEF RecoveryCore, RestartKnown, Carried, Uncommitted
  <1>3. Heading(request) /\ State \in PreSubmit
    BY DEF Heading, State, Uncommitted, PreSubmit
  <1> QED BY <1>2, <1>3, CarriedOn

\* A step that carries the job on, told by its parts.
LEMMA CarriedBy ==
    ASSUME RecoveryCore, Inherits(request, request'),
           registered' => registered \/ request.job_id_string # "null",
           ScriptsKept, HonestScripts', FileKept,
           UNCHANGED <<rsl, staged_out, lrmVars>>,
           "DONE" \in sent' => "DONE" \in sent \/ ~request.stage_out_todo
    PROVE  Carried
  BY DEF Inherits, Carried, Heard, RecoveryCore, LrmKnown

\* A step that changes the request alone.
LEMMA QuietCarried ==
    ASSUME RecoveryCore, Inherits(request, request'),
           UNCHANGED <<rsl, scriptVars, sent, lrmVars, registered, state_file>>
    PROVE  Carried
  BY CarriedBy, SameHonest DEF RecoveryCore, FileKept

-----------------------------------------------------------------------------
(* The cases of the state machine keep it                                   *)

\* The timer starts the loop.
LEMMA TimerFiresRecovers ==
    ASSUME RequestCore, RecoveryCore, TimerFires PROVE RecoveryCore'
  <1>1. request \in RequestRecord
    BY DEF RequestCore, TypeOK
  <1>2. /\ Inherits(request, request') /\ State' = State
        /\ request'.restart_state = request.restart_state
        /\ request'.status = request.status
    BY <1>1 DEF TimerFires, State, RequestRecord, Inherits
  <1>3. Carried
    BY <1>2, QuietCarried DEF TimerFires
  <1> QED BY <1>2, <1>3, CarriedStays

\* START goes on to TWO_PHASE.
LEMMA CaseStartRecovers ==
    ASSUME RequestCore, RecoveryCore, CaseStart PROVE RecoveryCore'
  <1> DEFINE r == To(request, "TWO_PHASE")
  <1>1. request \in RequestRecord /\ State = "START"
    BY DEF RequestCore, TypeOK, CaseStart, At
  <1>2. "TWO_PHASE" \in ManagerStates
    BY DEF ManagerStates
  <1>3. /\ r \in RequestRecord /\ r.jobmanager_state = "TWO_PHASE"
        /\ Inherits(request, r)
    BY <1>1, <1>2, InheritsTo
  <1>4. request' = r \/ request' = Register(r)
    BY DEF CaseStart, Becomes
  <1> HIDE DEF r
  <1>5. Inherits(request, request') /\ State' = "TWO_PHASE"
    BY <1>3, <1>4, InheritsRegister, InheritsOn DEF State
  <1>6. Carried
    BY <1>5, QuietCarried DEF CaseStart, Becomes
  <1> QED BY <1>1, <1>5, <1>6, CarriedEarly DEF Uncommitted

\* TWO_PHASE waits on, is committed, or fails: a reloaded request, which would
\* stop, is past it.
LEMMA CaseTwoPhaseRecovers ==
    ASSUME RequestCore, RecoveryCore, CaseTwoPhase PROVE RecoveryCore'
  <1>1. /\ request \in RequestRecord /\ State = "TWO_PHASE"
        /\ ~request.jm_restart
    BY DEF RequestCore, TypeOK, CaseTwoPhase, At, RecoveryCore, RestartKnown,
           Uncommitted
  <1> DEFINE x == [request EXCEPT !.commit_extend = FALSE]
             c == To(request, "TWO_PHASE_COMMITTED")
             t == To(request, "FAILED")
             f == [t EXCEPT !.failure_code = "COMMIT_TIMED_OUT",
                            !.unsent_status_change = TRUE]
  <1>2. request' \in {Register(x), c, f}
    BY <1>1 DEF CaseTwoPhase, Becomes, TwoPhaseExpired
  <1>3. "TWO_PHASE_COMMITTED" \in ManagerStates /\ "FAILED" \in ManagerStates
    BY DEF ManagerStates
  <1>4. x \in RequestRecord /\ x.jobmanager_state = "TWO_PHASE"
        /\ Inherits(request, x)
    BY <1>1 DEF RequestRecord, Inherits, State
  <1>5. /\ c.jobmanager_state = "TWO_PHASE_COMMITTED" /\ Inherits(request, c)
        /\ t \in RequestRecord /\ t.jobmanager_state = "FAILED"
        /\ Inherits(request, t)
    BY <1>1, <1>3, InheritsTo
  <1> HIDE DEF t, c, x
  <1>6. f.jobmanager_state = "FAILED" /\ Inherits(request, f)
    BY <1>5 DEF RequestRecord, Inherits
  <1> HIDE DEF f
  <1>7. /\ Register(x).jobmanager_state = "TWO_PHASE"
        /\ Inherits(request, Register(x))
    BY <1>4, InheritsRegister, InheritsOn
  <1>8. /\ Inherits(request, request')
        /\ State' \in {"TWO_PHASE", "TWO_PHASE_COMMITTED", "FAILED"}
    BY <1>2, <1>5, <1>6, <1>7 DEF State
  <1>9. Carried
    BY <1>8, QuietCarried DEF CaseTwoPhase, Becomes
  <1> QED BY <1>1, <1>8, <1>9, CarriedEarly, CarriedLater
             DEF Uncommitted, PreSubmit

\* A status change that is to be sent keeps what is known.
LEMMA InheritsTold ==
    ASSUME NEW r \in RequestRecord, NEW s \in JobStates, NEW m \in ManagerStates
    PROVE  /\ Inherits(r, Told(r, s, m)) /\ Told(r, s, m) \in RequestRecord
           /\ Told(r, s, m).jobmanager_state = m /\ Told(r, s, m).status = s
  <1> DEFINE y == SetStatus(r, s)
             x == To(y, m)
  <1>1. y \in RequestRecord /\ Inherits(r, y) /\ y.status = s
    BY InheritsStatus
  <1> HIDE DEF y
  <1>2. /\ x \in RequestRecord /\ x.jobmanager_state = m /\ Inherits(r, x)
        /\ x.status = s
    BY <1>1, InheritsTo, InheritsOn
  <1>3. Told(r, s, m) = [x EXCEPT !.unsent_status_change = TRUE]
    BY DEF Told, x, y
  <1> HIDE DEF x
  <1>4. /\ Inherits(x, Told(r, s, m)) /\ Told(r, s, m) \in RequestRecord
        /\ Told(r, s, m).jobmanager_state = m /\ Told(r, s, m).status = s
    BY <1>2, <1>3 DEF RequestRecord, Inherits
  <1> QED BY <1>2, <1>4, InheritsOn

\* Where set_restart_state() sends a reloaded request that had nothing to
\* stage in: on to SUBMIT or POLL1, or it is left where it is, either to be
\* submitted or with the failure it had.
LEMMA RestartRecovers ==
    ASSUME TypeOK, RecoveryCore, State = "TWO_PHASE_COMMITTED",
           request.jm_restart
    PROVE  LET r == SetRestartState(request)
           IN \/ /\ RestartStateChanges(request)
                 /\ r.jobmanager_state \in {"SUBMIT", "POLL1"}
                 /\ Inherits(request, r)
              \/ /\ CondorJobFound
                 /\ r = [To(request, "SUBMIT") EXCEPT !.job_id_string = "set",
                                                      !.status = "PENDING"]
              \/ /\ ~RestartStateChanges(request)
                 /\ r = request /\ (Heading(request) \/ ~Known)
              \/ /\ ~RestartStateChanges(request)
                 /\ r = Told(request, "FAILED", "POLL1")
  <1> DEFINE r == SetRestartState(request)
             s == request.restart_state
             cleared == [request EXCEPT !.failure_code = "SUCCESS"]
  <1>1. /\ request \in RequestRecord /\ s \in {"START"} \union Written
        /\ request.failure_code # "STAGE_IN_FAILED"
    BY DEF TypeOK, RecoveryCore, RestartKnown
  <1>2. /\ "DONE" \in JobStates /\ "STAGE_OUT" \in JobStates
        /\ "POLL1" \in ManagerStates /\ "SUBMIT" \in ManagerStates
        /\ "SUCCESS" \in FailureCodes
    BY DEF JobStates, ManagerStates, FailureCodes
  <1>3. CASE CondorJobFound
    <2>1. r = [To(request, "SUBMIT") EXCEPT !.job_id_string = "set",
                                            !.status = "PENDING"]
      BY <1>3 DEF SetRestartState, CondorJobFound, RestartPolling, RestartDone,
                  RestartFailed
    <2> QED BY <1>3, <2>1
  <1>4. CASE ~CondorJobFound /\ s \in RestartPolling
    <2>1. r = To(request, "SUBMIT")
      BY <1>4 DEF SetRestartState, RestartPolling, RestartDone, RestartFailed
    <2> QED BY <1>1, <1>2, <1>4, <2>1, InheritsTo DEF RestartStateChanges
  <1>5. CASE ~CondorJobFound /\ s \in RestartDone
    <2>1. r = Told(request, "DONE", "POLL1")
      BY <1>5 DEF SetRestartState, Told, RestartPolling, RestartDone,
                  RestartFailed
    <2> QED BY <1>1, <1>2, <1>5, <2>1, InheritsTold DEF RestartStateChanges
  <1>6. CASE /\ ~CondorJobFound /\ s \in RestartFailed
             /\ request.failure_code \in {"STAGE_OUT_FAILED", "OPENING_STDOUT"}
    <2>1. r = Told(cleared, "STAGE_OUT", "POLL1")
      BY <1>6 DEF SetRestartState, Told, RestartPolling, RestartDone,
                  RestartFailed
    <2>2. cleared \in RequestRecord /\ Inherits(request, cleared)
      BY <1>1, <1>2, InheritsCode
    <2> HIDE DEF cleared
    <2> QED BY <1>2, <1>6, <2>1, <2>2, InheritsTold, InheritsOn
            DEF RestartStateChanges
  <1>7. CASE /\ ~CondorJobFound /\ s \in RestartFailed
             /\ request.failure_code \notin
                   {"STAGE_OUT_FAILED", "OPENING_STDOUT"}
    <2>1. r = Told(request, "FAILED", "POLL1")
      BY <1>1, <1>7 DEF SetRestartState, Told, RestartPolling, RestartDone,
                        RestartFailed
    <2>2. ~RestartStateChanges(request)
      BY <1>1, <1>7 DEF RestartStateChanges, RestartPolling, RestartDone,
                        RestartFailed
    <2> QED BY <2>1, <2>2
  <1>8. CASE ~CondorJobFound /\ s \in {"START", "SUBMIT"}
    <2>1. r = request
      BY <1>8 DEF SetRestartState, RestartPolling, RestartDone, RestartFailed
    <2>2. ~RestartStateChanges(request)
      BY <1>8 DEF RestartStateChanges, RestartPolling, RestartDone,
                  RestartFailed
    <2>3. Heading(request) \/ ~Known
      BY <1>8 DEF Heading, Resubmit, Known, CondorJobFound, State
    <2> QED BY <2>1, <2>2, <2>3
  <1> QED BY <1>1, <1>3, <1>4, <1>5, <1>6, <1>7, <1>8
          DEF Written, RestartPolling, RestartDone, RestartFailed

\* A committed request goes to its submission only if its job is not known.
LEMMA CaseTwoPhaseCommittedRecovers ==
    ASSUME RequestCore, RecoveryCore, CrashesOnly, CaseTwoPhaseCommitted
    PROVE  RecoveryCore'
  <1> DEFINE r == SetRestartState(request)
             b == IF request.jm_restart THEN r ELSE request
  <1>1. /\ TypeOK /\ request \in RequestRecord
        /\ State = "TWO_PHASE_COMMITTED" /\ ~rsl.stage_in
    BY DEF RequestCore, TypeOK, CaseTwoPhaseCommitted, At, CrashesOnly
  <1>2. UNCHANGED <<rsl, scriptVars, sent, lrmVars, registered, state_file>>
    BY <1>1 DEF CaseTwoPhaseCommitted, Becomes
  <1>3. \/ /\ request.jm_restart /\ RestartStateChanges(request)
           /\ request' = r
        \/ /\ ~(request.jm_restart /\ RestartStateChanges(request))
           /\ request' = To(b, "STAGE_IN")
    BY <1>1 DEF CaseTwoPhaseCommitted, EnterStageIn, Becomes
  <1>4. /\ "STAGE_IN" \in ManagerStates /\ "SUBMIT" \in ManagerStates
        /\ "FAILED" \in JobStates /\ "POLL1" \in ManagerStates
    BY DEF ManagerStates, JobStates
  <1> DEFINE failed == Told(request, "FAILED", "POLL1")
             found  == [To(request, "SUBMIT") EXCEPT !.job_id_string = "set",
                                                     !.status = "PENDING"]
  <1>5. request.jm_restart =>
          \/ /\ RestartStateChanges(request)
             /\ r.jobmanager_state \in {"SUBMIT", "POLL1"}
             /\ Inherits(request, r)
          \/ CondorJobFound /\ r = found
          \/ /\ ~RestartStateChanges(request)
             /\ r = request /\ (Heading(request) \/ ~Known)
          \/ ~RestartStateChanges(request) /\ r = failed
    BY <1>1, RestartRecovers
  <1>6. CondorJobFound => RestartStateChanges(request)
    BY DEF RestartStateChanges
  <1> HIDE DEF r, found, failed
  <1>7. CASE /\ request.jm_restart /\ request' = r /\ Inherits(request, r)
             /\ r.jobmanager_state \in {"SUBMIT", "POLL1"}
    <2>1. Inherits(request, request') /\ State' \in {"SUBMIT", "POLL1"}
      BY <1>7 DEF State
    <2>2. Carried
      BY <1>2, <2>1, QuietCarried
    <2> QED BY <2>1, <2>2, CarriedLater DEF PreSubmit
  <1>8. CASE /\ request.jm_restart /\ request' = found /\ CondorJobFound
    <2> DEFINE x == To(request, "SUBMIT")
    <2>1. /\ x \in RequestRecord /\ x.jobmanager_state = "SUBMIT"
          /\ Inherits(request, x)
      BY <1>1, <1>4, InheritsTo
    <2>2. request' = [x EXCEPT !.job_id_string = "set", !.status = "PENDING"]
      BY <1>8 DEF found
    <2> HIDE DEF x
    <2>3. /\ State' = "SUBMIT"
          /\ request'.jm_restart = request.jm_restart
          /\ request'.stage_in_todo = request.stage_in_todo
          /\ request'.stage_out_todo = request.stage_out_todo
          /\ request'.failure_code = "STAGE_IN_FAILED" =>
                request.failure_code = "STAGE_IN_FAILED"
      BY <2>1, <2>2 DEF RequestRecord, Inherits, State
    <2>4. Condor /\ lrm # "none"
      BY <1>8 DEF CondorJobFound
    <2>5. ScriptsKept /\ HonestScripts'
      BY <1>2, SameHonest DEF RecoveryCore
    <2>6. Carried
      BY <1>2, <2>3, <2>4, <2>5 DEF Carried, FileKept
    <2> QED BY <2>3, <2>6, CarriedLater DEF PreSubmit
  <1>9. CASE request' = To(request, "STAGE_IN") /\ (Heading(request) \/ ~Known)
    <2>1. Inherits(request, request') /\ State' = "STAGE_IN"
      BY <1>1, <1>4, <1>9, InheritsTo DEF State
    <2>2. Carried
      BY <1>2, <2>1, QuietCarried
    <2>3. RestartKnown'
      BY <2>1, <2>2 DEF RecoveryCore, RestartKnown, Carried, Uncommitted
    <2> QED BY <1>1, <1>9, <2>2, <2>3, CarriedOn DEF PreSubmit
  <1>10. CASE request' = To(failed, "STAGE_IN")
    <2>1. /\ failed \in RequestRecord /\ Inherits(request, failed)
          /\ failed.status = "FAILED"
      BY <1>1, <1>4, InheritsTold DEF failed
    <2>2. /\ Inherits(request, request') /\ State' = "STAGE_IN"
          /\ request'.status = "FAILED"
      BY <1>4, <1>10, <2>1, InheritsTo, InheritsOn DEF State
    <2>3. Carried
      BY <1>2, <2>2, QuietCarried
    <2>4. RestartKnown'
      BY <2>2, <2>3 DEF RecoveryCore, RestartKnown, Carried, Uncommitted
    <2>5. ~Heading(request')
      BY <2>2 DEF Heading, Uncommitted, State
    <2> QED BY <1>1, <2>3, <2>4, <2>5, CarriedOn DEF PreSubmit
  <1>11. ~request.jm_restart => Heading(request)
    BY <1>1 DEF Heading, State
  <1> QED BY <1>3, <1>5, <1>6, <1>7, <1>8, <1>9, <1>10, <1>11

\* The submit script is started: there was none, and no job is known.
LEMMA SubmitRecovers ==
    ASSUME TypeOK, RecoveryCore, State \in PreSubmit, ~Known,
           Inherits(request, request'), State' = "SUBMIT",
           FileWrittenFrom(request'), request' \in RequestRecord,
           Launch("submit", "SUBMIT", NoQuery),
           UNCHANGED <<rsl, staged_out, sent, lrmVars, registered>>
    PROVE  RecoveryCore'
  <1> DEFINE new == [cmd |-> "submit", start |-> "SUBMIT", query |-> NoQuery,
                     said |-> {}]
  <1>1. \A i \in DOMAIN scripts : scripts[i].cmd # "submit"
    BY DEF RecoveryCore, OneSubmitter, Submitting, SubmitIn
  <1>2. scripts \in Seq(Scripts) /\ scripts' = Append(scripts, new)
    BY DEF TypeOK, Launch
  <1> HIDE DEF new
  <1>3. /\ DOMAIN scripts' = 1..(Len(scripts) + 1)
        /\ DOMAIN scripts = 1..Len(scripts) /\ Len(scripts) \in Nat
        /\ \A i \in DOMAIN scripts : scripts'[i] = scripts[i]
    BY <1>2
  <1>4. \A i \in DOMAIN scripts' : SubmitIn(scripts', i) =>
            i = Len(scripts) + 1
    BY <1>1, <1>3 DEF SubmitIn
  <1>5. ~Known' /\ (Heard' => Heard)
    BY DEF Known, Heard, Inherits
  <1>6. OneSubmitter'
    BY <1>4, <1>5 DEF OneSubmitter, PreSubmit
  <1>7. NotAgain' /\ LrmKnown'
    BY <1>5 DEF NotAgain, RecoveryCore, LrmKnown
  <1>8. HonestScripts'
    <2>1. "submit" \in ScriptCmds \ {"stage_in"}
      BY DEF ScriptCmds
    <2> QED BY <2>1, LaunchHonest DEF RecoveryCore
  <1>9. RestartKnown' /\ StageOutKept'
    BY DEF RecoveryCore, RestartKnown, StageOutKept, Inherits, Uncommitted
  <1>10. FileKnown'
    BY WrittenGood DEF FileKnown
  <1> QED BY <1>6, <1>7, <1>8, <1>9, <1>10 DEF RecoveryCore

\* STAGE_IN starts the submit script of a job nobody knows, or fails.
LEMMA CaseStageInRecovers ==
    ASSUME RequestCore, RecoveryCore, CaseStageIn PROVE RecoveryCore'
  <1>1. /\ TypeOK /\ request \in RequestRecord /\ State = "STAGE_IN"
        /\ ~request.stage_in_todo
    BY DEF RequestCore, TypeOK, CaseStageIn, At, RecoveryCore, RestartKnown
  <1>2. /\ UNCHANGED <<rsl, staged_out, sent, lrmVars, registered>>
        /\ State \in PreSubmit
    BY <1>1 DEF CaseStageIn, Becomes, PreSubmit
  <1>3. /\ "FAILED" \in ManagerStates /\ "SUBMIT" \in ManagerStates
        /\ "FAILED_TWO_PHASE_COMMITTED" \in ManagerStates
        /\ "FAILED" \in JobStates
    BY DEF ManagerStates, JobStates
  <1>4. CASE /\ Becomes(To(request, IF rsl.dry_run
                                      THEN "FAILED_TWO_PHASE_COMMITTED"
                                      ELSE "FAILED"))
             /\ UNCHANGED <<scriptVars, state_file>>
    <2>1. \/ request' = To(request, "FAILED")
          \/ request' = To(request, "FAILED_TWO_PHASE_COMMITTED")
      BY <1>4 DEF Becomes
    <2>2. /\ Inherits(request, request')
          /\ State' \in {"FAILED", "FAILED_TWO_PHASE_COMMITTED"}
      BY <1>1, <1>3, <2>1, InheritsTo DEF State
    <2>3. Carried
      BY <1>2, <1>4, <2>2, QuietCarried
    <2> QED BY <2>2, <2>3, CarriedLater DEF PreSubmit
  <1> DEFINE s == To(request, "SUBMIT")
             r == [s EXCEPT !.restart_state = "SUBMIT"]
             code == IF rsl.dry_run THEN "DRYRUN" ELSE "MALLOC_FAILED"
             c == [r EXCEPT !.failure_code = code]
             f == SetStatus(c, "FAILED")
             g == To(f, "FAILED")
             h == [g EXCEPT !.unsent_status_change = TRUE]
  <1>5. CASE request.status # "FAILED" /\ state_file' = SubmitFile(r)
    <2>1. ~Known
      BY <1>1, <1>5 DEF RecoveryCore, NotAgain, Heading, State
    <2>2. /\ s \in RequestRecord /\ s.jobmanager_state = "SUBMIT"
          /\ Inherits(request, s) /\ s.job_id_string = request.job_id_string
      BY <1>1, <1>3, InheritsTo DEF To, RequestRecord
    <2> HIDE DEF s
    <2>3. /\ r \in RequestRecord /\ r.jobmanager_state = "SUBMIT"
          /\ Inherits(request, r) /\ r.job_id_string = request.job_id_string
      <3>1. /\ r \in RequestRecord /\ r.jobmanager_state = "SUBMIT"
            /\ Inherits(s, r) /\ r.job_id_string = s.job_id_string
        BY <1>3, <2>2 DEF RequestRecord, Inherits
      <3> HIDE DEF r
      <3> QED BY <2>2, <3>1, InheritsOn
    <2>4. request.job_id_string = "null"
      BY <2>1 DEF RecoveryCore, LrmKnown, Known, Heard
    <2>5. FileWrittenFrom(r)
      <3> HIDE DEF r
      <3> QED BY <1>5, <2>3, <2>4
              DEF FileWrittenFrom, SubmitFile, StateFileOf, Written
    <2>6. CASE Becomes(r) /\ Launch("submit", "SUBMIT", NoQuery)
      <3> HIDE DEF r
      <3>1. /\ Inherits(request, request') /\ State' = "SUBMIT"
            /\ FileWrittenFrom(request') /\ request' \in RequestRecord
        BY <2>3, <2>5, <2>6 DEF Becomes, State
      <3> QED BY <1>1, <1>2, <2>1, <2>6, <3>1, SubmitRecovers
    <2>7. CASE Becomes(IF rsl.dry_run THEN f ELSE h) /\ UNCHANGED scriptVars
      <3> HIDE DEF r
      <3>1. code \in FailureCodes /\ code # "STAGE_IN_FAILED"
        BY DEF FailureCodes
      <3> HIDE DEF code
      <3>2. /\ c \in RequestRecord /\ c.jobmanager_state = "SUBMIT"
            /\ Inherits(request, c)
        BY <2>3, <3>1, InheritsCode, InheritsOn
      <3> HIDE DEF c
      <3>3. /\ f \in RequestRecord /\ f.jobmanager_state = "SUBMIT"
            /\ Inherits(request, f)
        BY <1>3, <3>2, InheritsStatus, InheritsOn
      <3> HIDE DEF f
      <3>4. /\ g \in RequestRecord /\ g.jobmanager_state = "FAILED"
            /\ Inherits(request, g)
        BY <1>3, <3>3, InheritsTo, InheritsOn
      <3> HIDE DEF g
      <3>5. h.jobmanager_state = "FAILED" /\ Inherits(request, h)
        BY <3>4, InheritsUnsent, InheritsOn
      <3> HIDE DEF h
      <3>6. Inherits(request, request') /\ State' \in {"SUBMIT", "FAILED"}
        BY <2>7, <3>3, <3>5 DEF Becomes, State
      <3>7. ScriptsKept /\ HonestScripts'
        BY <1>2, <2>7, SameHonest DEF RecoveryCore
      <3>8. Carried
        BY <1>2, <2>3, <2>5, <3>6, <3>7, CarriedBy DEF FileKept
      <3> QED BY <3>6, <3>8, CarriedLater DEF PreSubmit
    <2> QED BY <1>1, <1>5, <2>6, <2>7 DEF CaseStageIn, s
  <1> QED BY <1>1, <1>4, <1>5 DEF CaseStageIn

\* POLL1 learns of no job, tells no contact that the job is done, and writes a
\* state file that says POLL1.
LEMMA PollCarries ==
    ASSUME TypeOK, NEW r \in RequestRecord, NEW first \in BOOLEAN,
           NEW file, Poll(r, file, first), r.jobmanager_state = "POLL1"
    PROVE  /\ Inherits(r, request')
           /\ "DONE" \in sent' => "DONE" \in sent
           /\ \/ state_file' = file
              \/ \E x \in RequestRecord :
                    /\ state_file' = StateFileOf(x) /\ Inherits(r, x)
                    /\ x.jobmanager_state = "POLL1"
  <1> DEFINE seen  == IF r.seg_event_queue # <<>> THEN HandleEvent(r) ELSE r
             saved == IF seen.unsent_status_change
                        THEN [seen EXCEPT !.restart_state = "POLL1"] ELSE seen
             told  == [saved EXCEPT !.unsent_status_change = FALSE]
             tell(next) == IF saved.unsent_status_change
                             THEN ContactStateCallback(next, FALSE)
                             ELSE Becomes(next)
  <1>1. "POLL1" \in ManagerStates
    BY DEF ManagerStates
  <1>2. /\ seen \in RequestRecord /\ Inherits(r, seen)
        /\ seen.jobmanager_state = "POLL1"
    <2>1. Inherits(r, r)
      BY DEF Inherits
    <2> QED BY <2>1, InheritsEvent
  <1>3. /\ saved \in RequestRecord /\ Inherits(r, saved)
        /\ saved.jobmanager_state = "POLL1"
    <2> HIDE DEF seen
    <2> DEFINE x == [seen EXCEPT !.restart_state = "POLL1"]
    <2>1. x \in RequestRecord /\ Inherits(r, x) /\ x.jobmanager_state = "POLL1"
      BY <1>1, <1>2, InheritsRestart, InheritsOn
    <2> HIDE DEF x
    <2>2. saved = x \/ saved = seen
      BY DEF x
    <2> QED BY <1>2, <2>1, <2>2
  <1>4. /\ told \in RequestRecord /\ Inherits(r, told)
        /\ told.status = saved.status
    <2> HIDE DEF saved
    <2> QED BY <1>3, InheritsUnsent, InheritsOn
  <1>5. \/ state_file' = file
        \/ \E x \in RequestRecord :
              /\ state_file' = StateFileOf(x) /\ Inherits(r, x)
              /\ x.jobmanager_state = "POLL1"
    <2>1. state_file' = file \/ state_file' = StateFileOf(saved)
      BY DEF Poll
    <2> HIDE DEF saved, seen
    <2> QED BY <1>3, <2>1
  <1>6. \/ Becomes(To(saved, "FAILED")) \/ Becomes(To(saved, "PRE_CLOSE_OUTPUT"))
        \/ /\ saved.status # "DONE"
           /\ \/ tell(To(told, "POLL_QUERY1")) \/ tell(To(told, "POLL1"))
              \/ tell(Register(To(told, "POLL2"))) \/ tell(To(told, "POLL2"))
    BY DEF Poll
  <1> HIDE DEF seen, saved, told
  <1>7. ASSUME NEW next \in RequestRecord, tell(next), Inherits(r, next),
               next.status # "DONE"
        PROVE  Inherits(r, request') /\ ("DONE" \in sent' => "DONE" \in sent)
    <2>1. CASE ContactStateCallback(next, FALSE)
      BY <1>7, <2>1, InheritsCallback, InheritsOn
    <2>2. CASE Becomes(next)
      BY <1>7, <2>2 DEF Becomes
    <2> QED BY <1>7, <2>1, <2>2
  <1>8. ASSUME NEW s \in {"POLL_QUERY1", "POLL1", "POLL2"}
        PROVE  /\ To(told, s) \in RequestRecord /\ Inherits(r, To(told, s))
               /\ To(told, s).status = saved.status
    <2>1. s \in ManagerStates
      BY DEF ManagerStates
    <2> QED BY <1>4, <2>1, InheritsTo, InheritsOn
  <1>9. ASSUME NEW s \in {"FAILED", "PRE_CLOSE_OUTPUT"}, Becomes(To(saved, s))
        PROVE  Inherits(r, request') /\ sent' = sent
    <2>1. s \in ManagerStates
      BY DEF ManagerStates
    <2> QED BY <1>3, <1>9, <2>1, InheritsTo, InheritsOn DEF Becomes
  <1>10. CASE \/ Becomes(To(saved, "FAILED"))
              \/ Becomes(To(saved, "PRE_CLOSE_OUTPUT"))
    BY <1>5, <1>9, <1>10
  <1> DEFINE x == Register(To(told, "POLL2"))
  <1>11. x \in RequestRecord /\ Inherits(r, x) /\ x.status = saved.status
    BY <1>8, InheritsRegister, InheritsOn
  <1>12. CASE /\ saved.status # "DONE"
              /\ \/ tell(To(told, "POLL_QUERY1")) \/ tell(To(told, "POLL1"))
                 \/ tell(To(told, "POLL2"))
    <2> HIDE DEF tell
    <2> QED BY <1>5, <1>7, <1>8, <1>12
  <1>13. CASE saved.status # "DONE" /\ tell(x)
    <2> HIDE DEF tell, x
    <2> QED BY <1>5, <1>7, <1>11, <1>13
  <1> QED BY <1>6, <1>10, <1>12, <1>13

\* A step that polls.
LEMMA PollRecovers ==
    ASSUME TypeOK, RecoveryCore, NEW r \in RequestRecord,
           NEW first \in BOOLEAN, r.jobmanager_state = "POLL1",
           Inherits(request, r),
           NEW file \in StateFiles \union {NoStateFile}, Poll(r, file, first),
           file = state_file \/ file = StateFileOf(r),
           UNCHANGED <<rsl, scriptVars, lrmVars>>,
           registered' => registered \/ request.job_id_string # "null"
    PROVE  RecoveryCore'
  <1>1. State' \in {"FAILED", "PRE_CLOSE_OUTPUT", "POLL_QUERY1", "POLL1",
                    "POLL2"}
    BY PollFacts
  <1>2. /\ Inherits(request, request')
        /\ "DONE" \in sent' => "DONE" \in sent
        /\ \/ state_file' = file
           \/ \E x \in RequestRecord :
                 /\ state_file' = StateFileOf(x) /\ Inherits(r, x)
                 /\ x.jobmanager_state = "POLL1"
    BY PollCarries, InheritsOn
  <1>3. ASSUME NEW x \in RequestRecord, state_file' = StateFileOf(x),
               Inherits(request, x), x.jobmanager_state = "POLL1"
        PROVE  FileKept
    <2>1. StateFileOf(x).restart_state = "POLL1"
      BY <1>3 DEF StateFileOf
    <2>2. FileWrittenFrom(x)
      BY <1>3, <2>1 DEF FileWrittenFrom, Written
    <2> QED BY <2>2 DEF FileKept
  <1>4. FileKept
    BY <1>2, <1>3, InheritsOn DEF FileKept
  <1>5. ScriptsKept /\ HonestScripts'
    BY SameHonest DEF RecoveryCore
  <1>6. Carried
    BY <1>2, <1>4, <1>5, CarriedBy
  <1> QED BY <1>1, <1>6, CarriedLater DEF PreSubmit

\* POLL1 as a case of its own.
LEMMA CasePoll1Recovers ==
    ASSUME RequestCore, RecoveryCore, CasePoll1 PROVE RecoveryCore'
  <1>1. /\ TypeOK /\ request \in RequestRecord /\ State = "POLL1"
        /\ state_file \in StateFiles \union {NoStateFile}
        /\ Poll(request, state_file, FALSE)
        /\ UNCHANGED <<rsl, scriptVars, lrmVars, managerVars>>
    BY DEF RequestCore, TypeOK, CasePoll1, At
  <1>2. Inherits(request, request)
    BY DEF Inherits
  <1> QED BY <1>1, <1>2, PollRecovers DEF State

\* SUBMIT ends in POLL1, whatever the submit script said; a job id is
\* registered if there is one.
LEMMA CaseSubmitRecovers ==
    ASSUME RequestCore, RecoveryCore, CaseSubmit PROVE RecoveryCore'
  <1>1. /\ TypeOK /\ request \in RequestRecord /\ State = "SUBMIT"
        /\ request.failure_code \in FailureCodes
        /\ request.failure_code # "STAGE_IN_FAILED"
    BY DEF RequestCore, TypeOK, CaseSubmit, At, RequestRecord, RecoveryCore,
           RestartKnown
  <1>2. /\ UNCHANGED <<rsl, scriptVars, lrmVars>>
        /\ registered' => registered \/ request.job_id_string # "null"
    <2>1. UNCHANGED registered \/ request.job_id_string # "null"
      BY DEF CaseSubmit
    <2>2. UNCHANGED <<rsl, scriptVars, lrmVars>>
      BY DEF CaseSubmit
    <2> QED BY <2>1, <2>2
  <1>3. "FAILED" \in JobStates /\ "POLL1" \in ManagerStates
        /\ "FAILED_TWO_PHASE_COMMITTED" \in ManagerStates
    BY DEF JobStates, ManagerStates
  <1> DEFINE set(code) == [request EXCEPT !.failure_code = code]
             fails(code) == [SetStatus(set(code), "FAILED")
                               EXCEPT !.unsent_status_change = TRUE]
             toPoll(r) == [To(r, "POLL1") EXCEPT !.restart_state = "POLL1"]
             poll(r) == Poll(toPoll(r), StateFileOf(toPoll(r)), TRUE)
  <1>4. \/ /\ Becomes(To(request, "FAILED_TWO_PHASE_COMMITTED"))
           /\ UNCHANGED <<registered, state_file>>
        \/ \E code \in FailureCodes \ {"STAGE_IN_FAILED"} : poll(fails(code))
        \/ poll(request)
    BY <1>1 DEF CaseSubmit, FailureCodes
  <1>5. CASE /\ Becomes(To(request, "FAILED_TWO_PHASE_COMMITTED"))
             /\ UNCHANGED <<registered, state_file>>
    <2>1. /\ Inherits(request, request')
          /\ State' = "FAILED_TWO_PHASE_COMMITTED"
      BY <1>1, <1>3, <1>5, InheritsTo DEF Becomes, State
    <2>2. Carried
      BY <1>2, <1>5, <2>1, QuietCarried DEF Becomes
    <2> QED BY <2>1, <2>2, CarriedLater DEF PreSubmit
  <1>6. ASSUME NEW r \in RequestRecord, poll(r), Inherits(request, r)
        PROVE  RecoveryCore'
    <2> DEFINE y == To(r, "POLL1")
               x == [y EXCEPT !.restart_state = "POLL1"]
    <2>1. /\ y \in RequestRecord /\ y.jobmanager_state = "POLL1"
          /\ Inherits(request, y)
      BY <1>3, <1>6, InheritsTo, InheritsOn
    <2> HIDE DEF y
    <2>2. /\ x \in RequestRecord /\ x.jobmanager_state = "POLL1"
          /\ Inherits(request, x)
      BY <1>3, <2>1, InheritsRestart, InheritsOn
    <2>3. Poll(x, StateFileOf(x), TRUE)
      BY <1>6 DEF x, y
    <2> HIDE DEF x
    <2>4. StateFileOf(x) \in StateFiles
      BY <2>2, StateFileTyped
    <2> QED BY <1>1, <1>2, <2>2, <2>3, <2>4, PollRecovers
  <1>7. ASSUME NEW code \in FailureCodes \ {"STAGE_IN_FAILED"},
               poll(fails(code))
        PROVE  RecoveryCore'
    <2> DEFINE a == set(code)
               b == SetStatus(a, "FAILED")
               c == [b EXCEPT !.unsent_status_change = TRUE]
    <2>1. a \in RequestRecord /\ Inherits(request, a)
      BY <1>1, InheritsCode
    <2> HIDE DEF a
    <2>2. b \in RequestRecord /\ Inherits(request, b)
      BY <1>3, <2>1, InheritsStatus, InheritsOn
    <2> HIDE DEF b
    <2>3. c \in RequestRecord /\ Inherits(request, c)
      BY <2>2, InheritsUnsent, InheritsOn
    <2>4. poll(c)
      BY <1>7 DEF a, b, c
    <2> HIDE DEF c
    <2> QED BY <1>6, <2>3, <2>4
  <1>8. Inherits(request, request)
    BY DEF Inherits
  <1> HIDE DEF poll, fails
  <1> QED BY <1>1, <1>4, <1>5, <1>6, <1>7, <1>8

\* POLL2 starts the poll script, reads the grid monitor's file, or waits.
LEMMA CasePoll2Recovers ==
    ASSUME RequestCore, RecoveryCore, CasePoll2 PROVE RecoveryCore'
  <1>1. TypeOK /\ request \in RequestRecord /\ State = "POLL2"
    BY DEF RequestCore, TypeOK, CasePoll2, At
  <1>2. UNCHANGED <<rsl, staged_out, lrmVars, managerVars, state_file, sent>>
    BY DEF CasePoll2, Becomes, PollFast
  <1>3. ScriptsKept /\ HonestScripts'
    <2>1. UNCHANGED scripts \/ Launch("poll", "POLL1", NoQuery)
      BY DEF CasePoll2
    <2>2. "poll" \in ScriptCmds /\ "poll" \in ScriptCmds \ {"stage_in"}
      BY DEF ScriptCmds
    <2> QED BY <1>1, <1>2, <2>1, <2>2, SameHonest, OtherLaunched, LaunchHonest
            DEF RecoveryCore
  <1> DEFINE p == To(request, "POLL1")
  <1>4. "POLL1" \in ManagerStates
    BY DEF ManagerStates
  <1>5. /\ p \in RequestRecord /\ p.jobmanager_state = "POLL1"
        /\ Inherits(request, p)
    BY <1>1, <1>4, InheritsTo
  <1>6. Inherits(request, request') /\ State' \in {"POLL1", "POLL2"}
    <2>1. CASE Becomes(p)
      <3> HIDE DEF p
      <3> QED BY <1>5, <2>1 DEF Becomes, State
    <2>2. CASE Becomes(request)
      BY <1>1, <2>2 DEF Becomes, State, Inherits
    <2>3. CASE PollFast
      <3>1. PICK s \in {request.status} \union ({lrm} \ {"none", "FAILED"}) :
                Becomes(Register(IF s = p.status THEN p
                                 ELSE [SetStatus(p, s) EXCEPT
                                         !.unsent_status_change = TRUE]))
        BY <2>3 DEF PollFast
      <3>2. s \in JobStates
        BY <1>1 DEF TypeOK, LrmStates, SegEvents, JobStates, RequestRecord
      <3> HIDE DEF p
      <3> DEFINE x == SetStatus(p, s)
                 y == [x EXCEPT !.unsent_status_change = TRUE]
                 z == IF s = p.status THEN p ELSE y
      <3>3. x \in RequestRecord /\ x.jobmanager_state = "POLL1"
            /\ Inherits(request, x)
        BY <1>5, <3>2, InheritsStatus, InheritsOn
      <3> HIDE DEF x
      <3>4. y \in RequestRecord /\ y.jobmanager_state = "POLL1"
            /\ Inherits(request, y)
        BY <3>3, InheritsUnsent, InheritsOn
      <3> HIDE DEF y
      <3>5. z \in RequestRecord /\ z.jobmanager_state = "POLL1"
            /\ Inherits(request, z)
        BY <1>5, <3>4
      <3>6. request' = Register(z)
        BY <3>1 DEF Becomes, x, y, z
      <3> HIDE DEF z
      <3> QED BY <3>5, <3>6, InheritsRegister, InheritsOn DEF State
    <2> QED BY <2>1, <2>2, <2>3 DEF CasePoll2
  <1>7. Carried
    BY <1>2, <1>3, <1>6, CarriedBy DEF FileKept
  <1> QED BY <1>6, <1>7, CarriedLater DEF PreSubmit

\* The queue without its first query, otherwise the same request.
LEMMA InheritsDequeued ==
    ASSUME TypeOK, request.pending_queries # <<>>
    PROVE  /\ Dequeued \in RequestRecord /\ Inherits(request, Dequeued)
           /\ Dequeued.jobmanager_state = State
           /\ Dequeued.restart_state = request.restart_state
           /\ Dequeued.status = request.status
  <1>1. /\ request \in RequestRecord /\ Dequeued \in RequestRecord
        /\ Dequeued.jobmanager_state = State
    BY QueueFacts DEF TypeOK
  <1>2. /\ Inherits(request, Dequeued)
        /\ Dequeued.restart_state = request.restart_state
        /\ Dequeued.status = request.status
    BY <1>1 DEF Dequeued, RequestRecord, Inherits
  <1> QED BY <1>1, <1>2

\* The oldest query gets its script, or its answer.
LEMMA CaseQuery1Recovers ==
    ASSUME RequestCore, RecoveryCore, CaseQuery1 PROVE RecoveryCore'
  <1> DEFINE query == Head(request.pending_queries)
             cmd   == IF query.kind = "cancel" THEN "cancel" ELSE "signal"
             next  == IF State = "POLL_QUERY1" THEN "POLL_QUERY2"
                                               ELSE "TWO_PHASE_QUERY2"
  <1>1. /\ TypeOK /\ request \in RequestRecord
        /\ State \in {"POLL_QUERY1", "TWO_PHASE_QUERY1"}
        /\ request.pending_queries # <<>>
    BY DEF RequestCore, TypeOK, CaseQuery1, At, QueriesMatchState,
           QueryStates, State
  <1>2. UNCHANGED <<rsl, staged_out, lrmVars, managerVars, state_file, sent>>
    BY DEF CaseQuery1, Becomes
  <1>3. ScriptsKept /\ HonestScripts'
    <2>1. UNCHANGED scripts \/ Launch(cmd, State, query)
      BY DEF CaseQuery1
    <2>2. /\ cmd \in ScriptCmds /\ cmd # "submit" /\ cmd # "stage_out"
          /\ cmd \in ScriptCmds \ {"stage_in"}
      BY DEF ScriptCmds
    <2> HIDE DEF cmd, query
    <2> QED BY <1>1, <1>2, <2>1, <2>2, SameHonest, OtherLaunched, LaunchHonest
            DEF RecoveryCore
  <1>4. /\ Dequeued \in RequestRecord /\ Dequeued.jobmanager_state = State
        /\ Inherits(request, Dequeued)
    BY <1>1, InheritsDequeued
  <1>5. \/ request' = To(request, next)
        \/ request' = To(Dequeued, "POLL2") \/ request' = Dequeued
    BY DEF CaseQuery1, Becomes, Dequeued
  <1>6. /\ next \in ManagerStates /\ "POLL2" \in ManagerStates
        /\ \/ State = "POLL_QUERY1" /\ next = "POLL_QUERY2"
           \/ State = "TWO_PHASE_QUERY1" /\ next = "TWO_PHASE_QUERY2"
    BY <1>1 DEF ManagerStates
  <1> HIDE DEF next
  <1>7. /\ Inherits(request, request')
        /\ State' \in {next, State, "POLL2"}
    BY <1>1, <1>4, <1>5, <1>6, InheritsTo, InheritsOn DEF State
  <1>8. Carried
    BY <1>2, <1>3, <1>7, CarriedBy DEF FileKept
  <1>9. \/ State' \notin PreSubmit \union {"STOP"}
        \/ State \in Uncommitted /\ State' \in Uncommitted
    BY <1>1, <1>6, <1>7 DEF PreSubmit, Uncommitted
  <1> QED BY <1>8, <1>9, CarriedLater, CarriedEarly

\* After a signal in TWO_PHASE.
LEMMA CaseTwoPhaseQuery2Recovers ==
    ASSUME RequestCore, RecoveryCore, CaseTwoPhaseQuery2 PROVE RecoveryCore'
  <1>1. /\ TypeOK /\ request.pending_queries # <<>>
        /\ State = "TWO_PHASE_QUERY2"
    BY DEF RequestCore, CaseTwoPhaseQuery2, At, QueriesMatchState, QueryStates
  <1>2. Dequeued \in RequestRecord /\ Inherits(request, Dequeued)
    BY <1>1, InheritsDequeued
  <1> DEFINE t == To(Dequeued, "TWO_PHASE")
             q == To(Dequeued, "TWO_PHASE_QUERY1")
  <1>3. "TWO_PHASE" \in ManagerStates /\ "TWO_PHASE_QUERY1" \in ManagerStates
    BY DEF ManagerStates
  <1>4. /\ t \in RequestRecord /\ t.jobmanager_state = "TWO_PHASE"
        /\ Inherits(request, t)
        /\ q.jobmanager_state = "TWO_PHASE_QUERY1" /\ Inherits(request, q)
    BY <1>2, <1>3, InheritsTo, InheritsOn
  <1>5. request' = Register(t) \/ request' = q
    BY DEF CaseTwoPhaseQuery2, Becomes
  <1> HIDE DEF t, q
  <1>6. /\ Inherits(request, request')
        /\ State' \in {"TWO_PHASE", "TWO_PHASE_QUERY1"}
    BY <1>4, <1>5, InheritsRegister, InheritsOn DEF State
  <1>7. Carried
    BY <1>6, QuietCarried DEF CaseTwoPhaseQuery2, Becomes
  <1> QED BY <1>1, <1>6, <1>7, CarriedEarly DEF Uncommitted

\* After a query in POLL.
LEMMA CasePollQuery2Recovers ==
    ASSUME RequestCore, RecoveryCore, CasePollQuery2 PROVE RecoveryCore'
  <1>1. TypeOK /\ request.pending_queries # <<>>
    BY DEF RequestCore, CasePollQuery2, At, QueriesMatchState, QueryStates
  <1> DEFINE next == AfterPollQuery(Dequeued)
  <1>2. request' = To(Dequeued, next)
    BY DEF CasePollQuery2, Becomes
  <1>3. Dequeued \in RequestRecord /\ Inherits(request, Dequeued)
    BY <1>1, InheritsDequeued
  <1>4. next \in {"POLL_QUERY1", "POLL1", "POLL2"} /\ next \in ManagerStates
    BY DEF AfterPollQuery, ManagerStates
  <1> HIDE DEF next
  <1>5. /\ Inherits(request, request')
        /\ State' \in {"POLL_QUERY1", "POLL1", "POLL2"}
    BY <1>2, <1>3, <1>4, InheritsTo, InheritsOn DEF State
  <1>6. Carried
    BY <1>5, QuietCarried DEF CasePollQuery2, Becomes
  <1> QED BY <1>5, <1>6, CarriedLater DEF PreSubmit

\* The end of the job is recorded in the state file.
LEMMA CasePreCloseRecovers ==
    ASSUME RequestCore, RecoveryCore, CasePreClose PROVE RecoveryCore'
  <1> DEFINE x     == [request EXCEPT !.restart_state = State]
             saved == IF request.unsent_status_change THEN x ELSE request
             s     == IF State = "FAILED" THEN "FAILED_CLOSE_OUTPUT"
                                          ELSE "CLOSE_OUTPUT"
             moved == To(saved, s)
             next  == [moved EXCEPT !.pending_queries = <<>>]
             told  == [next EXCEPT !.unsent_status_change = FALSE]
  <1>1. /\ TypeOK /\ request \in RequestRecord /\ State \in ManagerStates
        /\ State \in {"PRE_CLOSE_OUTPUT", "FAILED"}
    BY DEF RequestCore, TypeOK, RequestRecord, State, CasePreClose, At
  <1>2. UNCHANGED <<rsl, scriptVars, lrmVars, managerVars>>
    BY DEF CasePreClose
  <1>3. /\ \/ /\ ContactStateCallback(told, FALSE)
              /\ request.status = "STAGE_OUT"
           \/ Becomes(next)
        /\ state_file' = StateFileOf(saved) \/ state_file' = state_file
    BY DEF CasePreClose
  <1>4. /\ x \in RequestRecord /\ Inherits(request, x)
        /\ x.jobmanager_state = State /\ x.status = request.status
    BY <1>1, InheritsRestart DEF State
  <1> HIDE DEF x
  <1>5. /\ saved \in RequestRecord /\ Inherits(request, saved)
        /\ saved.jobmanager_state = State /\ saved.status = request.status
    <2>1. Inherits(request, request)
      BY DEF Inherits
    <2> QED BY <1>1, <1>4, <2>1 DEF State
  <1>6. s \in {"FAILED_CLOSE_OUTPUT", "CLOSE_OUTPUT"} /\ s \in ManagerStates
    BY DEF ManagerStates
  <1> HIDE DEF saved, s
  <1>7. /\ moved \in RequestRecord /\ Inherits(request, moved)
        /\ moved.jobmanager_state = s /\ moved.status = request.status
    BY <1>5, <1>6, InheritsTo, InheritsOn
  <1> HIDE DEF moved
  <1>8. /\ next \in RequestRecord /\ Inherits(request, next)
        /\ next.jobmanager_state = s /\ next.status = request.status
    BY <1>7, NoQueriesTyped, InheritsQueries, InheritsOn
  <1> HIDE DEF next
  <1>9. /\ told \in RequestRecord /\ Inherits(request, told)
        /\ told.jobmanager_state = s /\ told.status = request.status
    BY <1>8, InheritsUnsent, InheritsOn
  <1> HIDE DEF told
  <1>10. /\ Inherits(request, request') /\ State' = s
         /\ "DONE" \in sent' => "DONE" \in sent
    <2>1. CASE /\ ContactStateCallback(told, FALSE)
               /\ request.status = "STAGE_OUT"
      BY <1>9, <2>1, InheritsCallback, InheritsOn
    <2>2. CASE Becomes(next)
      BY <1>8, <2>2 DEF Becomes, State
    <2> QED BY <1>3, <2>1, <2>2
  <1>11. FileKept
    <2>1. CASE state_file' = StateFileOf(saved)
      <3>1. StateFileOf(saved).restart_state = State
        BY <1>1, <1>5 DEF StateFileOf
      <3>2. FileWrittenFrom(saved)
        BY <1>1, <1>5, <2>1, <3>1 DEF FileWrittenFrom, Written
      <3> QED BY <1>5, <3>2 DEF FileKept
    <2> QED BY <1>3, <2>1 DEF FileKept
  <1>12. ScriptsKept /\ HonestScripts'
    BY <1>2, SameHonest DEF RecoveryCore
  <1>13. Carried
    BY <1>2, <1>10, <1>11, <1>12, CarriedBy
  <1> QED BY <1>6, <1>10, <1>13, CarriedLater DEF PreSubmit

\* Stage-out starts its script, has nothing to do, or fails.
LEMMA CaseCloseOutputRecovers ==
    ASSUME RequestCore, RecoveryCore, CaseCloseOutput PROVE RecoveryCore'
  <1> DEFINE a == To(request, "FAILED_CLOSE_OUTPUT")
             b == To(request, "STAGE_OUT")
             c == To(request, "FAILED")
             o == [b EXCEPT !.unsent_status_change = TRUE]
             m == [c EXCEPT !.failure_code = "MALLOC_FAILED"]
  <1>1. TypeOK /\ request \in RequestRecord
    BY DEF RequestCore, TypeOK
  <1>2. UNCHANGED <<rsl, staged_out, lrmVars, managerVars, state_file, sent>>
    BY DEF CaseCloseOutput, Becomes
  <1>3. request' \in {a, o, m}
    BY DEF CaseCloseOutput, ToStageOut, Becomes
  <1>4. ScriptsKept /\ HonestScripts'
    <2>1. UNCHANGED scripts \/ Launch("stage_out", "STAGE_OUT", NoQuery)
      BY DEF CaseCloseOutput
    <2>2. "stage_out" \in ScriptCmds /\ "stage_out" \in ScriptCmds \ {"stage_in"}
      BY DEF ScriptCmds
    <2> QED BY <1>1, <1>2, <2>1, <2>2, SameHonest, OtherLaunched, LaunchHonest
            DEF RecoveryCore
  <1>5. /\ "FAILED_CLOSE_OUTPUT" \in ManagerStates
        /\ "STAGE_OUT" \in ManagerStates /\ "FAILED" \in ManagerStates
        /\ "MALLOC_FAILED" \in FailureCodes
    BY DEF ManagerStates, FailureCodes
  <1>6. /\ a.jobmanager_state = "FAILED_CLOSE_OUTPUT" /\ Inherits(request, a)
        /\ b \in RequestRecord /\ b.jobmanager_state = "STAGE_OUT"
        /\ Inherits(request, b)
        /\ c \in RequestRecord /\ c.jobmanager_state = "FAILED"
        /\ Inherits(request, c)
    BY <1>1, <1>5, InheritsTo
  <1> HIDE DEF a, b, c
  <1>7. o.jobmanager_state = "STAGE_OUT" /\ Inherits(request, o)
    BY <1>6, InheritsUnsent, InheritsOn
  <1>8. m.jobmanager_state = "FAILED" /\ Inherits(request, m)
    BY <1>5, <1>6, InheritsCode, InheritsOn
  <1> HIDE DEF o, m
  <1>9. /\ Inherits(request, request')
        /\ State' \in {"FAILED_CLOSE_OUTPUT", "STAGE_OUT", "FAILED"}
    BY <1>3, <1>6, <1>7, <1>8 DEF State
  <1>10. Carried
    BY <1>2, <1>4, <1>9, CarriedBy DEF FileKept
  <1> QED BY <1>9, <1>10, CarriedLater DEF PreSubmit

\* DONE is sent only from STAGE_OUT with nothing left on the list.
LEMMA CaseFinalStatusRecovers ==
    ASSUME RequestCore, RecoveryCore, CaseFinalStatus PROVE RecoveryCore'
  <1> DEFINE r == IF State = "STAGE_OUT" THEN StageOutLeft(request)
                                         ELSE request
             done  == SetStatus(r, "DONE")
             fail  == SetStatus(r, "FAILED")
             final == IF r.jobmanager_state = "STAGE_OUT"
                        THEN To(done, "TWO_PHASE_END")
                        ELSE To(fail, "FAILED_TWO_PHASE")
             told  == [final EXCEPT !.unsent_status_change = FALSE]
  <1>1. /\ TypeOK /\ request \in RequestRecord
        /\ State \in {"STAGE_OUT", "FAILED_CLOSE_OUTPUT"}
    BY DEF RequestCore, TypeOK, CaseFinalStatus, At
  <1>2. UNCHANGED <<rsl, scriptVars, lrmVars, managerVars, state_file>>
    BY DEF CaseFinalStatus
  <1>3. ContactStateCallback(told, rsl.two_phase) \/ Becomes(final)
    BY DEF CaseFinalStatus
  <1>4. /\ r \in RequestRecord /\ Inherits(request, r)
        /\ r.jobmanager_state = "STAGE_OUT" => ~request.stage_out_todo
    <2> DEFINE x == To(request, "FAILED_CLOSE_OUTPUT")
               y(c) == [x EXCEPT !.failure_code = c]
    <2>1. "FAILED_CLOSE_OUTPUT" \in ManagerStates
      BY DEF ManagerStates
    <2>2. /\ x \in RequestRecord /\ Inherits(request, x)
          /\ x.jobmanager_state = "FAILED_CLOSE_OUTPUT"
      BY <1>1, <2>1, InheritsTo
    <2>3. \/ r = request /\ (State = "STAGE_OUT" => ~request.stage_out_todo)
          \/ r = [x EXCEPT !.failure_code =
                    IF @ \in {"SUCCESS", "STAGE_OUT_FAILED"}
                      THEN "OPENING_STDOUT" ELSE @]
          \/ r = [x EXCEPT !.failure_code =
                    IF @ = "SUCCESS" THEN "STAGE_OUT_FAILED" ELSE @]
      BY <1>1 DEF StageOutLeft, RequestRecord
    <2> HIDE DEF x, r
    <2>4. /\ x.failure_code \in FailureCodes
          /\ "OPENING_STDOUT" \in FailureCodes
          /\ "STAGE_OUT_FAILED" \in FailureCodes
      BY <2>2 DEF RequestRecord, FailureCodes
    <2>5. \A c \in FailureCodes :
             (c = "STAGE_IN_FAILED" => x.failure_code = "STAGE_IN_FAILED")
             => /\ y(c) \in RequestRecord /\ Inherits(request, y(c))
                /\ y(c).jobmanager_state = "FAILED_CLOSE_OUTPUT"
      BY <2>2, InheritsCode, InheritsOn
    <2>6. \/ r = request /\ (State = "STAGE_OUT" => ~request.stage_out_todo)
          \/ \E c \in FailureCodes :
                /\ c = "STAGE_IN_FAILED" => x.failure_code = "STAGE_IN_FAILED"
                /\ r = y(c)
      BY <2>3, <2>4
    <2> HIDE DEF y
    <2>7. Inherits(request, request)
      BY DEF Inherits
    <2> QED BY <1>1, <2>5, <2>6, <2>7 DEF State
  <1> HIDE DEF r
  <1>5. /\ "DONE" \in JobStates /\ "FAILED" \in JobStates
        /\ "TWO_PHASE_END" \in ManagerStates
        /\ "FAILED_TWO_PHASE" \in ManagerStates
    BY DEF JobStates, ManagerStates
  <1>6. /\ done \in RequestRecord /\ Inherits(request, done)
        /\ fail \in RequestRecord /\ Inherits(request, fail)
        /\ fail.status = "FAILED"
    BY <1>4, <1>5, InheritsStatus, InheritsOn
  <1> HIDE DEF done, fail
  <1>7. /\ final \in RequestRecord /\ Inherits(request, final)
        /\ final.jobmanager_state \in {"TWO_PHASE_END", "FAILED_TWO_PHASE"}
        /\ final.status = "DONE" => ~request.stage_out_todo
    <2>1. /\ To(done, "TWO_PHASE_END") \in RequestRecord
          /\ Inherits(request, To(done, "TWO_PHASE_END"))
          /\ To(done, "TWO_PHASE_END").jobmanager_state = "TWO_PHASE_END"
      BY <1>5, <1>6, InheritsTo, InheritsOn
    <2>2. /\ To(fail, "FAILED_TWO_PHASE") \in RequestRecord
          /\ Inherits(request, To(fail, "FAILED_TWO_PHASE"))
          /\ To(fail, "FAILED_TWO_PHASE").jobmanager_state = "FAILED_TWO_PHASE"
          /\ To(fail, "FAILED_TWO_PHASE").status = "FAILED"
      BY <1>5, <1>6, InheritsTo, InheritsOn
    <2> QED BY <1>4, <2>1, <2>2
  <1> HIDE DEF final
  <1>8. /\ told \in RequestRecord /\ Inherits(request, told)
        /\ told.jobmanager_state = final.jobmanager_state
        /\ told.status = final.status
    BY <1>7, InheritsUnsent, InheritsOn
  <1> HIDE DEF told
  <1>9. /\ Inherits(request, request')
        /\ State' \in {"TWO_PHASE_END", "FAILED_TWO_PHASE"}
        /\ "DONE" \in sent' => "DONE" \in sent \/ ~request.stage_out_todo
    <2>1. CASE ContactStateCallback(told, rsl.two_phase)
      BY <1>7, <1>8, <2>1, InheritsCallback, InheritsOn
    <2>2. CASE Becomes(final)
      BY <1>7, <2>2 DEF State, Becomes
    <2> QED BY <1>3, <2>1, <2>2
  <1>10. ScriptsKept /\ HonestScripts'
    BY <1>2, SameHonest DEF RecoveryCore
  <1>11. Carried
    BY <1>2, <1>9, <1>10, CarriedBy DEF FileKept
  <1> QED BY <1>9, <1>11, CarriedLater DEF PreSubmit

\* Waiting for the end commit, going on without it, or stopping, which records
\* that the job has ended.
LEMMA CaseTwoPhaseEndRecovers ==
    ASSUME RequestCore, RecoveryCore, CaseTwoPhaseEnd PROVE RecoveryCore'
  <1> DEFINE e == [request EXCEPT !.commit_extend = FALSE]
             n == IF State = "TWO_PHASE_END" THEN "TWO_PHASE_END_COMMITTED"
                                             ELSE "FAILED_TWO_PHASE_COMMITTED"
             x == To(request, "STOP")
             t == [x EXCEPT !.restart_state = State]
  <1>1. /\ request \in RequestRecord /\ State \in ManagerStates
        /\ State \in {"TWO_PHASE_END", "FAILED_TWO_PHASE"}
    BY DEF RequestCore, TypeOK, RequestRecord, State, CaseTwoPhaseEnd, At
  <1>2. request' \in {Register(e), To(request, n), t}
    BY DEF CaseTwoPhaseEnd, Becomes
  <1>3. e \in RequestRecord /\ e.jobmanager_state = State /\ Inherits(request, e)
    BY <1>1 DEF RequestRecord, State, Inherits
  <1> HIDE DEF e
  <1>4. Register(e).jobmanager_state = State /\ Inherits(request, Register(e))
    BY <1>3, InheritsRegister, InheritsOn
  <1>5. /\ n \in ManagerStates /\ "STOP" \in ManagerStates
        /\ n \notin PreSubmit \union {"STOP"}
    BY DEF ManagerStates, PreSubmit
  <1> HIDE DEF n
  <1>6. /\ To(request, n).jobmanager_state = n
        /\ Inherits(request, To(request, n))
        /\ x \in RequestRecord /\ x.jobmanager_state = "STOP"
        /\ Inherits(request, x)
    BY <1>1, <1>5, InheritsTo
  <1> HIDE DEF x
  <1>7. /\ t.jobmanager_state = "STOP" /\ t.restart_state = State
        /\ Inherits(request, t)
    BY <1>1, <1>6, InheritsRestart, InheritsOn
  <1> HIDE DEF t
  <1>8. /\ Inherits(request, request')
        /\ \/ State' \notin PreSubmit \union {"STOP"}
           \/ State' = "STOP" /\ request'.restart_state = State
    BY <1>1, <1>2, <1>4, <1>5, <1>6, <1>7 DEF State, PreSubmit
  <1>9. Carried
    BY <1>8, QuietCarried DEF CaseTwoPhaseEnd, Becomes
  <1>10. CASE State' = "STOP" /\ request'.restart_state = State
    <2>1. RestartKnown'
      BY <1>1, <1>9, <1>10
         DEF RecoveryCore, RestartKnown, Carried, Uncommitted
    <2>2. ~Heading(request') /\ State' \notin PreSubmit
      BY <1>10 DEF Heading, State, Uncommitted, PreSubmit
    <2> QED BY <1>9, <2>1, <2>2, CarriedOn
  <1> QED BY <1>8, <1>9, <1>10, CarriedLater

\* The clean-up states follow one another in the loop.
LEMMA CaseCleanUpRecovers ==
    ASSUME RequestCore, RecoveryCore, CaseCleanUp PROVE RecoveryCore'
  <1> DEFINE n == IF State = "FILE_CLEAN_UP" /\ request.status = "FAILED"
                    THEN "FAILED_SCRATCH_CLEAN_UP" ELSE CleanUpNext[State]
  <1>1. /\ request \in RequestRecord /\ State \in DOMAIN CleanUpNext
        /\ request' = To(request, n)
    BY DEF RequestCore, TypeOK, CaseCleanUp, At, Becomes
  <1>2. n \in {"FILE_CLEAN_UP", "FAILED_FILE_CLEAN_UP", "SCRATCH_CLEAN_UP",
               "FAILED_SCRATCH_CLEAN_UP", "CACHE_CLEAN_UP",
               "FAILED_CACHE_CLEAN_UP"}
    BY <1>1 DEF CleanUpNext
  <1> HIDE DEF n
  <1>3. n \in ManagerStates /\ n \notin PreSubmit \union {"STOP"}
    BY <1>2 DEF ManagerStates, PreSubmit
  <1>4. Inherits(request, request') /\ State' = n
    BY <1>1, <1>3, InheritsTo DEF State
  <1>5. Carried
    BY <1>4, QuietCarried DEF CaseCleanUp, Becomes
  <1> QED BY <1>3, <1>4, <1>5, CarriedLater

\* The last clean-up removes the state file.
LEMMA CaseCacheCleanUpRecovers ==
    ASSUME RequestCore, RecoveryCore, CaseCacheCleanUp PROVE RecoveryCore'
  <1> DEFINE n == IF State = "CACHE_CLEAN_UP" THEN "DONE" ELSE "FAILED_DONE"
             x == To(request, n)
             r == [x EXCEPT !.pending_queries = <<>>]
  <1>1. /\ request \in RequestRecord
        /\ request' = r /\ state_file' = NoStateFile
        /\ UNCHANGED <<rsl, scriptVars, lrmVars, managerVars, sent>>
    BY DEF RequestCore, TypeOK, CaseCacheCleanUp, Becomes
  <1>2. n \in ManagerStates /\ n \notin PreSubmit \union {"STOP"}
    BY DEF ManagerStates, PreSubmit
  <1> HIDE DEF n
  <1>3. x \in RequestRecord /\ x.jobmanager_state = n /\ Inherits(request, x)
    BY <1>1, <1>2, InheritsTo
  <1> HIDE DEF x
  <1>4. Inherits(request, r) /\ r.jobmanager_state = n
    BY <1>3, NoQueriesTyped, InheritsQueries, InheritsOn
  <1> HIDE DEF r
  <1>5. Inherits(request, request') /\ State' = n
    BY <1>1, <1>4 DEF State
  <1>6. ScriptsKept /\ HonestScripts'
    BY <1>1, SameHonest DEF RecoveryCore
  <1>7. Carried
    BY <1>1, <1>5, <1>6, CarriedBy DEF FileKept
  <1> QED BY <1>2, <1>5, <1>7, CarriedLater

\* DONE and FAILED_DONE handle the events left over and rest.
LEMMA CaseDoneRecovers ==
    ASSUME RequestCore, RecoveryCore, CaseDone PROVE RecoveryCore'
  <1> DEFINE x == [request EXCEPT !.restart_state = State]
             r == [x EXCEPT !.pending_queries = <<>>]
  <1>1. /\ request \in RequestRecord /\ State \in ManagerStates
        /\ State \in {"DONE", "FAILED_DONE"}
    BY DEF RequestCore, TypeOK, CaseDone, At, RequestRecord, State
  <1>2. /\ state_file' = NoStateFile \/ state_file' = state_file
        /\ registered' = FALSE
        /\ UNCHANGED <<rsl, scriptVars, lrmVars, sent>>
    BY DEF CaseDone, Becomes
  <1>3. \/ r.seg_event_queue # <<>> /\ request' = HandleEvent(r)
        \/ request' = r
    <2>1. r = [request EXCEPT !.restart_state = State,
                              !.pending_queries = <<>>]
      OBVIOUS
    <2> HIDE DEF r
    <2> QED BY <2>1 DEF CaseDone, Becomes
  <1>4. /\ x \in RequestRecord /\ Inherits(request, x)
        /\ x.jobmanager_state = State
    BY <1>1, InheritsRestart DEF State
  <1> HIDE DEF x
  <1>5. /\ r \in RequestRecord /\ Inherits(request, r)
        /\ r.jobmanager_state = State
    BY <1>4, NoQueriesTyped, InheritsQueries, InheritsOn
  <1> HIDE DEF r
  <1>6. State' = State /\ Inherits(request, request')
    BY <1>3, <1>5, InheritsEvent, InheritsOn DEF State
  <1>7. ScriptsKept /\ HonestScripts'
    BY <1>2, SameHonest DEF RecoveryCore
  <1>8. Carried
    BY <1>2, <1>6, <1>7, CarriedBy DEF FileKept
  <1> QED BY <1>1, <1>6, <1>8, CarriedLater DEF PreSubmit

\* STOP saves that the job has ended.
LEMMA CaseStopRecovers ==
    ASSUME RequestCore, RecoveryCore, CaseStop PROVE RecoveryCore'
  <1>1. /\ request \in RequestRecord /\ State = "STOP"
        /\ ContactStateCallback(request, FALSE)
        /\ state_file' = StateFileOf(request)
        /\ UNCHANGED <<rsl, scriptVars, lrmVars, managerVars>>
    BY DEF RequestCore, TypeOK, CaseStop, At
  <1>2. /\ Inherits(request, request') /\ State' = State
        /\ request'.restart_state = request.restart_state
        /\ request'.status = request.status
        /\ "DONE" \in sent' => "DONE" \in sent
    BY <1>1, InheritsCallback DEF State
  <1>3. FileKept
    <2>1. StateFileOf(request).restart_state \in
              {"TWO_PHASE_END", "FAILED_TWO_PHASE"}
      BY <1>1 DEF RecoveryCore, RestartKnown, StateFileOf, State
    <2>2. FileWrittenFrom(request)
      BY <1>1, <2>1 DEF FileWrittenFrom, Written, Inherits
    <2> QED BY <1>1, <2>2 DEF FileKept
  <1>4. ScriptsKept /\ HonestScripts'
    BY <1>1, SameHonest DEF RecoveryCore
  <1>5. Carried
    BY <1>1, <1>2, <1>3, <1>4, CarriedBy
  <1> QED BY <1>2, <1>5, CarriedStays

\* Every case of the state machine keeps the invariant.
LEMMA StateMachineRecovers ==
    ASSUME RequestCore, RecoveryCore, CrashesOnly, StateMachine
    PROVE  RecoveryCore'
  BY CaseStartRecovers, CaseTwoPhaseRecovers, CaseTwoPhaseCommittedRecovers,
     CaseStageInRecovers, CaseSubmitRecovers, CasePoll1Recovers,
     CasePoll2Recovers, CaseQuery1Recovers, CaseTwoPhaseQuery2Recovers,
     CasePollQuery2Recovers, CasePreCloseRecovers, CaseCloseOutputRecovers,
     CaseFinalStatusRecovers, CaseTwoPhaseEndRecovers, CaseCleanUpRecovers,
     CaseCacheCleanUpRecovers, CaseDoneRecovers, CaseStopRecovers
     DEF StateMachine

-----------------------------------------------------------------------------
(* The client keeps it                                                      *)

\* A queued query changes nothing else.
LEMMA InheritsEnqueue ==
    ASSUME TypeOK, NEW kind \in QueryKinds
    PROVE  /\ Enqueue(kind) \in RequestRecord
           /\ Inherits(request, Enqueue(kind))
           /\ Enqueue(kind).jobmanager_state = State
           /\ Enqueue(kind).restart_state = request.restart_state
           /\ Enqueue(kind).status = request.status
  <1> DEFINE q == Append(request.pending_queries,
                         [id |-> NextId, kind |-> kind])
  <1>1. request \in RequestRecord /\ Enqueue(kind) \in RequestRecord
    BY EnqueueFacts DEF TypeOK
  <1>2. Enqueue(kind) = [request EXCEPT !.pending_queries = q]
    BY DEF Enqueue
  <1> HIDE DEF q
  <1> QED BY <1>1, <1>2 DEF RequestRecord, Inherits, State

\* The handlers for a queued query.
LEMMA QueryRecovers ==
    ASSUME RequestCore, RecoveryCore, NEW kind \in QueryKinds,
           UNCHANGED <<rsl, scriptVars, lrmVars, managerVars, state_file, sent>>,
           \/ /\ State = "POLL2"
              /\ request' = Register(To(Enqueue(kind), "POLL_QUERY1"))
           \/ /\ State = "TWO_PHASE"
              /\ request' = Register(To(Enqueue(kind), "TWO_PHASE_QUERY1"))
           \/ request' = Enqueue(kind)
    PROVE  RecoveryCore'
  <1>1. TypeOK /\ request \in RequestRecord
    BY DEF RequestCore, TypeOK
  <1> DEFINE q == Enqueue(kind)
             p == To(q, "POLL_QUERY1")
             t == To(q, "TWO_PHASE_QUERY1")
  <1>2. /\ q \in RequestRecord /\ Inherits(request, q)
        /\ q.jobmanager_state = State /\ q.status = request.status
        /\ q.restart_state = request.restart_state
    BY <1>1, InheritsEnqueue
  <1>3. "POLL_QUERY1" \in ManagerStates /\ "TWO_PHASE_QUERY1" \in ManagerStates
    BY DEF ManagerStates
  <1> HIDE DEF q
  <1>4. /\ p \in RequestRecord /\ p.jobmanager_state = "POLL_QUERY1"
        /\ Inherits(request, p)
        /\ t \in RequestRecord /\ t.jobmanager_state = "TWO_PHASE_QUERY1"
        /\ Inherits(request, t)
    BY <1>2, <1>3, InheritsTo, InheritsOn
  <1>5. \/ State = "POLL2" /\ request' = Register(p)
        \/ State = "TWO_PHASE" /\ request' = Register(t)
        \/ request' = q
    BY DEF q
  <1> HIDE DEF p, t
  <1>6. /\ Inherits(request, request')
        /\ \/ State' = "POLL_QUERY1"
           \/ State = "TWO_PHASE" /\ State' = "TWO_PHASE_QUERY1"
           \/ /\ State' = State /\ request'.status = request.status
              /\ request'.restart_state = request.restart_state
    BY <1>2, <1>4, <1>5, InheritsRegister, InheritsOn DEF State
  <1>7. Carried
    BY <1>6, QuietCarried
  <1> QED BY <1>6, <1>7, CarriedLater, CarriedEarly, CarriedStays
          DEF PreSubmit, Uncommitted

\* cancel(): the job fails at once, or the cancel waits for its script.
LEMMA CancelRecovers ==
    ASSUME RequestCore, RecoveryCore, Cancel PROVE RecoveryCore'
  <1>1. /\ request \in RequestRecord
        /\ UNCHANGED <<rsl, scriptVars, lrmVars, managerVars, state_file, sent>>
    BY DEF RequestCore, TypeOK, Cancel
  <1> DEFINE x == To(request, "FAILED")
             y == SetStatus(x, "FAILED")
             z == [y EXCEPT !.failure_code = "USER_CANCELLED"]
             t == [z EXCEPT !.unsent_status_change = TRUE]
  <1>2. \/ request' = z \/ request' = t
        \/ /\ State = "POLL2"
           /\ request' = Register(To(Enqueue("cancel"), "POLL_QUERY1"))
        \/ request' = Enqueue("cancel")
    BY DEF Cancel, Cancelled
  <1>3. CASE request' = z \/ request' = t
    <2>1. /\ "FAILED" \in ManagerStates /\ "FAILED" \in JobStates
          /\ "USER_CANCELLED" \in FailureCodes
      BY DEF ManagerStates, JobStates, FailureCodes
    <2>2. /\ x \in RequestRecord /\ x.jobmanager_state = "FAILED"
          /\ Inherits(request, x)
      BY <1>1, <2>1, InheritsTo
    <2> HIDE DEF x
    <2>3. /\ y \in RequestRecord /\ y.jobmanager_state = "FAILED"
          /\ Inherits(request, y)
      BY <2>1, <2>2, InheritsStatus, InheritsOn
    <2> HIDE DEF y
    <2>4. /\ z \in RequestRecord /\ z.jobmanager_state = "FAILED"
          /\ Inherits(request, z)
      BY <2>1, <2>3, InheritsCode, InheritsOn
    <2> HIDE DEF z
    <2>5. t.jobmanager_state = "FAILED" /\ Inherits(request, t)
      BY <2>4, InheritsUnsent, InheritsOn
    <2> HIDE DEF t
    <2>6. Inherits(request, request') /\ State' = "FAILED"
      BY <1>3, <2>4, <2>5 DEF State
    <2>7. Carried
      BY <1>1, <2>6, QuietCarried
    <2> QED BY <2>6, <2>7, CarriedLater DEF PreSubmit
  <1>4. "cancel" \in QueryKinds
    BY DEF QueryKinds
  <1> HIDE DEF z, t
  <1> QED BY <1>1, <1>2, <1>3, <1>4, QueryRecovers

\* signal()
LEMMA SignalRecovers ==
    ASSUME RequestCore, RecoveryCore, NEW kind \in Signals, Signal(kind)
    PROVE  RecoveryCore'
  <1>1. /\ kind \in QueryKinds
        /\ UNCHANGED <<rsl, scriptVars, lrmVars, managerVars, state_file, sent>>
    BY DEF Signal, Signals
  <1>2. \/ /\ State = "POLL2"
           /\ request' = Register(To(Enqueue(kind), "POLL_QUERY1"))
        \/ /\ State = "TWO_PHASE"
           /\ request' = Register(To(Enqueue(kind), "TWO_PHASE_QUERY1"))
        \/ request' = Enqueue(kind)
    BY DEF Signal
  <1> QED BY <1>1, <1>2, QueryRecovers

\* COMMIT_REQUEST moves the machine on before the submission.
LEMMA CommitRequestRecovers ==
    ASSUME RequestCore, RecoveryCore, CommitRequest PROVE RecoveryCore'
  <1> DEFINE x == To(request, "TWO_PHASE_COMMITTED")
  <1>1. /\ request \in RequestRecord /\ request' = Register(x)
        /\ State \in Uncommitted
        /\ "TWO_PHASE_COMMITTED" \in ManagerStates
    BY DEF RequestCore, TypeOK, CommitRequest, Uncommitted, ManagerStates
  <1>2. /\ x \in RequestRecord /\ x.jobmanager_state = "TWO_PHASE_COMMITTED"
        /\ Inherits(request, x)
    BY <1>1, InheritsTo
  <1> HIDE DEF x
  <1>3. Inherits(request, request') /\ State' = "TWO_PHASE_COMMITTED"
    BY <1>1, <1>2, InheritsRegister, InheritsOn DEF State
  <1>4. Carried
    BY <1>3, QuietCarried DEF CommitRequest
  <1> QED BY <1>1, <1>3, <1>4, CarriedEarly

\* The end of the two-phase protocol changes nothing but state and timer.
LEMMA InheritsCommitEnd ==
    ASSUME NEW r \in RequestRecord
    PROVE  /\ Inherits(r, CommitEndFrom(r))
           /\ CommitEndFrom(r).jobmanager_state \in
                 {"FAILED_TWO_PHASE_COMMITTED", "TWO_PHASE_END_COMMITTED"}
  <1> DEFINE s == IF r.jobmanager_state = "FAILED_TWO_PHASE"
                    THEN "FAILED_TWO_PHASE_COMMITTED"
                    ELSE "TWO_PHASE_END_COMMITTED"
             x == To(r, s)
  <1>1. s \in ManagerStates /\ CommitEndFrom(r) = Register(x)
    BY DEF CommitEndFrom, ManagerStates
  <1>2. s \in {"FAILED_TWO_PHASE_COMMITTED", "TWO_PHASE_END_COMMITTED"}
    OBVIOUS
  <1> HIDE DEF s
  <1>3. x \in RequestRecord /\ Inherits(r, x) /\ x.jobmanager_state = s
    BY <1>1, InheritsTo
  <1> HIDE DEF x
  <1> QED BY <1>1, <1>2, <1>3, InheritsRegister, InheritsOn

\* COMMIT_END goes on to the clean-up.
LEMMA CommitEndRecovers ==
    ASSUME RequestCore, RecoveryCore, CommitEnd PROVE RecoveryCore'
  <1>1. request \in RequestRecord /\ request' = CommitEndFrom(request)
    BY DEF RequestCore, TypeOK, CommitEnd
  <1>2. /\ Inherits(request, request')
        /\ State' \in {"FAILED_TWO_PHASE_COMMITTED", "TWO_PHASE_END_COMMITTED"}
    BY <1>1, InheritsCommitEnd DEF State
  <1>3. Carried
    BY <1>2, QuietCarried DEF CommitEnd
  <1> QED BY <1>2, <1>3, CarriedLater DEF PreSubmit

\* A client step that leaves the machine where it is.
LEMMA InPlaceRecovers ==
    ASSUME RecoveryCore, Inherits(request, request'), State' = State,
           request'.restart_state = request.restart_state,
           request'.status = request.status,
           UNCHANGED <<rsl, scriptVars, lrmVars, managerVars, state_file, sent>>
    PROVE  RecoveryCore'
  BY QuietCarried, CarriedStays

\* COMMIT_EXTEND only sets a mark.
LEMMA CommitExtendRecovers ==
    ASSUME RequestCore, RecoveryCore, CommitExtend PROVE RecoveryCore'
  <1>1. /\ request \in RequestRecord
        /\ request' = [request EXCEPT !.commit_extend = TRUE]
    BY DEF RequestCore, TypeOK, CommitExtend
  <1>2. /\ Inherits(request, request') /\ State' = State
        /\ request'.restart_state = request.restart_state
        /\ request'.status = request.status
    BY <1>1 DEF RequestRecord, State, Inherits
  <1> QED BY <1>2, InPlaceRecovers DEF CommitExtend

\* A contact comes.
LEMMA RegisterContactRecovers ==
    ASSUME RequestCore, RecoveryCore, NEW c \in Contacts, RegisterContact(c)
    PROVE  RecoveryCore'
  <1>1. /\ request \in RequestRecord
        /\ request' = [request EXCEPT !.client_contacts = @ \union {c}]
    BY DEF RequestCore, TypeOK, RegisterContact
  <1>2. /\ Inherits(request, request') /\ State' = State
        /\ request'.restart_state = request.restart_state
        /\ request'.status = request.status
    BY <1>1 DEF RequestRecord, State, Inherits
  <1> QED BY <1>2, InPlaceRecovers DEF RegisterContact

\* A contact leaves.
LEMMA UnregisterContactRecovers ==
    ASSUME RequestCore, RecoveryCore, NEW c \in Contacts, UnregisterContact(c)
    PROVE  RecoveryCore'
  <1> DEFINE r == [request EXCEPT !.client_contacts = @ \ {c}]
  <1>1. /\ request \in RequestRecord
        /\ request' = CommitEndFrom(r) \/ request' = r
        /\ UNCHANGED <<rsl, scriptVars, lrmVars, managerVars, state_file, sent>>
    BY DEF RequestCore, TypeOK, UnregisterContact
  <1>2. /\ r \in RequestRecord /\ r.jobmanager_state = State
        /\ Inherits(request, r) /\ r.restart_state = request.restart_state
        /\ r.status = request.status
    BY <1>1 DEF RequestRecord, State, Inherits
  <1> HIDE DEF r
  <1>3. CASE request' = r
    BY <1>1, <1>2, <1>3, InPlaceRecovers DEF State
  <1>4. CASE request' = CommitEndFrom(r)
    <2>1. /\ Inherits(request, request')
          /\ State' \in {"FAILED_TWO_PHASE_COMMITTED",
                         "TWO_PHASE_END_COMMITTED"}
      BY <1>2, <1>4, InheritsCommitEnd, InheritsOn DEF State
    <2>2. Carried
      BY <1>1, <2>1, QuietCarried
    <2> QED BY <2>1, <2>2, CarriedLater DEF PreSubmit
  <1> QED BY <1>1, <1>3, <1>4

\* Every query and signal of such a client keeps the invariant.
LEMMA ClientRecovers ==
    ASSUME RequestCore, RecoveryCore, CrashesOnly, Client PROVE RecoveryCore'
  <1>1. ~StopManager /\ ~StdioUpdate
    BY DEF CrashesOnly, StopManager, StdioUpdate, MayAsk
  <1> QED BY <1>1, CancelRecovers, SignalRecovers, CommitRequestRecovers,
             CommitEndRecovers, CommitExtendRecovers, RegisterContactRecovers,
             UnregisterContactRecovers DEF Client

-----------------------------------------------------------------------------
(* The environment keeps it                                                 *)

\* The job id is noted: from the one submit script, whose job the LRM has, so
\* that no other script may submit it and the machine is past the submission.
LEMMA ScriptJobIdRecovers ==
    ASSUME RequestCore, RecoveryCore, NEW i \in DOMAIN scripts, ScriptJobId(i)
    PROVE  RecoveryCore'
  <1>1. /\ TypeOK /\ request \in RequestRecord
        /\ SubmitIn(scripts, i) /\ "ACCEPTED" \in scripts[i].said
        /\ Said(i, "JOB_ID") /\ "JOB_ID" \in ScriptVars
        /\ request' = [request EXCEPT !.job_id_string = "set"]
        /\ UNCHANGED <<rsl, staged_out, lrmVars, registered, sent, state_file>>
    BY DEF RequestCore, TypeOK, ScriptJobId, ScriptVars, SubmitIn
  <1>2. ScriptsKept /\ HonestScripts'
    BY <1>1, SaidHonest DEF RecoveryCore
  <1>3. lrm # "none"
    BY <1>1 DEF RecoveryCore, HonestScripts, Honest
  <1>4. /\ State' = State /\ request'.status = request.status
        /\ request'.restart_state = request.restart_state
        /\ request'.jm_restart = request.jm_restart
        /\ request'.stage_in_todo = request.stage_in_todo
        /\ request'.stage_out_todo = request.stage_out_todo
        /\ request'.failure_code = request.failure_code
    BY <1>1 DEF RequestRecord, State
  <1>5. State' \notin PreSubmit
    BY <1>1, <1>4 DEF RecoveryCore, OneSubmitter, Submitting
  <1>6. \A k \in DOMAIN scripts' :
           SubmitIn(scripts', k) => "ACCEPTED" \in scripts'[k].said
    BY <1>1, <1>2 DEF RecoveryCore, OneSubmitter, ScriptsKept
  <1>7. OneSubmitter'
    <2>1. \A k, j \in DOMAIN scripts' :
             SubmitIn(scripts', k) /\ SubmitIn(scripts', j) => k = j
      BY <1>2 DEF RecoveryCore, OneSubmitter, ScriptsKept
    <2> QED BY <1>5, <1>6, <2>1 DEF OneSubmitter
  <1>8. NotAgain'
    BY <1>5 DEF NotAgain, Heading, PreSubmit, Uncommitted, State
  <1>9. RestartKnown'
    BY <1>4 DEF RecoveryCore, RestartKnown
  <1>10. FileKnown'
    <2>1. Submitting
      BY <1>1 DEF Submitting
    <2> QED BY <1>1, <2>1 DEF RecoveryCore, FileKnown, GoodFile
  <1>11. LrmKnown'
    BY <1>1, <1>3 DEF RecoveryCore, LrmKnown
  <1>12. StageOutKept'
    BY <1>1, <1>4 DEF RecoveryCore, StageOutKept
  <1> QED BY <1>2, <1>7, <1>8, <1>9, <1>10, <1>11, <1>12 DEF RecoveryCore

\* A script says something, and the request stays in its state.
LEMMA SaidRecovers ==
    ASSUME TypeOK, RecoveryCore, NEW i \in DOMAIN scripts,
           NEW var \in ScriptVars \ {"ACCEPTED"}, Said(i, var),
           Inherits(request, request'), State' = State,
           request'.restart_state = request.restart_state,
           request.status = "FAILED" => request'.status = "FAILED",
           UNCHANGED <<rsl, staged_out, lrmVars, registered, sent, state_file>>
    PROVE  RecoveryCore'
  <1>1. ScriptsKept /\ HonestScripts'
    BY SaidHonest DEF RecoveryCore
  <1>2. Carried
    BY <1>1, CarriedBy DEF FileKept
  <1> QED BY <1>2, CarriedStays

\* The LRM's status is reported.
LEMMA ScriptJobStateRecovers ==
    ASSUME RequestCore, RecoveryCore, NEW i \in DOMAIN scripts,
           ScriptJobState(i)
    PROVE  RecoveryCore'
  <1>1. /\ TypeOK /\ request \in RequestRecord
        /\ Said(i, "JOB_STATE") /\ "JOB_STATE" \in ScriptVars \ {"ACCEPTED"}
        /\ request' = ReportStatus(request, lrm)
        /\ UNCHANGED <<rsl, staged_out, lrmVars, registered, sent, state_file>>
    BY DEF RequestCore, TypeOK, ScriptJobState, ScriptVars
  <1>2. lrm \in JobStates
    BY <1>1 DEF ScriptJobState, TypeOK, LrmStates, SegEvents, JobStates
  <1>3. /\ Inherits(request, request') /\ State' = State
        /\ request'.restart_state = request.restart_state
        /\ request.status = "FAILED" => request'.status = "FAILED"
    BY <1>1, <1>2, InheritsReport DEF State
  <1> QED BY <1>1, <1>3, SaidRecovers

\* An error fails the job.
LEMMA ScriptErrorRecovers ==
    ASSUME RequestCore, RecoveryCore, NEW i \in DOMAIN scripts, ScriptError(i)
    PROVE  RecoveryCore'
  <1> DEFINE x == SetStatus(request, "FAILED")
             y == [x EXCEPT !.failure_code = "SCRIPT_ERROR",
                            !.unsent_status_change = TRUE]
  <1>1. /\ TypeOK /\ request \in RequestRecord
        /\ Said(i, "ERROR") /\ "ERROR" \in ScriptVars \ {"ACCEPTED"}
        /\ request' = request \/ request' = y
        /\ UNCHANGED <<rsl, staged_out, lrmVars, registered, sent, state_file>>
    BY DEF RequestCore, TypeOK, ScriptError, ScriptVars
  <1>2. "FAILED" \in JobStates
    BY DEF JobStates
  <1>3. /\ x \in RequestRecord /\ x.jobmanager_state = State
        /\ Inherits(request, x) /\ x.restart_state = request.restart_state
        /\ x.status = "FAILED"
    BY <1>1, <1>2, InheritsStatus DEF State
  <1> HIDE DEF x
  <1>4. /\ y.jobmanager_state = State /\ Inherits(request, y)
        /\ y.restart_state = request.restart_state /\ y.status = "FAILED"
    BY <1>3 DEF RequestRecord, Inherits
  <1> HIDE DEF y
  <1>5. Inherits(request, request)
    BY DEF Inherits
  <1>6. /\ Inherits(request, request') /\ State' = State
        /\ request'.restart_state = request.restart_state
        /\ request.status = "FAILED" => request'.status = "FAILED"
    BY <1>1, <1>4, <1>5 DEF State
  <1> QED BY <1>1, <1>6, SaidRecovers

\* A delivery is noted in the list and in the state file, by a request that is
\* still in the state the script was started in.
LEMMA ScriptStagedOutRecovers ==
    ASSUME RequestCore, RecoveryCore, NEW i \in DOMAIN scripts,
           NEW var \in {"STAGED", "STREAMED"}, ScriptStagedOut(i, var)
    PROVE  RecoveryCore'
  <1>1. /\ TypeOK /\ request \in RequestRecord
        /\ Said(i, var) /\ var \in ScriptVars /\ var # "ACCEPTED"
        /\ staged_out' = (staged_out \/ var = "STAGED")
        /\ UNCHANGED <<rsl, sent, lrmVars, registered>>
    BY DEF RequestCore, TypeOK, ScriptStagedOut, ScriptVars
  <1>2. ScriptsKept /\ HonestScripts'
    BY <1>1, SaidHonest DEF RecoveryCore
  <1>3. \/ /\ \/ /\ request' = [request EXCEPT !.stage_out_todo = FALSE]
                 /\ var = "STAGED"
              \/ request' = [request EXCEPT !.stage_stream_todo = FALSE]
           /\ state_file' = StateFileOf(request') /\ State = "STAGE_OUT"
        \/ request' = request /\ state_file' = state_file
    BY DEF ScriptStagedOut, RecoveryCore, HonestScripts, Honest
  <1>4. /\ State' = State /\ request'.status = request.status
        /\ request'.restart_state = request.restart_state
        /\ request'.jm_restart = request.jm_restart
        /\ request'.stage_in_todo = request.stage_in_todo
        /\ request'.failure_code = request.failure_code
        /\ request'.job_id_string = request.job_id_string
        /\ request'.seg_event_queue = request.seg_event_queue
        /\ request'.stage_out_todo = request.stage_out_todo \/ var = "STAGED"
    BY <1>1, <1>3 DEF RequestRecord, State
  <1>5. Submitting' => Submitting
    BY <1>2 DEF ScriptsKept, Submitting
  <1>6. Heard' = Heard /\ Known' = Known
    BY <1>1, <1>4 DEF Heard, Known
  <1>7. OneSubmitter'
    <2>1. \A k, j \in DOMAIN scripts' :
             SubmitIn(scripts', k) /\ SubmitIn(scripts', j) => k = j
      BY <1>2 DEF RecoveryCore, OneSubmitter, ScriptsKept
    <2>2. \A k \in DOMAIN scripts' :
             SubmitIn(scripts', k) /\ "ACCEPTED" \notin scripts'[k].said
             => ~Known'
      BY <1>2, <1>6 DEF RecoveryCore, OneSubmitter, ScriptsKept
    <2> QED BY <1>4, <1>5, <2>1, <2>2 DEF RecoveryCore, OneSubmitter
  <1>8. NotAgain'
    BY <1>4, <1>6 DEF RecoveryCore, NotAgain, Heading, State
  <1>9. RestartKnown'
    BY <1>4 DEF RecoveryCore, RestartKnown
  <1>10. StageOutKept'
    BY <1>1, <1>4 DEF RecoveryCore, StageOutKept
  <1>11. LrmKnown'
    BY <1>1, <1>6 DEF RecoveryCore, LrmKnown
  <1>12. FileKnown'
    <2>1. CASE state_file' = state_file
      BY <1>1, <1>5, <2>1 DEF RecoveryCore, FileKnown, GoodFile
    <2>2. CASE state_file' = StateFileOf(request') /\ State = "STAGE_OUT"
      <3> DEFINE f == state_file'
      <3>1. /\ f.restart_state = "STAGE_OUT"
            /\ f.job_id_string = request'.job_id_string
            /\ f.stage_in_todo = request'.stage_in_todo
            /\ f.stage_out_todo = request'.stage_out_todo
            /\ f.failure_code = request'.failure_code
        BY <1>4, <2>2 DEF StateFileOf, State
      <3>2. f.restart_state \in Written /\ f.restart_state \notin Resubmit
        BY <3>1 DEF Written, Resubmit
      <3>3. f.job_id_string # "null" => lrm' # "none"
        BY <1>1, <1>4, <3>1 DEF RecoveryCore, LrmKnown, Heard
      <3>4. ~f.stage_in_todo /\ f.failure_code # "STAGE_IN_FAILED"
        BY <1>9, <3>1 DEF RestartKnown
      <3>5. rsl'.stage_out /\ ~staged_out' => f.stage_out_todo
        BY <1>10, <3>1 DEF StageOutKept
      <3> QED BY <3>1, <3>2, <3>3, <3>4, <3>5 DEF GoodFile, FileKnown
    <2> QED BY <1>3, <2>1, <2>2
  <1> QED BY <1>2, <1>7, <1>8, <1>9, <1>10, <1>11, <1>12 DEF RecoveryCore

\* The answer of a cancel or signal script does not revive a failed job.
LEMMA ScriptQueryStateRecovers ==
    ASSUME RequestCore, RecoveryCore, NEW i \in DOMAIN scripts,
           ScriptQueryState(i)
    PROVE  RecoveryCore'
  <1> DEFINE s == QueryReport(scripts[i].query.kind)
             x == SetStatus(request, s)
             c == IF s = "FAILED" THEN "USER_CANCELLED" ELSE x.failure_code
             y == [x EXCEPT !.unsent_status_change = TRUE, !.failure_code = c]
  <1>1. /\ TypeOK /\ request \in RequestRecord
        /\ Said(i, "JOB_STATE") /\ "JOB_STATE" \in ScriptVars \ {"ACCEPTED"}
        /\ \/ request' = request
           \/ /\ request.status # "FAILED"
              /\ request' = [x EXCEPT !.unsent_status_change = TRUE,
                                      !.failure_code = IF s = "FAILED"
                                        THEN "USER_CANCELLED" ELSE @]
        /\ UNCHANGED <<rsl, staged_out, lrmVars, registered, sent, state_file>>
    BY DEF RequestCore, TypeOK, ScriptQueryState, ScriptVars, ValidStateChange
  <1>2. s \in JobStates
    BY DEF QueryReport, JobStates
  <1> HIDE DEF s
  <1>3. /\ x \in RequestRecord /\ x.jobmanager_state = State
        /\ Inherits(request, x) /\ x.restart_state = request.restart_state
    BY <1>1, <1>2, InheritsStatus DEF State
  <1> HIDE DEF x
  <1>4. request' = request \/ (request.status # "FAILED" /\ request' = y)
    BY <1>1
  <1>5. c = "STAGE_IN_FAILED" => x.failure_code = "STAGE_IN_FAILED"
    OBVIOUS
  <1> HIDE DEF c
  <1>6. /\ y.jobmanager_state = State /\ Inherits(x, y)
        /\ y.restart_state = request.restart_state
    BY <1>3, <1>5 DEF RequestRecord, Inherits
  <1> HIDE DEF y
  <1>7. Inherits(request, request)
    BY DEF Inherits
  <1>8. /\ Inherits(request, request') /\ State' = State
        /\ request'.restart_state = request.restart_state
        /\ request.status = "FAILED" => request'.status = "FAILED"
    BY <1>3, <1>4, <1>6, <1>7, InheritsOn DEF State
  <1> QED BY <1>1, <1>8, SaidRecovers

\* A script ends.
LEMMA ScriptDoneRecovers ==
    ASSUME RequestCore, RecoveryCore, NEW i \in DOMAIN scripts,
           NEW broken \in BOOLEAN, ScriptDone(i, broken)
    PROVE  RecoveryCore'
  <1> DEFINE code == IF broken THEN "INVALID_SCRIPT_STATUS"
                               ELSE request.failure_code
             x == [request EXCEPT !.failure_code = code]
  <1>1. /\ TypeOK /\ request \in RequestRecord
        /\ scripts' = SubSeq(scripts, 1, i - 1)
                      \o SubSeq(scripts, i + 1, Len(scripts))
        /\ request' = Register(x)
        /\ UNCHANGED <<rsl, staged_out, lrmVars, registered, sent, state_file>>
    BY DEF RequestCore, TypeOK, ScriptDone
  <1>2. /\ code \in FailureCodes
        /\ code = "STAGE_IN_FAILED" => request.failure_code = "STAGE_IN_FAILED"
    BY <1>1 DEF RequestRecord, FailureCodes
  <1> HIDE DEF code
  <1>3. /\ x \in RequestRecord /\ x.jobmanager_state = State
        /\ Inherits(request, x) /\ x.restart_state = request.restart_state
        /\ x.status = request.status
    BY <1>1, <1>2, InheritsCode DEF State
  <1> HIDE DEF x
  <1>4. /\ Inherits(request, request') /\ State' = State
        /\ request'.restart_state = request.restart_state
        /\ request'.status = request.status
    BY <1>1, <1>3, InheritsRegister, InheritsOn DEF State
  <1>5. ScriptsKept /\ HonestScripts'
    BY <1>1, RemovedHonest DEF RecoveryCore
  <1>6. Carried
    BY <1>1, <1>4, <1>5, CarriedBy DEF FileKept
  <1> QED BY <1>4, <1>6, CarriedStays

\* The LRM takes the job from the one submit script that may still submit, so
\* it was not known before, and nothing leads to the submission again.
LEMMA LrmAcceptsRecovers ==
    ASSUME RequestCore, RecoveryCore, NEW i \in DOMAIN scripts, LrmAccepts(i)
    PROVE  RecoveryCore'
  <1>1. /\ TypeOK /\ SubmitIn(scripts, i)
        /\ "ACCEPTED" \notin scripts[i].said
        /\ Said(i, "ACCEPTED") /\ "ACCEPTED" \in ScriptVars
        /\ submissions \in Nat /\ submissions' = submissions + 1
        /\ lrm' = "PENDING"
        /\ UNCHANGED <<request, rsl, staged_out, sent, registered, state_file>>
    BY DEF RequestCore, TypeOK, LrmAccepts, ScriptVars, SubmitIn
  <1>2. ScriptsKept /\ HonestScripts'
    BY <1>1, SaidHonest DEF RecoveryCore
  <1> DEFINE new == [scripts[i] EXCEPT !.said = @ \union {"ACCEPTED"}]
  <1>3. scripts \in Seq(Scripts) /\ scripts[i] \in Scripts
    BY <1>1 DEF TypeOK
  <1>4. new.cmd = scripts[i].cmd /\ "ACCEPTED" \in new.said
    BY <1>3 DEF Scripts
  <1>5. scripts' = [scripts EXCEPT ![i] = new]
    BY <1>1 DEF Said
  <1> HIDE DEF new
  <1>6. /\ DOMAIN scripts' = DOMAIN scripts /\ scripts'[i] = new
        /\ \A k \in DOMAIN scripts : k # i => scripts'[k] = scripts[k]
    BY <1>3, <1>5
  <1>7. \A k \in DOMAIN scripts : SubmitIn(scripts, k) => k = i
    BY <1>1 DEF RecoveryCore, OneSubmitter
  <1>8. \A k \in DOMAIN scripts' : SubmitIn(scripts', k) => k = i
    BY <1>4, <1>6, <1>7 DEF SubmitIn
  <1>9. Submitting /\ ~Known /\ State' \notin PreSubmit
    BY <1>1 DEF RecoveryCore, OneSubmitter, Submitting, State
  <1>10. OneSubmitter'
    BY <1>4, <1>6, <1>8, <1>9 DEF OneSubmitter
  <1>11. NotAgain'
    BY <1>9 DEF NotAgain, Heading, PreSubmit, Uncommitted, State
  <1>12. RestartKnown' /\ StageOutKept'
    BY <1>1 DEF RecoveryCore, RestartKnown, StageOutKept, State
  <1>13. FileKnown'
    BY <1>1, <1>9 DEF RecoveryCore, FileKnown, GoodFile
  <1>14. LrmKnown'
    <2>1. Condor => submissions = 0
      <3>1. Condor => lrm = "none"
        BY <1>9 DEF Known
      <3>2. lrm = "none" => ~(submissions > 0)
        BY DEF RecoveryCore, LrmKnown
      <3> QED BY <1>1, <3>1, <3>2
    <2>2. submissions' > 0 /\ (Condor => submissions' <= 1)
      BY <1>1, <2>1
    <2> QED BY <1>1, <2>2 DEF LrmKnown
  <1> QED BY <1>2, <1>10, <1>11, <1>12, <1>13, <1>14 DEF RecoveryCore

\* A step of the LRM with a job it has.
LEMMA LrmStepRecovers ==
    ASSUME RecoveryCore, lrm # "none", lrm' # "none",
           ScriptsKept, HonestScripts',
           UNCHANGED <<request, rsl, staged_out, sent, registered, submissions,
                       state_file>>
    PROVE  RecoveryCore'
  <1>1. Heard' = Heard /\ State' = State
    BY DEF Heard, State
  <1>2. Carried
    BY <1>1 DEF Carried, FileKept
  <1> QED BY <1>1, <1>2, CarriedStays

\* The LRM obeys a script.
LEMMA LrmObeysRecovers ==
    ASSUME RequestCore, RecoveryCore, NEW i \in DOMAIN scripts, LrmObeys(i)
    PROVE  RecoveryCore'
  <1>1. /\ TypeOK /\ Said(i, "ACCEPTED") /\ "ACCEPTED" \in ScriptVars
        /\ lrm # "none" /\ lrm' # "none"
        /\ UNCHANGED <<request, rsl, staged_out, sent, registered, submissions,
                       state_file>>
    BY DEF RequestCore, LrmObeys, ScriptVars
  <1>2. ScriptsKept /\ HonestScripts'
    BY <1>1, SaidHonest DEF RecoveryCore
  <1> QED BY <1>1, <1>2, LrmStepRecovers

\* The job moves on in the LRM.
LEMMA LrmMovesRecovers ==
    ASSUME RecoveryCore, LrmMoves PROVE RecoveryCore'
  <1>1. /\ lrm # "none" /\ lrm' # "none"
        /\ UNCHANGED <<request, rsl, scripts, staged_out, sent, registered,
                       submissions, state_file>>
    BY DEF LrmMoves
  <1>2. ScriptsKept /\ HonestScripts'
    BY <1>1, SameHonest DEF RecoveryCore
  <1> QED BY <1>1, <1>2, LrmStepRecovers

\* An event of a job id that is registered, so of a job that was heard of; it
\* may move a waiting machine to POLL1.
LEMMA SegDeliversRecovers ==
    ASSUME RequestCore, RecoveryCore, NEW event \in SegEvents,
           SegDelivers(event)
    PROVE  RecoveryCore'
  <1> DEFINE x == [request EXCEPT !.seg_event_queue = Append(@, event)]
             p == To(x, "POLL1")
  <1>1. /\ request \in RequestRecord /\ request' = Wake(x) /\ registered
        /\ UNCHANGED <<rsl, scriptVars, sent, lrm, submissions, state_file>>
    BY DEF RequestCore, TypeOK, SegDelivers
  <1>2. /\ x \in RequestRecord /\ x.jobmanager_state = State
        /\ x.jm_restart = request.jm_restart
        /\ x.stage_in_todo = request.stage_in_todo
        /\ x.stage_out_todo = request.stage_out_todo
        /\ x.failure_code = request.failure_code
        /\ x.status = request.status
        /\ x.restart_state = request.restart_state
    <2>1. Append(request.seg_event_queue, event) \in Seq(SegEvents)
      BY <1>1 DEF RequestRecord
    <2> QED BY <1>1, <2>1 DEF RequestRecord, State
  <1>3. request' = (IF State = "POLL2" THEN Register(p) ELSE x)
    BY <1>1, <1>2 DEF Wake
  <1> HIDE DEF x
  <1>4. "POLL1" \in ManagerStates
    BY DEF ManagerStates
  <1>5. /\ Inherits(x, Register(p)) /\ Register(p).jobmanager_state = "POLL1"
    BY <1>2, <1>4, InheritsTo, InheritsRegister, InheritsOn
  <1> HIDE DEF p
  <1>6. /\ request'.jm_restart = request.jm_restart
        /\ request'.stage_in_todo = request.stage_in_todo
        /\ request'.stage_out_todo = request.stage_out_todo
        /\ request'.failure_code = "STAGE_IN_FAILED" =>
              request.failure_code = "STAGE_IN_FAILED"
    BY <1>2, <1>3, <1>5 DEF Inherits
  <1>7. Heard /\ lrm # "none"
    BY <1>1 DEF Heard, RecoveryCore, LrmKnown
  <1>8. ScriptsKept /\ HonestScripts'
    BY <1>1, SameHonest DEF RecoveryCore
  <1>9. Carried
    BY <1>1, <1>6, <1>7, <1>8 DEF Carried, FileKept
  <1>10. CASE State = "POLL2"
    <2>1. State' = "POLL1"
      BY <1>3, <1>5, <1>10 DEF State
    <2> QED BY <1>9, <2>1, CarriedLater DEF PreSubmit
  <1>11. CASE State # "POLL2"
    <2>1. /\ State' = State /\ request'.status = request.status
          /\ request'.restart_state = request.restart_state
      BY <1>2, <1>3, <1>11 DEF State
    <2> QED BY <1>9, <2>1, CarriedStays
  <1> QED BY <1>10, <1>11

\* The reply of a restarting callback.
LEMMA CallbackReplyRecovers ==
    ASSUME RequestCore, RecoveryCore, CallbackReply PROVE RecoveryCore'
  <1>1. request \in RequestRecord /\ request' = Register(request)
    BY DEF RequestCore, TypeOK, CallbackReply
  <1>2. /\ Inherits(request, request') /\ State' = State
        /\ request'.restart_state = request.restart_state
        /\ request'.status = request.status
    BY <1>1, InheritsRegister DEF State
  <1> QED BY <1>2, InPlaceRecovers DEF CallbackReply

\* Script output, the LRM, scheduler events and replies keep it; nothing is
\* ever staged in.
LEMMA EnvironmentRecovers ==
    ASSUME RequestCore, RecoveryCore, Environment PROVE RecoveryCore'
  <1>1. CASE ScriptOutput
    <2>1. \A i \in DOMAIN scripts : ~ScriptStagedIn(i)
      BY DEF RecoveryCore, HonestScripts, Honest, ScriptStagedIn
    <2> QED BY <1>1, <2>1, ScriptJobIdRecovers, ScriptJobStateRecovers,
               ScriptErrorRecovers, ScriptStagedOutRecovers,
               ScriptQueryStateRecovers DEF ScriptOutput
  <1>2. CASE ScriptEnds
    BY <1>2, ScriptDoneRecovers DEF ScriptEnds
  <1> QED BY <1>1, <1>2, LrmAcceptsRecovers, LrmObeysRecovers,
             LrmMovesRecovers, SegDeliversRecovers, CallbackReplyRecovers
             DEF Environment

-----------------------------------------------------------------------------
(* A crash keeps it                                                         *)

\* The request a new job manager starts with has what the state file says, and
\* begins after the commit or, if it was polled, in POLL2.
LEMMA ReloadedInherits ==
    ASSUME NEW file \in StateFiles
    PROVE  LET r == Reloaded(file)
           IN /\ Inherits(LoadedRequest(file), r)
              /\ r.jobmanager_state \in {"POLL2", "TWO_PHASE_COMMITTED"}
              /\ r.restart_state = file.restart_state
              /\ r.seg_event_queue = <<>>
  <1> DEFINE l == LoadedRequest(file)
             p == To(l, "POLL2")
  <1>1. /\ l \in RequestRecord /\ l.jobmanager_state = "TWO_PHASE_COMMITTED"
        /\ l.restart_state = file.restart_state
    BY LoadedFacts
  <1>2. SegStarted \in BOOLEAN
    BY ConstantsAssumption
  <1>3. \/ Reloaded(file) = p
        \/ Reloaded(file) = Register(p)
        \/ Reloaded(file) = Register(l)
    BY <1>2 DEF Reloaded
  <1> HIDE DEF l
  <1>4. "POLL2" \in ManagerStates
    BY DEF ManagerStates
  <1>5. /\ p \in RequestRecord /\ p.jobmanager_state = "POLL2"
        /\ Inherits(l, p) /\ p.restart_state = file.restart_state
    BY <1>1, <1>4, InheritsTo
  <1> HIDE DEF p
  <1>6. /\ Inherits(l, Reloaded(file))
        /\ Reloaded(file).jobmanager_state \in {"POLL2", "TWO_PHASE_COMMITTED"}
        /\ Reloaded(file).restart_state = file.restart_state
    BY <1>1, <1>3, <1>5, InheritsRegister, InheritsOn
  <1> QED BY <1>6, ReloadedFacts DEF l

\* The SEG replays events only of a job the LRM has.
LEMMA ReplayedKnown ==
    ASSUME TypeOK, RecoveryCore, Replayed # {} PROVE lrm # "none"
  <1> DEFINE q == request.seg_event_queue
  <1>1. q = <<>> => {q[i] : i \in DOMAIN q} = {}
    <2>1. q = <<>> => DOMAIN q = {}
      OBVIOUS
    <2> QED BY <2>1
  <1>2. CASE seg_events # {} \/ q # <<>>
    BY <1>2 DEF RecoveryCore, LrmKnown, Heard
  <1>3. CASE seg_events = {} /\ q = <<>>
    <2>1. SegEvents \intersect {lrm} # {}
      BY <1>1, <1>3 DEF Replayed
    <2> QED BY <2>1 DEF SegEvents
  <1> QED BY <1>2, <1>3

\* The next job manager has no scripts, and learns from a good state file.
LEMMA CrashRecovers ==
    ASSUME RequestCore, RecoveryCore, CrashAndReload PROVE RecoveryCore'
  <1> DEFINE f == state_file
             l == LoadedRequest(f)
  <1>1. /\ TypeOK /\ f \in StateFiles /\ f # NoStateFile
        /\ request' = Reloaded(f) /\ scripts' = <<>>
        /\ registered' => f.job_id_string = "set"
        /\ seg_events' = Replayed
        /\ UNCHANGED <<rsl, staged_out, sent, lrm, submissions, state_file>>
    BY DEF RequestCore, TypeOK, CrashAndReload
  <1>2. GoodFile(f)
    BY <1>1 DEF RecoveryCore, FileKnown
  <1>3. /\ l.jm_restart /\ l.job_id_string = f.job_id_string
        /\ l.failure_code = f.failure_code
        /\ l.stage_in_todo = f.stage_in_todo
        /\ l.stage_out_todo = f.stage_out_todo
        /\ l.seg_event_queue = <<>>
    BY <1>1, LoadedFacts
  <1>4. /\ Inherits(l, request')
        /\ State' \in {"POLL2", "TWO_PHASE_COMMITTED"}
        /\ request'.restart_state = f.restart_state
        /\ request'.seg_event_queue = <<>>
    BY <1>1, ReloadedInherits DEF State
  <1> HIDE DEF f, l
  <1>5. /\ request'.jm_restart /\ request'.stage_in_todo = f.stage_in_todo
        /\ request'.stage_out_todo = f.stage_out_todo
        /\ request'.failure_code = "STAGE_IN_FAILED" =>
              f.failure_code = "STAGE_IN_FAILED"
        /\ request'.job_id_string # "null" => f.job_id_string # "null"
    BY <1>3, <1>4 DEF Inherits
  <1>6. Heard' => lrm # "none" /\ f.restart_state \notin Resubmit
    BY <1>1, <1>2, <1>4, <1>5 DEF Heard, GoodFile
  <1>7. Known' => f.restart_state \notin Resubmit
    BY <1>1, <1>2, <1>6 DEF Known, GoodFile, Resubmit
  <1>8. DOMAIN scripts' = {}
    BY <1>1
  <1>9. OneSubmitter' /\ HonestScripts' /\ ~Submitting'
    BY <1>8 DEF OneSubmitter, HonestScripts, Submitting
  <1>10. NotAgain'
    BY <1>4, <1>5, <1>7 DEF NotAgain, Heading, Uncommitted, State
  <1>11. RestartKnown'
    BY <1>2, <1>4, <1>5 DEF RestartKnown, GoodFile, Uncommitted
  <1>12. FileKnown'
    BY <1>1, <1>2, <1>9 DEF FileKnown, GoodFile, f
  <1>13. LrmKnown'
    BY <1>1, <1>6, ReplayedKnown DEF RecoveryCore, LrmKnown
  <1>14. StageOutKept'
    BY <1>1, <1>2, <1>5 DEF RecoveryCore, StageOutKept, GoodFile
  <1> QED BY <1>9, <1>10, <1>11, <1>12, <1>13, <1>14 DEF RecoveryCore

-----------------------------------------------------------------------------
(* The theorems                                                             *)

\* A new request satisfies it: nothing was submitted, its files are listed,
\* and its state file says START.
LEMMA InitRecovers ==
    ASSUME CrashesOnly, Init PROVE RecoveryCore
  <1> DEFINE new == NewRequest(rsl)
  <1>1. PICK contacts \in SUBSET Contacts :
            request = StartedRequest(rsl, contacts)
    BY DEF Init
  <1> DEFINE c == [new EXCEPT !.client_contacts = contacts]
             r == Register(c)
             d == [r EXCEPT !.failure_code = "DRYRUN"]
  <1>2. /\ rsl \in Requests /\ ~rsl.stage_in /\ state_file = StateFileOf(new)
    BY DEF Init, CrashesOnly
  <1>3. new \in RequestRecord
    BY <1>2, NewRequestTyped
  <1>4. /\ new.jobmanager_state = "START" /\ ~new.jm_restart
        /\ ~new.stage_in_todo /\ (rsl.stage_out => new.stage_out_todo)
        /\ new.failure_code # "STAGE_IN_FAILED"
        /\ new.job_id_string = "null" /\ new.seg_event_queue = <<>>
    BY <1>2 DEF NewRequest
  <1> HIDE DEF new
  <1>5. c \in RequestRecord /\ c.jobmanager_state = "START" /\ Inherits(new, c)
    BY <1>3, <1>4 DEF RequestRecord, Inherits
  <1> HIDE DEF c
  <1>6. r \in RequestRecord /\ r.jobmanager_state = "START" /\ Inherits(new, r)
    BY <1>5, InheritsRegister, InheritsOn
  <1>7. request = r \/ request = SetStatus(d, "FAILED")
    BY <1>1 DEF StartedRequest, r, c, new
  <1> HIDE DEF r
  <1>8. d \in RequestRecord /\ d.jobmanager_state = "START" /\ Inherits(r, d)
    BY <1>6 DEF RequestRecord, FailureCodes, Inherits
  <1> HIDE DEF d
  <1>9. State = "START" /\ Inherits(new, request)
    <2>1. "FAILED" \in JobStates
      BY DEF JobStates
    <2> QED BY <1>6, <1>7, <1>8, <2>1, InheritsStatus, InheritsOn DEF State
  <1>10. /\ scripts = <<>> /\ DOMAIN scripts = {} /\ submissions = 0
         /\ lrm = "none" /\ seg_events = {} /\ sent = {} /\ ~registered
    BY DEF Init
  <1>11. ~Heard /\ ~Known /\ ~Submitting
    BY <1>4, <1>9, <1>10 DEF Heard, Known, Submitting, Inherits
  <1>12. OneSubmitter /\ HonestScripts /\ NotAgain
    BY <1>10, <1>11 DEF OneSubmitter, HonestScripts, NotAgain, Submitting
  <1>13. RestartKnown
    BY <1>4, <1>9 DEF RestartKnown, Inherits
  <1>14. FileKnown
    <2>1. /\ state_file.restart_state = "START"
          /\ state_file.job_id_string = "null" /\ ~state_file.stage_in_todo
          /\ state_file.failure_code # "STAGE_IN_FAILED"
          /\ rsl.stage_out => state_file.stage_out_todo
      BY <1>2, <1>4 DEF StateFileOf
    <2> QED BY <1>10, <1>11, <2>1 DEF FileKnown, GoodFile
  <1>15. LrmKnown
    BY <1>10, <1>11 DEF LrmKnown
  <1>16. StageOutKept
    BY <1>4, <1>9, <1>10 DEF StageOutKept, Inherits
  <1> QED BY <1>12, <1>13, <1>14, <1>15, <1>16 DEF RecoveryCore

\* Every step keeps it.
LEMMA RecoversStep ==
    ASSUME CrashesOnly, RequestCore, RecoveryCore, [NextRecovery]_recoveryVars
    PROVE  RecoveryCore'
  <1>1. CASE Next
    BY <1>1, TimerFiresRecovers, StateMachineRecovers, ClientRecovers,
       EnvironmentRecovers DEF Next
  <1>2. CASE CrashAndReload
    BY <1>2, CrashRecovers
  <1>3. \A c \in Contacts : ~ClientRestart(c)
    BY DEF CrashesOnly, ClientRestart, MayAsk
  <1>4. CASE UNCHANGED vars
    <2>1. /\ UNCHANGED <<rsl, scriptVars, lrmVars, managerVars, state_file, sent>>
          /\ UNCHANGED request
      BY <1>4 DEF vars
    <2>2. Inherits(request, request') /\ State' = State
      BY <2>1 DEF Inherits, State
    <2> QED BY <2>1, <2>2, InPlaceRecovers
  <1> QED BY <1>1, <1>2, <1>3, <1>4 DEF NextRecovery, recoveryVars

\* The invariant holds for every request without files to stage in, every
\* client that does not restart, update or stop its job, and any number of
\* crashes.
LEMMA RecoveryCoreHolds ==
    ASSUME CrashesOnly PROVE SpecRecovery => []RecoveryCore
  <1>1. InitRecovery => RecoveryCore
    BY InitRecovers DEF InitRecovery
  <1>2. RequestCore /\ RecoveryCore /\ [NextRecovery]_recoveryVars
            => RecoveryCore'
    BY RecoversStep
  <1> QED BY <1>1, <1>2, RequestCoreHolds, PTL DEF SpecRecovery

\* A job whose LRM id is known is not handed to the LRM again by any of the
\* job managers that load its state file one after the other, wherever each of
\* them stops (set_restart_state() and the writes of the state file).
THEOREM KnownJobSafe ==
    ASSUME CrashesOnly PROVE SpecRecovery => []KnownJobNotResubmitted
  <1>1. RecoveryCore => KnownJobNotResubmitted
    <2> SUFFICES ASSUME RecoveryCore, NEW i \in DOMAIN scripts,
                        scripts[i].cmd = "submit",
                        "ACCEPTED" \notin scripts[i].said
                 PROVE  request.job_id_string = "null"
      BY DEF KnownJobNotResubmitted
    <2>1. ~Known
      BY DEF RecoveryCore, OneSubmitter, SubmitIn
    <2>2. Heard => Known
      BY DEF RecoveryCore, LrmKnown, Known
    <2> QED BY <2>1, <2>2 DEF Heard
  <1> QED BY <1>1, RecoveryCoreHolds, PTL

\* With Condor, where a reloaded request in SUBMIT looks for its job in the
\* Condor log before it submits, the LRM gets the job at most once, also when
\* the job manager stops between the submission and the job id.
THEOREM CondorSubmitsOnce ==
    ASSUME CrashesOnly, Condor PROVE SpecRecovery => []AtMostOneSubmission
  <1>1. RecoveryCore => AtMostOneSubmission
    BY DEF RecoveryCore, LrmKnown, AtMostOneSubmission
  <1> QED BY <1>1, RecoveryCoreHolds, PTL

\* Once the LRM may have the job, no state file that a later job manager could
\* read says that it is still to be submitted, however often one was loaded
\* and written before.
THEOREM RecoveredSubmitRecorded ==
    ASSUME CrashesOnly PROVE SpecRecovery => []SubmitRecorded
  <1>1. RecoveryCore => SubmitRecorded
    BY DEF RecoveryCore, LrmKnown, FileKnown, GoodFile, Written,
           SubmitRecorded
  <1> QED BY <1>1, RecoveryCoreHolds, PTL

\* No contact hears that a job with files to stage out is done before they are
\* staged, also when the list was read back from the state file meanwhile.
THEOREM RecoveredStageOut ==
    ASSUME CrashesOnly PROVE SpecRecovery => []StageOutBeforeDone
  <1>1. RequestCore /\ RecoveryCore => StageOutBeforeDone
    BY DEF RecoveryCore, StageOutKept, StageOutBeforeDone, RequestCore, TypeOK
  <1> QED BY <1>1, RequestCoreHolds, RecoveryCoreHolds, PTL

=============================================================================
