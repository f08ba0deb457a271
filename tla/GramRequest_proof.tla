-------------------------- MODULE GramRequest_proof --------------------------
(***************************************************************************)
(* Proofs about GramRequest for every set of RSLs, every contact mask,     *)
(* every set of client operations and all bounds.                          *)
(***************************************************************************)
EXTENDS GramRequest, FiniteSetTheorems, SequenceTheorems, TLAPS

-----------------------------------------------------------------------------
(* The helpers of the model on well-typed requests                          *)

\* What the proofs look at in a request, beside its type: b has the queries,
\* the events and the timer of a.
SameQueues(a, b) ==
    /\ b.pending_queries = a.pending_queries
    /\ b.seg_event_queue = a.seg_event_queue
    /\ b.poll_timer = a.poll_timer

\* A move to another state is a request in that state, nothing else changed.
LEMMA ToFacts ==
    ASSUME NEW r \in RequestRecord, NEW s \in ManagerStates
    PROVE  /\ To(r, s) \in RequestRecord
           /\ To(r, s).jobmanager_state = s
           /\ To(r, s).status = r.status
           /\ SameQueues(r, To(r, s))
  BY DEF RequestRecord, To, SameQueues

\* A new job status changes neither the state nor the queues.
LEMMA SetStatusFacts ==
    ASSUME NEW r \in RequestRecord, NEW s \in JobStates
    PROVE  /\ SetStatus(r, s) \in RequestRecord
           /\ SetStatus(r, s).jobmanager_state = r.jobmanager_state
           /\ SameQueues(r, SetStatus(r, s))
  BY DEF RequestRecord, SetStatus, SameQueues

\* Registering the machine only arms the timer.
LEMMA RegisterFacts ==
    ASSUME NEW r \in RequestRecord
    PROVE  /\ Register(r) \in RequestRecord
           /\ Register(r).jobmanager_state = r.jobmanager_state
           /\ Register(r).pending_queries = r.pending_queries
           /\ Register(r).seg_event_queue = r.seg_event_queue
           /\ Register(r).poll_timer = TRUE
  BY DEF RequestRecord, Register

\* A state file written from a request is well typed.
LEMMA StateFileTyped ==
    ASSUME NEW r \in RequestRecord
    PROVE  StateFileOf(r) \in StateFiles
  BY DEF RequestRecord, StateFiles, StateFileOf

\* A status a script or an event reports changes neither state nor queues.
LEMMA ReportStatusFacts ==
    ASSUME NEW r \in RequestRecord, NEW s \in JobStates
    PROVE  /\ ReportStatus(r, s) \in RequestRecord
           /\ ReportStatus(r, s).jobmanager_state = r.jobmanager_state
           /\ SameQueues(r, ReportStatus(r, s))
  <1> DEFINE new == IF s = "DONE" /\ (rsl.stage_out \/ rsl.stream)
                      THEN "STAGE_OUT" ELSE s
             set == SetStatus(r, new)
  <1>1. new \in JobStates
    BY DEF JobStates
  <1> HIDE DEF new
  <1>2. set \in RequestRecord /\ set.jobmanager_state = r.jobmanager_state
        /\ SameQueues(r, set)
    BY <1>1, SetStatusFacts
  <1> HIDE DEF set
  <1> DEFINE told == [set EXCEPT !.unsent_status_change = TRUE]
  <1>3. told \in RequestRecord /\ told.jobmanager_state = r.jobmanager_state
        /\ SameQueues(r, told)
    BY <1>2 DEF RequestRecord, SameQueues
  <1>4. SameQueues(r, r)
    BY DEF SameQueues
  <1>5. ReportStatus(r, s) = r \/ ReportStatus(r, s) = told
    BY DEF ReportStatus, told, set, new
  <1> HIDE DEF told
  <1> QED BY <1>3, <1>4, <1>5

\* Handling an event takes it off the queue and changes no state.
LEMMA HandleEventFacts ==
    ASSUME NEW r \in RequestRecord, r.seg_event_queue # <<>>
    PROVE  /\ HandleEvent(r) \in RequestRecord
           /\ HandleEvent(r).jobmanager_state = r.jobmanager_state
           /\ HandleEvent(r).pending_queries = r.pending_queries
           /\ HandleEvent(r).poll_timer = r.poll_timer
  <1> DEFINE event    == Head(r.seg_event_queue)
             popped   == [r EXCEPT !.seg_event_queue = Tail(@)]
             finished == [popped EXCEPT
                            !.job_id_string = "empty",
                            !.expected_terminal_state =
                                IF event = "FAILED" THEN "FAILED" ELSE @]
  <1>1. r.seg_event_queue \in Seq(SegEvents)
    BY DEF RequestRecord
  <1>2. event \in SegEvents /\ Tail(r.seg_event_queue) \in Seq(SegEvents)
    BY <1>1, HeadTailProperties
  <1>3. event \in JobStates
    BY <1>2 DEF SegEvents, JobStates
  <1>4. /\ popped \in RequestRecord
        /\ popped.jobmanager_state = r.jobmanager_state
        /\ popped.pending_queries = r.pending_queries
        /\ popped.poll_timer = r.poll_timer
    BY <1>2 DEF RequestRecord
  <1>5. /\ finished \in RequestRecord
        /\ finished.jobmanager_state = r.jobmanager_state
        /\ finished.pending_queries = r.pending_queries
        /\ finished.poll_timer = r.poll_timer
        /\ finished.expected_terminal_state \in {"DONE", "FAILED"}
    BY <1>2, <1>4 DEF RequestRecord, JobIds
  <1>6. finished.expected_terminal_state \in JobStates
    BY <1>5 DEF JobStates
  <1>7. \/ HandleEvent(r) = ReportStatus(finished,
                                         finished.expected_terminal_state)
        \/ HandleEvent(r) = ReportStatus(popped, event)
    BY DEF HandleEvent
  <1> HIDE DEF event, popped, finished
  <1> QED BY <1>3, <1>4, <1>5, <1>6, <1>7, ReportStatusFacts DEF SameQueues

\* What a callback leaves behind: the request of the case that sends it, and,
\* if it is to restart the machine, a timer or a context in flight.
LEMMA CallbackFacts ==
    ASSUME TypeOK, NEW r \in RequestRecord, NEW restart \in BOOLEAN,
           ContactStateCallback(r, restart)
    PROVE  /\ request' \in RequestRecord
           /\ request'.jobmanager_state = r.jobmanager_state
           /\ request'.pending_queries = r.pending_queries
           /\ request'.seg_event_queue = r.seg_event_queue
           /\ r.poll_timer => request'.poll_timer
           /\ restart /\ ~PostFails =>
                 request'.poll_timer \/ restart_callbacks' > 0
           /\ restart_callbacks' \in Nat
           /\ sent' \subseteq JobStates \union {"STOP"}
  <1>1. /\ restart_callbacks \in Nat /\ sent \subseteq JobStates \union {"STOP"}
        /\ r.status \in JobStates
    BY DEF TypeOK, RequestRecord
  <1>2. /\ Register(r) \in RequestRecord
        /\ Register(r).jobmanager_state = r.jobmanager_state
        /\ Register(r).pending_queries = r.pending_queries
        /\ Register(r).seg_event_queue = r.seg_event_queue
        /\ Register(r).poll_timer = TRUE
    BY RegisterFacts
  <1>3. \/ /\ Recipients(r) = {}
           /\ request' = (IF restart THEN Register(r) ELSE r)
           /\ UNCHANGED <<restart_callbacks, sent>>
        \/ /\ request' = r
           /\ sent' = sent \union {IF r.jobmanager_state = "STOP" THEN "STOP"
                                                                ELSE r.status}
           /\ restart_callbacks' =
                 restart_callbacks + (IF restart THEN 1 ELSE 0)
        \/ PostFails /\ request' = r /\ UNCHANGED <<restart_callbacks, sent>>
    BY DEF ContactStateCallback, callbackVars
  <1>4. request' = r \/ request' = Register(r)
    BY <1>3
  <1>5. /\ request' \in RequestRecord
        /\ request'.jobmanager_state = r.jobmanager_state
        /\ request'.pending_queries = r.pending_queries
        /\ request'.seg_event_queue = r.seg_event_queue
        /\ r.poll_timer => request'.poll_timer
    BY <1>2, <1>4
  <1>6. restart_callbacks' \in Nat /\ sent' \subseteq JobStates \union {"STOP"}
    BY <1>1, <1>3
  <1>7. restart /\ ~PostFails => request'.poll_timer \/ restart_callbacks' > 0
    BY <1>1, <1>2, <1>3
  <1> QED BY <1>5, <1>6, <1>7

\* A case that sends nothing.
LEMMA BecomesFacts ==
    ASSUME TypeOK, NEW r, Becomes(r)
    PROVE  /\ request' = r /\ restart_callbacks' = restart_callbacks
           /\ restart_callbacks' \in Nat
           /\ sent' \subseteq JobStates \union {"STOP"}
  BY DEF Becomes, callbackVars, TypeOK

\* Launching a script keeps the older ones.
LEMMA LaunchFacts ==
    ASSUME TypeOK, NEW cmd \in ScriptCmds, NEW start \in ManagerStates,
           NEW query \in Queries, Launch(cmd, start, query)
    PROVE  /\ scripts' \in Seq(Scripts) /\ scripts' # <<>>
           /\ \A i \in DOMAIN scripts' :
                 \/ i \in DOMAIN scripts /\ scripts'[i] = scripts[i]
                 \/ scripts'[i].cmd = cmd
  <1> DEFINE new == [cmd |-> cmd, start |-> start, query |-> query, said |-> {}]
  <1>1. new \in Scripts /\ scripts \in Seq(Scripts) /\ new.cmd = cmd
    BY DEF Scripts, TypeOK
  <1>2. scripts' = Append(scripts, new)
    BY DEF Launch
  <1> HIDE DEF new
  <1> QED BY <1>1, <1>2

\* A script that says something is the same script, with its command.
LEMMA SaidFacts ==
    ASSUME TypeOK, NEW i \in DOMAIN scripts, NEW var \in ScriptVars,
           Said(i, var)
    PROVE  /\ scripts' \in Seq(Scripts) /\ scripts' # <<>>
           /\ DOMAIN scripts' = DOMAIN scripts
           /\ \A k \in DOMAIN scripts : scripts'[k].cmd = scripts[k].cmd
  <1> DEFINE new == [scripts[i] EXCEPT !.said = @ \union {var}]
  <1>1. scripts \in Seq(Scripts) /\ scripts[i] \in Scripts
    BY DEF TypeOK
  <1>2. new \in Scripts /\ new.cmd = scripts[i].cmd
    BY <1>1 DEF Scripts
  <1>3. scripts' = [scripts EXCEPT ![i] = new]
    BY DEF Said
  <1> HIDE DEF new
  <1> QED BY <1>1, <1>2, <1>3

\* The ids of the queued queries are numbers, and there are finitely many.
LEMMA AnsweredFacts ==
    ASSUME TypeOK
    PROVE  AllAnswered(request) \subseteq Nat /\ IsFiniteSet(AllAnswered(request))
  <1> DEFINE q == request.pending_queries
             ids == {q[i].id : i \in DOMAIN q}
  <1>1. q \in Seq(Queries) /\ answered \subseteq Nat /\ IsFiniteSet(answered)
    BY DEF TypeOK, RequestRecord
  <1> HIDE DEF q
  <1>2. \A i \in DOMAIN q : q[i].id \in Nat
    <2>1. \A i \in DOMAIN q : q[i] \in Queries
      BY <1>1
    <2> QED BY <2>1 DEF Queries
  <1>3. DOMAIN q = 1..Len(q) /\ Len(q) \in Nat
    BY <1>1
  <1>4. IsFiniteSet(DOMAIN q)
    BY <1>3, FS_Interval
  <1>5. IsFiniteSet(ids)
    <2> DEFINE f == [i \in DOMAIN q |-> q[i].id]
    <2>1. f \in Surjection(DOMAIN q, ids)
      BY DEF Surjection
    <2> QED BY <1>4, <2>1, FS_Surjection
  <1>6. AllAnswered(request) = answered \union ids
    BY DEF AllAnswered, q
  <1>7. ids \subseteq Nat
    BY <1>2
  <1> HIDE DEF ids
  <1> QED BY <1>1, <1>5, <1>6, <1>7, FS_Union

-----------------------------------------------------------------------------
(* The invariant, one lemma per action                                      *)

USE DEF requestVars, scriptVars, callbackVars, lrmVars, managerVars, clientVars

\* The states from which the machine goes on to the submit script.
ToSubmit == {"TWO_PHASE_COMMITTED", "STAGE_IN", "SUBMIT"}

\* The machine may rest: it is in the loop, or something will run it again.
Awake == \/ running \/ request.poll_timer \/ scripts # <<>>
         \/ restart_callbacks > 0 \/ State \in Resting

\* The invariant without the order of commit and submission, which a restart
\* does not keep.
RequestCore == /\ TypeOK
               /\ QueriesMatchState
               /\ PostFails \/ NoLostWakeup

\* A step that keeps it, and the order of commit and submission with it.
RequestKept == /\ RequestCore'
               /\ PreCommit => PreCommit'

\* What is left to show of a step that keeps the types: it does not start
\* towards the submit script from elsewhere, and it leaves the machine awake
\* or waiting in POLL2 with nothing to do.
LEMMA StepKeeps ==
    ASSUME RequestCore, TypeOK', QueriesMatchState',
           UNCHANGED <<rsl, submissions, committed>>,
           \A i \in DOMAIN scripts' : scripts'[i].cmd = "submit" =>
               \/ State \in ToSubmit
               \/ i \in DOMAIN scripts /\ scripts[i].cmd = "submit"
               \/ \E k \in DOMAIN scripts : scripts[k].cmd = "submit",
           State' \in ToSubmit => State \in ToSubmit \/ ~rsl.two_phase,
           PostFails \/ NoLostWakeup'
    PROVE  RequestKept
  <1>1. PreCommit => PreCommit'
    BY DEF PreCommit, ToSubmit
  <1> QED BY <1>1 DEF RequestCore, RequestKept

\* Most steps leave the scripts alone and lead to a state without queries.
LEMMA MoveKeeps ==
    ASSUME RequestCore, TypeOK',
           State' \notin QueryStates \union {"POLL2"},
           UNCHANGED <<rsl, submissions, committed, scripts>>,
           State' \in ToSubmit => State \in ToSubmit \/ ~rsl.two_phase,
           PostFails \/ Awake'
    PROVE  RequestKept
  <1>1. QueriesMatchState'
    BY DEF QueriesMatchState
  <1>2. PostFails \/ NoLostWakeup'
    BY DEF NoLostWakeup, Awake
  <1> QED BY <1>1, <1>2, StepKeeps

\* The timer starts the loop.
LEMMA TimerFiresStep ==
    ASSUME RequestCore, TimerFires PROVE RequestKept
  <1>1. request \in RequestRecord
    BY DEF RequestCore, TypeOK
  <1>2. /\ request' \in RequestRecord /\ State' = State
        /\ request'.pending_queries = request.pending_queries
    BY <1>1 DEF TimerFires, State, RequestRecord
  <1>3. TypeOK'
    BY <1>2 DEF RequestCore, TypeOK, TimerFires
  <1>4. QueriesMatchState'
    BY <1>2 DEF RequestCore, QueriesMatchState
  <1>5. NoLostWakeup'
    BY DEF TimerFires, NoLostWakeup
  <1> QED BY <1>2, <1>3, <1>4, <1>5, StepKeeps DEF TimerFires

\* START leaves for TWO_PHASE, with its timeout armed or in the loop.
LEMMA CaseStartStep ==
    ASSUME RequestCore, CaseStart PROVE RequestKept
  <1> DEFINE r == To(request, "TWO_PHASE")
  <1>1. TypeOK /\ request \in RequestRecord
    BY DEF RequestCore, TypeOK
  <1>2. r \in RequestRecord /\ r.jobmanager_state = "TWO_PHASE"
    BY <1>1, ToFacts DEF ManagerStates
  <1>3. \/ Becomes(r) /\ running' = TRUE
        \/ Becomes(Register(r)) /\ running' = FALSE
    BY DEF CaseStart, Sleep, KeepLoop
  <1> HIDE DEF r
  <1>4. /\ request' \in RequestRecord /\ State' = "TWO_PHASE"
        /\ running' \/ request'.poll_timer
    BY <1>2, <1>3, RegisterFacts DEF Becomes, State
  <1>5. TypeOK'
    BY <1>1, <1>3, <1>4 DEF TypeOK, CaseStart, Becomes
  <1> QED
    BY <1>4, <1>5, MoveKeeps DEF CaseStart, QueryStates, ToSubmit, Awake

\* TWO_PHASE extends its timeout, goes on when no commit is needed, or ends.
LEMMA CaseTwoPhaseStep ==
    ASSUME RequestCore, CaseTwoPhase PROVE RequestKept
  <1>1. TypeOK /\ request \in RequestRecord /\ State = "TWO_PHASE"
    BY DEF RequestCore, TypeOK, CaseTwoPhase, At
  <1> DEFINE extended == [request EXCEPT !.commit_extend = FALSE]
  <1>2. extended \in RequestRecord /\ extended.jobmanager_state = "TWO_PHASE"
    BY <1>1 DEF RequestRecord, State
  <1>3. /\ TwoPhaseExpired \in RequestRecord
        /\ TwoPhaseExpired.jobmanager_state \in {"STOP", "FAILED"}
    <2> DEFINE f == To(request, "FAILED")
    <2>1. f \in RequestRecord /\ f.jobmanager_state = "FAILED"
      BY <1>1, ToFacts DEF ManagerStates
    <2>2. \/ TwoPhaseExpired = To(request, "STOP")
          \/ TwoPhaseExpired = [f EXCEPT !.failure_code = "COMMIT_TIMED_OUT",
                                         !.unsent_status_change = TRUE]
      BY DEF TwoPhaseExpired
    <2>3. CASE TwoPhaseExpired = To(request, "STOP")
      BY <1>1, <2>3, ToFacts DEF ManagerStates
    <2> HIDE DEF f
    <2>4. CASE TwoPhaseExpired = [f EXCEPT !.failure_code = "COMMIT_TIMED_OUT",
                                           !.unsent_status_change = TRUE]
      BY <2>1, <2>4 DEF RequestRecord, FailureCodes
    <2> QED BY <2>2, <2>3, <2>4
  <1>4. \/ Becomes(Register(extended)) /\ running' = FALSE
        \/ /\ ~rsl.two_phase /\ Becomes(To(request, "TWO_PHASE_COMMITTED"))
           /\ running' = TRUE
        \/ Becomes(TwoPhaseExpired) /\ running' = TRUE
    BY DEF CaseTwoPhase, Sleep, KeepLoop
  <1> HIDE DEF extended
  <1>5. /\ request' \in RequestRecord
        /\ \/ State' = "TWO_PHASE" /\ request'.poll_timer
           \/ State' = "TWO_PHASE_COMMITTED" /\ ~rsl.two_phase /\ running'
           \/ State' \in {"STOP", "FAILED"} /\ running'
    <2>1. /\ Register(extended) \in RequestRecord
          /\ Register(extended).jobmanager_state = "TWO_PHASE"
          /\ Register(extended).poll_timer
      BY <1>2, RegisterFacts
    <2>2. /\ To(request, "TWO_PHASE_COMMITTED") \in RequestRecord
          /\ To(request, "TWO_PHASE_COMMITTED").jobmanager_state
               = "TWO_PHASE_COMMITTED"
      BY <1>1, ToFacts DEF ManagerStates
    <2> QED BY <1>3, <1>4, <2>1, <2>2 DEF Becomes, State
  <1>6. TypeOK'
    BY <1>1, <1>4, <1>5 DEF TypeOK, CaseTwoPhase, Becomes
  <1> QED
    BY <1>5, <1>6, MoveKeeps DEF CaseTwoPhase, QueryStates, ToSubmit, Awake

\* A request that moves on with a new status nobody was told of yet.
Told(r, s, m) == [To(SetStatus(r, s), m) EXCEPT !.unsent_status_change = TRUE]

\* It changes neither queues nor timer.
LEMMA ToldFacts ==
    ASSUME NEW r \in RequestRecord, NEW s \in JobStates, NEW m \in ManagerStates
    PROVE  /\ Told(r, s, m) \in RequestRecord
           /\ Told(r, s, m).jobmanager_state = m
           /\ SameQueues(r, Told(r, s, m))
  <1> DEFINE x == To(SetStatus(r, s), m)
  <1>1. SetStatus(r, s) \in RequestRecord /\ SameQueues(r, SetStatus(r, s))
    BY SetStatusFacts
  <1>2. x \in RequestRecord /\ x.jobmanager_state = m /\ SameQueues(r, x)
    BY <1>1, ToFacts DEF SameQueues
  <1>3. Told(r, s, m) = [x EXCEPT !.unsent_status_change = TRUE]
    BY DEF Told
  <1> HIDE DEF x
  <1> QED BY <1>2, <1>3 DEF RequestRecord, SameQueues

\* set_restart_state() leaves a request that goes on to SUBMIT, to POLL1 or
\* back to TWO_PHASE_COMMITTED.
LEMMA RestartFacts ==
    ASSUME NEW r \in RequestRecord
    PROVE  /\ SetRestartState(r) \in RequestRecord
           /\ SetRestartState(r).jobmanager_state \in
                 {"SUBMIT", "POLL1", "TWO_PHASE_COMMITTED", r.jobmanager_state}
  <1> DEFINE cleared == [r EXCEPT !.failure_code = "SUCCESS"]
             submit  == To(r, "SUBMIT")
             found   == [submit EXCEPT !.job_id_string = "set",
                                       !.status = "PENDING"]
  <1>1. SetRestartState(r) \in
            {found, submit, r, Told(r, "DONE", "POLL1"),
             Told(cleared, "STAGE_OUT", "POLL1"),
             Told(cleared, "UNSUBMITTED", "TWO_PHASE_COMMITTED"),
             Told(r, "FAILED", "POLL1")}
    BY DEF SetRestartState, Told
  <1>2. cleared \in RequestRecord
    BY DEF RequestRecord, FailureCodes
  <1>3. submit \in RequestRecord /\ submit.jobmanager_state = "SUBMIT"
    BY ToFacts DEF ManagerStates
  <1> HIDE DEF cleared, submit
  <1>4. found \in RequestRecord /\ found.jobmanager_state = "SUBMIT"
    BY <1>3 DEF RequestRecord, JobIds, JobStates
  <1>5. /\ "DONE" \in JobStates /\ "STAGE_OUT" \in JobStates
        /\ "UNSUBMITTED" \in JobStates /\ "FAILED" \in JobStates
        /\ "POLL1" \in ManagerStates /\ "TWO_PHASE_COMMITTED" \in ManagerStates
    BY DEF JobStates, ManagerStates
  <1> HIDE DEF found
  <1>6. /\ Told(r, "DONE", "POLL1") \in RequestRecord
        /\ Told(r, "DONE", "POLL1").jobmanager_state = "POLL1"
    BY <1>5, ToldFacts
  <1>7. /\ Told(cleared, "STAGE_OUT", "POLL1") \in RequestRecord
        /\ Told(cleared, "STAGE_OUT", "POLL1").jobmanager_state = "POLL1"
    BY <1>2, <1>5, ToldFacts
  <1>8. /\ Told(cleared, "UNSUBMITTED", "TWO_PHASE_COMMITTED") \in RequestRecord
        /\ Told(cleared, "UNSUBMITTED", "TWO_PHASE_COMMITTED").jobmanager_state
              = "TWO_PHASE_COMMITTED"
    BY <1>2, <1>5, ToldFacts
  <1>9. /\ Told(r, "FAILED", "POLL1") \in RequestRecord
        /\ Told(r, "FAILED", "POLL1").jobmanager_state = "POLL1"
    BY <1>5, ToldFacts
  <1> QED BY <1>1, <1>3, <1>4, <1>6, <1>7, <1>8, <1>9

\* EnterStageIn is a request in STAGE_IN.
LEMMA EnterStageInFacts ==
    ASSUME TypeOK
    PROVE  /\ EnterStageIn \in RequestRecord
           /\ EnterStageIn.jobmanager_state = "STAGE_IN"
  <1> DEFINE x == IF request.jm_restart THEN SetRestartState(request)
                                        ELSE request
  <1>1. request \in RequestRecord
    BY DEF TypeOK
  <1>2. x \in RequestRecord
    BY <1>1, RestartFacts
  <1>3. EnterStageIn = To(x, "STAGE_IN")
    BY DEF EnterStageIn
  <1> HIDE DEF x
  <1> QED BY <1>2, <1>3, ToFacts DEF ManagerStates

\* A committed request starts its stage-in script or goes on in the loop.
LEMMA CaseTwoPhaseCommittedStep ==
    ASSUME RequestCore, CaseTwoPhaseCommitted PROVE RequestKept
  <1>1. TypeOK /\ request \in RequestRecord /\ State = "TWO_PHASE_COMMITTED"
    BY DEF RequestCore, TypeOK, CaseTwoPhaseCommitted, At
  <1>2. CASE /\ request.jm_restart /\ RestartStateChanges(request)
             /\ Becomes(SetRestartState(request))
             /\ seg_pause_count' = seg_pause_count
                                   + (IF CondorJobFound THEN 1 ELSE 0)
             /\ KeepLoop
             /\ UNCHANGED scriptVars
    <2>1. /\ request' \in RequestRecord
          /\ State' \in {"SUBMIT", "POLL1", "TWO_PHASE_COMMITTED"}
      BY <1>1, <1>2, RestartFacts DEF Becomes, State
    <2>2. TypeOK' /\ running' = TRUE
      BY <1>1, <1>2, <2>1
         DEF TypeOK, CaseTwoPhaseCommitted, Becomes, KeepLoop
    <2> QED BY <1>1, <1>2, <2>1, <2>2, MoveKeeps
            DEF CaseTwoPhaseCommitted, QueryStates, ToSubmit, Awake
  <1>3. CASE /\ ~rsl.stage_in
             /\ Becomes(EnterStageIn)
             /\ KeepLoop
             /\ UNCHANGED <<seg_pause_count, scriptVars>>
    <2>1. request' \in RequestRecord /\ State' = "STAGE_IN"
      BY <1>1, <1>3, EnterStageInFacts DEF Becomes, State
    <2>2. TypeOK' /\ running' = TRUE
      BY <1>1, <1>3, <2>1
         DEF TypeOK, CaseTwoPhaseCommitted, Becomes, KeepLoop
    <2> QED BY <1>1, <1>3, <2>1, <2>2, MoveKeeps
            DEF CaseTwoPhaseCommitted, QueryStates, ToSubmit, Awake
  <1> DEFINE r == SetStatus(EnterStageIn, "STAGE_IN")
             f == [To(r, "FAILED") EXCEPT !.failure_code = "MALLOC_FAILED"]
  <1>4. r \in RequestRecord /\ r.jobmanager_state = "STAGE_IN"
    BY <1>1, EnterStageInFacts, SetStatusFacts DEF JobStates
  <1>5. CASE /\ IF rsl.dry_run THEN Becomes(r)
                               ELSE ContactStateCallback(r, FALSE)
             /\ Launch("stage_in", "STAGE_IN", NoQuery)
             /\ UNCHANGED <<staged_out, seg_pause_count>>
             /\ Sleep
    <2> HIDE DEF r
    <2>1. /\ request' \in RequestRecord /\ State' = "STAGE_IN"
          /\ restart_callbacks' \in Nat
          /\ sent' \subseteq JobStates \union {"STOP"}
      BY <1>1, <1>4, <1>5, BecomesFacts, CallbackFacts DEF State
    <2>2. scripts' \in Seq(Scripts) /\ scripts' # <<>>
          /\ \A i \in DOMAIN scripts' :
                \/ i \in DOMAIN scripts /\ scripts'[i] = scripts[i]
                \/ scripts'[i].cmd = "stage_in"
      <3>1. /\ "stage_in" \in ScriptCmds /\ "STAGE_IN" \in ManagerStates
            /\ NoQuery \in Queries
        BY DEF ScriptCmds, ManagerStates, NoQuery, Queries, QueryKinds
      <3> QED BY <1>1, <1>5, <3>1, LaunchFacts
    <2>3. TypeOK'
      BY <1>1, <1>5, <2>1, <2>2 DEF TypeOK, CaseTwoPhaseCommitted, Sleep
    <2>4. QueriesMatchState' /\ NoLostWakeup'
      BY <2>1, <2>2 DEF QueriesMatchState, QueryStates, NoLostWakeup
    <2> QED BY <1>1, <2>1, <2>2, <2>3, <2>4, StepKeeps
            DEF CaseTwoPhaseCommitted, ToSubmit
  <1>6. CASE /\ IF rsl.dry_run THEN Becomes(f) ELSE ContactStateCallback(f, FALSE)
             /\ UNCHANGED <<scriptVars, seg_pause_count>>
             /\ KeepLoop
    <2>1. f \in RequestRecord /\ f.jobmanager_state = "FAILED"
      <3> HIDE DEF r
      <3> DEFINE x == To(r, "FAILED")
      <3>1. x \in RequestRecord /\ x.jobmanager_state = "FAILED"
        BY <1>4, ToFacts DEF ManagerStates
      <3> HIDE DEF x
      <3>2. /\ [x EXCEPT !.failure_code = "MALLOC_FAILED"] \in RequestRecord
            /\ [x EXCEPT !.failure_code = "MALLOC_FAILED"].jobmanager_state
                  = "FAILED"
        BY <3>1 DEF RequestRecord, FailureCodes
      <3> QED BY <3>2 DEF x
    <2> HIDE DEF r, f
    <2>2. /\ request' \in RequestRecord /\ State' = "FAILED"
          /\ restart_callbacks' \in Nat
          /\ sent' \subseteq JobStates \union {"STOP"}
      BY <1>1, <1>6, <2>1, BecomesFacts, CallbackFacts DEF State
    <2>3. TypeOK' /\ running' = TRUE
      BY <1>1, <1>6, <2>2 DEF TypeOK, CaseTwoPhaseCommitted, KeepLoop
    <2> QED BY <1>1, <1>6, <2>2, <2>3, MoveKeeps
            DEF CaseTwoPhaseCommitted, QueryStates, ToSubmit, Awake
  <1> QED BY <1>2, <1>3, <1>5, <1>6 DEF CaseTwoPhaseCommitted

\* STAGE_IN starts the submit script, or fails in the loop.
LEMMA CaseStageInStep ==
    ASSUME RequestCore, CaseStageIn PROVE RequestKept
  <1>1. TypeOK /\ request \in RequestRecord /\ State = "STAGE_IN"
    BY DEF RequestCore, TypeOK, CaseStageIn, At
  <1>2. CASE /\ Becomes([To(request, "FAILED") EXCEPT
                           !.failure_code = IF @ = "SUCCESS"
                                              THEN "STAGE_IN_FAILED" ELSE @])
             /\ KeepLoop
             /\ UNCHANGED <<scriptVars, seg_pause_count, state_file>>
    <2> DEFINE x == To(request, "FAILED")
    <2>1. x \in RequestRecord /\ x.jobmanager_state = "FAILED"
      BY <1>1, ToFacts DEF ManagerStates
    <2>2. request' = [x EXCEPT !.failure_code = IF @ = "SUCCESS"
                                              THEN "STAGE_IN_FAILED" ELSE @]
      BY <1>2 DEF Becomes
    <2> HIDE DEF x
    <2>3. request' \in RequestRecord /\ State' = "FAILED"
      BY <2>1, <2>2 DEF RequestRecord, FailureCodes, State
    <2>4. TypeOK' /\ running' = TRUE
      BY <1>1, <1>2, <2>3 DEF TypeOK, CaseStageIn, Becomes, KeepLoop
    <2> QED BY <1>1, <1>2, <2>3, <2>4, MoveKeeps
            DEF CaseStageIn, QueryStates, ToSubmit, Awake
  <1>3. CASE /\ Becomes(To(request, IF rsl.dry_run
                                      THEN "FAILED_TWO_PHASE_COMMITTED"
                                      ELSE "FAILED"))
             /\ KeepLoop
             /\ UNCHANGED <<scriptVars, seg_pause_count, state_file>>
    <2>1. /\ To(request, "FAILED") \in RequestRecord
          /\ To(request, "FAILED").jobmanager_state = "FAILED"
      BY <1>1, ToFacts DEF ManagerStates
    <2>2. /\ To(request, "FAILED_TWO_PHASE_COMMITTED") \in RequestRecord
          /\ To(request, "FAILED_TWO_PHASE_COMMITTED").jobmanager_state
                = "FAILED_TWO_PHASE_COMMITTED"
      BY <1>1, ToFacts DEF ManagerStates
    <2>3. \/ request' = To(request, "FAILED")
          \/ request' = To(request, "FAILED_TWO_PHASE_COMMITTED")
      BY <1>3 DEF Becomes
    <2>4. /\ request' \in RequestRecord
          /\ State' \in {"FAILED", "FAILED_TWO_PHASE_COMMITTED"}
      BY <2>1, <2>2, <2>3 DEF State
    <2>5. TypeOK' /\ running' = TRUE
      BY <1>1, <1>3, <2>4 DEF TypeOK, CaseStageIn, Becomes, KeepLoop
    <2> QED BY <1>1, <1>3, <2>4, <2>5, MoveKeeps
            DEF CaseStageIn, QueryStates, ToSubmit, Awake
  <1> DEFINE s == To(request, "SUBMIT")
             r == [s EXCEPT !.restart_state = "SUBMIT"]
  <1>4. s \in RequestRecord /\ s.jobmanager_state = "SUBMIT"
    BY <1>1, ToFacts DEF ManagerStates
  <1>5. r \in RequestRecord /\ r.jobmanager_state = "SUBMIT"
    <2> HIDE DEF s
    <2> QED BY <1>4 DEF RequestRecord, ManagerStates
  <1>6. SubmitFile(r) \in StateFiles
    BY <1>5, StateFileTyped DEF SubmitFile
  <1>7. CASE /\ state_file' = SubmitFile(r)
             /\ Becomes(r)
             /\ Launch("submit", "SUBMIT", NoQuery)
             /\ seg_pause_count' = seg_pause_count + 1
             /\ Sleep
             /\ UNCHANGED staged_out
    <2> HIDE DEF s, r
    <2>1. request' \in RequestRecord /\ State' = "SUBMIT"
      BY <1>5, <1>7 DEF Becomes, State
    <2>2. scripts' \in Seq(Scripts) /\ scripts' # <<>>
      <3>1. /\ "submit" \in ScriptCmds /\ "SUBMIT" \in ManagerStates
            /\ NoQuery \in Queries
        BY DEF ScriptCmds, ManagerStates, NoQuery, Queries, QueryKinds
      <3> QED BY <1>1, <1>7, <3>1, LaunchFacts
    <2>3. TypeOK'
      <3>1. /\ UNCHANGED <<rsl, lrmVars, registered, clientVars, staged_out>>
            /\ UNCHANGED callbackVars /\ running' = FALSE
        BY <1>7 DEF CaseStageIn, Becomes, Sleep
      <3>2. state_file' \in StateFiles /\ seg_pause_count' \in Int
        BY <1>1, <1>6, <1>7 DEF TypeOK
      <3> QED BY <1>1, <2>1, <2>2, <3>1, <3>2 DEF TypeOK
    <2>4. QueriesMatchState' /\ NoLostWakeup'
      BY <2>1, <2>2 DEF QueriesMatchState, QueryStates, NoLostWakeup
    <2> QED BY <1>1, <2>1, <2>3, <2>4, StepKeeps DEF CaseStageIn, ToSubmit
  <1> DEFINE code == IF rsl.dry_run THEN "DRYRUN" ELSE "MALLOC_FAILED"
             c == [r EXCEPT !.failure_code = code]
             f == SetStatus(c, "FAILED")
             g == To(f, "FAILED")
             h == [g EXCEPT !.unsent_status_change = TRUE]
  <1>8. CASE /\ state_file' = SubmitFile(r)
             /\ Becomes(IF rsl.dry_run THEN f ELSE h)
             /\ KeepLoop
             /\ UNCHANGED <<scriptVars, seg_pause_count>>
    <2> HIDE DEF s, r
    <2>1. c \in RequestRecord /\ c.jobmanager_state = "SUBMIT"
      BY <1>5 DEF RequestRecord, FailureCodes
    <2> HIDE DEF c
    <2>2. f \in RequestRecord /\ f.jobmanager_state = "SUBMIT"
      BY <2>1, SetStatusFacts DEF JobStates
    <2> HIDE DEF f
    <2>3. g \in RequestRecord /\ g.jobmanager_state = "FAILED"
      BY <2>2, ToFacts DEF ManagerStates
    <2> HIDE DEF g
    <2>4. h \in RequestRecord /\ h.jobmanager_state = "FAILED"
      BY <2>3 DEF RequestRecord
    <2> HIDE DEF h
    <2>5. request' = f \/ request' = h
      BY <1>8 DEF Becomes
    <2>6. request' \in RequestRecord /\ State' \in {"SUBMIT", "FAILED"}
      BY <2>2, <2>4, <2>5 DEF State
    <2>7. TypeOK' /\ running' = TRUE
      BY <1>1, <1>6, <1>8, <2>6 DEF TypeOK, CaseStageIn, KeepLoop, Becomes
    <2> QED BY <1>1, <1>8, <2>6, <2>7, MoveKeeps
            DEF CaseStageIn, QueryStates, ToSubmit, Awake
  <1> QED BY <1>2, <1>3, <1>7, <1>8 DEF CaseStageIn

\* POLL1, whoever enters it: the types, and either the loop goes on, or a timer
\* is armed, or the machine waits in POLL2 with both queues empty.
LEMMA PollFacts ==
    ASSUME TypeOK, NEW r \in RequestRecord, NEW first \in BOOLEAN,
           NEW file \in StateFiles \union {NoStateFile}, Poll(r, file, first)
    PROVE  /\ request' \in RequestRecord /\ running' \in BOOLEAN
           /\ restart_callbacks' \in Nat
           /\ sent' \subseteq JobStates \union {"STOP"}
           /\ state_file' \in StateFiles \union {NoStateFile}
           /\ State' \in {"FAILED", "PRE_CLOSE_OUTPUT", "POLL_QUERY1", "POLL1",
                          "POLL2"}
           /\ State' = "POLL_QUERY1" => request'.pending_queries # <<>>
           /\ State' = "POLL2" => request'.pending_queries = <<>>
           /\ \/ running' \/ request'.poll_timer
              \/ /\ State' = "POLL2" /\ SegStarted
                 /\ request'.seg_event_queue = <<>>
  <1> DEFINE seen  == IF r.seg_event_queue # <<>> THEN HandleEvent(r) ELSE r
             saved == IF seen.unsent_status_change
                        THEN [seen EXCEPT !.restart_state = "POLL1"] ELSE seen
             told  == [saved EXCEPT !.unsent_status_change = FALSE]
             tell(next) == IF saved.unsent_status_change
                             THEN ContactStateCallback(next, FALSE)
                             ELSE Becomes(next)
  <1>1. seen \in RequestRecord
    BY HandleEventFacts
  <1>2. saved \in RequestRecord
    <2> HIDE DEF seen
    <2>1. "POLL1" \in ManagerStates
      BY DEF ManagerStates
    <2>2. [seen EXCEPT !.restart_state = "POLL1"] \in RequestRecord
      BY <1>1, <2>1 DEF RequestRecord
    <2> QED BY <1>1, <2>2
  <1>3. /\ told \in RequestRecord
        /\ told.pending_queries = saved.pending_queries
        /\ told.seg_event_queue = saved.seg_event_queue
    <2> HIDE DEF saved
    <2> QED BY <1>2 DEF RequestRecord
  <1>4. state_file' \in StateFiles \union {NoStateFile}
    <2>1. state_file' = IF seen.unsent_status_change
                          THEN StateFileOf(saved) ELSE file
      BY DEF Poll
    <2> HIDE DEF saved, seen
    <2> QED BY <1>2, <2>1, StateFileTyped
  <1>5. \/ Becomes(To(saved, "FAILED")) /\ KeepLoop
        \/ Becomes(To(saved, "PRE_CLOSE_OUTPUT")) /\ KeepLoop
        \/ /\ saved.pending_queries # <<>>
           /\ tell(To(told, "POLL_QUERY1")) /\ KeepLoop
        \/ /\ saved.pending_queries = <<>>
           /\ tell(Register(To(told, "POLL2"))) /\ Sleep
        \/ /\ saved.pending_queries = <<>>
           /\ tell(To(told, "POLL2")) /\ KeepLoop
        \/ tell(To(told, "POLL1")) /\ KeepLoop
        \/ /\ saved.pending_queries = <<>> /\ SegStarted
           /\ saved.seg_event_queue = <<>>
           /\ tell(To(told, "POLL2")) /\ Sleep
    BY DEF Poll
  <1> HIDE DEF seen, saved, told
  <1>6. ASSUME NEW next \in RequestRecord, tell(next)
        PROVE  /\ request' \in RequestRecord
               /\ request'.jobmanager_state = next.jobmanager_state
               /\ request'.pending_queries = next.pending_queries
               /\ request'.seg_event_queue = next.seg_event_queue
               /\ next.poll_timer => request'.poll_timer
               /\ restart_callbacks' \in Nat
               /\ sent' \subseteq JobStates \union {"STOP"}
    <2>1. CASE ContactStateCallback(next, FALSE)
      BY <2>1, CallbackFacts
    <2>2. CASE Becomes(next)
      BY <2>2, BecomesFacts
    <2> QED BY <1>6, <2>1, <2>2
  <1>7. ASSUME NEW s \in {"POLL_QUERY1", "POLL1", "POLL2"}
        PROVE  /\ To(told, s) \in RequestRecord
               /\ To(told, s).jobmanager_state = s
               /\ To(told, s).pending_queries = saved.pending_queries
               /\ To(told, s).seg_event_queue = saved.seg_event_queue
    BY <1>3, ToFacts DEF ManagerStates, SameQueues
  <1>8. ASSUME NEW s \in {"FAILED", "PRE_CLOSE_OUTPUT"}, Becomes(To(saved, s))
        PROVE  /\ request' \in RequestRecord /\ State' = s
               /\ restart_callbacks' \in Nat
               /\ sent' \subseteq JobStates \union {"STOP"}
    <2>1. To(saved, s) \in RequestRecord /\ To(saved, s).jobmanager_state = s
      BY <1>2, ToFacts DEF ManagerStates
    <2> QED BY <1>8, <2>1, BecomesFacts DEF State
  <1>9. CASE \/ Becomes(To(saved, "FAILED")) /\ KeepLoop
             \/ Becomes(To(saved, "PRE_CLOSE_OUTPUT")) /\ KeepLoop
    BY <1>4, <1>8, <1>9 DEF KeepLoop
  <1>10. CASE /\ saved.pending_queries # <<>>
              /\ tell(To(told, "POLL_QUERY1")) /\ KeepLoop
    BY <1>4, <1>6, <1>7, <1>10 DEF KeepLoop, State
  <1>11. CASE /\ saved.pending_queries = <<>>
              /\ tell(Register(To(told, "POLL2"))) /\ Sleep
    <2> DEFINE x == Register(To(told, "POLL2"))
    <2>1. x \in RequestRecord /\ x.jobmanager_state = "POLL2"
          /\ x.pending_queries = <<>> /\ x.poll_timer = TRUE
      BY <1>7, <1>11, RegisterFacts
    <2>2. tell(x) /\ running' = FALSE
      BY <1>11 DEF Sleep
    <2> HIDE DEF x
    <2> QED BY <1>4, <1>6, <2>1, <2>2 DEF State
  <1>12. CASE /\ saved.pending_queries = <<>>
              /\ tell(To(told, "POLL2")) /\ KeepLoop
    BY <1>4, <1>6, <1>7, <1>12 DEF KeepLoop, State
  <1>13. CASE tell(To(told, "POLL1")) /\ KeepLoop
    BY <1>4, <1>6, <1>7, <1>13 DEF KeepLoop, State
  <1>14. CASE /\ saved.pending_queries = <<>> /\ SegStarted
              /\ saved.seg_event_queue = <<>>
              /\ tell(To(told, "POLL2")) /\ Sleep
    BY <1>4, <1>6, <1>7, <1>14 DEF Sleep, State
  <1> QED BY <1>5, <1>9, <1>10, <1>11, <1>12, <1>13, <1>14

\* A step that polls keeps the invariant.
LEMMA PollStep ==
    ASSUME RequestCore, NEW r \in RequestRecord, NEW first \in BOOLEAN,
           NEW file \in StateFiles \union {NoStateFile}, Poll(r, file, first),
           UNCHANGED <<rsl, scriptVars, lrmVars, clientVars>>,
           seg_pause_count' \in Int, registered' \in BOOLEAN
    PROVE  RequestKept
  <1>1. TypeOK
    BY DEF RequestCore
  <1>2. /\ request' \in RequestRecord /\ running' \in BOOLEAN
        /\ restart_callbacks' \in Nat
        /\ sent' \subseteq JobStates \union {"STOP"}
        /\ state_file' \in StateFiles \union {NoStateFile}
    BY <1>1, PollFacts
  <1>3. TypeOK'
    BY <1>1, <1>2 DEF TypeOK
  <1>4. /\ State' \in {"FAILED", "PRE_CLOSE_OUTPUT", "POLL_QUERY1", "POLL1",
                       "POLL2"}
        /\ State' = "POLL_QUERY1" => request'.pending_queries # <<>>
        /\ State' = "POLL2" => request'.pending_queries = <<>>
        /\ \/ running' \/ request'.poll_timer
           \/ /\ State' = "POLL2" /\ SegStarted
              /\ request'.seg_event_queue = <<>>
    BY <1>1, PollFacts
  <1>5. QueriesMatchState' /\ NoLostWakeup'
    BY <1>4 DEF QueriesMatchState, QueryStates, NoLostWakeup
  <1> QED BY <1>3, <1>4, <1>5, StepKeeps DEF ToSubmit

\* POLL1 as a case of its own.
LEMMA CasePoll1Step ==
    ASSUME RequestCore, CasePoll1 PROVE RequestKept
  <1>1. /\ request \in RequestRecord /\ seg_pause_count \in Int
        /\ registered \in BOOLEAN
        /\ state_file \in StateFiles \union {NoStateFile}
    BY DEF RequestCore, TypeOK
  <1>2. /\ Poll(request, state_file, FALSE)
        /\ UNCHANGED <<rsl, scriptVars, lrmVars, managerVars, clientVars>>
    BY DEF CasePoll1
  <1> QED BY <1>1, <1>2, PollStep

\* SUBMIT ends in POLL1, whatever the submit script said.
LEMMA CaseSubmitStep ==
    ASSUME RequestCore, CaseSubmit PROVE RequestKept
  <1>1. /\ TypeOK /\ request \in RequestRecord /\ seg_pause_count \in Int
        /\ registered \in BOOLEAN /\ request.failure_code \in FailureCodes
        /\ State = "SUBMIT"
    BY DEF RequestCore, TypeOK, RequestRecord, CaseSubmit, At
  <1>2. /\ UNCHANGED <<rsl, scriptVars, lrmVars, clientVars>>
        /\ seg_pause_count' = seg_pause_count - 1
    BY DEF CaseSubmit
  <1>3. CASE /\ Becomes(To(request, "FAILED_TWO_PHASE_COMMITTED"))
             /\ KeepLoop
             /\ UNCHANGED <<registered, state_file>>
    <2>1. /\ To(request, "FAILED_TWO_PHASE_COMMITTED") \in RequestRecord
          /\ To(request, "FAILED_TWO_PHASE_COMMITTED").jobmanager_state
                = "FAILED_TWO_PHASE_COMMITTED"
      BY <1>1, ToFacts DEF ManagerStates
    <2>2. /\ request' \in RequestRecord
          /\ State' = "FAILED_TWO_PHASE_COMMITTED"
      BY <1>3, <2>1 DEF Becomes, State
    <2>3. TypeOK' /\ running' = TRUE
      BY <1>1, <1>2, <1>3, <2>2 DEF TypeOK, KeepLoop, Becomes
    <2> QED BY <1>1, <1>2, <2>2, <2>3, MoveKeeps
            DEF QueryStates, ToSubmit, Awake
  <1> DEFINE fails(code) ==
                 [SetStatus([request EXCEPT !.failure_code = code], "FAILED")
                    EXCEPT !.unsent_status_change = TRUE]
             toPoll(r) == [To(r, "POLL1") EXCEPT !.restart_state = "POLL1"]
             poll(r) == Poll(toPoll(r), StateFileOf(toPoll(r)), TRUE)
             unknown == fails(IF request.failure_code = "SUCCESS"
                                THEN "SUBMIT_UNKNOWN"
                                ELSE request.failure_code)
  <1>4. ASSUME NEW code \in FailureCodes
        PROVE  fails(code) \in RequestRecord
    <2> DEFINE c == [request EXCEPT !.failure_code = code]
               x == SetStatus(c, "FAILED")
    <2>1. c \in RequestRecord
      BY <1>1 DEF RequestRecord
    <2> HIDE DEF c
    <2>2. x \in RequestRecord
      BY <2>1, SetStatusFacts DEF JobStates
    <2> HIDE DEF x
    <2>3. [x EXCEPT !.unsent_status_change = TRUE] \in RequestRecord
      BY <2>2 DEF RequestRecord
    <2> QED BY <2>3 DEF x, c
  <1>5. /\ unknown \in RequestRecord /\ fails("MALLOC_FAILED") \in RequestRecord
    <2>1. /\ "SUBMIT_UNKNOWN" \in FailureCodes /\ "MALLOC_FAILED" \in FailureCodes
          /\ (IF request.failure_code = "SUCCESS" THEN "SUBMIT_UNKNOWN"
              ELSE request.failure_code) \in FailureCodes
      BY <1>1 DEF FailureCodes
    <2> HIDE DEF fails
    <2> QED BY <1>4, <2>1
  <1>6. ASSUME NEW r \in RequestRecord, poll(r), registered' \in BOOLEAN
        PROVE  RequestKept
    <2> DEFINE x == To(r, "POLL1")
               y == [x EXCEPT !.restart_state = "POLL1"]
    <2>1. x \in RequestRecord
      BY ToFacts DEF ManagerStates
    <2> HIDE DEF x
    <2>2. y \in RequestRecord
      BY <2>1 DEF RequestRecord, ManagerStates
    <2>3. Poll(y, StateFileOf(y), TRUE)
      BY <1>6 DEF x
    <2> HIDE DEF y
    <2>4. StateFileOf(y) \in StateFiles \union {NoStateFile}
      BY <2>2, StateFileTyped
    <2>5. seg_pause_count' \in Int /\ TRUE \in BOOLEAN
      BY <1>1, <1>2
    <2> HIDE DEF poll
    <2> QED BY <1>2, <1>6, <2>2, <2>3, <2>4, <2>5, PollStep
  <1>7. \/ poll(unknown) /\ UNCHANGED registered
        \/ poll(request) /\ registered' = (request.job_id_string = "set")
        \/ poll(fails("MALLOC_FAILED")) /\ UNCHANGED registered
        \/ /\ Becomes(To(request, "FAILED_TWO_PHASE_COMMITTED"))
           /\ KeepLoop
           /\ UNCHANGED <<registered, state_file>>
    BY DEF CaseSubmit
  <1> HIDE DEF unknown, fails, poll, toPoll
  <1> QED BY <1>1, <1>3, <1>5, <1>6, <1>7

\* POLL2 starts a poll script, reads the grid monitor or waits for the SEG.
LEMMA CasePoll2Step ==
    ASSUME RequestCore, CasePoll2 PROVE RequestKept
  <1>1. /\ TypeOK /\ request \in RequestRecord /\ State = "POLL2"
        /\ request.pending_queries = <<>>
    BY DEF RequestCore, TypeOK, CasePoll2, At, QueriesMatchState
  <1>2. UNCHANGED <<rsl, staged_out, lrmVars, managerVars, clientVars,
                    state_file>>
    BY DEF CasePoll2
  <1> DEFINE p == To(request, "POLL1")
  <1>3. p \in RequestRecord /\ p.jobmanager_state = "POLL1"
        /\ p.status = request.status
    BY <1>1, ToFacts DEF ManagerStates
  <1>4. CASE /\ Becomes(p) /\ Launch("poll", "POLL1", NoQuery) /\ Sleep
    <2> HIDE DEF p
    <2>1. request' \in RequestRecord /\ State' = "POLL1"
      BY <1>3, <1>4 DEF Becomes, State
    <2>2. scripts' \in Seq(Scripts) /\ scripts' # <<>>
          /\ \A i \in DOMAIN scripts' :
                \/ i \in DOMAIN scripts /\ scripts'[i] = scripts[i]
                \/ scripts'[i].cmd = "poll"
      <3>1. /\ "poll" \in ScriptCmds /\ "POLL1" \in ManagerStates
            /\ NoQuery \in Queries
        BY DEF ScriptCmds, ManagerStates, NoQuery, Queries, QueryKinds
      <3> QED BY <1>1, <1>4, <3>1, LaunchFacts
    <2>3. TypeOK'
      BY <1>1, <1>2, <1>4, <2>1, <2>2 DEF TypeOK, Becomes, Sleep
    <2>4. QueriesMatchState' /\ NoLostWakeup'
      BY <2>1, <2>2 DEF QueriesMatchState, QueryStates, NoLostWakeup
    <2> QED BY <1>2, <2>1, <2>2, <2>3, <2>4, StepKeeps DEF ToSubmit
  <1>5. CASE Becomes(p) /\ UNCHANGED scripts /\ KeepLoop
    <2> HIDE DEF p
    <2>1. request' \in RequestRecord /\ State' = "POLL1"
      BY <1>3, <1>5 DEF Becomes, State
    <2>2. TypeOK' /\ running' = TRUE
      BY <1>1, <1>2, <1>5, <2>1 DEF TypeOK, Becomes, KeepLoop
    <2> QED BY <1>2, <1>5, <2>1, <2>2, MoveKeeps DEF QueryStates, ToSubmit, Awake
  <1>6. CASE PollFast /\ UNCHANGED scripts /\ Sleep
    <2>1. PICK s \in {request.status} \union ({lrm} \ {"none", "FAILED"}) :
              Becomes(Register(IF s = p.status THEN p
                               ELSE [SetStatus(p, s) EXCEPT
                                       !.unsent_status_change = TRUE]))
      BY <1>6 DEF PollFast
    <2>2. s \in JobStates
      BY <1>1 DEF TypeOK, LrmStates, SegEvents, JobStates, RequestRecord
    <2> HIDE DEF p
    <2> DEFINE x == SetStatus(p, s)
               y == [x EXCEPT !.unsent_status_change = TRUE]
    <2>3. x \in RequestRecord /\ x.jobmanager_state = "POLL1"
      BY <1>3, <2>2, SetStatusFacts
    <2>4. y \in RequestRecord /\ y.jobmanager_state = "POLL1"
      <3> HIDE DEF x
      <3> QED BY <2>3 DEF RequestRecord
    <2>5. request' = Register(p) \/ request' = Register(y)
      BY <2>1 DEF Becomes
    <2>6. /\ Register(p) \in RequestRecord
          /\ Register(p).jobmanager_state = "POLL1" /\ Register(p).poll_timer
      BY <1>3, RegisterFacts
    <2> HIDE DEF x, y
    <2>7. /\ Register(y) \in RequestRecord
          /\ Register(y).jobmanager_state = "POLL1" /\ Register(y).poll_timer
      BY <2>4, RegisterFacts
    <2>8. request' \in RequestRecord /\ State' = "POLL1" /\ request'.poll_timer
      BY <2>5, <2>6, <2>7 DEF State
    <2>9. TypeOK'
      BY <1>1, <1>2, <1>6, <2>1, <2>8 DEF TypeOK, Becomes, Sleep
    <2> QED BY <1>2, <1>6, <2>8, <2>9, MoveKeeps DEF QueryStates, ToSubmit, Awake
  <1>7. CASE /\ SegStarted /\ request.seg_event_queue = <<>>
             /\ Becomes(request) /\ UNCHANGED scripts /\ Sleep
    <2>1. TypeOK'
      BY <1>1, <1>2, <1>7 DEF TypeOK, Becomes, Sleep
    <2>2. request' = request
      BY <1>7 DEF Becomes
    <2>3. QueriesMatchState' /\ NoLostWakeup'
      BY <1>1, <1>7, <2>2 DEF QueriesMatchState, QueryStates, NoLostWakeup, State
    <2> QED BY <1>1, <1>2, <1>7, <2>1, <2>2, <2>3, StepKeeps DEF ToSubmit, State
  <1> QED BY <1>4, <1>5, <1>6, <1>7 DEF CasePoll2

\* A query of the queue, and the queue without its first query.
LEMMA QueueFacts ==
    ASSUME TypeOK, request.pending_queries # <<>>
    PROVE  /\ Head(request.pending_queries) \in Queries
           /\ Head(request.pending_queries).id \in Nat
           /\ Dequeued \in RequestRecord
           /\ Dequeued.pending_queries = Tail(request.pending_queries)
           /\ Dequeued.jobmanager_state = State
  <1>1. request \in RequestRecord /\ request.pending_queries \in Seq(Queries)
    BY DEF TypeOK, RequestRecord
  <1>2. /\ Head(request.pending_queries) \in Queries
        /\ Tail(request.pending_queries) \in Seq(Queries)
    BY <1>1, HeadTailProperties
  <1>3. Head(request.pending_queries).id \in Nat
    BY <1>2 DEF Queries
  <1>4. /\ Dequeued \in RequestRecord
        /\ Dequeued.pending_queries = Tail(request.pending_queries)
        /\ Dequeued.jobmanager_state = State
    BY <1>1, <1>2 DEF Dequeued, RequestRecord, State
  <1> QED BY <1>2, <1>3, <1>4

\* One more answered query.
LEMMA AnswerOne ==
    ASSUME TypeOK, NEW n \in Nat
    PROVE  answered \union {n} \subseteq Nat /\ IsFiniteSet(answered \union {n})
  BY FS_AddElement DEF TypeOK

\* The oldest query gets its script, or its answer when there is none.
LEMMA CaseQuery1Step ==
    ASSUME RequestCore, CaseQuery1 PROVE RequestKept
  <1> DEFINE query == Head(request.pending_queries)
             cmd   == IF query.kind = "cancel" THEN "cancel" ELSE "signal"
             rest  == Tail(request.pending_queries)
             next  == IF State = "POLL_QUERY1" THEN "POLL_QUERY2"
                                               ELSE "TWO_PHASE_QUERY2"
             after == IF rest = <<>> THEN To(Dequeued, "POLL2") ELSE Dequeued
  <1>1. /\ TypeOK /\ request \in RequestRecord
        /\ State \in {"POLL_QUERY1", "TWO_PHASE_QUERY1"}
        /\ State \in ManagerStates /\ request.pending_queries # <<>>
    BY DEF RequestCore, TypeOK, CaseQuery1, At, QueriesMatchState,
           QueryStates, ManagerStates, State
  <1>2. UNCHANGED <<rsl, staged_out, lrmVars, managerVars, committed, state_file>>
    BY DEF CaseQuery1
  <1>3. /\ query \in Queries /\ query.id \in Nat /\ Dequeued \in RequestRecord
        /\ Dequeued.pending_queries = rest /\ Dequeued.jobmanager_state = State
    BY <1>1, QueueFacts
  <1>4. CASE /\ Launch(cmd, State, query) /\ Becomes(To(request, next))
             /\ Sleep /\ UNCHANGED answered
    <2>1. /\ To(request, next) \in RequestRecord
          /\ To(request, next).jobmanager_state = next
          /\ To(request, next).pending_queries = request.pending_queries
      BY <1>1, ToFacts DEF ManagerStates, SameQueues
    <2>2. /\ request' \in RequestRecord /\ State' = next
          /\ request'.pending_queries # <<>>
      BY <1>1, <1>4, <2>1 DEF Becomes, State
    <2>3. cmd \in ScriptCmds /\ cmd # "submit"
      BY DEF ScriptCmds
    <2> HIDE DEF cmd, query
    <2>4. scripts' \in Seq(Scripts) /\ scripts' # <<>>
          /\ \A i \in DOMAIN scripts' :
                \/ i \in DOMAIN scripts /\ scripts'[i] = scripts[i]
                \/ scripts'[i].cmd = cmd
      BY <1>1, <1>3, <1>4, <2>3, LaunchFacts
    <2>5. TypeOK'
      BY <1>1, <1>2, <1>4, <2>2, <2>4 DEF TypeOK, Becomes, Sleep
    <2>6. QueriesMatchState' /\ NoLostWakeup'
      BY <2>2, <2>4 DEF QueriesMatchState, QueryStates, NoLostWakeup
    <2>7. State' \notin ToSubmit
      BY <2>2 DEF ToSubmit
    <2> QED BY <1>2, <2>3, <2>4, <2>5, <2>6, <2>7, StepKeeps
  <1>5. CASE /\ Becomes(after) /\ answered' = answered \union {query.id}
             /\ KeepLoop /\ UNCHANGED scripts
    <2>1. /\ To(Dequeued, "POLL2") \in RequestRecord
          /\ To(Dequeued, "POLL2").jobmanager_state = "POLL2"
          /\ To(Dequeued, "POLL2").pending_queries = rest
      BY <1>3, ToFacts DEF ManagerStates, SameQueues
    <2>2. /\ request' \in RequestRecord
          /\ \/ State' = "POLL2" /\ request'.pending_queries = <<>>
             \/ State' = State /\ request'.pending_queries # <<>>
      BY <1>3, <1>5, <2>1 DEF Becomes, State
    <2>3. answered' \subseteq Nat /\ IsFiniteSet(answered')
      BY <1>1, <1>3, <1>5, AnswerOne
    <2>4. TypeOK' /\ running' = TRUE
      BY <1>1, <1>2, <1>5, <2>2, <2>3 DEF TypeOK, Becomes, KeepLoop
    <2>5. QueriesMatchState' /\ NoLostWakeup' /\ State' \notin ToSubmit
      BY <1>1, <2>2, <2>4 DEF QueriesMatchState, QueryStates, NoLostWakeup,
                              ToSubmit
    <2> QED BY <1>2, <1>5, <2>4, <2>5, StepKeeps
  <1> QED
    <2>1. [request EXCEPT !.pending_queries = rest] = Dequeued
      BY DEF Dequeued
    <2> QED BY <1>4, <1>5, <2>1 DEF CaseQuery1

\* After a signal in TWO_PHASE: the next one, or the timeout again.
LEMMA CaseTwoPhaseQuery2Step ==
    ASSUME RequestCore, CaseTwoPhaseQuery2 PROVE RequestKept
  <1>1. TypeOK /\ request.pending_queries # <<>> /\ State = "TWO_PHASE_QUERY2"
    BY DEF RequestCore, CaseTwoPhaseQuery2, At, QueriesMatchState,
           QueryStates
  <1>2. /\ UNCHANGED <<rsl, scriptVars, lrmVars, managerVars, committed,
                       state_file>>
        /\ answered' = answered \union {Head(request.pending_queries).id}
    BY DEF CaseTwoPhaseQuery2
  <1>3. Dequeued \in RequestRecord /\ Head(request.pending_queries).id \in Nat
    BY <1>1, QueueFacts
  <1> DEFINE t == To(Dequeued, "TWO_PHASE")
             q == To(Dequeued, "TWO_PHASE_QUERY1")
  <1>4. t \in RequestRecord /\ t.jobmanager_state = "TWO_PHASE"
    BY <1>3, ToFacts DEF ManagerStates
  <1>5. q \in RequestRecord /\ q.jobmanager_state = "TWO_PHASE_QUERY1"
        /\ q.pending_queries = Dequeued.pending_queries
    BY <1>3, ToFacts DEF ManagerStates, SameQueues
  <1>6. \/ Becomes(Register(t)) /\ running' = FALSE
        \/ /\ Dequeued.pending_queries # <<>> /\ Becomes(q) /\ running' = TRUE
    BY DEF CaseTwoPhaseQuery2, Sleep, KeepLoop
  <1> HIDE DEF t, q
  <1>7. /\ Register(t) \in RequestRecord
        /\ Register(t).jobmanager_state = "TWO_PHASE" /\ Register(t).poll_timer
    BY <1>4, RegisterFacts
  <1>8. /\ request' \in RequestRecord
        /\ \/ State' = "TWO_PHASE" /\ request'.poll_timer
           \/ /\ State' = "TWO_PHASE_QUERY1" /\ running'
              /\ request'.pending_queries # <<>>
    BY <1>5, <1>6, <1>7 DEF Becomes, State
  <1>9. answered' \subseteq Nat /\ IsFiniteSet(answered')
    BY <1>1, <1>2, <1>3, AnswerOne
  <1>10. TypeOK'
    BY <1>1, <1>2, <1>6, <1>8, <1>9 DEF TypeOK, Becomes
  <1>11. QueriesMatchState' /\ NoLostWakeup' /\ State' \notin ToSubmit
    BY <1>8 DEF QueriesMatchState, QueryStates, NoLostWakeup, ToSubmit
  <1> QED BY <1>2, <1>10, <1>11, StepKeeps

\* After a query in POLL: the next one, its news, or POLL2.
LEMMA CasePollQuery2Step ==
    ASSUME RequestCore, CasePollQuery2 PROVE RequestKept
  <1>1. TypeOK /\ request.pending_queries # <<>> /\ State = "POLL_QUERY2"
    BY DEF RequestCore, CasePollQuery2, At, QueriesMatchState, QueryStates
  <1>2. /\ UNCHANGED <<rsl, scriptVars, lrmVars, managerVars, committed,
                       state_file>>
        /\ answered' = answered \union {Head(request.pending_queries).id}
        /\ Becomes(To(Dequeued, AfterPollQuery(Dequeued))) /\ running' = TRUE
    BY DEF CasePollQuery2, KeepLoop
  <1>3. Dequeued \in RequestRecord /\ Head(request.pending_queries).id \in Nat
    BY <1>1, QueueFacts
  <1> DEFINE next == AfterPollQuery(Dequeued)
             x == To(Dequeued, next)
  <1>4. \/ next = "POLL_QUERY1" /\ Dequeued.pending_queries # <<>>
        \/ next = "POLL1"
        \/ next = "POLL2" /\ Dequeued.pending_queries = <<>>
    BY DEF AfterPollQuery
  <1> HIDE DEF next
  <1>5. x \in RequestRecord /\ x.jobmanager_state = next
        /\ x.pending_queries = Dequeued.pending_queries
    BY <1>3, <1>4, ToFacts DEF ManagerStates, SameQueues
  <1>6. request' = x
    BY <1>2 DEF Becomes, next
  <1> HIDE DEF x
  <1>7. answered' \subseteq Nat /\ IsFiniteSet(answered')
    BY <1>1, <1>2, <1>3, AnswerOne
  <1>8. TypeOK'
    BY <1>1, <1>2, <1>5, <1>6, <1>7 DEF TypeOK, Becomes
  <1>9. QueriesMatchState' /\ NoLostWakeup' /\ State' \notin ToSubmit
    BY <1>2, <1>4, <1>5, <1>6
       DEF QueriesMatchState, QueryStates, NoLostWakeup, ToSubmit, State
  <1> QED BY <1>2, <1>8, <1>9, StepKeeps

\* An empty queue of queries is well typed.
LEMMA NoQueriesTyped == <<>> \in Seq(Queries)
  OBVIOUS

\* The end of the job is recorded and what is queued is denied: from PRE_CLOSE
\* and FAILED the loop goes on with an empty queue.
LEMMA CasePreCloseStep ==
    ASSUME RequestCore, CasePreClose PROVE RequestKept
  <1> DEFINE saved == IF request.unsent_status_change
                        THEN [request EXCEPT !.restart_state = State]
                        ELSE request
             s     == IF State = "FAILED" THEN "FAILED_CLOSE_OUTPUT"
                                          ELSE "CLOSE_OUTPUT"
             moved == To(saved, s)
             next  == [moved EXCEPT !.pending_queries = <<>>]
             told  == [next EXCEPT !.unsent_status_change = FALSE]
  <1>1. TypeOK /\ request \in RequestRecord /\ State \in ManagerStates
    BY DEF RequestCore, TypeOK, RequestRecord, State
  <1>2. UNCHANGED <<rsl, scriptVars, lrmVars, managerVars, committed>>
        /\ answered' = AllAnswered(request) /\ running' = TRUE
    BY DEF CasePreClose, KeepLoop
  <1>3. /\ ContactStateCallback(told, FALSE) \/ Becomes(next)
        /\ state_file' = StateFileOf(saved) \/ state_file' = state_file
    BY DEF CasePreClose
  <1>4. saved \in RequestRecord
    BY <1>1 DEF RequestRecord
  <1>5. s \in {"FAILED_CLOSE_OUTPUT", "CLOSE_OUTPUT"} /\ s \in ManagerStates
    BY DEF ManagerStates
  <1> HIDE DEF saved, s
  <1>6. moved \in RequestRecord /\ moved.jobmanager_state = s
    BY <1>4, <1>5, ToFacts
  <1> HIDE DEF moved
  <1>7. next \in RequestRecord /\ next.jobmanager_state = s
    BY <1>6, NoQueriesTyped DEF RequestRecord
  <1> HIDE DEF next
  <1>8. told \in RequestRecord /\ told.jobmanager_state = s
    BY <1>7 DEF RequestRecord
  <1> HIDE DEF told
  <1>9. /\ request' \in RequestRecord /\ request'.jobmanager_state = s
        /\ restart_callbacks' \in Nat
        /\ sent' \subseteq JobStates \union {"STOP"}
    <2>1. CASE ContactStateCallback(told, FALSE)
      <3>1. FALSE \in BOOLEAN
        OBVIOUS
      <3> QED BY <1>1, <1>8, <2>1, <3>1, CallbackFacts
    <2>2. CASE Becomes(next)
      BY <1>1, <1>7, <2>2, BecomesFacts
    <2> QED BY <1>3, <2>1, <2>2
  <1>10. state_file' \in StateFiles \union {NoStateFile}
    BY <1>1, <1>3, <1>4, StateFileTyped DEF TypeOK
  <1>11. answered' \subseteq Nat /\ IsFiniteSet(answered')
    BY <1>1, <1>2, AnsweredFacts
  <1>12. TypeOK'
    BY <1>1, <1>2, <1>9, <1>10, <1>11 DEF TypeOK
  <1>13. State' \in {"FAILED_CLOSE_OUTPUT", "CLOSE_OUTPUT"}
    BY <1>5, <1>9 DEF State
  <1> QED BY <1>2, <1>12, <1>13, MoveKeeps DEF QueryStates, ToSubmit, Awake

\* Stage-out starts its script, has nothing to do, or fails.
LEMMA CaseCloseOutputStep ==
    ASSUME RequestCore, CaseCloseOutput PROVE RequestKept
  <1> DEFINE a == To(request, "FAILED_CLOSE_OUTPUT")
             b == To(request, "STAGE_OUT")
             c == To(request, "FAILED")
             o == [b EXCEPT !.unsent_status_change = TRUE]
             m == [c EXCEPT !.failure_code = "MALLOC_FAILED"]
  <1>1. TypeOK /\ request \in RequestRecord
    BY DEF RequestCore, TypeOK
  <1>2. UNCHANGED <<rsl, staged_out, lrmVars, managerVars, clientVars,
                    state_file>>
    BY DEF CaseCloseOutput
  <1>3. \/ Becomes(a) /\ running' = TRUE /\ UNCHANGED scripts
        \/ Becomes(o) /\ running' = TRUE /\ UNCHANGED scripts
        \/ Becomes(m) /\ running' = TRUE /\ UNCHANGED scripts
        \/ /\ Becomes(o) /\ running' = FALSE
           /\ Launch("stage_out", "STAGE_OUT", NoQuery)
    BY DEF CaseCloseOutput, KeepLoop, Sleep, ToStageOut
  <1>4. /\ a \in RequestRecord /\ a.jobmanager_state = "FAILED_CLOSE_OUTPUT"
        /\ b \in RequestRecord /\ b.jobmanager_state = "STAGE_OUT"
        /\ c \in RequestRecord /\ c.jobmanager_state = "FAILED"
    BY <1>1, ToFacts DEF ManagerStates
  <1> HIDE DEF a, b, c
  <1>5. o \in RequestRecord /\ o.jobmanager_state = "STAGE_OUT"
    BY <1>4 DEF RequestRecord
  <1>6. m \in RequestRecord /\ m.jobmanager_state = "FAILED"
    BY <1>4 DEF RequestRecord, FailureCodes
  <1> HIDE DEF o, m
  <1>7. /\ request' \in RequestRecord
        /\ State' \in {"FAILED_CLOSE_OUTPUT", "STAGE_OUT", "FAILED"}
        /\ UNCHANGED <<restart_callbacks, sent>>
    BY <1>3, <1>4, <1>5, <1>6 DEF Becomes, State
  <1>8. CASE running' = TRUE /\ UNCHANGED scripts
    <2>1. TypeOK'
      BY <1>1, <1>2, <1>7, <1>8 DEF TypeOK
    <2> QED BY <1>2, <1>7, <1>8, <2>1, MoveKeeps DEF QueryStates, ToSubmit, Awake
  <1>9. CASE running' = FALSE /\ Launch("stage_out", "STAGE_OUT", NoQuery)
    <2>1. scripts' \in Seq(Scripts) /\ scripts' # <<>>
          /\ \A i \in DOMAIN scripts' :
                \/ i \in DOMAIN scripts /\ scripts'[i] = scripts[i]
                \/ scripts'[i].cmd = "stage_out"
      <3>1. /\ "stage_out" \in ScriptCmds /\ "STAGE_OUT" \in ManagerStates
            /\ NoQuery \in Queries
        BY DEF ScriptCmds, ManagerStates, NoQuery, Queries, QueryKinds
      <3> QED BY <1>1, <1>9, <3>1, LaunchFacts
    <2>2. TypeOK'
      BY <1>1, <1>2, <1>7, <1>9, <2>1 DEF TypeOK
    <2>3. QueriesMatchState' /\ NoLostWakeup'
      BY <1>7, <2>1 DEF QueriesMatchState, QueryStates, NoLostWakeup
    <2> QED BY <1>2, <1>7, <2>1, <2>2, <2>3, StepKeeps DEF ToSubmit
  <1> QED BY <1>3, <1>8, <1>9

\* The final status is set and sent; a two-phase job sleeps only when its
\* callback, or a timer, will run it again.
LEMMA CaseFinalStatusStep ==
    ASSUME RequestCore, CaseFinalStatus PROVE RequestKept
  <1> DEFINE r == IF State = "STAGE_OUT" THEN StageOutLeft(request)
                                         ELSE request
             done  == SetStatus(r, "DONE")
             fail  == SetStatus(r, "FAILED")
             final == IF r.jobmanager_state = "STAGE_OUT"
                        THEN To(done, "TWO_PHASE_END")
                        ELSE To(fail, "FAILED_TWO_PHASE")
             told  == [final EXCEPT !.unsent_status_change = FALSE]
  <1>1. /\ TypeOK /\ request \in RequestRecord /\ rsl.two_phase \in BOOLEAN
    BY ConstantsAssumption DEF RequestCore, TypeOK, RSL
  <1>2. UNCHANGED <<rsl, scriptVars, lrmVars, managerVars, clientVars,
                    state_file>>
    BY DEF CaseFinalStatus
  <1>3. \/ /\ ContactStateCallback(told, rsl.two_phase)
           /\ running' = ~rsl.two_phase
        \/ Becomes(final) /\ running' = TRUE
    BY DEF CaseFinalStatus, KeepLoop
  <1>4. r \in RequestRecord
    <2> DEFINE x == To(request, "FAILED_CLOSE_OUTPUT")
    <2>1. x \in RequestRecord
      BY <1>1, ToFacts DEF ManagerStates
    <2>2. \/ r = request
          \/ r = [x EXCEPT !.failure_code =
                    IF @ \in {"SUCCESS", "STAGE_OUT_FAILED"}
                      THEN "OPENING_STDOUT" ELSE @]
          \/ r = [x EXCEPT !.failure_code =
                    IF @ = "SUCCESS" THEN "STAGE_OUT_FAILED" ELSE @]
      BY DEF StageOutLeft
    <2> HIDE DEF x, r
    <2>3. /\ x.failure_code \in FailureCodes
          /\ "OPENING_STDOUT" \in FailureCodes
          /\ "STAGE_OUT_FAILED" \in FailureCodes
      BY <2>1 DEF RequestRecord, FailureCodes
    <2>4. \A c \in FailureCodes : [x EXCEPT !.failure_code = c] \in RequestRecord
      BY <2>1 DEF RequestRecord
    <2>5. r = request \/ \E c \in FailureCodes : r = [x EXCEPT !.failure_code = c]
      BY <2>2, <2>3
    <2> QED BY <1>1, <2>4, <2>5
  <1> HIDE DEF r
  <1>5. done \in RequestRecord /\ fail \in RequestRecord
    BY <1>4, SetStatusFacts DEF JobStates
  <1> HIDE DEF done, fail
  <1>6. /\ final \in RequestRecord
        /\ final.jobmanager_state \in {"TWO_PHASE_END", "FAILED_TWO_PHASE"}
    BY <1>5, ToFacts DEF ManagerStates
  <1> HIDE DEF final
  <1>7. /\ told \in RequestRecord
        /\ told.jobmanager_state = final.jobmanager_state
    BY <1>6 DEF RequestRecord
  <1> HIDE DEF told
  <1>8. /\ request' \in RequestRecord
        /\ State' \in {"TWO_PHASE_END", "FAILED_TWO_PHASE"}
        /\ restart_callbacks' \in Nat
        /\ sent' \subseteq JobStates \union {"STOP"}
        /\ PostFails \/ running' \/ request'.poll_timer \/ restart_callbacks' > 0
        /\ running' \in BOOLEAN
    <2>1. CASE /\ ContactStateCallback(told, rsl.two_phase)
               /\ running' = ~rsl.two_phase
      BY <1>1, <1>6, <1>7, <2>1, CallbackFacts DEF State
    <2>2. CASE Becomes(final) /\ running' = TRUE
      BY <1>1, <1>6, <2>2, BecomesFacts DEF State
    <2> QED BY <1>3, <2>1, <2>2
  <1>9. TypeOK'
    BY <1>1, <1>2, <1>8 DEF TypeOK
  <1> QED BY <1>2, <1>8, <1>9, MoveKeeps DEF QueryStates, ToSubmit, Awake

\* Waiting for the end commit, going on without it, or stopping.
LEMMA CaseTwoPhaseEndStep ==
    ASSUME RequestCore, CaseTwoPhaseEnd PROVE RequestKept
  <1> DEFINE e == [request EXCEPT !.commit_extend = FALSE]
             n == IF State = "TWO_PHASE_END" THEN "TWO_PHASE_END_COMMITTED"
                                             ELSE "FAILED_TWO_PHASE_COMMITTED"
             x == To(request, "STOP")
             t == [x EXCEPT !.restart_state = State]
  <1>1. /\ TypeOK /\ request \in RequestRecord /\ State \in ManagerStates
        /\ State \in {"TWO_PHASE_END", "FAILED_TWO_PHASE"}
    BY DEF RequestCore, TypeOK, RequestRecord, State, CaseTwoPhaseEnd, At
  <1>2. UNCHANGED <<rsl, scriptVars, lrmVars, managerVars, clientVars,
                    state_file>>
    BY DEF CaseTwoPhaseEnd
  <1>3. \/ Becomes(Register(e)) /\ running' = FALSE
        \/ Becomes(To(request, n)) /\ running' = TRUE
        \/ Becomes(t) /\ running' = FALSE
    BY DEF CaseTwoPhaseEnd, Sleep, KeepLoop
  <1>4. e \in RequestRecord /\ e.jobmanager_state = State
    BY <1>1 DEF RequestRecord, State
  <1> HIDE DEF e
  <1>5. /\ Register(e) \in RequestRecord /\ Register(e).poll_timer
        /\ Register(e).jobmanager_state = State
    BY <1>4, RegisterFacts
  <1>6. n \in ManagerStates /\ n \notin QueryStates \union ToSubmit \union {"POLL2"}
    BY DEF ManagerStates, QueryStates, ToSubmit
  <1> HIDE DEF n
  <1>7. To(request, n) \in RequestRecord /\ To(request, n).jobmanager_state = n
    BY <1>1, <1>6, ToFacts
  <1>8. x \in RequestRecord /\ x.jobmanager_state = "STOP"
    BY <1>1, ToFacts DEF ManagerStates
  <1> HIDE DEF x
  <1>9. t \in RequestRecord /\ t.jobmanager_state = "STOP"
    BY <1>1, <1>8 DEF RequestRecord
  <1> HIDE DEF t
  <1>10. /\ request' \in RequestRecord /\ running' \in BOOLEAN
         /\ State' \notin QueryStates \union ToSubmit \union {"POLL2"}
         /\ running' \/ request'.poll_timer \/ State' = "STOP"
    BY <1>1, <1>3, <1>5, <1>6, <1>7, <1>9
       DEF Becomes, State, QueryStates, ToSubmit
  <1>11. TypeOK'
    BY <1>1, <1>2, <1>3, <1>10 DEF TypeOK, Becomes
  <1> QED BY <1>2, <1>10, <1>11, MoveKeeps DEF Awake, Resting

\* The clean-up states follow one another in the loop.
LEMMA CaseCleanUpStep ==
    ASSUME RequestCore, CaseCleanUp PROVE RequestKept
  <1> DEFINE n == IF State = "FILE_CLEAN_UP" /\ request.status = "FAILED"
                    THEN "FAILED_SCRATCH_CLEAN_UP" ELSE CleanUpNext[State]
  <1>1. /\ TypeOK /\ request \in RequestRecord
        /\ State \in DOMAIN CleanUpNext /\ Becomes(To(request, n))
        /\ running' = TRUE
        /\ UNCHANGED <<rsl, scriptVars, lrmVars, managerVars, clientVars,
                       state_file>>
    BY DEF RequestCore, TypeOK, CaseCleanUp, At, KeepLoop
  <1>2. n \in {"FILE_CLEAN_UP", "FAILED_FILE_CLEAN_UP", "SCRATCH_CLEAN_UP",
               "FAILED_SCRATCH_CLEAN_UP", "CACHE_CLEAN_UP",
               "FAILED_CACHE_CLEAN_UP"}
    BY <1>1 DEF CleanUpNext
  <1> HIDE DEF n
  <1>3. To(request, n) \in RequestRecord /\ To(request, n).jobmanager_state = n
    BY <1>1, <1>2, ToFacts DEF ManagerStates
  <1>4. request' \in RequestRecord /\ State' = n
    BY <1>1, <1>3 DEF Becomes, State
  <1>5. TypeOK'
    BY <1>1, <1>4 DEF TypeOK, Becomes
  <1> QED BY <1>1, <1>2, <1>4, <1>5, MoveKeeps DEF QueryStates, ToSubmit, Awake

\* The last clean-up removes the state file and answers what is queued.
LEMMA CaseCacheCleanUpStep ==
    ASSUME RequestCore, CaseCacheCleanUp PROVE RequestKept
  <1> DEFINE n == IF State = "CACHE_CLEAN_UP" THEN "DONE" ELSE "FAILED_DONE"
             x == To(request, n)
             r == [x EXCEPT !.pending_queries = <<>>]
  <1>1. /\ TypeOK /\ request \in RequestRecord
        /\ Becomes(r) /\ state_file' = NoStateFile /\ running' = TRUE
        /\ answered' = AllAnswered(request)
        /\ UNCHANGED <<rsl, scriptVars, lrmVars, managerVars, committed>>
    BY DEF RequestCore, TypeOK, CaseCacheCleanUp, KeepLoop
  <1>2. n \in {"DONE", "FAILED_DONE"}
    OBVIOUS
  <1> HIDE DEF n
  <1>3. x \in RequestRecord /\ x.jobmanager_state = n
    BY <1>1, <1>2, ToFacts DEF ManagerStates
  <1> HIDE DEF x
  <1>4. r \in RequestRecord /\ r.jobmanager_state = n
    BY <1>3, NoQueriesTyped DEF RequestRecord
  <1> HIDE DEF r
  <1>5. request' \in RequestRecord /\ State' = n
    BY <1>1, <1>4 DEF Becomes, State
  <1>6. answered' \subseteq Nat /\ IsFiniteSet(answered')
    BY <1>1, AnsweredFacts
  <1>7. TypeOK'
    BY <1>1, <1>5, <1>6 DEF TypeOK, Becomes
  <1> QED BY <1>1, <1>2, <1>5, <1>7, MoveKeeps DEF QueryStates, ToSubmit, Awake

\* DONE and FAILED_DONE handle the events left over and rest.
LEMMA CaseDoneStep ==
    ASSUME RequestCore, CaseDone PROVE RequestKept
  <1> DEFINE r == [request EXCEPT !.restart_state = State,
                                  !.pending_queries = <<>>]
  <1>1. /\ TypeOK /\ request \in RequestRecord /\ State \in ManagerStates
        /\ State \in {"DONE", "FAILED_DONE"}
    BY DEF RequestCore, TypeOK, CaseDone, At, RequestRecord, State
  <1>2. /\ registered' = FALSE /\ answered' = AllAnswered(request)
        /\ state_file' = NoStateFile \/ state_file' = state_file
        /\ UNCHANGED <<rsl, scriptVars, lrmVars, seg_pause_count, committed>>
    BY DEF CaseDone
  <1>3. \/ /\ r.seg_event_queue # <<>> /\ Becomes(HandleEvent(r))
           /\ running' = TRUE
        \/ Becomes(r) /\ running' = FALSE
    BY DEF CaseDone, Sleep, KeepLoop
  <1>4. r \in RequestRecord /\ r.jobmanager_state = State
    BY <1>1, NoQueriesTyped DEF RequestRecord, State
  <1> HIDE DEF r
  <1>5. request' \in RequestRecord /\ State' = State /\ running' \in BOOLEAN
    BY <1>3, <1>4, HandleEventFacts DEF Becomes, State
  <1>6. answered' \subseteq Nat /\ IsFiniteSet(answered')
    BY <1>1, <1>2, AnsweredFacts
  <1>7. TypeOK'
    BY <1>1, <1>2, <1>3, <1>5, <1>6 DEF TypeOK, Becomes
  <1> QED BY <1>1, <1>2, <1>5, <1>7, MoveKeeps
          DEF QueryStates, ToSubmit, Awake, Resting

\* STOP tells the contacts, saves the request and rests.
LEMMA CaseStopStep ==
    ASSUME RequestCore, CaseStop PROVE RequestKept
  <1>1. /\ TypeOK /\ request \in RequestRecord /\ State = "STOP"
        /\ ContactStateCallback(request, FALSE) /\ running' = FALSE
        /\ state_file' = StateFileOf(request)
        /\ UNCHANGED <<rsl, scriptVars, lrmVars, managerVars, clientVars>>
    BY DEF RequestCore, TypeOK, CaseStop, At, Sleep
  <1>2. /\ request' \in RequestRecord /\ State' = "STOP"
        /\ restart_callbacks' \in Nat
        /\ sent' \subseteq JobStates \union {"STOP"}
    BY <1>1, CallbackFacts DEF State
  <1>3. state_file' \in StateFiles \union {NoStateFile}
    BY <1>1, StateFileTyped
  <1>4. TypeOK'
    BY <1>1, <1>2, <1>3 DEF TypeOK
  <1> QED BY <1>1, <1>2, <1>4, MoveKeeps DEF QueryStates, ToSubmit, Awake, Resting

\* Every case of the state machine keeps the invariant.
LEMMA StateMachineStep ==
    ASSUME RequestCore, StateMachine PROVE RequestKept
  BY CaseStartStep, CaseTwoPhaseStep, CaseTwoPhaseCommittedStep,
     CaseStageInStep, CaseSubmitStep, CasePoll1Step, CasePoll2Step,
     CaseQuery1Step, CaseTwoPhaseQuery2Step, CasePollQuery2Step,
     CasePreCloseStep, CaseCloseOutputStep, CaseFinalStatusStep,
     CaseTwoPhaseEndStep, CaseCleanUpStep, CaseCacheCleanUpStep,
     CaseDoneStep, CaseStopStep DEF StateMachine

-----------------------------------------------------------------------------
(* Steps that run beside the machine                                        *)

\* A step that leaves the machine where it is, and its queues and wake-ups.
LEMMA QuietStep ==
    ASSUME RequestCore, TypeOK', State' = State,
           request'.pending_queries = request.pending_queries,
           request'.seg_event_queue = request.seg_event_queue,
           request.poll_timer => request'.poll_timer,
           UNCHANGED <<rsl, submissions, committed, running,
                       restart_callbacks>>,
           scripts # <<>> => scripts' # <<>>,
           \A i \in DOMAIN scripts' : scripts'[i].cmd = "submit" =>
               i \in DOMAIN scripts /\ scripts[i].cmd = "submit"
    PROVE  RequestKept
  <1>1. QueriesMatchState'
    BY DEF RequestCore, QueriesMatchState
  <1>2. PostFails \/ NoLostWakeup'
    BY DEF RequestCore, NoLostWakeup
  <1> QED BY <1>1, <1>2, StepKeeps

\* A handler that changes nothing but the request.
LEMMA ClientTypes ==
    ASSUME RequestCore, request' \in RequestRecord,
           UNCHANGED <<rsl, running, scriptVars, callbackVars, lrmVars,
                       managerVars, clientVars, state_file>>
    PROVE  TypeOK'
  BY DEF RequestCore, TypeOK

\* Before a handler runs, a machine outside POLL2 and the resting states has a
\* wake-up outstanding.
LEMMA AwakeBefore ==
    ASSUME RequestCore, ~running, State \notin Resting \union {"POLL2"}
    PROVE  \/ PostFails \/ request.poll_timer \/ scripts # <<>>
           \/ restart_callbacks > 0
  BY DEF RequestCore, NoLostWakeup

\* A handler that moves the machine on keeps the wake-up it found, or arms
\* the timer.
LEMMA ClientMoves ==
    ASSUME RequestCore, ~running, request' \in RequestRecord,
           UNCHANGED <<rsl, running, scriptVars, callbackVars, lrmVars,
                       managerVars, clientVars, state_file>>,
           State' \notin ToSubmit,
           State' \in QueryStates => request'.pending_queries # <<>>,
           State' # "POLL2",
           \/ request'.poll_timer \/ State' \in Resting
           \/ /\ State \notin Resting \union {"POLL2"}
              /\ request'.poll_timer = request.poll_timer
    PROVE  RequestKept
  <1>1. TypeOK'
    BY ClientTypes
  <1>2. QueriesMatchState'
    BY DEF QueriesMatchState
  <1>3. PostFails \/ NoLostWakeup'
    BY AwakeBefore DEF NoLostWakeup
  <1> QED BY <1>1, <1>2, <1>3, StepKeeps

\* A query joins the end of the queue.
LEMMA EnqueueFacts ==
    ASSUME TypeOK, NEW kind \in QueryKinds
    PROVE  /\ Enqueue(kind) \in RequestRecord
           /\ Enqueue(kind).jobmanager_state = State
           /\ Enqueue(kind).pending_queries # <<>>
           /\ Enqueue(kind).seg_event_queue = request.seg_event_queue
           /\ Enqueue(kind).poll_timer = request.poll_timer
  <1> DEFINE q == request.pending_queries
             n == [id |-> NextId, kind |-> kind]
  <1>1. /\ request \in RequestRecord /\ q \in Seq(Queries)
        /\ IsFiniteSet(answered)
    BY DEF TypeOK, RequestRecord
  <1>2. NextId \in Nat
    BY <1>1, FS_CardinalityType DEF NextId
  <1>3. n \in Queries
    BY <1>2 DEF Queries
  <1> HIDE DEF n
  <1>4. Append(q, n) \in Seq(Queries) /\ Append(q, n) # <<>>
    BY <1>1, <1>3
  <1>5. Enqueue(kind) = [request EXCEPT !.pending_queries = Append(q, n)]
    BY DEF Enqueue, n
  <1> QED BY <1>1, <1>4, <1>5 DEF RequestRecord, State

\* The handlers for a queued query: it joins the queue of a machine that will
\* look at it, or the machine is sent to work on it.
LEMMA QueryStep ==
    ASSUME RequestCore, ~running, NEW kind \in QueryKinds,
           State \in QueryValid,
           UNCHANGED <<rsl, running, scriptVars, callbackVars, lrmVars,
                       managerVars, clientVars, state_file>>,
           \/ /\ State \in {"POLL2", "TWO_PHASE"}
              /\ \E s \in {"POLL_QUERY1", "TWO_PHASE_QUERY1"} :
                    request' = Register(To(Enqueue(kind), s))
           \/ State # "POLL2" /\ request' = Enqueue(kind)
    PROVE  RequestKept
  <1>1. TypeOK
    BY DEF RequestCore
  <1>2. /\ Enqueue(kind) \in RequestRecord
        /\ Enqueue(kind).jobmanager_state = State
        /\ Enqueue(kind).pending_queries # <<>>
        /\ Enqueue(kind).poll_timer = request.poll_timer
    BY <1>1, EnqueueFacts
  <1>3. CASE \E s \in {"POLL_QUERY1", "TWO_PHASE_QUERY1"} :
                 request' = Register(To(Enqueue(kind), s))
    <2>1. PICK s \in {"POLL_QUERY1", "TWO_PHASE_QUERY1"} :
              request' = Register(To(Enqueue(kind), s))
      BY <1>3
    <2> DEFINE x == To(Enqueue(kind), s)
    <2>2. s \in ManagerStates
      BY DEF ManagerStates
    <2>3. /\ x \in RequestRecord /\ x.jobmanager_state = s
          /\ x.pending_queries # <<>>
      BY <1>2, <2>2, ToFacts DEF SameQueues
    <2> HIDE DEF x
    <2>4. /\ Register(x) \in RequestRecord /\ Register(x).jobmanager_state = s
          /\ Register(x).pending_queries # <<>> /\ Register(x).poll_timer
      BY <2>3, RegisterFacts
    <2>5. /\ request' \in RequestRecord /\ State' = s
          /\ request'.pending_queries # <<>> /\ request'.poll_timer
      BY <2>1, <2>4 DEF x, State
    <2> QED BY <2>5, ClientMoves DEF ToSubmit
  <1>4. CASE State # "POLL2" /\ request' = Enqueue(kind)
    <2>1. /\ request' \in RequestRecord /\ State' = State
          /\ request'.pending_queries # <<>>
          /\ request'.poll_timer = request.poll_timer
      BY <1>2, <1>4 DEF State
    <2>2. TypeOK'
      BY <2>1, ClientTypes
    <2>3. QueriesMatchState'
      BY <1>4, <2>1 DEF QueriesMatchState
    <2>4. State \notin Resting
      BY DEF QueryValid, Resting
    <2>5. PostFails \/ NoLostWakeup'
      BY <1>4, <2>1, <2>4, AwakeBefore DEF NoLostWakeup
    <2> QED BY <2>1, <2>2, <2>3, <2>5, StepKeeps
  <1> QED BY <1>3, <1>4

\* cancel(): the job fails at once, or the cancel waits for its script.
LEMMA CancelStep ==
    ASSUME RequestCore, Cancel PROVE RequestKept
  <1>1. /\ TypeOK /\ request \in RequestRecord /\ ~running
        /\ UNCHANGED <<rsl, running, scriptVars, callbackVars, lrmVars,
                       managerVars, clientVars, state_file>>
    BY DEF RequestCore, TypeOK, Cancel, MayAsk
  <1> DEFINE x == To(request, "FAILED")
             y == SetStatus(x, "FAILED")
             z == [y EXCEPT !.failure_code = "USER_CANCELLED"]
             t == [z EXCEPT !.unsent_status_change = TRUE]
  <1>2. \/ State = "START" /\ request' = z
        \/ State \in CancelAtOnce /\ request' = t
        \/ /\ State \in {"SUBMIT", "POLL1", "POLL2", "POLL_QUERY1",
                         "POLL_QUERY2"}
           /\ request' = IF State = "POLL2"
                           THEN Register(To(Enqueue("cancel"), "POLL_QUERY1"))
                           ELSE Enqueue("cancel")
    BY DEF Cancel, Cancelled
  <1>3. CASE \/ State = "START" /\ request' = z
             \/ State \in CancelAtOnce /\ request' = t
    <2>1. /\ x \in RequestRecord /\ x.jobmanager_state = "FAILED"
          /\ x.poll_timer = request.poll_timer
      BY <1>1, ToFacts DEF ManagerStates, SameQueues
    <2> HIDE DEF x
    <2>2. /\ y \in RequestRecord /\ y.jobmanager_state = "FAILED"
          /\ y.poll_timer = request.poll_timer
      BY <2>1, SetStatusFacts DEF JobStates, SameQueues
    <2> HIDE DEF y
    <2>3. /\ z \in RequestRecord /\ z.jobmanager_state = "FAILED"
          /\ z.poll_timer = request.poll_timer
      BY <2>2 DEF RequestRecord, FailureCodes
    <2> HIDE DEF z
    <2>4. /\ t \in RequestRecord /\ t.jobmanager_state = "FAILED"
          /\ t.poll_timer = request.poll_timer
      BY <2>3 DEF RequestRecord
    <2> HIDE DEF t
    <2>5. /\ request' \in RequestRecord /\ State' = "FAILED"
          /\ request'.poll_timer = request.poll_timer
      BY <1>3, <2>3, <2>4 DEF State
    <2>6. State \notin Resting \union {"POLL2"}
      BY <1>3 DEF CancelAtOnce, Resting
    <2> QED BY <1>1, <2>5, <2>6, ClientMoves DEF ToSubmit, QueryStates
  <1>4. CASE /\ State \in {"SUBMIT", "POLL1", "POLL2", "POLL_QUERY1",
                           "POLL_QUERY2"}
             /\ request' = IF State = "POLL2"
                             THEN Register(To(Enqueue("cancel"), "POLL_QUERY1"))
                             ELSE Enqueue("cancel")
    <2>1. "cancel" \in QueryKinds /\ State \in QueryValid
      BY <1>4 DEF QueryKinds, QueryValid
    <2>2. \/ /\ State \in {"POLL2", "TWO_PHASE"}
             /\ \E s \in {"POLL_QUERY1", "TWO_PHASE_QUERY1"} :
                   request' = Register(To(Enqueue("cancel"), s))
          \/ State # "POLL2" /\ request' = Enqueue("cancel")
      BY <1>4
    <2> QED BY <1>1, <2>1, <2>2, QueryStep
  <1> QED BY <1>2, <1>3, <1>4

\* signal(): the script of a signal is started at once in TWO_PHASE and POLL2.
LEMMA SignalStep ==
    ASSUME RequestCore, NEW kind \in Signals, Signal(kind)
    PROVE  RequestKept
  <1>1. /\ ~running /\ State \in QueryValid
        /\ UNCHANGED <<rsl, running, scriptVars, callbackVars, lrmVars,
                       managerVars, clientVars, state_file>>
    BY DEF Signal, MayAsk
  <1>2. \/ /\ State \in {"POLL2", "TWO_PHASE"}
           /\ \E s \in {"POLL_QUERY1", "TWO_PHASE_QUERY1"} :
                 request' = Register(To(Enqueue(kind), s))
        \/ State # "POLL2" /\ request' = Enqueue(kind)
    BY DEF Signal
  <1> QED BY <1>1, <1>2, QueryStep DEF Signals

\* COMMIT_REQUEST moves the machine on and runs it.
LEMMA CommitRequestStep ==
    ASSUME RequestCore, CommitRequest PROVE RequestKept
  <1> DEFINE x == To(request, "TWO_PHASE_COMMITTED")
  <1>1. /\ TypeOK /\ request \in RequestRecord /\ ~running
        /\ request' = Register(x) /\ committed' = TRUE
        /\ UNCHANGED <<rsl, running, scriptVars, callbackVars, lrmVars,
                       managerVars, answered, state_file>>
    BY DEF RequestCore, TypeOK, CommitRequest, MayAsk
  <1>2. x \in RequestRecord /\ x.jobmanager_state = "TWO_PHASE_COMMITTED"
    BY <1>1, ToFacts DEF ManagerStates
  <1> HIDE DEF x
  <1>3. /\ request' \in RequestRecord /\ State' = "TWO_PHASE_COMMITTED"
        /\ request'.poll_timer
    BY <1>1, <1>2, RegisterFacts DEF State
  <1>4. TypeOK'
    BY <1>1, <1>3 DEF TypeOK
  <1>5. QueriesMatchState' /\ NoLostWakeup' /\ PreCommit'
    BY <1>1, <1>3 DEF QueriesMatchState, QueryStates, NoLostWakeup, PreCommit
  <1> QED BY <1>4, <1>5 DEF RequestCore, RequestKept

\* The end of the two-phase protocol, on a well-typed request.
LEMMA CommitEndFacts ==
    ASSUME NEW r \in RequestRecord
    PROVE  /\ CommitEndFrom(r) \in RequestRecord
           /\ CommitEndFrom(r).jobmanager_state \in
                 {"FAILED_TWO_PHASE_COMMITTED", "TWO_PHASE_END_COMMITTED"}
           /\ CommitEndFrom(r).poll_timer
  <1> DEFINE s == IF r.jobmanager_state = "FAILED_TWO_PHASE"
                    THEN "FAILED_TWO_PHASE_COMMITTED"
                    ELSE "TWO_PHASE_END_COMMITTED"
             x == To(r, s)
  <1>1. s \in {"FAILED_TWO_PHASE_COMMITTED", "TWO_PHASE_END_COMMITTED"}
        /\ CommitEndFrom(r) = Register(x)
    BY DEF CommitEndFrom
  <1> HIDE DEF s
  <1>2. x \in RequestRecord /\ x.jobmanager_state = s
    BY <1>1, ToFacts DEF ManagerStates
  <1> HIDE DEF x
  <1> QED BY <1>1, <1>2, RegisterFacts

\* COMMIT_END goes on to the clean-up.
LEMMA CommitEndStep ==
    ASSUME RequestCore, CommitEnd PROVE RequestKept
  <1>1. /\ request \in RequestRecord /\ ~running
        /\ request' = CommitEndFrom(request)
        /\ UNCHANGED <<rsl, running, scriptVars, callbackVars, lrmVars,
                       managerVars, clientVars, state_file>>
    BY DEF RequestCore, TypeOK, CommitEnd, MayAsk
  <1>2. /\ request' \in RequestRecord /\ request'.poll_timer
        /\ State' \in {"FAILED_TWO_PHASE_COMMITTED", "TWO_PHASE_END_COMMITTED"}
    BY <1>1, CommitEndFacts DEF State
  <1> QED BY <1>1, <1>2, ClientMoves DEF ToSubmit, QueryStates

\* A handler that changes neither the state nor the queues nor the timer.
LEMMA ClientQuiet ==
    ASSUME RequestCore, request' \in RequestRecord, State' = State,
           SameQueues(request, request'),
           state_file' \in StateFiles \union {NoStateFile},
           UNCHANGED <<rsl, running, scriptVars, callbackVars, lrmVars,
                       managerVars, clientVars>>
    PROVE  RequestKept
  <1>1. TypeOK'
    BY DEF RequestCore, TypeOK
  <1> QED BY <1>1, QuietStep DEF SameQueues

\* COMMIT_EXTEND only sets a mark.
LEMMA CommitExtendStep ==
    ASSUME RequestCore, CommitExtend PROVE RequestKept
  <1>1. /\ request \in RequestRecord
        /\ state_file \in StateFiles \union {NoStateFile}
        /\ request' = [request EXCEPT !.commit_extend = TRUE]
        /\ UNCHANGED <<rsl, running, scriptVars, callbackVars, lrmVars,
                       managerVars, clientVars, state_file>>
    BY DEF RequestCore, TypeOK, CommitExtend
  <1>2. /\ request' \in RequestRecord /\ State' = State
        /\ SameQueues(request, request')
    BY <1>1 DEF RequestRecord, State, SameQueues
  <1> QED BY <1>1, <1>2, ClientQuiet

\* STOP_MANAGER leaves a machine that rests in STOP.
LEMMA StopManagerStep ==
    ASSUME RequestCore, StopManager PROVE RequestKept
  <1>1. /\ TypeOK /\ request \in RequestRecord /\ ~running
        /\ State \in ManagerStates
        /\ UNCHANGED <<rsl, running, scriptVars, callbackVars, lrmVars,
                       managerVars, clientVars, state_file>>
    BY DEF RequestCore, TypeOK, StopManager, MayAsk, RequestRecord, State
  <1> DEFINE a == [request EXCEPT !.unsent_status_change = TRUE]
             x == To(request, "STOP")
             r == [x EXCEPT !.unsent_status_change = TRUE,
                            !.restart_state = State]
  <1>2. \/ State = "STOP" /\ request' = a
        \/ request' = r \/ request' = Register(r)
    BY DEF StopManager
  <1>3. a \in RequestRecord /\ a.jobmanager_state = State
    BY <1>1 DEF RequestRecord, State
  <1>4. x \in RequestRecord /\ x.jobmanager_state = "STOP"
    BY <1>1, ToFacts DEF ManagerStates
  <1> HIDE DEF a, x
  <1>5. r \in RequestRecord /\ r.jobmanager_state = "STOP"
    BY <1>1, <1>4 DEF RequestRecord
  <1> HIDE DEF r
  <1>6. request' \in RequestRecord /\ State' = "STOP"
    BY <1>2, <1>3, <1>5, RegisterFacts DEF State
  <1> QED BY <1>1, <1>6, ClientMoves DEF ToSubmit, QueryStates, Resting

\* STDIO_UPDATE changes the staging lists and the state file.
LEMMA StdioUpdateStep ==
    ASSUME RequestCore, StdioUpdate PROVE RequestKept
  <1>1. /\ request \in RequestRecord
        /\ request' = StdioUpdated(request)
        /\ state_file' = StateFileOf(request')
        /\ UNCHANGED <<rsl, running, scriptVars, callbackVars, lrmVars,
                       managerVars, clientVars>>
    BY DEF RequestCore, TypeOK, StdioUpdate
  <1>2. /\ request' \in RequestRecord /\ State' = State
        /\ SameQueues(request, request')
    <2> DEFINE i == rsl.stage_in /\ ~request.jm_restart
               o == rsl.stage_out /\ ~request.jm_restart
               t == rsl.stream /\ ~request.jm_restart
    <2>1. i \in BOOLEAN /\ o \in BOOLEAN /\ t \in BOOLEAN
      OBVIOUS
    <2>2. request' = [request EXCEPT !.stage_in_todo = i,
                                     !.stage_out_todo = o,
                                     !.stage_stream_todo = t]
      BY <1>1 DEF StdioUpdated
    <2> HIDE DEF i, o, t
    <2> QED BY <1>1, <2>1, <2>2 DEF RequestRecord, State, SameQueues
  <1>3. state_file' \in StateFiles \union {NoStateFile}
    BY <1>1, <1>2, StateFileTyped
  <1> QED BY <1>1, <1>2, <1>3, ClientQuiet

\* A contact comes.
LEMMA RegisterContactStep ==
    ASSUME RequestCore, NEW c \in Contacts, RegisterContact(c)
    PROVE  RequestKept
  <1>1. /\ request \in RequestRecord
        /\ state_file \in StateFiles \union {NoStateFile}
        /\ request' = [request EXCEPT !.client_contacts = @ \union {c}]
        /\ UNCHANGED <<rsl, running, scriptVars, callbackVars, lrmVars,
                       managerVars, clientVars, state_file>>
    BY DEF RequestCore, TypeOK, RegisterContact
  <1>2. /\ request' \in RequestRecord /\ State' = State
        /\ SameQueues(request, request')
    BY <1>1 DEF RequestRecord, State, SameQueues
  <1> QED BY <1>1, <1>2, ClientQuiet

\* A contact leaves; the last one may end the two-phase protocol.
LEMMA UnregisterContactStep ==
    ASSUME RequestCore, NEW c \in Contacts, UnregisterContact(c)
    PROVE  RequestKept
  <1> DEFINE r == [request EXCEPT !.client_contacts = @ \ {c}]
  <1>1. /\ request \in RequestRecord /\ ~running
        /\ state_file \in StateFiles \union {NoStateFile}
        /\ request' = CommitEndFrom(r) \/ request' = r
        /\ UNCHANGED <<rsl, running, scriptVars, callbackVars, lrmVars,
                       managerVars, clientVars, state_file>>
    BY DEF RequestCore, TypeOK, UnregisterContact, MayAsk
  <1>2. /\ r \in RequestRecord /\ r.jobmanager_state = State
        /\ SameQueues(request, r)
    BY <1>1 DEF RequestRecord, State, SameQueues
  <1> HIDE DEF r
  <1>3. CASE request' = r
    <2>1. State' = State
      BY <1>2, <1>3 DEF State
    <2> QED BY <1>1, <1>2, <1>3, <2>1, ClientQuiet
  <1>4. CASE request' = CommitEndFrom(r)
    <2>1. /\ request' \in RequestRecord /\ request'.poll_timer
          /\ State' \in {"FAILED_TWO_PHASE_COMMITTED",
                         "TWO_PHASE_END_COMMITTED"}
      BY <1>2, <1>4, CommitEndFacts DEF State
    <2> QED BY <1>1, <2>1, ClientMoves DEF ToSubmit, QueryStates
  <1> QED BY <1>1, <1>3, <1>4

\* Every query and signal of the client keeps the invariant.
LEMMA ClientStep ==
    ASSUME RequestCore, Client PROVE RequestKept
  BY CancelStep, SignalStep, CommitRequestStep, CommitEndStep,
     CommitExtendStep, StopManagerStep, StdioUpdateStep, RegisterContactStep,
     UnregisterContactStep DEF Client

\* A line of script output changes the request without moving it.
LEMMA ScriptSays ==
    ASSUME RequestCore, NEW i \in DOMAIN scripts, NEW var \in ScriptVars,
           Said(i, var), request' \in RequestRecord, State' = State,
           SameQueues(request, request'),
           state_file' \in StateFiles \union {NoStateFile},
           staged_out' \in BOOLEAN,
           UNCHANGED <<rsl, running, callbackVars, lrmVars, managerVars,
                       clientVars>>
    PROVE  RequestKept
  <1>1. TypeOK
    BY DEF RequestCore
  <1>2. /\ scripts' \in Seq(Scripts) /\ scripts' # <<>>
        /\ DOMAIN scripts' = DOMAIN scripts
        /\ \A k \in DOMAIN scripts : scripts'[k].cmd = scripts[k].cmd
    BY <1>1, SaidFacts
  <1>3. TypeOK'
    BY <1>1, <1>2 DEF TypeOK
  <1> QED BY <1>2, <1>3, QuietStep DEF SameQueues

\* The job id is noted.
LEMMA ScriptJobIdStep ==
    ASSUME RequestCore, NEW i \in DOMAIN scripts, ScriptJobId(i)
    PROVE  RequestKept
  <1>1. /\ request \in RequestRecord /\ staged_out \in BOOLEAN
        /\ state_file \in StateFiles \union {NoStateFile}
    BY DEF RequestCore, TypeOK
  <1>2. /\ Said(i, "JOB_ID") /\ "JOB_ID" \in ScriptVars
        /\ request' = [request EXCEPT !.job_id_string = "set"]
        /\ UNCHANGED <<rsl, running, staged_out, callbackVars, lrmVars,
                       managerVars, clientVars, state_file>>
    BY DEF ScriptJobId, ScriptVars
  <1>3. /\ request' \in RequestRecord /\ State' = State
        /\ SameQueues(request, request')
    BY <1>1, <1>2 DEF RequestRecord, JobIds, State, SameQueues
  <1> QED BY <1>1, <1>2, <1>3, ScriptSays

\* The LRM's status is reported.
LEMMA ScriptJobStateStep ==
    ASSUME RequestCore, NEW i \in DOMAIN scripts, ScriptJobState(i)
    PROVE  RequestKept
  <1>1. /\ request \in RequestRecord /\ staged_out \in BOOLEAN
        /\ state_file \in StateFiles \union {NoStateFile}
    BY DEF RequestCore, TypeOK
  <1>2. /\ Said(i, "JOB_STATE") /\ "JOB_STATE" \in ScriptVars
        /\ request' = ReportStatus(request, lrm)
        /\ UNCHANGED <<rsl, running, staged_out, callbackVars, lrmVars,
                       managerVars, clientVars, state_file>>
    BY DEF ScriptJobState, ScriptVars
  <1>3. lrm \in JobStates
    BY DEF ScriptJobState, RequestCore, TypeOK, LrmStates, SegEvents,
           JobStates
  <1>4. /\ request' \in RequestRecord /\ State' = State
        /\ SameQueues(request, request')
    BY <1>1, <1>2, <1>3, ReportStatusFacts DEF State
  <1> QED BY <1>1, <1>2, <1>4, ScriptSays

\* An error fails the job, if it is still where the script was started.
LEMMA ScriptErrorStep ==
    ASSUME RequestCore, NEW i \in DOMAIN scripts, ScriptError(i)
    PROVE  RequestKept
  <1> DEFINE x == SetStatus(request, "FAILED")
             y == [x EXCEPT !.failure_code = "SCRIPT_ERROR",
                            !.unsent_status_change = TRUE]
  <1>1. /\ request \in RequestRecord /\ staged_out \in BOOLEAN
        /\ state_file \in StateFiles \union {NoStateFile}
    BY DEF RequestCore, TypeOK
  <1>2. /\ Said(i, "ERROR") /\ "ERROR" \in ScriptVars
        /\ request' = request \/ request' = y
        /\ UNCHANGED <<rsl, running, staged_out, callbackVars, lrmVars,
                       managerVars, clientVars, state_file>>
    BY DEF ScriptError, ScriptVars
  <1>3. /\ x \in RequestRecord /\ x.jobmanager_state = State
        /\ SameQueues(request, x)
    BY <1>1, SetStatusFacts DEF JobStates, State
  <1> HIDE DEF x
  <1>4. /\ y \in RequestRecord /\ y.jobmanager_state = State
        /\ SameQueues(request, y)
    BY <1>3 DEF RequestRecord, FailureCodes, SameQueues
  <1> HIDE DEF y
  <1>5. /\ request' \in RequestRecord /\ State' = State
        /\ SameQueues(request, request')
    BY <1>1, <1>2, <1>4 DEF State, SameQueues
  <1> QED BY <1>1, <1>2, <1>5, ScriptSays

\* The files of stage-in have arrived.
LEMMA ScriptStagedInStep ==
    ASSUME RequestCore, NEW i \in DOMAIN scripts, ScriptStagedIn(i)
    PROVE  RequestKept
  <1>1. /\ request \in RequestRecord /\ staged_out \in BOOLEAN
        /\ state_file \in StateFiles \union {NoStateFile}
    BY DEF RequestCore, TypeOK
  <1>2. /\ Said(i, "STAGED") /\ "STAGED" \in ScriptVars
        /\ request' = [request EXCEPT !.stage_in_todo = FALSE]
        /\ state_file' = state_file \/ state_file' = StateFileOf(request')
        /\ UNCHANGED <<rsl, running, staged_out, callbackVars, lrmVars,
                       managerVars, clientVars>>
    BY DEF ScriptStagedIn, ScriptVars
  <1>3. /\ request' \in RequestRecord /\ State' = State
        /\ SameQueues(request, request')
    BY <1>1, <1>2 DEF RequestRecord, State, SameQueues
  <1>4. state_file' \in StateFiles \union {NoStateFile}
    BY <1>1, <1>2, <1>3, StateFileTyped
  <1> QED BY <1>1, <1>2, <1>3, <1>4, ScriptSays

\* The files of stage-out, or the streamed output, have been delivered.
LEMMA ScriptStagedOutStep ==
    ASSUME RequestCore, NEW i \in DOMAIN scripts,
           NEW var \in {"STAGED", "STREAMED"}, ScriptStagedOut(i, var)
    PROVE  RequestKept
  <1>1. /\ request \in RequestRecord /\ staged_out \in BOOLEAN
        /\ state_file \in StateFiles \union {NoStateFile}
    BY DEF RequestCore, TypeOK
  <1>2. /\ Said(i, var) /\ var \in ScriptVars /\ staged_out' \in BOOLEAN
        /\ UNCHANGED <<rsl, running, callbackVars, lrmVars, managerVars,
                       clientVars>>
    BY DEF ScriptStagedOut, ScriptVars
  <1>3. \/ /\ \/ request' = [request EXCEPT !.stage_out_todo = FALSE]
              \/ request' = [request EXCEPT !.stage_stream_todo = FALSE]
           /\ state_file' = StateFileOf(request')
        \/ request' = request /\ state_file' = state_file
    BY DEF ScriptStagedOut
  <1>4. /\ request' \in RequestRecord /\ State' = State
        /\ SameQueues(request, request')
    BY <1>1, <1>3 DEF RequestRecord, State, SameQueues
  <1>5. state_file' \in StateFiles \union {NoStateFile}
    BY <1>1, <1>3, <1>4, StateFileTyped
  <1> QED BY <1>1, <1>2, <1>4, <1>5, ScriptSays

\* The answer of a cancel or signal script.
LEMMA ScriptQueryStateStep ==
    ASSUME RequestCore, NEW i \in DOMAIN scripts, ScriptQueryState(i)
    PROVE  RequestKept
  <1> DEFINE s == QueryReport(scripts[i].query.kind)
             x == SetStatus(request, s)
             c == IF s = "FAILED" THEN "USER_CANCELLED" ELSE x.failure_code
             y == [x EXCEPT !.unsent_status_change = TRUE, !.failure_code = c]
  <1>1. /\ request \in RequestRecord /\ staged_out \in BOOLEAN
        /\ state_file \in StateFiles \union {NoStateFile}
    BY DEF RequestCore, TypeOK
  <1>2. /\ Said(i, "JOB_STATE") /\ "JOB_STATE" \in ScriptVars
        /\ request' = request
           \/ request' = [x EXCEPT !.unsent_status_change = TRUE,
                                   !.failure_code = IF s = "FAILED"
                                     THEN "USER_CANCELLED" ELSE @]
        /\ UNCHANGED <<rsl, running, staged_out, callbackVars, lrmVars,
                       managerVars, clientVars, state_file>>
    BY DEF ScriptQueryState, ScriptVars
  <1>3. s \in JobStates
    BY DEF QueryReport, JobStates
  <1> HIDE DEF s
  <1>4. /\ x \in RequestRecord /\ x.jobmanager_state = State
        /\ SameQueues(request, x)
    BY <1>1, <1>3, SetStatusFacts DEF State
  <1> HIDE DEF x
  <1>5. c \in FailureCodes
    BY <1>4 DEF RequestRecord, FailureCodes
  <1>6. request' = request \/ request' = y
    BY <1>2
  <1> HIDE DEF c
  <1>7. /\ y \in RequestRecord /\ y.jobmanager_state = State
        /\ SameQueues(request, y)
    BY <1>4, <1>5 DEF RequestRecord, SameQueues
  <1> HIDE DEF y
  <1>8. /\ request' \in RequestRecord /\ State' = State
        /\ SameQueues(request, request')
    BY <1>1, <1>6, <1>7 DEF State, SameQueues
  <1> QED BY <1>1, <1>2, <1>8, ScriptSays

\* A script ends: it leaves the list, and the machine is run.
LEMMA ScriptDoneStep ==
    ASSUME RequestCore, NEW i \in DOMAIN scripts, NEW broken \in BOOLEAN,
           ScriptDone(i, broken)
    PROVE  RequestKept
  <1> DEFINE code == IF broken THEN "INVALID_SCRIPT_STATUS"
                               ELSE request.failure_code
             x == [request EXCEPT !.failure_code = code]
             a == SubSeq(scripts, 1, i - 1)
             b == SubSeq(scripts, i + 1, Len(scripts))
  <1>1. /\ TypeOK /\ request \in RequestRecord /\ scripts \in Seq(Scripts)
    BY DEF RequestCore, TypeOK
  <1>2. /\ scripts' = a \o b /\ request' = Register(x)
        /\ UNCHANGED <<rsl, running, staged_out, callbackVars, lrmVars,
                       managerVars, clientVars, state_file>>
    BY DEF ScriptDone
  <1>3. code \in FailureCodes
    BY <1>1 DEF RequestRecord, FailureCodes
  <1> HIDE DEF code
  <1>4. /\ x \in RequestRecord /\ x.jobmanager_state = State
        /\ SameQueues(request, x)
    BY <1>1, <1>3 DEF RequestRecord, State, SameQueues
  <1> HIDE DEF x
  <1>5. /\ request' \in RequestRecord /\ State' = State /\ request'.poll_timer
        /\ request'.pending_queries = request.pending_queries
    BY <1>2, <1>4, RegisterFacts DEF State, SameQueues
  <1>6. /\ i \in 1..Len(scripts) /\ Len(scripts) \in Nat
    BY <1>1
  <1>7. /\ a \in Seq(Scripts) /\ Len(a) = i - 1
        /\ \A k \in 1..(i - 1) : a[k] = scripts[k]
    BY <1>1, <1>6
  <1>8. /\ b \in Seq(Scripts) /\ Len(b) = Len(scripts) - i
        /\ \A k \in 1..(Len(scripts) - i) : b[k] = scripts[i + k]
    BY <1>1, <1>6
  <1> HIDE DEF a, b
  <1>9. /\ scripts' \in Seq(Scripts)
        /\ \A k \in DOMAIN scripts' : \E j \in DOMAIN scripts :
               scripts'[k] = scripts[j]
    <2>1. /\ a \o b \in Seq(Scripts) /\ Len(a \o b) = Len(scripts) - 1
          /\ \A k \in 1..(Len(scripts) - 1) :
                (a \o b)[k] = IF k <= i - 1 THEN a[k] ELSE b[k - (i - 1)]
      BY <1>6, <1>7, <1>8
    <2>2. ASSUME NEW k \in 1..(Len(scripts) - 1)
          PROVE  \E j \in DOMAIN scripts : (a \o b)[k] = scripts[j]
      <3>1. CASE k <= i - 1
        BY <1>6, <1>7, <2>1, <3>1
      <3>2. CASE ~(k <= i - 1)
        <4>1. k - (i - 1) \in 1..(Len(scripts) - i)
          BY <1>6, <3>2
        <4>2. (a \o b)[k] = scripts[i + (k - (i - 1))]
          BY <1>8, <2>1, <3>2, <4>1
        <4>3. i + (k - (i - 1)) \in DOMAIN scripts
          BY <1>6, <4>1
        <4> QED BY <4>2, <4>3
      <3> QED BY <3>1, <3>2
    <2> DEFINE c == a \o b
    <2>3. scripts' = c /\ c \in Seq(Scripts)
      BY <1>2, <2>1
    <2>4. DOMAIN c = 1..(Len(scripts) - 1)
      <3>1. c \in Seq(Scripts) /\ Len(c) = Len(scripts) - 1
        BY <2>1
      <3> HIDE DEF c
      <3> QED BY <3>1
    <2>5. \A k \in DOMAIN c : \E j \in DOMAIN scripts : c[k] = scripts[j]
      BY <2>2, <2>4
    <2> HIDE DEF c
    <2> QED BY <2>3, <2>5
  <1>10. TypeOK'
    BY <1>1, <1>2, <1>5, <1>9 DEF TypeOK
  <1>11. QueriesMatchState' /\ NoLostWakeup'
    BY <1>5 DEF RequestCore, QueriesMatchState, NoLostWakeup
  <1> QED BY <1>2, <1>5, <1>9, <1>10, <1>11, StepKeeps

\* The LRM takes a job only from a submit script, which runs after the commit.
LEMMA LrmAcceptsStep ==
    ASSUME RequestCore, NEW i \in DOMAIN scripts, LrmAccepts(i)
    PROVE  RequestKept
  <1>1. /\ TypeOK /\ scripts[i].cmd = "submit"
        /\ Said(i, "ACCEPTED") /\ "ACCEPTED" \in ScriptVars
        /\ lrm' = "PENDING" /\ submissions' = submissions + 1
        /\ seg_events' = (IF SegStarted THEN {"PENDING"} ELSE {})
        /\ UNCHANGED <<requestVars, staged_out, callbackVars, managerVars,
                       clientVars, state_file>>
    BY DEF RequestCore, LrmAccepts, ScriptVars
  <1>2. /\ scripts' \in Seq(Scripts) /\ scripts' # <<>>
    BY <1>1, SaidFacts
  <1>3. TypeOK'
    BY <1>1, <1>2 DEF TypeOK, LrmStates, SegEvents
  <1>4. PreCommit => PreCommit'
    BY <1>1 DEF PreCommit
  <1>5. QueriesMatchState' /\ NoLostWakeup'
    BY <1>1, <1>2 DEF RequestCore, QueriesMatchState, NoLostWakeup, State
  <1> QED BY <1>3, <1>4, <1>5 DEF RequestCore, RequestKept

\* A job the LRM cancels, suspends or resumes.
LEMMA LrmObeysStep ==
    ASSUME RequestCore, NEW i \in DOMAIN scripts, LrmObeys(i)
    PROVE  RequestKept
  <1>1. /\ TypeOK /\ Said(i, "ACCEPTED") /\ "ACCEPTED" \in ScriptVars
        /\ UNCHANGED <<requestVars, staged_out, callbackVars, submissions,
                       managerVars, clientVars, state_file>>
    BY DEF RequestCore, LrmObeys, ScriptVars
  <1>2. lrm' \in LrmStates /\ seg_events' \subseteq SegEvents
    BY <1>1 DEF LrmObeys, TypeOK, LrmStates, SegEvents
  <1>3. /\ scripts' \in Seq(Scripts) /\ scripts' # <<>>
        /\ DOMAIN scripts' = DOMAIN scripts
        /\ \A k \in DOMAIN scripts : scripts'[k].cmd = scripts[k].cmd
    BY <1>1, SaidFacts
  <1>4. TypeOK'
    BY <1>1, <1>2, <1>3 DEF TypeOK
  <1> QED BY <1>1, <1>3, <1>4, QuietStep DEF State

\* The job moves on in the LRM.
LEMMA LrmMovesStep ==
    ASSUME RequestCore, LrmMoves PROVE RequestKept
  <1>1. /\ TypeOK
        /\ UNCHANGED <<requestVars, scriptVars, callbackVars, submissions,
                       managerVars, clientVars, state_file>>
    BY DEF RequestCore, LrmMoves
  <1>2. lrm' \in LrmStates /\ seg_events' \subseteq SegEvents
    BY <1>1 DEF LrmMoves, TypeOK, LrmStates, SegEvents
  <1>3. TypeOK'
    BY <1>1, <1>2 DEF TypeOK
  <1> QED BY <1>1, <1>3, QuietStep DEF State

\* An event of the SEG is queued; in POLL2 it also runs the machine.
LEMMA SegDeliversStep ==
    ASSUME RequestCore, NEW event \in SegEvents, SegDelivers(event)
    PROVE  RequestKept
  <1> DEFINE x == [request EXCEPT !.seg_event_queue = Append(@, event)]
             p == To(x, "POLL1")
  <1>1. /\ TypeOK /\ request \in RequestRecord /\ ~running
        /\ request' = Wake(x) /\ seg_events' = seg_events \ {event}
        /\ registered' \in BOOLEAN
        /\ UNCHANGED <<rsl, running, scriptVars, callbackVars, lrm,
                       submissions, seg_pause_count, clientVars, state_file>>
    BY DEF RequestCore, TypeOK, SegDelivers
  <1>2. /\ x \in RequestRecord /\ x.jobmanager_state = State
        /\ x.pending_queries = request.pending_queries
        /\ x.poll_timer = request.poll_timer
    <2>1. Append(request.seg_event_queue, event) \in Seq(SegEvents)
      BY <1>1 DEF RequestRecord
    <2> QED BY <1>1, <2>1 DEF RequestRecord, State
  <1>3. request' = (IF State = "POLL2" THEN Register(p) ELSE x)
    BY <1>1, <1>2 DEF Wake
  <1> HIDE DEF x
  <1>4. p \in RequestRecord /\ p.jobmanager_state = "POLL1"
    BY <1>2, ToFacts DEF ManagerStates
  <1> HIDE DEF p
  <1>5. CASE State = "POLL2"
    <2>1. /\ request' \in RequestRecord /\ State' = "POLL1"
          /\ request'.poll_timer
      BY <1>3, <1>4, <1>5, RegisterFacts DEF State
    <2>2. TypeOK'
      BY <1>1, <2>1 DEF TypeOK
    <2> QED BY <1>1, <2>1, <2>2, MoveKeeps DEF QueryStates, ToSubmit, Awake
  <1>6. CASE State # "POLL2"
    <2>1. /\ request' \in RequestRecord /\ State' = State
          /\ request'.pending_queries = request.pending_queries
          /\ request'.poll_timer = request.poll_timer
      BY <1>2, <1>3, <1>6 DEF State
    <2>2. TypeOK'
      BY <1>1, <2>1 DEF TypeOK
    <2>3. QueriesMatchState'
      BY <2>1 DEF RequestCore, QueriesMatchState
    <2>4. PostFails \/ NoLostWakeup'
      BY <1>1, <1>6, <2>1, AwakeBefore DEF NoLostWakeup
    <2> QED BY <1>1, <2>1, <2>2, <2>3, <2>4, StepKeeps
  <1> QED BY <1>5, <1>6

\* The last reply of a restarting callback arms the timer.
LEMMA CallbackReplyStep ==
    ASSUME RequestCore, CallbackReply PROVE RequestKept
  <1>1. /\ TypeOK /\ request \in RequestRecord /\ restart_callbacks \in Nat
        /\ restart_callbacks > 0 /\ restart_callbacks' = restart_callbacks - 1
        /\ request' = Register(request)
        /\ UNCHANGED <<rsl, running, scriptVars, lrmVars, managerVars,
                       clientVars, state_file, sent>>
    BY DEF RequestCore, TypeOK, CallbackReply
  <1>2. /\ request' \in RequestRecord /\ State' = State /\ request'.poll_timer
        /\ request'.pending_queries = request.pending_queries
    BY <1>1, RegisterFacts DEF State
  <1>3. restart_callbacks' \in Nat
    BY <1>1
  <1>4. TypeOK'
    BY <1>1, <1>2, <1>3 DEF TypeOK
  <1>5. QueriesMatchState' /\ NoLostWakeup'
    BY <1>2 DEF RequestCore, QueriesMatchState, NoLostWakeup
  <1> QED BY <1>1, <1>2, <1>4, <1>5, StepKeeps

\* Script output, scheduler events and replies keep the invariant.
LEMMA EnvironmentStep ==
    ASSUME RequestCore, Environment PROVE RequestKept
  <1>1. CASE ScriptOutput
    BY <1>1, ScriptJobIdStep, ScriptJobStateStep, ScriptErrorStep,
       ScriptStagedInStep, ScriptStagedOutStep, ScriptQueryStateStep
       DEF ScriptOutput
  <1>2. CASE ScriptEnds
    BY <1>2, ScriptDoneStep DEF ScriptEnds
  <1> QED BY <1>1, <1>2, LrmAcceptsStep, LrmObeysStep, LrmMovesStep,
             SegDeliversStep, CallbackReplyStep DEF Environment

-----------------------------------------------------------------------------
(* The theorems                                                             *)

\* Every step of the request keeps the invariant.
LEMMA NextStep ==
    ASSUME RequestCore, [Next]_vars PROVE RequestKept
  <1>1. CASE Next
    BY <1>1, TimerFiresStep, StateMachineStep, ClientStep, EnvironmentStep
       DEF Next
  <1>2. CASE UNCHANGED vars
    <2>1. TypeOK'
      BY <1>2 DEF vars, RequestCore, TypeOK
    <2> QED BY <1>2, <2>1, QuietStep DEF vars, State
  <1> QED BY <1>1, <1>2

\* A new request satisfies the invariant: its first timer is armed.
LEMMA InitInvariant == Init => RequestInvariant
  <1> SUFFICES ASSUME Init PROVE RequestInvariant
    OBVIOUS
  <1> DEFINE new == NewRequest(rsl)
  <1>1. PICK contacts \in SUBSET Contacts :
            request = StartedRequest(rsl, contacts)
    BY DEF Init
  <1> DEFINE c == [new EXCEPT !.client_contacts = contacts]
             r == Register(c)
             d == [r EXCEPT !.failure_code = "DRYRUN"]
  <1>2. /\ rsl \in Requests /\ rsl.stage_in \in BOOLEAN
        /\ rsl.stage_out \in BOOLEAN /\ rsl.stream \in BOOLEAN
    BY ConstantsAssumption DEF Init, RSL
  <1>3. new \in RequestRecord /\ new.jobmanager_state = "START"
    <2>1. <<>> \in Seq(Queries) /\ <<>> \in Seq(SegEvents)
      OBVIOUS
    <2> QED BY <1>2, <2>1 DEF NewRequest, RequestRecord, ManagerStates,
                              JobStates, FailureCodes, JobIds
  <1> HIDE DEF new
  <1>4. c \in RequestRecord /\ c.jobmanager_state = "START"
    BY <1>3 DEF RequestRecord
  <1> HIDE DEF c
  <1>5. r \in RequestRecord /\ r.jobmanager_state = "START" /\ r.poll_timer
    BY <1>4, RegisterFacts
  <1>6. request = r \/ request = SetStatus(d, "FAILED")
    BY <1>1 DEF StartedRequest, r, c, new
  <1> HIDE DEF r
  <1>7. d \in RequestRecord /\ d.jobmanager_state = "START" /\ d.poll_timer
    BY <1>5 DEF RequestRecord, FailureCodes
  <1> HIDE DEF d
  <1>8. request \in RequestRecord /\ State = "START" /\ request.poll_timer
    <2>1. "FAILED" \in JobStates
      BY DEF JobStates
    <2> QED BY <1>5, <1>6, <1>7, <2>1, SetStatusFacts DEF State, SameQueues
  <1>9. state_file \in StateFiles
    BY <1>3, StateFileTyped DEF Init, new
  <1>10. TypeOK
    <2>1. scripts = <<>> /\ scripts \in Seq(Scripts)
      BY DEF Init
    <2>2. answered = {} /\ IsFiniteSet(answered)
      BY FS_EmptySet DEF Init
    <2>3. /\ running = FALSE /\ staged_out = FALSE /\ restart_callbacks = 0
          /\ sent = {} /\ seg_pause_count = 0 /\ registered = FALSE
          /\ lrm = "none" /\ seg_events = {} /\ submissions = 0
          /\ committed = FALSE
      BY DEF Init
    <2>4. /\ sent \subseteq JobStates \union {"STOP"} /\ answered \subseteq Nat
          /\ seg_events \subseteq SegEvents
      BY <2>2, <2>3
    <2>5. /\ lrm \in LrmStates /\ restart_callbacks \in Nat
          /\ seg_pause_count \in Int /\ submissions \in Nat
      BY <2>3 DEF LrmStates
    <2>6. /\ running \in BOOLEAN /\ staged_out \in BOOLEAN
          /\ registered \in BOOLEAN /\ committed \in BOOLEAN
      BY <2>3
    <2> QED BY <1>2, <1>8, <1>9, <2>1, <2>2, <2>4, <2>5, <2>6 DEF TypeOK
  <1>11. QueriesMatchState /\ NoLostWakeup
    BY <1>8 DEF QueriesMatchState, QueryStates, NoLostWakeup
  <1>12. PreCommit
    BY <1>8 DEF PreCommit, Init
  <1> QED BY <1>10, <1>11, <1>12 DEF RequestInvariant

\* The request's invariant holds for every RSL, mask, set of client
\* operations and bound: the type, the match of state and query queue, the
\* order of commit and submission, and (unless posts fail) the wake-ups.
THEOREM RequestInvariantHolds == Spec => []RequestInvariant
  <1>1. RequestInvariant /\ [Next]_vars => RequestInvariant'
    BY NextStep DEF RequestInvariant, RequestCore, RequestKept
  <1> QED BY <1>1, InitInvariant, PTL DEF Spec

\* Type correctness of every variable.
THEOREM RequestTypeCorrect == Spec => []TypeOK
  <1>1. RequestInvariant => TypeOK
    BY DEF RequestInvariant
  <1> QED BY <1>1, RequestInvariantHolds, PTL

\* The QUERY1 and QUERY2 cases never take a query from an empty queue, and
\* the machine never waits in POLL2 with a query queued.
THEOREM QueriesAlwaysMatchState == Spec => []QueriesMatchState
  <1>1. RequestInvariant => QueriesMatchState
    BY DEF RequestInvariant
  <1> QED BY <1>1, RequestInvariantHolds, PTL

\* The LRM accepts a two-phase job only after the client's commit, for a job
\* manager that is not restarted.
THEOREM NoSubmissionBeforeCommit == Spec => []NoSubmitBeforeCommit
  <1>1. RequestInvariant => NoSubmitBeforeCommit
    BY DEF RequestInvariant, TypeOK, PreCommit, NoSubmitBeforeCommit
  <1> QED BY <1>1, RequestInvariantHolds, PTL

\* If not all posts of a state callback fail, no wake-up is ever lost.
THEOREM NoWakeupLost ==
    ASSUME ~PostFails
    PROVE  Spec => []NoLostWakeup
  <1>1. RequestInvariant => NoLostWakeup
    BY DEF RequestInvariant
  <1> QED BY <1>1, RequestInvariantHolds, PTL

=============================================================================
