------------------------ MODULE GramRequestJob_proof ------------------------
(***************************************************************************)
(* What becomes of the job of one request: it is handed to the LRM once,   *)
(* the state file says so, its files are staged out before its contacts    *)
(* hear of its end, and every query is answered.  Then, for a client that  *)
(* never stops the manager, that at most one thing will run the machine    *)
(* again, and what follows from it.  Built on the invariant of             *)
(* GramRequest_proof.                                                      *)
(***************************************************************************)
EXTENDS GramRequest_proof

-----------------------------------------------------------------------------
(* The invariant                                                            *)

\* Script i of the sequence s is a submit script.
SubmitIn(s, i) == i \in DOMAIN s /\ s[i].cmd = "submit"

\* The submit script was started: the LRM has the job, or may yet get it.
Submitted == submissions > 0 \/ \E i \in DOMAIN scripts : SubmitIn(scripts, i)

\* The states that come before the submit script.
PreSubmit == {"START", "TWO_PHASE", "TWO_PHASE_QUERY1", "TWO_PHASE_QUERY2",
              "TWO_PHASE_COMMITTED", "STAGE_IN"}

\* The request is in one of them, or was when it was stopped.
Before(r) == \/ r.jobmanager_state \in PreSubmit
             \/ r.jobmanager_state = "STOP" /\ r.restart_state \in PreSubmit

\* The state file tells the next job manager to begin before the submission.
FileBefore(file) == file # NoStateFile /\ file.restart_state \in PreSubmit

\* One submit script at most, and none that may submit what the LRM has.
OneSubmitScript ==
    /\ submissions <= 1
    /\ \A i, j \in DOMAIN scripts :
          SubmitIn(scripts, i) /\ SubmitIn(scripts, j) => i = j
    /\ \A i \in DOMAIN scripts :
          SubmitIn(scripts, i) /\ "ACCEPTED" \notin scripts[i].said =>
              submissions = 0

\* A submitted job is never again in a state that leads to its submission,
\* in memory or on disk.
PastSubmission == Submitted => ~Before(request) /\ ~FileBefore(state_file)

\* Files to stage out stay on the list until they are staged, and no contact
\* hears DONE before.
StageOutKept == rsl.stage_out /\ ~staged_out =>
                    request.stage_out_todo /\ "DONE" \notin sent

\* Nothing is queued for a request that came to its end.
EndAnswered == State \in {"DONE", "FAILED_DONE"} =>
                   request.pending_queries = <<>>

\* The inductive invariant; jm_restart is set only for a restarted request.
JobCore ==
    /\ ~request.jm_restart
    /\ OneSubmitScript
    /\ PastSubmission
    /\ StageOutKept
    /\ EndAnswered

-----------------------------------------------------------------------------
(* What the helpers of the model keep                                       *)

USE DEF requestVars, scriptVars, callbackVars, lrmVars, managerVars, clientVars

\* Request b has the restart data and the stage-out list of request a.
Kept(a, b) == /\ b.jm_restart = a.jm_restart
              /\ b.restart_state = a.restart_state
              /\ b.stage_out_todo = a.stage_out_todo

\* A move of the machine keeps them, and the status.
LEMMA MovesKeep ==
    ASSUME NEW r \in RequestRecord, NEW s \in ManagerStates
    PROVE  Kept(r, To(r, s)) /\ To(r, s).status = r.status
  BY DEF RequestRecord, To, Kept

\* So does a registration of the machine.
LEMMA RegisterKeeps ==
    ASSUME NEW r \in RequestRecord
    PROVE  Kept(r, Register(r)) /\ Register(r).status = r.status
  BY DEF RequestRecord, Register, Kept

\* What two changes keep, both together keep.
LEMMA KeptOn ==
    ASSUME NEW a, NEW b, NEW c, Kept(a, b), Kept(b, c)
    PROVE  Kept(a, c)
  BY DEF Kept

\* So does a new status.
LEMMA SetStatusKeeps ==
    ASSUME NEW r \in RequestRecord, NEW s \in JobStates
    PROVE  Kept(r, SetStatus(r, s)) /\ SetStatus(r, s).status = s
  BY DEF RequestRecord, SetStatus, Kept

\* So does a reported status.
LEMMA ReportStatusKeeps ==
    ASSUME NEW r \in RequestRecord, NEW s \in JobStates
    PROVE  Kept(r, ReportStatus(r, s))
  <1> DEFINE new == IF s = "DONE" /\ (rsl.stage_out \/ rsl.stream)
                      THEN "STAGE_OUT" ELSE s
             set == SetStatus(r, new)
  <1>1. new \in JobStates
    BY DEF JobStates
  <1> HIDE DEF new
  <1>2. set \in RequestRecord /\ Kept(r, set)
    BY <1>1, SetStatusFacts, SetStatusKeeps
  <1> HIDE DEF set
  <1> DEFINE told == [set EXCEPT !.unsent_status_change = TRUE]
  <1>3. Kept(r, told)
    BY <1>2 DEF RequestRecord, Kept
  <1>4. ReportStatus(r, s) = r \/ ReportStatus(r, s) = told
    BY DEF ReportStatus, told, set, new
  <1> HIDE DEF told
  <1> QED BY <1>3, <1>4 DEF Kept

\* So does an event.
LEMMA HandleEventKeeps ==
    ASSUME NEW r \in RequestRecord, r.seg_event_queue # <<>>
    PROVE  Kept(r, HandleEvent(r))
  <1> DEFINE event    == Head(r.seg_event_queue)
             popped   == [r EXCEPT !.seg_event_queue = Tail(@)]
             finished == [popped EXCEPT
                            !.job_id_string = "empty",
                            !.expected_terminal_state =
                                IF event = "FAILED" THEN "FAILED" ELSE @]
  <1>1. r.seg_event_queue \in Seq(SegEvents)
    BY DEF RequestRecord
  <1>2. event \in SegEvents /\ Tail(r.seg_event_queue) \in Seq(SegEvents)
    BY <1>1, HeadTailProperties
  <1>3. event \in JobStates
    BY <1>2 DEF SegEvents, JobStates
  <1>4. popped \in RequestRecord /\ Kept(r, popped)
    BY <1>2 DEF RequestRecord, Kept
  <1>5. /\ finished \in RequestRecord /\ Kept(r, finished)
        /\ finished.expected_terminal_state \in {"DONE", "FAILED"}
    BY <1>2, <1>4 DEF RequestRecord, JobIds, Kept
  <1>6. finished.expected_terminal_state \in JobStates
    BY <1>5 DEF JobStates
  <1>7. \/ HandleEvent(r) = ReportStatus(finished,
                                         finished.expected_terminal_state)
        \/ HandleEvent(r) = ReportStatus(popped, event)
    BY DEF HandleEvent
  <1> HIDE DEF event, popped, finished
  <1> QED BY <1>3, <1>4, <1>5, <1>6, <1>7, ReportStatusKeeps DEF Kept

\* A callback keeps the request it is made for, and sends its status.
LEMMA CallbackKeeps ==
    ASSUME TypeOK, NEW r \in RequestRecord, NEW restart \in BOOLEAN,
           ContactStateCallback(r, restart)
    PROVE  /\ Kept(r, request') /\ request'.status = r.status
           /\ "DONE" \in sent' =>
                 \/ "DONE" \in sent
                 \/ r.status = "DONE" /\ r.jobmanager_state # "STOP"
  <1>1. request' = r \/ request' = Register(r)
    BY DEF ContactStateCallback
  <1>2. Kept(r, Register(r)) /\ Register(r).status = r.status
    BY RegisterKeeps
  <1>3. "DONE" \in sent' => \/ "DONE" \in sent
                            \/ r.status = "DONE" /\ r.jobmanager_state # "STOP"
    BY DEF ContactStateCallback
  <1> QED BY <1>1, <1>2, <1>3 DEF Kept

\* What a state file written from a request says.
LEMMA FileOf ==
    ASSUME NEW r \in RequestRecord
    PROVE  FileBefore(StateFileOf(r)) => Before(r)
  BY DEF FileBefore, Before, StateFileOf, PreSubmit

\* What a step may do to the scripts: it adds no submit script, and the ones
\* that remain have not forgotten that the LRM accepted their job.
ScriptsKept ==
    /\ (\A i, j \in DOMAIN scripts :
           SubmitIn(scripts, i) /\ SubmitIn(scripts, j) => i = j)
       => \A i, j \in DOMAIN scripts' :
             SubmitIn(scripts', i) /\ SubmitIn(scripts', j) => i = j
    /\ \A i \in DOMAIN scripts' : SubmitIn(scripts', i) =>
          \E k \in DOMAIN scripts :
             /\ SubmitIn(scripts, k)
             /\ "ACCEPTED" \in scripts[k].said =>
                   "ACCEPTED" \in scripts'[i].said

\* A step that leaves the scripts alone.
LEMMA SameScripts ==
    ASSUME UNCHANGED scripts PROVE ScriptsKept
  BY DEF ScriptsKept, SubmitIn

\* A script of another kind is started.
LEMMA OtherLaunched ==
    ASSUME TypeOK, NEW cmd \in ScriptCmds, NEW start, NEW query,
           Launch(cmd, start, query), cmd # "submit"
    PROVE  ScriptsKept
  <1> DEFINE new == [cmd |-> cmd, start |-> start, query |-> query, said |-> {}]
  <1>1. scripts \in Seq(Scripts) /\ new.cmd = cmd
    BY DEF TypeOK
  <1>2. scripts' = Append(scripts, new)
    BY DEF Launch
  <1> HIDE DEF new
  <1>3. /\ DOMAIN scripts' = 1..(Len(scripts) + 1)
        /\ DOMAIN scripts = 1..Len(scripts) /\ Len(scripts) \in Nat
        /\ \A i \in DOMAIN scripts : scripts'[i] = scripts[i]
        /\ scripts'[Len(scripts) + 1] = new
    BY <1>1, <1>2
  <1>4. \A i \in DOMAIN scripts' : SubmitIn(scripts', i) =>
            SubmitIn(scripts, i) /\ scripts'[i] = scripts[i]
    BY <1>1, <1>3 DEF SubmitIn
  <1> QED BY <1>4 DEF ScriptsKept, SubmitIn

\* A script says something.
LEMMA ScriptSaid ==
    ASSUME TypeOK, NEW i \in DOMAIN scripts, NEW var \in ScriptVars,
           Said(i, var)
    PROVE  ScriptsKept
  <1> DEFINE new == [scripts[i] EXCEPT !.said = @ \union {var}]
  <1>1. scripts \in Seq(Scripts) /\ scripts[i] \in Scripts
    BY DEF TypeOK
  <1>2. /\ new.cmd = scripts[i].cmd
        /\ "ACCEPTED" \in scripts[i].said => "ACCEPTED" \in new.said
    BY <1>1 DEF Scripts
  <1>3. scripts' = [scripts EXCEPT ![i] = new]
    BY DEF Said
  <1> HIDE DEF new
  <1>4. /\ DOMAIN scripts' = DOMAIN scripts /\ scripts'[i] = new
        /\ \A k \in DOMAIN scripts : k # i => scripts'[k] = scripts[k]
    BY <1>1, <1>3
  <1>5. \A k \in DOMAIN scripts :
           /\ scripts'[k].cmd = scripts[k].cmd
           /\ "ACCEPTED" \in scripts[k].said => "ACCEPTED" \in scripts'[k].said
    BY <1>2, <1>4
  <1> QED BY <1>4, <1>5 DEF ScriptsKept, SubmitIn

\* The places after the removed one, counted from it.
LEMMA AfterRemoval ==
    ASSUME NEW n \in Nat, NEW i \in 1..n, NEW k \in 1..(n - 1), k >= i
    PROVE  /\ k - (i - 1) \in 1..(n - i)
           /\ i + (k - (i - 1)) = k + 1 /\ ~(k <= i - 1)
  OBVIOUS

\* What is left of a sequence after its element i.
LEMMA RestAfter ==
    ASSUME NEW S, NEW s \in Seq(S), NEW i \in 1..Len(s)
    PROVE  LET b == SubSeq(s, i + 1, Len(s))
           IN /\ b \in Seq(S) /\ Len(b) = Len(s) - i
              /\ \A k \in 1..(Len(s) - i) : b[k] = s[i + k]
  <1>1. Len(s) \in Nat /\ i \in Int /\ i + 1 \in Int /\ Len(s) \in Int
    OBVIOUS
  <1>2. \A k \in (i + 1)..Len(s) : s[k] \in S
    BY <1>1, ElementOfSeq
  <1> DEFINE b == SubSeq(s, i + 1, Len(s))
  <1>3. /\ b \in Seq(S)
        /\ Len(b) = IF i + 1 <= Len(s) THEN Len(s) - (i + 1) + 1 ELSE 0
        /\ \A k \in 1..(Len(s) - (i + 1) + 1) : b[k] = s[(i + 1) + k - 1]
    BY <1>1, <1>2, SubSeqProperties
  <1> HIDE DEF b
  <1>4. Len(b) = Len(s) - i
    BY <1>1, <1>3
  <1>5. ASSUME NEW k \in 1..(Len(s) - i)
        PROVE  b[k] = s[i + k]
    <2>1. k \in 1..(Len(s) - (i + 1) + 1) /\ (i + 1) + k - 1 = i + k
      BY <1>1
    <2> QED BY <1>3, <2>1
  <1> QED BY <1>3, <1>4, <1>5 DEF b

\* A script ends.
LEMMA ScriptRemoved ==
    ASSUME TypeOK, NEW i \in DOMAIN scripts,
           scripts' = SubSeq(scripts, 1, i - 1)
                      \o SubSeq(scripts, i + 1, Len(scripts))
    PROVE  /\ ScriptsKept
           /\ scripts' \in Seq(Scripts) /\ Len(scripts') = Len(scripts) - 1
           /\ \A k \in DOMAIN scripts' : \E m \in DOMAIN scripts :
                 scripts'[k] = scripts[m]
  <1> DEFINE a == SubSeq(scripts, 1, i - 1)
             b == SubSeq(scripts, i + 1, Len(scripts))
             n == Len(scripts)
  <1>1. /\ scripts \in Seq(Scripts) /\ n \in Nat /\ i \in 1..n
        /\ DOMAIN scripts = 1..n
    BY DEF TypeOK
  <1>2. /\ a \in Seq(Scripts) /\ Len(a) = i - 1
        /\ \A k \in 1..(i - 1) : a[k] = scripts[k]
    BY <1>1
  <1>3. /\ b \in Seq(Scripts) /\ Len(b) = n - i
        /\ \A k \in 1..(n - i) : b[k] = scripts[i + k]
    BY <1>1, RestAfter
  <1>4. scripts' = a \o b
    OBVIOUS
  <1> HIDE DEF a, b, n
  <1>5. /\ scripts' \in Seq(Scripts) /\ Len(scripts') = n - 1
        /\ DOMAIN scripts' = 1..(n - 1)
        /\ \A k \in 1..(n - 1) :
              scripts'[k] = IF k < i THEN scripts[k] ELSE scripts[k + 1]
    <2>1. /\ Len(scripts') = n - 1 /\ scripts' \in Seq(Scripts)
          /\ \A k \in 1..(n - 1) :
                scripts'[k] = IF k <= i - 1 THEN a[k] ELSE b[k - (i - 1)]
      <3>1. /\ a \o b \in Seq(Scripts)
            /\ Len(a \o b) = Len(a) + Len(b)
            /\ \A k \in 1..(Len(a) + Len(b)) :
                  (a \o b)[k] = IF k <= Len(a) THEN a[k] ELSE b[k - Len(a)]
        BY <1>2, <1>3, ConcatProperties
      <3>2. Len(a) + Len(b) = n - 1
        BY <1>1, <1>2, <1>3
      <3> QED BY <1>2, <1>4, <3>1, <3>2
    <2>2. ASSUME NEW k \in 1..(n - 1)
          PROVE  scripts'[k] = IF k < i THEN scripts[k] ELSE scripts[k + 1]
      <3>1. CASE k < i
        BY <1>1, <1>2, <2>1, <3>1
      <3>2. CASE ~(k < i)
        <4> DEFINE m == k - (i - 1)
        <4>1. m \in 1..(n - i) /\ i + m = k + 1 /\ ~(k <= i - 1)
          <5>1. n \in Nat /\ i \in 1..n /\ k \in 1..(n - 1) /\ k >= i
            BY <1>1, <3>2
          <5> QED BY <5>1, AfterRemoval
        <4>2. scripts'[k] = b[m]
          BY <2>1, <4>1
        <4> HIDE DEF m
        <4>3. b[m] = scripts[k + 1]
          BY <1>3, <4>1
        <4> QED BY <3>2, <4>2, <4>3
      <3> QED BY <3>1, <3>2
    <2>3. DOMAIN scripts' = 1..(n - 1)
      BY <2>1
    <2> QED BY <2>1, <2>2, <2>3
  <1> DEFINE old(k) == IF k < i THEN k ELSE k + 1
  <1>6. \A k \in DOMAIN scripts' :
           old(k) \in DOMAIN scripts /\ scripts'[k] = scripts[old(k)]
    <2> TAKE k \in DOMAIN scripts'
    <2>1. k \in 1..(n - 1)
      BY <1>5
    <2>2. old(k) \in 1..n
      BY <1>1, <2>1
    <2>3. scripts'[k] = scripts[old(k)]
      BY <1>5, <2>1
    <2> QED BY <1>1, <2>2, <2>3
  <1>7. \A k, m \in DOMAIN scripts' : old(k) = old(m) => k = m
    <2>1. i \in 1..n /\ n \in Nat /\ DOMAIN scripts' = 1..(n - 1)
      BY <1>1, <1>5
    <2> QED BY <2>1
  <1>8. \A k \in DOMAIN scripts' : SubmitIn(scripts', k) =>
            SubmitIn(scripts, old(k)) /\ scripts'[k] = scripts[old(k)]
    <2> HIDE DEF old
    <2> QED BY <1>6 DEF SubmitIn
  <1> HIDE DEF old
  <1>9. \A k \in DOMAIN scripts' : SubmitIn(scripts', k) =>
           \E m \in DOMAIN scripts :
              /\ SubmitIn(scripts, m)
              /\ "ACCEPTED" \in scripts[m].said =>
                    "ACCEPTED" \in scripts'[k].said
    BY <1>6, <1>8
  <1>10. ASSUME \A k, m \in DOMAIN scripts :
                   SubmitIn(scripts, k) /\ SubmitIn(scripts, m) => k = m
         PROVE  \A k, m \in DOMAIN scripts' :
                   SubmitIn(scripts', k) /\ SubmitIn(scripts', m) => k = m
    BY <1>6, <1>7, <1>8, <1>10
  <1> QED BY <1>5, <1>6, <1>9, <1>10 DEF ScriptsKept, n

\* A step that hands nothing to the LRM and launches no submit script: what
\* is left to show of it.
LEMMA JobSteps ==
    ASSUME JobCore, ScriptsKept, UNCHANGED submissions,
           request'.jm_restart = request.jm_restart,
           Before(request') => Before(request),
           FileBefore(state_file') => FileBefore(state_file) \/ Before(request),
           StageOutKept', EndAnswered'
    PROVE  JobCore'
  <1>1. Submitted' => Submitted
    BY DEF Submitted, ScriptsKept
  <1>2. OneSubmitScript'
    BY DEF JobCore, OneSubmitScript, ScriptsKept
  <1>3. PastSubmission'
    BY <1>1 DEF JobCore, PastSubmission
  <1> QED BY <1>2, <1>3 DEF JobCore

\* The same, of a step that leaves the stage-out list alone.
LEMMA JobMoves ==
    ASSUME JobCore, ScriptsKept,
           UNCHANGED <<rsl, submissions, staged_out>>,
           request'.jm_restart = request.jm_restart,
           request'.stage_out_todo = request.stage_out_todo,
           Before(request') => Before(request),
           FileBefore(state_file') => FileBefore(state_file) \/ Before(request),
           "DONE" \in sent' => "DONE" \in sent \/ ~request.stage_out_todo,
           EndAnswered'
    PROVE  JobCore'
  <1>1. StageOutKept'
    BY DEF JobCore, StageOutKept
  <1> QED BY <1>1, JobSteps

\* A step that neither writes the state file nor sends anything, and leads to
\* no final state.
LEMMA QuietMove ==
    ASSUME JobCore, ScriptsKept, Kept(request, request'),
           UNCHANGED <<rsl, submissions, staged_out, state_file, sent>>,
           State' \in PreSubmit => Before(request),
           State' \notin {"DONE", "FAILED_DONE"},
           State' = "STOP" => State = "STOP"
    PROVE  JobCore'
  <1>1. Before(request') => Before(request)
    BY DEF Before, Kept, State
  <1>2. EndAnswered'
    BY DEF EndAnswered
  <1> QED BY <1>1, <1>2, JobMoves DEF Kept

-----------------------------------------------------------------------------
(* The cases of the state machine keep it                                   *)

\* The timer starts the loop.
LEMMA TimerFiresJob ==
    ASSUME RequestInvariant, JobCore, TimerFires PROVE JobCore'
  <1>1. request \in RequestRecord
    BY DEF RequestInvariant, TypeOK
  <1>2. /\ Kept(request, request') /\ State' = State
        /\ request'.pending_queries = request.pending_queries
    BY <1>1 DEF TimerFires, State, RequestRecord, Kept
  <1>3. /\ ScriptsKept
        /\ UNCHANGED <<rsl, submissions, staged_out, state_file, sent>>
    BY SameScripts DEF TimerFires
  <1>4. Before(request') => Before(request)
    BY <1>2 DEF Before, Kept, State
  <1>5. EndAnswered'
    BY <1>2 DEF JobCore, EndAnswered
  <1> QED BY <1>2, <1>3, <1>4, <1>5, JobMoves DEF Kept

\* START goes on to TWO_PHASE.
LEMMA CaseStartJob ==
    ASSUME RequestInvariant, JobCore, CaseStart PROVE JobCore'
  <1> DEFINE r == To(request, "TWO_PHASE")
  <1>1. request \in RequestRecord /\ State = "START"
    BY DEF RequestInvariant, TypeOK, CaseStart, At
  <1>2. /\ r \in RequestRecord /\ r.jobmanager_state = "TWO_PHASE"
        /\ Kept(request, r)
    BY <1>1, ToFacts, MovesKeep DEF ManagerStates
  <1>3. request' = r \/ request' = Register(r)
    BY DEF CaseStart, Becomes
  <1> HIDE DEF r
  <1>4. Kept(request, request') /\ State' = "TWO_PHASE"
    <2>1. /\ Register(r).jobmanager_state = "TWO_PHASE"
          /\ Kept(request, Register(r))
      BY <1>2, RegisterFacts, RegisterKeeps, KeptOn
    <2> QED BY <1>2, <1>3, <2>1 DEF State
  <1>5. /\ ScriptsKept
        /\ UNCHANGED <<rsl, submissions, staged_out, state_file, sent>>
    BY SameScripts DEF CaseStart, Becomes
  <1>6. Before(request)
    BY <1>1 DEF Before, PreSubmit, State
  <1> QED BY <1>4, <1>5, <1>6, QuietMove

\* TWO_PHASE waits on, is committed, or fails: a request that is not
\* restarted does not stop here.
LEMMA CaseTwoPhaseJob ==
    ASSUME RequestInvariant, JobCore, CaseTwoPhase PROVE JobCore'
  <1>1. /\ request \in RequestRecord /\ State = "TWO_PHASE"
        /\ ~request.jm_restart
    BY DEF RequestInvariant, TypeOK, CaseTwoPhase, At, JobCore
  <1> DEFINE x == [request EXCEPT !.commit_extend = FALSE]
             c == To(request, "TWO_PHASE_COMMITTED")
             t == To(request, "FAILED")
             f == [t EXCEPT !.failure_code = "COMMIT_TIMED_OUT",
                            !.unsent_status_change = TRUE]
  <1>2. request' \in {Register(x), c, f}
    BY <1>1 DEF CaseTwoPhase, Becomes, TwoPhaseExpired
  <1>3. x \in RequestRecord /\ x.jobmanager_state = "TWO_PHASE"
        /\ Kept(request, x)
    BY <1>1 DEF RequestRecord, Kept, State
  <1>4. c.jobmanager_state = "TWO_PHASE_COMMITTED" /\ Kept(request, c)
    BY <1>1, ToFacts, MovesKeep DEF ManagerStates
  <1>5. /\ t \in RequestRecord /\ t.jobmanager_state = "FAILED"
        /\ Kept(request, t)
    BY <1>1, ToFacts, MovesKeep DEF ManagerStates
  <1> HIDE DEF t, c, x
  <1>6. f.jobmanager_state = "FAILED" /\ Kept(request, f)
    BY <1>5 DEF RequestRecord, Kept
  <1> HIDE DEF f
  <1>7. Register(x).jobmanager_state = "TWO_PHASE" /\ Kept(request, Register(x))
    BY <1>3, RegisterFacts, RegisterKeeps, KeptOn
  <1>8. /\ Kept(request, request')
        /\ State' \in {"TWO_PHASE", "TWO_PHASE_COMMITTED", "FAILED"}
    BY <1>2, <1>4, <1>6, <1>7 DEF State
  <1>9. /\ ScriptsKept
        /\ UNCHANGED <<rsl, submissions, staged_out, state_file, sent>>
    BY SameScripts DEF CaseTwoPhase, Becomes
  <1>10. Before(request)
    BY <1>1 DEF Before, PreSubmit, State
  <1> QED BY <1>8, <1>9, <1>10, QuietMove

\* A committed request starts its stage-in script or goes on in the loop.
LEMMA CaseTwoPhaseCommittedJob ==
    ASSUME RequestInvariant, JobCore, CaseTwoPhaseCommitted PROVE JobCore'
  <1>1. /\ TypeOK /\ request \in RequestRecord
        /\ State = "TWO_PHASE_COMMITTED" /\ ~request.jm_restart
    BY DEF RequestInvariant, TypeOK, CaseTwoPhaseCommitted, At, JobCore
  <1> DEFINE s == EnterStageIn
             r == SetStatus(s, "STAGE_IN")
             g == To(r, "FAILED")
             f == [g EXCEPT !.failure_code = "MALLOC_FAILED"]
  <1>2. s \in RequestRecord /\ s.jobmanager_state = "STAGE_IN"
        /\ Kept(request, s)
    BY <1>1, ToFacts, MovesKeep DEF EnterStageIn, ManagerStates
  <1> HIDE DEF s
  <1>3. r \in RequestRecord /\ r.jobmanager_state = "STAGE_IN"
        /\ Kept(request, r) /\ r.status = "STAGE_IN"
    <2>1. "STAGE_IN" \in JobStates
      BY DEF JobStates
    <2> QED BY <1>2, <2>1, SetStatusFacts, SetStatusKeeps, KeptOn
  <1> HIDE DEF r
  <1>4. g \in RequestRecord /\ g.jobmanager_state = "FAILED"
        /\ Kept(request, g) /\ g.status = "STAGE_IN"
    <2>1. "FAILED" \in ManagerStates
      BY DEF ManagerStates
    <2> QED BY <1>3, <2>1, ToFacts, MovesKeep, KeptOn
  <1> HIDE DEF g
  <1>5. f \in RequestRecord /\ f.jobmanager_state = "FAILED"
        /\ Kept(request, f) /\ f.status = "STAGE_IN"
    BY <1>4 DEF RequestRecord, FailureCodes, Kept
  <1> HIDE DEF f
  <1>6. /\ Kept(request, request') /\ State' \in {"STAGE_IN", "FAILED"}
        /\ "DONE" \in sent' => "DONE" \in sent
    <2>1. \/ Becomes(s)
          \/ Becomes(r) \/ ContactStateCallback(r, FALSE)
          \/ Becomes(f) \/ ContactStateCallback(f, FALSE)
      BY <1>1 DEF CaseTwoPhaseCommitted, f, g, r, s
    <2>2. CASE Becomes(s) \/ Becomes(r) \/ Becomes(f)
      BY <1>2, <1>3, <1>5, <2>2 DEF Becomes, State
    <2>3. CASE ContactStateCallback(r, FALSE)
      BY <1>1, <1>3, <2>3, CallbackFacts, CallbackKeeps, KeptOn DEF State
    <2>4. CASE ContactStateCallback(f, FALSE)
      BY <1>1, <1>5, <2>4, CallbackFacts, CallbackKeeps, KeptOn DEF State
    <2> QED BY <2>1, <2>2, <2>3, <2>4
  <1>7. ScriptsKept
    <2>1. UNCHANGED scripts \/ Launch("stage_in", "STAGE_IN", NoQuery)
      BY DEF CaseTwoPhaseCommitted
    <2>2. "stage_in" \in ScriptCmds
      BY DEF ScriptCmds
    <2> QED BY <1>1, <2>1, <2>2, SameScripts, OtherLaunched
  <1>8. UNCHANGED <<rsl, submissions, staged_out, state_file>>
    BY DEF CaseTwoPhaseCommitted
  <1>9. Before(request)
    BY <1>1 DEF Before, PreSubmit, State
  <1>10. EndAnswered'
    BY <1>6 DEF EndAnswered
  <1> QED BY <1>6, <1>7, <1>8, <1>9, <1>10, JobMoves DEF Kept

\* The submit script is started: the state file says so, and there was none.
LEMMA SubmitStarted ==
    ASSUME TypeOK, JobCore, State \in PreSubmit,
           UNCHANGED <<rsl, submissions, staged_out, sent>>,
           Launch("submit", "SUBMIT", NoQuery),
           request'.jm_restart = request.jm_restart,
           request'.stage_out_todo = request.stage_out_todo,
           State' = "SUBMIT", ~FileBefore(state_file')
    PROVE  JobCore'
  <1> DEFINE new == [cmd |-> "submit", start |-> "SUBMIT", query |-> NoQuery,
                     said |-> {}]
  <1>1. /\ submissions = 0
        /\ \A i \in DOMAIN scripts : scripts[i].cmd # "submit"
    <2>1. ~Submitted
      BY DEF JobCore, PastSubmission, Before, State
    <2>2. submissions \in Nat
      BY DEF TypeOK
    <2> QED BY <2>1, <2>2 DEF Submitted, SubmitIn
  <1>2. scripts \in Seq(Scripts) /\ scripts' = Append(scripts, new)
    BY DEF TypeOK, Launch
  <1> HIDE DEF new
  <1>3. /\ DOMAIN scripts' = 1..(Len(scripts) + 1)
        /\ DOMAIN scripts = 1..Len(scripts) /\ Len(scripts) \in Nat
        /\ \A i \in DOMAIN scripts : scripts'[i] = scripts[i]
    BY <1>2
  <1>4. \A i \in DOMAIN scripts' : SubmitIn(scripts', i) =>
            i = Len(scripts) + 1
    BY <1>1, <1>3 DEF SubmitIn
  <1>5. OneSubmitScript'
    BY <1>1, <1>4 DEF OneSubmitScript
  <1>6. PastSubmission'
    BY DEF PastSubmission, Before, State, PreSubmit
  <1>7. StageOutKept'
    BY DEF JobCore, StageOutKept
  <1>8. EndAnswered'
    BY DEF EndAnswered
  <1> QED BY <1>5, <1>6, <1>7, <1>8 DEF JobCore

\* STAGE_IN starts the submit script, or fails in the loop.
LEMMA CaseStageInJob ==
    ASSUME RequestInvariant, JobCore, CaseStageIn PROVE JobCore'
  <1>1. TypeOK /\ request \in RequestRecord /\ State = "STAGE_IN"
    BY DEF RequestInvariant, TypeOK, CaseStageIn, At
  <1>2. /\ Before(request) /\ State \in PreSubmit
        /\ UNCHANGED <<rsl, submissions>>
    BY <1>1 DEF Before, PreSubmit, State, CaseStageIn
  <1>3. CASE /\ Becomes([To(request, "FAILED") EXCEPT
                           !.failure_code = IF @ = "SUCCESS"
                                              THEN "STAGE_IN_FAILED" ELSE @])
             /\ UNCHANGED <<scriptVars, state_file>>
    <2> DEFINE x == To(request, "FAILED")
    <2>1. x \in RequestRecord /\ x.jobmanager_state = "FAILED"
          /\ Kept(request, x)
      BY <1>1, ToFacts, MovesKeep DEF ManagerStates
    <2>2. request' = [x EXCEPT !.failure_code = IF @ = "SUCCESS"
                                              THEN "STAGE_IN_FAILED" ELSE @]
      BY <1>3 DEF Becomes
    <2> HIDE DEF x
    <2>3. Kept(request, request') /\ State' = "FAILED"
      BY <2>1, <2>2 DEF RequestRecord, Kept, State
    <2> QED BY <1>2, <1>3, <2>3, QuietMove, SameScripts DEF Becomes
  <1>4. CASE /\ Becomes(To(request, IF rsl.dry_run
                                      THEN "FAILED_TWO_PHASE_COMMITTED"
                                      ELSE "FAILED"))
             /\ UNCHANGED <<scriptVars, state_file>>
    <2>1. /\ To(request, "FAILED").jobmanager_state = "FAILED"
          /\ Kept(request, To(request, "FAILED"))
      BY <1>1, ToFacts, MovesKeep DEF ManagerStates
    <2>2. /\ To(request, "FAILED_TWO_PHASE_COMMITTED").jobmanager_state
                = "FAILED_TWO_PHASE_COMMITTED"
          /\ Kept(request, To(request, "FAILED_TWO_PHASE_COMMITTED"))
      BY <1>1, ToFacts, MovesKeep DEF ManagerStates
    <2>3. \/ request' = To(request, "FAILED")
          \/ request' = To(request, "FAILED_TWO_PHASE_COMMITTED")
      BY <1>4 DEF Becomes
    <2>4. /\ Kept(request, request')
          /\ State' \in {"FAILED", "FAILED_TWO_PHASE_COMMITTED"}
      BY <2>1, <2>2, <2>3 DEF State
    <2> QED BY <1>2, <1>4, <2>4, QuietMove, SameScripts DEF Becomes
  <1> DEFINE s == To(request, "SUBMIT")
             r == [s EXCEPT !.restart_state = "SUBMIT"]
             code == IF rsl.dry_run THEN "DRYRUN" ELSE "MALLOC_FAILED"
             c == [r EXCEPT !.failure_code = code]
             f == SetStatus(c, "FAILED")
             g == To(f, "FAILED")
             h == [g EXCEPT !.unsent_status_change = TRUE]
  <1>5. /\ s \in RequestRecord /\ s.jobmanager_state = "SUBMIT"
        /\ Kept(request, s)
    BY <1>1, ToFacts, MovesKeep DEF ManagerStates
  <1> HIDE DEF s
  <1>6. /\ r \in RequestRecord /\ r.jobmanager_state = "SUBMIT"
        /\ r.jm_restart = request.jm_restart
        /\ r.stage_out_todo = request.stage_out_todo
    BY <1>5 DEF RequestRecord, ManagerStates, Kept
  <1>7. ~FileBefore(SubmitFile(r))
    <2> HIDE DEF r
    <2> QED BY <1>6, FileOf DEF SubmitFile, Before, PreSubmit
  <1>8. CASE /\ state_file' = SubmitFile(r)
             /\ Becomes(r)
             /\ Launch("submit", "SUBMIT", NoQuery)
             /\ UNCHANGED staged_out
    <2> HIDE DEF r
    <2> QED BY <1>1, <1>2, <1>6, <1>7, <1>8, SubmitStarted DEF Becomes, State
  <1>9. CASE /\ state_file' = SubmitFile(r)
             /\ Becomes(IF rsl.dry_run THEN f ELSE h)
             /\ UNCHANGED scriptVars
    <2> HIDE DEF r
    <2>1. c \in RequestRecord /\ c.jobmanager_state = "SUBMIT"
          /\ c.jm_restart = request.jm_restart
          /\ c.stage_out_todo = request.stage_out_todo
      BY <1>6 DEF RequestRecord, FailureCodes
    <2> HIDE DEF c
    <2>2. f \in RequestRecord /\ f.jobmanager_state = "SUBMIT"
          /\ f.jm_restart = request.jm_restart
          /\ f.stage_out_todo = request.stage_out_todo
      BY <2>1, SetStatusFacts, SetStatusKeeps DEF JobStates, Kept
    <2> HIDE DEF f
    <2>3. g \in RequestRecord /\ g.jobmanager_state = "FAILED"
          /\ g.jm_restart = request.jm_restart
          /\ g.stage_out_todo = request.stage_out_todo
      BY <2>2, ToFacts, MovesKeep DEF ManagerStates, Kept
    <2> HIDE DEF g
    <2>4. h.jobmanager_state = "FAILED"
          /\ h.jm_restart = request.jm_restart
          /\ h.stage_out_todo = request.stage_out_todo
      BY <2>3 DEF RequestRecord
    <2> HIDE DEF h
    <2>5. /\ State' \in {"SUBMIT", "FAILED"}
          /\ request'.jm_restart = request.jm_restart
          /\ request'.stage_out_todo = request.stage_out_todo
      BY <1>9, <2>2, <2>4 DEF Becomes, State
    <2>6. ~Before(request') /\ EndAnswered'
      BY <2>5 DEF Before, State, PreSubmit, EndAnswered
    <2> QED BY <1>2, <1>7, <1>9, <2>5, <2>6, JobMoves, SameScripts DEF Becomes
  <1> QED BY <1>3, <1>4, <1>8, <1>9 DEF CaseStageIn, s, r

\* POLL1 keeps the restart mark and the stage-out list, tells no contact that
\* the job is done, and writes a state file that says POLL1.
LEMMA PollKeeps ==
    ASSUME TypeOK, NEW r \in RequestRecord, NEW first \in BOOLEAN,
           NEW file, Poll(r, file, first), r.jobmanager_state = "POLL1"
    PROVE  /\ request'.jm_restart = r.jm_restart
           /\ request'.stage_out_todo = r.stage_out_todo
           /\ "DONE" \in sent' => "DONE" \in sent
           /\ FileBefore(state_file') => FileBefore(file)
  <1> DEFINE Same(b) == /\ b.jm_restart = r.jm_restart
                        /\ b.stage_out_todo = r.stage_out_todo
             seen  == IF r.seg_event_queue # <<>> THEN HandleEvent(r) ELSE r
             saved == IF seen.unsent_status_change
                        THEN [seen EXCEPT !.restart_state = "POLL1"] ELSE seen
             told  == [saved EXCEPT !.unsent_status_change = FALSE]
             tell(next) == IF saved.unsent_status_change
                             THEN ContactStateCallback(next, FALSE)
                             ELSE Becomes(next)
  <1>1. seen \in RequestRecord /\ Same(seen) /\ seen.jobmanager_state = "POLL1"
    BY HandleEventFacts, HandleEventKeeps DEF Kept
  <1>2. /\ saved \in RequestRecord /\ Same(saved)
        /\ saved.jobmanager_state = "POLL1"
    <2> HIDE DEF seen
    <2>1. "POLL1" \in ManagerStates
      BY DEF ManagerStates
    <2> DEFINE x == [seen EXCEPT !.restart_state = "POLL1"]
    <2>2. x \in RequestRecord /\ Same(x) /\ x.jobmanager_state = "POLL1"
      BY <1>1, <2>1 DEF RequestRecord
    <2> HIDE DEF x
    <2>3. saved = x \/ saved = seen
      BY DEF x
    <2> QED BY <1>1, <2>2, <2>3
  <1>3. /\ told \in RequestRecord /\ Same(told) /\ told.status = saved.status
    <2> HIDE DEF saved
    <2> QED BY <1>2 DEF RequestRecord
  <1>4. FileBefore(state_file') => FileBefore(file)
    <2>1. state_file' = IF seen.unsent_status_change
                          THEN StateFileOf(saved) ELSE file
      BY DEF Poll
    <2> HIDE DEF saved, seen
    <2>2. ~Before(saved)
      BY <1>2 DEF Before, PreSubmit
    <2> QED BY <1>2, <2>1, <2>2, FileOf
  <1>5. \/ Becomes(To(saved, "FAILED")) \/ Becomes(To(saved, "PRE_CLOSE_OUTPUT"))
        \/ /\ saved.status # "DONE"
           /\ \/ tell(To(told, "POLL_QUERY1")) \/ tell(To(told, "POLL1"))
              \/ tell(Register(To(told, "POLL2"))) \/ tell(To(told, "POLL2"))
    BY DEF Poll
  <1> HIDE DEF seen, saved, told
  <1>6. ASSUME NEW next \in RequestRecord, tell(next), Same(next),
               next.status # "DONE"
        PROVE  Same(request') /\ ("DONE" \in sent' => "DONE" \in sent)
    <2>1. CASE ContactStateCallback(next, FALSE)
      BY <1>6, <2>1, CallbackKeeps DEF Kept
    <2>2. CASE Becomes(next)
      BY <1>6, <2>2 DEF Becomes
    <2> QED BY <1>6, <2>1, <2>2
  <1>7. ASSUME NEW s \in {"POLL_QUERY1", "POLL1", "POLL2"}
        PROVE  /\ To(told, s) \in RequestRecord /\ Same(To(told, s))
               /\ To(told, s).status = saved.status
    <2>1. s \in ManagerStates
      BY DEF ManagerStates
    <2> QED BY <1>3, <2>1, ToFacts, MovesKeep DEF Kept
  <1>8. ASSUME NEW s \in {"FAILED", "PRE_CLOSE_OUTPUT"}, Becomes(To(saved, s))
        PROVE  Same(request') /\ sent' = sent
    <2>1. s \in ManagerStates
      BY DEF ManagerStates
    <2> QED BY <1>2, <1>8, <2>1, MovesKeep DEF Becomes, Kept
  <1>9. CASE \/ Becomes(To(saved, "FAILED"))
             \/ Becomes(To(saved, "PRE_CLOSE_OUTPUT"))
    BY <1>4, <1>8, <1>9
  <1> DEFINE x == Register(To(told, "POLL2"))
  <1>10. x \in RequestRecord /\ Same(x) /\ x.status = saved.status
    BY <1>7, RegisterFacts, RegisterKeeps DEF Kept
  <1>11. CASE /\ saved.status # "DONE"
              /\ \/ tell(To(told, "POLL_QUERY1")) \/ tell(To(told, "POLL1"))
                 \/ tell(To(told, "POLL2"))
    <2> HIDE DEF tell
    <2> QED BY <1>4, <1>6, <1>7, <1>11
  <1>12. CASE saved.status # "DONE" /\ tell(x)
    <2> HIDE DEF tell, x
    <2> QED BY <1>4, <1>6, <1>10, <1>12
  <1> QED BY <1>5, <1>9, <1>11, <1>12

\* POLL1 as a case of its own.
LEMMA CasePoll1Job ==
    ASSUME RequestInvariant, JobCore, CasePoll1 PROVE JobCore'
  <1>1. /\ TypeOK /\ request \in RequestRecord /\ State = "POLL1"
        /\ state_file \in StateFiles \union {NoStateFile}
    BY DEF RequestInvariant, TypeOK, CasePoll1, At
  <1>2. /\ Poll(request, state_file, FALSE)
        /\ UNCHANGED <<rsl, scriptVars, lrmVars>>
    BY DEF CasePoll1
  <1>3. State' \in {"FAILED", "PRE_CLOSE_OUTPUT", "POLL_QUERY1", "POLL1",
                    "POLL2"}
    BY <1>1, <1>2, PollFacts
  <1>4. /\ request'.jm_restart = request.jm_restart
        /\ request'.stage_out_todo = request.stage_out_todo
        /\ "DONE" \in sent' => "DONE" \in sent
        /\ FileBefore(state_file') => FileBefore(state_file)
    BY <1>1, <1>2, PollKeeps DEF State
  <1>5. ~Before(request') /\ EndAnswered'
    BY <1>3 DEF Before, PreSubmit, State, EndAnswered
  <1> QED BY <1>2, <1>4, <1>5, JobMoves, SameScripts

\* SUBMIT ends in POLL1, whatever the submit script said.
LEMMA CaseSubmitJob ==
    ASSUME RequestInvariant, JobCore, CaseSubmit PROVE JobCore'
  <1>1. /\ TypeOK /\ request \in RequestRecord /\ State = "SUBMIT"
        /\ request.failure_code \in FailureCodes
    BY DEF RequestInvariant, TypeOK, CaseSubmit, At, RequestRecord
  <1>2. UNCHANGED <<rsl, scriptVars, lrmVars>>
    BY DEF CaseSubmit
  <1> DEFINE set(code) == [request EXCEPT !.failure_code = code]
             fails(code) == [SetStatus(set(code), "FAILED")
                               EXCEPT !.unsent_status_change = TRUE]
             toPoll(r) == [To(r, "POLL1") EXCEPT !.restart_state = "POLL1"]
             poll(r) == Poll(toPoll(r), StateFileOf(toPoll(r)), TRUE)
  <1>3. \/ /\ Becomes(To(request, "FAILED_TWO_PHASE_COMMITTED"))
           /\ UNCHANGED state_file
        \/ \E code \in FailureCodes : poll(fails(code))
        \/ poll(request)
    BY <1>1 DEF CaseSubmit, FailureCodes
  <1>4. CASE /\ Becomes(To(request, "FAILED_TWO_PHASE_COMMITTED"))
             /\ UNCHANGED state_file
    <2> DEFINE x == To(request, "FAILED_TWO_PHASE_COMMITTED")
    <2>1. x.jobmanager_state = "FAILED_TWO_PHASE_COMMITTED" /\ Kept(request, x)
      BY <1>1, ToFacts, MovesKeep DEF ManagerStates
    <2> HIDE DEF x
    <2>2. Kept(request, request') /\ State' = "FAILED_TWO_PHASE_COMMITTED"
      BY <1>4, <2>1 DEF Becomes, State, x
    <2>3. State' \notin PreSubmit
      BY <2>2 DEF PreSubmit
    <2> QED BY <1>2, <1>4, <2>2, <2>3, QuietMove, SameScripts DEF Becomes
  <1>5. ASSUME NEW r \in RequestRecord, poll(r),
               r.jm_restart = request.jm_restart,
               r.stage_out_todo = request.stage_out_todo
        PROVE  JobCore'
    <2> DEFINE y == To(r, "POLL1")
               x == [y EXCEPT !.restart_state = "POLL1"]
    <2>1. /\ y \in RequestRecord /\ y.jobmanager_state = "POLL1"
          /\ Kept(r, y)
      BY ToFacts, MovesKeep DEF ManagerStates
    <2> HIDE DEF y
    <2>2. /\ x \in RequestRecord /\ x.jobmanager_state = "POLL1"
          /\ x.jm_restart = request.jm_restart
          /\ x.stage_out_todo = request.stage_out_todo
      BY <1>5, <2>1 DEF RequestRecord, ManagerStates, Kept
    <2>3. Poll(x, StateFileOf(x), TRUE)
      BY <1>5 DEF x, y
    <2> HIDE DEF x
    <2>4. StateFileOf(x) \in StateFiles
      BY <2>2, StateFileTyped
    <2>5. State' \in {"FAILED", "PRE_CLOSE_OUTPUT", "POLL_QUERY1", "POLL1",
                      "POLL2"}
      BY <1>1, <2>2, <2>3, <2>4, PollFacts
    <2>6. /\ request'.jm_restart = request.jm_restart
          /\ request'.stage_out_todo = request.stage_out_todo
          /\ "DONE" \in sent' => "DONE" \in sent
          /\ FileBefore(state_file') => FileBefore(StateFileOf(x))
      BY <1>1, <2>2, <2>3, PollKeeps
    <2>7. ~FileBefore(StateFileOf(x))
      BY <2>2, FileOf DEF Before, PreSubmit
    <2>8. ~Before(request') /\ EndAnswered'
      BY <2>5 DEF Before, PreSubmit, State, EndAnswered
    <2> QED BY <1>2, <2>6, <2>7, <2>8, JobMoves, SameScripts
  <1>6. ASSUME NEW code \in FailureCodes, poll(fails(code)) PROVE JobCore'
    <2> DEFINE a == set(code)
               b == SetStatus(a, "FAILED")
               c == [b EXCEPT !.unsent_status_change = TRUE]
    <2>1. a \in RequestRecord /\ Kept(request, a)
      BY <1>1 DEF RequestRecord, Kept
    <2> HIDE DEF a
    <2>2. b \in RequestRecord /\ Kept(request, b)
      <3>1. "FAILED" \in JobStates
        BY DEF JobStates
      <3> QED BY <2>1, <3>1, SetStatusFacts, SetStatusKeeps, KeptOn
    <2> HIDE DEF b
    <2>3. c \in RequestRecord /\ Kept(request, c)
      BY <2>2 DEF RequestRecord, Kept
    <2>4. poll(c)
      BY <1>6 DEF a, b, c
    <2> HIDE DEF c
    <2> QED BY <1>5, <2>3, <2>4 DEF Kept
  <1> HIDE DEF poll, fails
  <1> QED BY <1>1, <1>3, <1>4, <1>5, <1>6

\* POLL2 starts the poll script, reads the grid monitor's file, or waits.
LEMMA CasePoll2Job ==
    ASSUME RequestInvariant, JobCore, CasePoll2 PROVE JobCore'
  <1>1. TypeOK /\ request \in RequestRecord /\ State = "POLL2"
    BY DEF RequestInvariant, TypeOK, CasePoll2, At
  <1>2. UNCHANGED <<rsl, staged_out, submissions, state_file, sent>>
    BY DEF CasePoll2, Becomes, PollFast
  <1>3. ScriptsKept
    <2>1. UNCHANGED scripts \/ Launch("poll", "POLL1", NoQuery)
      BY DEF CasePoll2
    <2>2. "poll" \in ScriptCmds
      BY DEF ScriptCmds
    <2> QED BY <1>1, <2>1, <2>2, SameScripts, OtherLaunched
  <1> DEFINE p == To(request, "POLL1")
  <1>4. p \in RequestRecord /\ p.jobmanager_state = "POLL1" /\ Kept(request, p)
    BY <1>1, ToFacts, MovesKeep DEF ManagerStates
  <1>5. Kept(request, request') /\ State' \in {"POLL1", "POLL2"}
    <2>1. CASE Becomes(p)
      <3> HIDE DEF p
      <3> QED BY <1>4, <2>1 DEF Becomes, State
    <2>2. CASE Becomes(request)
      BY <1>1, <2>2 DEF Becomes, State, Kept
    <2>3. CASE PollFast
      <3>1. PICK s \in {request.status} \union ({lrm} \ {"none", "FAILED"}) :
                Becomes(Register(IF s = p.status THEN p
                                 ELSE [SetStatus(p, s) EXCEPT
                                         !.unsent_status_change = TRUE]))
        BY <2>3 DEF PollFast
      <3>2. s \in JobStates
        BY <1>1 DEF TypeOK, LrmStates, SegEvents, JobStates, RequestRecord
      <3> HIDE DEF p
      <3> DEFINE x == SetStatus(p, s)
                 y == [x EXCEPT !.unsent_status_change = TRUE]
                 z == IF s = p.status THEN p ELSE y
      <3>3. x \in RequestRecord /\ x.jobmanager_state = "POLL1"
            /\ Kept(request, x)
        BY <1>4, <3>2, SetStatusFacts, SetStatusKeeps, KeptOn
      <3> HIDE DEF x
      <3>4. y \in RequestRecord /\ y.jobmanager_state = "POLL1"
            /\ Kept(request, y)
        BY <3>3 DEF RequestRecord, Kept
      <3> HIDE DEF y
      <3>5. z \in RequestRecord /\ z.jobmanager_state = "POLL1"
            /\ Kept(request, z)
        BY <1>4, <3>4
      <3>6. request' = Register(z)
        BY <3>1 DEF Becomes, x, y, z
      <3> HIDE DEF z
      <3>7. /\ Register(z).jobmanager_state = "POLL1"
            /\ Kept(request, Register(z))
        BY <3>5, RegisterFacts, RegisterKeeps, KeptOn
      <3> QED BY <3>6, <3>7 DEF State
    <2> QED BY <2>1, <2>2, <2>3 DEF CasePoll2
  <1>6. State' \notin PreSubmit
    BY <1>5 DEF PreSubmit
  <1> QED BY <1>2, <1>3, <1>5, <1>6, QuietMove

\* The queue without its first query, otherwise the same request.
LEMMA DequeuedKeeps ==
    ASSUME TypeOK PROVE Kept(request, Dequeued)
  BY DEF TypeOK, RequestRecord, Dequeued, Kept

\* The oldest query gets its script, or its answer.
LEMMA CaseQuery1Job ==
    ASSUME RequestInvariant, JobCore, CaseQuery1 PROVE JobCore'
  <1> DEFINE query == Head(request.pending_queries)
             cmd   == IF query.kind = "cancel" THEN "cancel" ELSE "signal"
             next  == IF State = "POLL_QUERY1" THEN "POLL_QUERY2"
                                               ELSE "TWO_PHASE_QUERY2"
  <1>1. /\ TypeOK /\ request \in RequestRecord
        /\ State \in {"POLL_QUERY1", "TWO_PHASE_QUERY1"}
        /\ request.pending_queries # <<>>
    BY DEF RequestInvariant, TypeOK, CaseQuery1, At, QueriesMatchState,
           QueryStates, State
  <1>2. UNCHANGED <<rsl, staged_out, submissions, state_file, sent>>
    BY DEF CaseQuery1, Becomes
  <1>3. ScriptsKept
    <2>1. UNCHANGED scripts \/ Launch(cmd, State, query)
      BY DEF CaseQuery1
    <2>2. cmd \in ScriptCmds /\ cmd # "submit"
      BY DEF ScriptCmds
    <2> HIDE DEF cmd, query
    <2> QED BY <1>1, <2>1, <2>2, SameScripts, OtherLaunched
  <1>4. /\ Dequeued \in RequestRecord /\ Dequeued.jobmanager_state = State
        /\ Kept(request, Dequeued)
    BY <1>1, QueueFacts, DequeuedKeeps
  <1>5. \/ request' = To(request, next)
        \/ request' = To(Dequeued, "POLL2") \/ request' = Dequeued
    BY DEF CaseQuery1, Becomes, Dequeued
  <1>6. /\ next \in ManagerStates /\ "POLL2" \in ManagerStates
        /\ next \in PreSubmit => State \in PreSubmit
        /\ next \notin {"DONE", "FAILED_DONE", "STOP"}
    BY <1>1 DEF ManagerStates, PreSubmit
  <1> HIDE DEF next
  <1>7. /\ Kept(request, To(request, next))
        /\ To(request, next).jobmanager_state = next
        /\ Kept(request, To(Dequeued, "POLL2"))
        /\ To(Dequeued, "POLL2").jobmanager_state = "POLL2"
    BY <1>1, <1>4, <1>6, ToFacts, MovesKeep, KeptOn
  <1>8. /\ Kept(request, request')
        /\ State' \in {next, State, "POLL2"}
    BY <1>4, <1>5, <1>7 DEF State
  <1>9. /\ State' \in PreSubmit => Before(request)
        /\ State' \notin {"DONE", "FAILED_DONE", "STOP"}
    BY <1>1, <1>6, <1>8 DEF Before, PreSubmit, State
  <1> QED BY <1>2, <1>3, <1>8, <1>9, QuietMove

\* After a signal in TWO_PHASE.
LEMMA CaseTwoPhaseQuery2Job ==
    ASSUME RequestInvariant, JobCore, CaseTwoPhaseQuery2 PROVE JobCore'
  <1>1. /\ TypeOK /\ request.pending_queries # <<>>
        /\ State = "TWO_PHASE_QUERY2"
    BY DEF RequestInvariant, CaseTwoPhaseQuery2, At, QueriesMatchState,
           QueryStates
  <1>2. UNCHANGED <<rsl, scriptVars, submissions, state_file, sent>>
    BY DEF CaseTwoPhaseQuery2, Becomes
  <1>3. Dequeued \in RequestRecord /\ Kept(request, Dequeued)
    BY <1>1, QueueFacts, DequeuedKeeps
  <1> DEFINE t == To(Dequeued, "TWO_PHASE")
             q == To(Dequeued, "TWO_PHASE_QUERY1")
  <1>4. "TWO_PHASE" \in ManagerStates /\ "TWO_PHASE_QUERY1" \in ManagerStates
    BY DEF ManagerStates
  <1>5. /\ t \in RequestRecord /\ t.jobmanager_state = "TWO_PHASE"
        /\ Kept(request, t)
        /\ q.jobmanager_state = "TWO_PHASE_QUERY1" /\ Kept(request, q)
    BY <1>3, <1>4, ToFacts, MovesKeep, KeptOn
  <1>6. request' = Register(t) \/ request' = q
    BY DEF CaseTwoPhaseQuery2, Becomes
  <1> HIDE DEF t, q
  <1>7. /\ Register(t).jobmanager_state = "TWO_PHASE"
        /\ Kept(request, Register(t))
    BY <1>5, RegisterFacts, RegisterKeeps, KeptOn
  <1>8. /\ Kept(request, request')
        /\ State' \in {"TWO_PHASE", "TWO_PHASE_QUERY1"}
    BY <1>5, <1>6, <1>7 DEF State
  <1>9. Before(request)
    BY <1>1 DEF Before, PreSubmit, State
  <1> QED BY <1>2, <1>8, <1>9, QuietMove, SameScripts

\* After a query in POLL.
LEMMA CasePollQuery2Job ==
    ASSUME RequestInvariant, JobCore, CasePollQuery2 PROVE JobCore'
  <1>1. TypeOK /\ request.pending_queries # <<>>
    BY DEF RequestInvariant, CasePollQuery2, At, QueriesMatchState, QueryStates
  <1> DEFINE next == AfterPollQuery(Dequeued)
             x == To(Dequeued, next)
  <1>2. /\ UNCHANGED <<rsl, scriptVars, submissions, state_file, sent>>
        /\ request' = x
    BY DEF CasePollQuery2, Becomes
  <1>3. Dequeued \in RequestRecord /\ Kept(request, Dequeued)
    BY <1>1, QueueFacts, DequeuedKeeps
  <1>4. next \in {"POLL_QUERY1", "POLL1", "POLL2"} /\ next \in ManagerStates
    BY DEF AfterPollQuery, ManagerStates
  <1> HIDE DEF next
  <1>5. x.jobmanager_state = next /\ Kept(request, x)
    BY <1>3, <1>4, ToFacts, MovesKeep, KeptOn
  <1> HIDE DEF x
  <1>6. Kept(request, request') /\ State' \in {"POLL_QUERY1", "POLL1", "POLL2"}
    BY <1>2, <1>4, <1>5 DEF State
  <1>7. State' \notin PreSubmit
    BY <1>6 DEF PreSubmit
  <1> QED BY <1>2, <1>6, <1>7, QuietMove, SameScripts

\* The end of the job is recorded in the state file.
LEMMA CasePreCloseJob ==
    ASSUME RequestInvariant, JobCore, CasePreClose PROVE JobCore'
  <1> DEFINE saved == IF request.unsent_status_change
                        THEN [request EXCEPT !.restart_state = State]
                        ELSE request
             s     == IF State = "FAILED" THEN "FAILED_CLOSE_OUTPUT"
                                          ELSE "CLOSE_OUTPUT"
             moved == To(saved, s)
             next  == [moved EXCEPT !.pending_queries = <<>>]
             told  == [next EXCEPT !.unsent_status_change = FALSE]
             Same(b) == /\ b.jm_restart = request.jm_restart
                        /\ b.stage_out_todo = request.stage_out_todo
                        /\ b.status = request.status
  <1>1. /\ TypeOK /\ request \in RequestRecord /\ State \in ManagerStates
        /\ State \in {"PRE_CLOSE_OUTPUT", "FAILED"}
    BY DEF RequestInvariant, TypeOK, RequestRecord, State, CasePreClose, At
  <1>2. UNCHANGED <<rsl, scriptVars, submissions>>
    BY DEF CasePreClose
  <1>3. /\ \/ /\ ContactStateCallback(told, FALSE)
              /\ request.status = "STAGE_OUT"
           \/ Becomes(next)
        /\ state_file' = StateFileOf(saved) \/ state_file' = state_file
    BY DEF CasePreClose
  <1>4. saved \in RequestRecord /\ Same(saved) /\ saved.jobmanager_state = State
    BY <1>1 DEF RequestRecord, State
  <1>5. s \in {"FAILED_CLOSE_OUTPUT", "CLOSE_OUTPUT"} /\ s \in ManagerStates
    BY DEF ManagerStates
  <1> HIDE DEF saved, s
  <1>6. moved \in RequestRecord /\ moved.jobmanager_state = s /\ Same(moved)
    BY <1>4, <1>5, ToFacts, MovesKeep DEF Kept
  <1> HIDE DEF moved
  <1>7. next \in RequestRecord /\ next.jobmanager_state = s /\ Same(next)
    BY <1>6, NoQueriesTyped DEF RequestRecord
  <1> HIDE DEF next
  <1>8. told \in RequestRecord /\ told.jobmanager_state = s /\ Same(told)
    BY <1>7 DEF RequestRecord
  <1> HIDE DEF told
  <1>9. /\ request'.jm_restart = request.jm_restart
        /\ request'.stage_out_todo = request.stage_out_todo
        /\ State' = s /\ ("DONE" \in sent' => "DONE" \in sent)
    <2>1. CASE /\ ContactStateCallback(told, FALSE)
               /\ request.status = "STAGE_OUT"
      <3>1. FALSE \in BOOLEAN
        OBVIOUS
      <3> QED BY <1>1, <1>8, <2>1, <3>1, CallbackFacts, CallbackKeeps
              DEF Kept, State
    <2>2. CASE Becomes(next)
      BY <1>7, <2>2 DEF Becomes, State
    <2> QED BY <1>3, <2>1, <2>2
  <1>10. ~Before(request') /\ EndAnswered'
    BY <1>5, <1>9 DEF Before, PreSubmit, State, EndAnswered
  <1>11. ~Before(saved)
    BY <1>1, <1>4 DEF Before, PreSubmit
  <1>12. FileBefore(state_file') => FileBefore(state_file)
    BY <1>3, <1>4, <1>11, FileOf
  <1> QED BY <1>2, <1>9, <1>10, <1>12, JobMoves, SameScripts

\* Stage-out starts its script, has nothing to do, or fails.
LEMMA CaseCloseOutputJob ==
    ASSUME RequestInvariant, JobCore, CaseCloseOutput PROVE JobCore'
  <1> DEFINE a == To(request, "FAILED_CLOSE_OUTPUT")
             b == To(request, "STAGE_OUT")
             c == To(request, "FAILED")
             o == [b EXCEPT !.unsent_status_change = TRUE]
             m == [c EXCEPT !.failure_code = "MALLOC_FAILED"]
  <1>1. TypeOK /\ request \in RequestRecord
    BY DEF RequestInvariant, TypeOK
  <1>2. UNCHANGED <<rsl, staged_out, submissions, state_file, sent>>
    BY DEF CaseCloseOutput, Becomes
  <1>3. request' \in {a, o, m}
    BY DEF CaseCloseOutput, ToStageOut, Becomes
  <1>4. ScriptsKept
    <2>1. UNCHANGED scripts \/ Launch("stage_out", "STAGE_OUT", NoQuery)
      BY DEF CaseCloseOutput
    <2>2. "stage_out" \in ScriptCmds
      BY DEF ScriptCmds
    <2> QED BY <1>1, <2>1, <2>2, SameScripts, OtherLaunched
  <1>5. /\ a.jobmanager_state = "FAILED_CLOSE_OUTPUT" /\ Kept(request, a)
        /\ b \in RequestRecord /\ b.jobmanager_state = "STAGE_OUT"
        /\ Kept(request, b)
        /\ c \in RequestRecord /\ c.jobmanager_state = "FAILED"
        /\ Kept(request, c)
    BY <1>1, ToFacts, MovesKeep DEF ManagerStates
  <1> HIDE DEF a, b, c
  <1>6. o.jobmanager_state = "STAGE_OUT" /\ Kept(request, o)
    BY <1>5 DEF RequestRecord, Kept
  <1>7. m.jobmanager_state = "FAILED" /\ Kept(request, m)
    BY <1>5 DEF RequestRecord, Kept
  <1> HIDE DEF o, m
  <1>8. /\ Kept(request, request')
        /\ State' \in {"FAILED_CLOSE_OUTPUT", "STAGE_OUT", "FAILED"}
    BY <1>3, <1>5, <1>6, <1>7 DEF State
  <1>9. State' \notin PreSubmit
    BY <1>8 DEF PreSubmit
  <1> QED BY <1>2, <1>4, <1>8, <1>9, QuietMove

\* DONE is sent only from STAGE_OUT with nothing left on the list.
LEMMA CaseFinalStatusJob ==
    ASSUME RequestInvariant, JobCore, CaseFinalStatus PROVE JobCore'
  <1> DEFINE r == IF State = "STAGE_OUT" THEN StageOutLeft(request)
                                         ELSE request
             done  == SetStatus(r, "DONE")
             fail  == SetStatus(r, "FAILED")
             final == IF r.jobmanager_state = "STAGE_OUT"
                        THEN To(done, "TWO_PHASE_END")
                        ELSE To(fail, "FAILED_TWO_PHASE")
             told  == [final EXCEPT !.unsent_status_change = FALSE]
  <1>1. /\ TypeOK /\ request \in RequestRecord /\ rsl.two_phase \in BOOLEAN
        /\ State \in {"STAGE_OUT", "FAILED_CLOSE_OUTPUT"}
    BY ConstantsAssumption DEF RequestInvariant, TypeOK, RSL, CaseFinalStatus, At
  <1>2. UNCHANGED <<rsl, scriptVars, submissions, state_file>>
    BY DEF CaseFinalStatus
  <1>3. ContactStateCallback(told, rsl.two_phase) \/ Becomes(final)
    BY DEF CaseFinalStatus
  <1>4. /\ r \in RequestRecord /\ Kept(request, r)
        /\ r.jobmanager_state = "STAGE_OUT" => ~request.stage_out_todo
    <2> DEFINE x == To(request, "FAILED_CLOSE_OUTPUT")
               y(c) == [x EXCEPT !.failure_code = c]
    <2>1. /\ x \in RequestRecord /\ Kept(request, x)
          /\ x.jobmanager_state = "FAILED_CLOSE_OUTPUT"
      BY <1>1, ToFacts, MovesKeep DEF ManagerStates
    <2>2. \/ r = request
          \/ r = [x EXCEPT !.failure_code =
                    IF @ \in {"SUCCESS", "STAGE_OUT_FAILED"}
                      THEN "OPENING_STDOUT" ELSE @]
          \/ r = [x EXCEPT !.failure_code =
                    IF @ = "SUCCESS" THEN "STAGE_OUT_FAILED" ELSE @]
      BY DEF StageOutLeft
    <2>3. r = request => State = "FAILED_CLOSE_OUTPUT" \/ ~request.stage_out_todo
      <3>1. CASE State = "STAGE_OUT" /\ request.stage_out_todo
        <4>1. /\ r.jobmanager_state = "FAILED_CLOSE_OUTPUT"
          <5>1. \/ r = [x EXCEPT !.failure_code =
                          IF @ \in {"SUCCESS", "STAGE_OUT_FAILED"}
                            THEN "OPENING_STDOUT" ELSE @]
                \/ r = [x EXCEPT !.failure_code =
                          IF @ = "SUCCESS" THEN "STAGE_OUT_FAILED" ELSE @]
            BY <1>1, <3>1 DEF StageOutLeft, RequestRecord
          <5> HIDE DEF x, r
          <5> QED BY <2>1, <5>1 DEF RequestRecord
        <4> HIDE DEF r
        <4> QED BY <3>1, <4>1 DEF State
      <3> QED BY <1>1, <3>1
    <2> HIDE DEF x, r
    <2>4. /\ x.failure_code \in FailureCodes
          /\ "OPENING_STDOUT" \in FailureCodes
          /\ "STAGE_OUT_FAILED" \in FailureCodes
      BY <2>1 DEF RequestRecord, FailureCodes
    <2>5. \A c \in FailureCodes : /\ y(c) \in RequestRecord
                                  /\ Kept(request, y(c))
                                  /\ y(c).jobmanager_state
                                        = "FAILED_CLOSE_OUTPUT"
      BY <2>1 DEF RequestRecord, Kept
    <2>6. r = request \/ \E c \in FailureCodes : r = y(c)
      BY <2>2, <2>4
    <2> HIDE DEF y
    <2>7. Kept(request, request)
      BY DEF Kept
    <2> QED BY <1>1, <2>3, <2>5, <2>6, <2>7 DEF State
  <1> HIDE DEF r
  <1>5. /\ done \in RequestRecord /\ Kept(request, done)
        /\ fail \in RequestRecord /\ Kept(request, fail)
        /\ fail.status = "FAILED"
    <2>1. "DONE" \in JobStates /\ "FAILED" \in JobStates
      BY DEF JobStates
    <2> QED BY <1>4, <2>1, SetStatusFacts, SetStatusKeeps, KeptOn
  <1> HIDE DEF done, fail
  <1>6. /\ final \in RequestRecord /\ Kept(request, final)
        /\ final.jobmanager_state \in {"TWO_PHASE_END", "FAILED_TWO_PHASE"}
        /\ final.status = "DONE" => ~request.stage_out_todo
    <2>1. "TWO_PHASE_END" \in ManagerStates /\ "FAILED_TWO_PHASE" \in ManagerStates
      BY DEF ManagerStates
    <2>2. /\ To(done, "TWO_PHASE_END") \in RequestRecord
          /\ Kept(request, To(done, "TWO_PHASE_END"))
          /\ To(done, "TWO_PHASE_END").jobmanager_state = "TWO_PHASE_END"
      BY <1>5, <2>1, ToFacts, MovesKeep, KeptOn
    <2>3. /\ To(fail, "FAILED_TWO_PHASE") \in RequestRecord
          /\ Kept(request, To(fail, "FAILED_TWO_PHASE"))
          /\ To(fail, "FAILED_TWO_PHASE").jobmanager_state = "FAILED_TWO_PHASE"
          /\ To(fail, "FAILED_TWO_PHASE").status = "FAILED"
      BY <1>5, <2>1, ToFacts, MovesKeep, KeptOn
    <2> QED BY <1>4, <2>2, <2>3
  <1> HIDE DEF final
  <1>7. /\ told \in RequestRecord /\ Kept(request, told)
        /\ told.jobmanager_state = final.jobmanager_state
        /\ told.status = final.status
    BY <1>6 DEF RequestRecord, Kept
  <1> HIDE DEF told
  <1>8. /\ Kept(request, request')
        /\ State' \in {"TWO_PHASE_END", "FAILED_TWO_PHASE"}
        /\ "DONE" \in sent' => "DONE" \in sent \/ ~request.stage_out_todo
    <2>1. CASE ContactStateCallback(told, rsl.two_phase)
      BY <1>1, <1>6, <1>7, <2>1, CallbackFacts, CallbackKeeps, KeptOn DEF State
    <2>2. CASE Becomes(final)
      BY <1>6, <2>2 DEF State, Becomes
    <2> QED BY <1>3, <2>1, <2>2
  <1>9. ~Before(request') /\ EndAnswered'
    BY <1>8 DEF Before, PreSubmit, State, EndAnswered
  <1> QED BY <1>2, <1>8, <1>9, JobMoves, SameScripts DEF Kept

\* Waiting for the end commit, going on without it, or stopping.
LEMMA CaseTwoPhaseEndJob ==
    ASSUME RequestInvariant, JobCore, CaseTwoPhaseEnd PROVE JobCore'
  <1> DEFINE e == [request EXCEPT !.commit_extend = FALSE]
             n == IF State = "TWO_PHASE_END" THEN "TWO_PHASE_END_COMMITTED"
                                             ELSE "FAILED_TWO_PHASE_COMMITTED"
             x == To(request, "STOP")
             t == [x EXCEPT !.restart_state = State]
  <1>1. /\ request \in RequestRecord /\ State \in ManagerStates
        /\ State \in {"TWO_PHASE_END", "FAILED_TWO_PHASE"}
    BY DEF RequestInvariant, TypeOK, RequestRecord, State, CaseTwoPhaseEnd, At
  <1>2. UNCHANGED <<rsl, scriptVars, submissions, state_file, sent>>
    BY DEF CaseTwoPhaseEnd, Becomes
  <1>3. request' \in {Register(e), To(request, n), t}
    BY DEF CaseTwoPhaseEnd, Becomes
  <1>4. e \in RequestRecord /\ e.jobmanager_state = State /\ Kept(request, e)
    BY <1>1 DEF RequestRecord, State, Kept
  <1> HIDE DEF e
  <1>5. Register(e).jobmanager_state = State /\ Kept(request, Register(e))
    BY <1>4, RegisterFacts, RegisterKeeps, KeptOn
  <1>6. /\ n \in ManagerStates /\ "STOP" \in ManagerStates
        /\ n \notin PreSubmit \union {"DONE", "FAILED_DONE", "STOP"}
    BY DEF ManagerStates, PreSubmit
  <1> HIDE DEF n
  <1>7. To(request, n).jobmanager_state = n /\ Kept(request, To(request, n))
    BY <1>1, <1>6, ToFacts, MovesKeep
  <1>8. x \in RequestRecord /\ x.jobmanager_state = "STOP" /\ Kept(request, x)
    BY <1>1, <1>6, ToFacts, MovesKeep
  <1> HIDE DEF x
  <1>9. /\ t.jobmanager_state = "STOP" /\ t.restart_state = State
        /\ t.jm_restart = request.jm_restart
        /\ t.stage_out_todo = request.stage_out_todo
    BY <1>1, <1>8 DEF RequestRecord, Kept
  <1> HIDE DEF t
  <1>10. /\ request'.jm_restart = request.jm_restart
         /\ request'.stage_out_todo = request.stage_out_todo
         /\ \/ State' \notin PreSubmit \union {"DONE", "FAILED_DONE", "STOP"}
            \/ State' = "STOP" /\ request'.restart_state = State
    BY <1>1, <1>3, <1>5, <1>6, <1>7, <1>9 DEF State, Kept, PreSubmit
  <1>11. ~Before(request') /\ EndAnswered'
    BY <1>1, <1>10 DEF Before, PreSubmit, State, EndAnswered
  <1> QED BY <1>2, <1>10, <1>11, JobMoves, SameScripts

\* The clean-up states follow one another in the loop.
LEMMA CaseCleanUpJob ==
    ASSUME RequestInvariant, JobCore, CaseCleanUp PROVE JobCore'
  <1> DEFINE n == IF State = "FILE_CLEAN_UP" /\ request.status = "FAILED"
                    THEN "FAILED_SCRATCH_CLEAN_UP" ELSE CleanUpNext[State]
             x == To(request, n)
  <1>1. /\ request \in RequestRecord /\ State \in DOMAIN CleanUpNext
        /\ request' = x
        /\ UNCHANGED <<rsl, scriptVars, submissions, state_file, sent>>
    BY DEF RequestInvariant, TypeOK, CaseCleanUp, At, Becomes
  <1>2. n \in {"FILE_CLEAN_UP", "FAILED_FILE_CLEAN_UP", "SCRATCH_CLEAN_UP",
               "FAILED_SCRATCH_CLEAN_UP", "CACHE_CLEAN_UP",
               "FAILED_CACHE_CLEAN_UP"}
    BY <1>1 DEF CleanUpNext
  <1> HIDE DEF n
  <1>3. n \in ManagerStates
    BY <1>2 DEF ManagerStates
  <1>4. x.jobmanager_state = n /\ Kept(request, x)
    BY <1>1, <1>3, ToFacts, MovesKeep
  <1> HIDE DEF x
  <1>5. Kept(request, request') /\ State' = n
    BY <1>1, <1>4 DEF State
  <1>6. State' \notin PreSubmit \union {"DONE", "FAILED_DONE", "STOP"}
    BY <1>2, <1>5 DEF PreSubmit
  <1> QED BY <1>1, <1>5, <1>6, QuietMove, SameScripts

\* The last clean-up removes the state file and answers what is queued.
LEMMA CaseCacheCleanUpJob ==
    ASSUME RequestInvariant, JobCore, CaseCacheCleanUp PROVE JobCore'
  <1> DEFINE n == IF State = "CACHE_CLEAN_UP" THEN "DONE" ELSE "FAILED_DONE"
             x == To(request, n)
             r == [x EXCEPT !.pending_queries = <<>>]
  <1>1. /\ request \in RequestRecord
        /\ request' = r /\ state_file' = NoStateFile
        /\ UNCHANGED <<rsl, scriptVars, submissions, sent>>
    BY DEF RequestInvariant, TypeOK, CaseCacheCleanUp, Becomes
  <1>2. n \in {"DONE", "FAILED_DONE"} /\ n \in ManagerStates
    BY DEF ManagerStates
  <1> HIDE DEF n
  <1>3. x \in RequestRecord /\ x.jobmanager_state = n /\ Kept(request, x)
    BY <1>1, <1>2, ToFacts, MovesKeep
  <1> HIDE DEF x
  <1>4. r.jobmanager_state = n /\ Kept(request, r) /\ r.pending_queries = <<>>
    BY <1>3, NoQueriesTyped DEF RequestRecord, Kept
  <1> HIDE DEF r
  <1>5. ~Before(request') /\ ~FileBefore(state_file') /\ EndAnswered'
    BY <1>1, <1>2, <1>4 DEF Before, PreSubmit, FileBefore, EndAnswered
  <1> QED BY <1>1, <1>4, <1>5, JobMoves, SameScripts DEF Kept

\* DONE and FAILED_DONE handle the events left over and rest.
LEMMA CaseDoneJob ==
    ASSUME RequestInvariant, JobCore, CaseDone PROVE JobCore'
  <1> DEFINE r == [request EXCEPT !.restart_state = State,
                                  !.pending_queries = <<>>]
  <1>1. /\ request \in RequestRecord /\ State \in ManagerStates
        /\ State \in {"DONE", "FAILED_DONE"}
    BY DEF RequestInvariant, TypeOK, CaseDone, At, RequestRecord, State
  <1>2. /\ state_file' = NoStateFile \/ state_file' = state_file
        /\ UNCHANGED <<rsl, scriptVars, submissions, sent>>
    BY DEF CaseDone, Becomes
  <1>3. \/ r.seg_event_queue # <<>> /\ request' = HandleEvent(r)
        \/ request' = r
    BY DEF CaseDone, Becomes
  <1>4. r \in RequestRecord /\ r.jobmanager_state = State
        /\ r.pending_queries = <<>>
        /\ r.jm_restart = request.jm_restart
        /\ r.stage_out_todo = request.stage_out_todo
    BY <1>1, NoQueriesTyped DEF RequestRecord, State
  <1> HIDE DEF r
  <1>5. /\ State' = State /\ request'.pending_queries = <<>>
        /\ request'.jm_restart = request.jm_restart
        /\ request'.stage_out_todo = request.stage_out_todo
    BY <1>3, <1>4, HandleEventFacts, HandleEventKeeps DEF State, Kept
  <1>6. /\ ~Before(request') /\ EndAnswered'
        /\ FileBefore(state_file') => FileBefore(state_file)
    BY <1>1, <1>2, <1>5 DEF Before, PreSubmit, FileBefore, EndAnswered, State
  <1> QED BY <1>2, <1>5, <1>6, JobMoves, SameScripts

\* STOP saves the state in which the request was stopped.
LEMMA CaseStopJob ==
    ASSUME RequestInvariant, JobCore, CaseStop PROVE JobCore'
  <1>1. /\ TypeOK /\ request \in RequestRecord /\ State = "STOP"
        /\ ContactStateCallback(request, FALSE)
        /\ state_file' = StateFileOf(request)
        /\ UNCHANGED <<rsl, scriptVars, submissions>>
    BY DEF RequestInvariant, TypeOK, CaseStop, At
  <1>2. /\ State' = "STOP" /\ Kept(request, request')
        /\ "DONE" \in sent' => "DONE" \in sent
    BY <1>1, CallbackFacts, CallbackKeeps DEF State
  <1>3. Before(request') => Before(request)
    BY <1>1, <1>2 DEF Before, Kept, State
  <1>4. FileBefore(state_file') => Before(request)
    BY <1>1, FileOf
  <1>5. EndAnswered'
    BY <1>2 DEF EndAnswered
  <1> QED BY <1>1, <1>2, <1>3, <1>4, <1>5, JobMoves, SameScripts DEF Kept

\* Every case of the state machine keeps the invariant.
LEMMA StateMachineJob ==
    ASSUME RequestInvariant, JobCore, StateMachine PROVE JobCore'
  BY CaseStartJob, CaseTwoPhaseJob, CaseTwoPhaseCommittedJob, CaseStageInJob,
     CaseSubmitJob, CasePoll1Job, CasePoll2Job, CaseQuery1Job,
     CaseTwoPhaseQuery2Job, CasePollQuery2Job, CasePreCloseJob,
     CaseCloseOutputJob, CaseFinalStatusJob, CaseTwoPhaseEndJob,
     CaseCleanUpJob, CaseCacheCleanUpJob, CaseDoneJob, CaseStopJob
     DEF StateMachine

-----------------------------------------------------------------------------
(* The client, the scripts and the LRM keep it                              *)

\* A step that leaves the machine in its state and the queries queued.
LEMMA InPlace ==
    ASSUME JobCore, ScriptsKept, Kept(request, request'),
           UNCHANGED <<rsl, submissions, staged_out, sent>>,
           State' = State,
           request'.pending_queries = request.pending_queries,
           FileBefore(state_file') => FileBefore(state_file) \/ Before(request)
    PROVE  JobCore'
  <1>1. Before(request') => Before(request)
    BY DEF Before, Kept, State
  <1>2. EndAnswered'
    BY DEF JobCore, EndAnswered
  <1> QED BY <1>1, <1>2, JobMoves DEF Kept

\* A queued query changes nothing else.
LEMMA EnqueueKeeps ==
    ASSUME TypeOK, NEW kind PROVE Kept(request, Enqueue(kind))
  <1>1. request \in RequestRecord
    BY DEF TypeOK
  <1>2. Enqueue(kind) = [request EXCEPT !.pending_queries =
                           Append(request.pending_queries,
                                  [id |-> NextId, kind |-> kind])]
    BY DEF Enqueue
  <1> DEFINE q == Append(request.pending_queries,
                         [id |-> NextId, kind |-> kind])
  <1> HIDE DEF q
  <1>3. Kept(request, [request EXCEPT !.pending_queries = q])
    BY <1>1 DEF RequestRecord, Kept
  <1> QED BY <1>2, <1>3 DEF q

\* The handlers for a queued query.
LEMMA QueryJob ==
    ASSUME RequestInvariant, JobCore, NEW kind \in QueryKinds,
           State \in QueryValid,
           UNCHANGED <<rsl, scriptVars, submissions, state_file, sent>>,
           \/ /\ State = "POLL2"
              /\ request' = Register(To(Enqueue(kind), "POLL_QUERY1"))
           \/ /\ State = "TWO_PHASE"
              /\ request' = Register(To(Enqueue(kind), "TWO_PHASE_QUERY1"))
           \/ request' = Enqueue(kind)
    PROVE  JobCore'
  <1>1. TypeOK /\ request \in RequestRecord
    BY DEF RequestInvariant, TypeOK
  <1>2. /\ Enqueue(kind) \in RequestRecord
        /\ Enqueue(kind).jobmanager_state = State
        /\ Kept(request, Enqueue(kind))
    BY <1>1, EnqueueFacts, EnqueueKeeps
  <1>3. "POLL_QUERY1" \in ManagerStates /\ "TWO_PHASE_QUERY1" \in ManagerStates
    BY DEF ManagerStates
  <1> DEFINE p == To(Enqueue(kind), "POLL_QUERY1")
             t == To(Enqueue(kind), "TWO_PHASE_QUERY1")
  <1>4. /\ p \in RequestRecord /\ p.jobmanager_state = "POLL_QUERY1"
        /\ Kept(request, p)
        /\ t \in RequestRecord /\ t.jobmanager_state = "TWO_PHASE_QUERY1"
        /\ Kept(request, t)
    BY <1>2, <1>3, ToFacts, MovesKeep, KeptOn
  <1>5. \/ State = "POLL2" /\ request' = Register(p)
        \/ State = "TWO_PHASE" /\ request' = Register(t)
        \/ request' = Enqueue(kind)
    OBVIOUS
  <1> HIDE DEF p, t
  <1>6. /\ Register(p).jobmanager_state = "POLL_QUERY1"
        /\ Kept(request, Register(p))
        /\ Register(t).jobmanager_state = "TWO_PHASE_QUERY1"
        /\ Kept(request, Register(t))
    BY <1>4, RegisterFacts, RegisterKeeps, KeptOn
  <1>7. /\ Kept(request, request')
        /\ \/ State' = "POLL_QUERY1"
           \/ State = "TWO_PHASE" /\ State' = "TWO_PHASE_QUERY1"
           \/ State' = State
    BY <1>2, <1>5, <1>6 DEF State
  <1>8. /\ State' \in PreSubmit => Before(request)
        /\ State' \notin {"DONE", "FAILED_DONE", "STOP"}
    BY <1>7 DEF QueryValid, PreSubmit, Before, State
  <1> QED BY <1>7, <1>8, QuietMove, SameScripts

\* cancel(): the job fails at once, or the cancel waits for its script.
LEMMA CancelJob ==
    ASSUME RequestInvariant, JobCore, Cancel PROVE JobCore'
  <1>1. /\ request \in RequestRecord
        /\ UNCHANGED <<rsl, scriptVars, submissions, state_file, sent>>
    BY DEF RequestInvariant, TypeOK, Cancel
  <1> DEFINE x == To(request, "FAILED")
             y == SetStatus(x, "FAILED")
             z == [y EXCEPT !.failure_code = "USER_CANCELLED"]
             t == [z EXCEPT !.unsent_status_change = TRUE]
  <1>2. \/ request' = z \/ request' = t
        \/ /\ State \in {"SUBMIT", "POLL1", "POLL2", "POLL_QUERY1",
                         "POLL_QUERY2"}
           /\ request' = IF State = "POLL2"
                           THEN Register(To(Enqueue("cancel"), "POLL_QUERY1"))
                           ELSE Enqueue("cancel")
    BY DEF Cancel, Cancelled
  <1>3. CASE request' = z \/ request' = t
    <2>1. "FAILED" \in ManagerStates /\ "FAILED" \in JobStates
      BY DEF ManagerStates, JobStates
    <2>2. /\ x \in RequestRecord /\ x.jobmanager_state = "FAILED"
          /\ Kept(request, x)
      BY <1>1, <2>1, ToFacts, MovesKeep
    <2> HIDE DEF x
    <2>3. /\ y \in RequestRecord /\ y.jobmanager_state = "FAILED"
          /\ Kept(request, y)
      BY <2>1, <2>2, SetStatusFacts, SetStatusKeeps, KeptOn
    <2> HIDE DEF y
    <2>4. /\ z \in RequestRecord /\ z.jobmanager_state = "FAILED"
          /\ Kept(request, z)
      BY <2>3 DEF RequestRecord, FailureCodes, Kept
    <2> HIDE DEF z
    <2>5. t.jobmanager_state = "FAILED" /\ Kept(request, t)
      BY <2>4 DEF RequestRecord, Kept
    <2> HIDE DEF t
    <2>6. Kept(request, request') /\ State' = "FAILED"
      BY <1>3, <2>4, <2>5 DEF State
    <2>7. State' \notin PreSubmit
      BY <2>6 DEF PreSubmit
    <2> QED BY <1>1, <2>6, <2>7, QuietMove, SameScripts
  <1>4. CASE /\ State \in {"SUBMIT", "POLL1", "POLL2", "POLL_QUERY1",
                           "POLL_QUERY2"}
             /\ request' = IF State = "POLL2"
                             THEN Register(To(Enqueue("cancel"), "POLL_QUERY1"))
                             ELSE Enqueue("cancel")
    <2>1. "cancel" \in QueryKinds /\ State \in QueryValid
      BY <1>4 DEF QueryKinds, QueryValid
    <2>2. \/ /\ State = "POLL2"
             /\ request' = Register(To(Enqueue("cancel"), "POLL_QUERY1"))
          \/ request' = Enqueue("cancel")
      BY <1>4
    <2> QED BY <1>1, <2>1, <2>2, QueryJob
  <1> QED BY <1>2, <1>3, <1>4

\* signal()
LEMMA SignalJob ==
    ASSUME RequestInvariant, JobCore, NEW kind \in Signals, Signal(kind)
    PROVE  JobCore'
  <1>1. /\ State \in QueryValid /\ kind \in QueryKinds
        /\ UNCHANGED <<rsl, scriptVars, submissions, state_file, sent>>
    BY DEF Signal, Signals
  <1>2. \/ /\ State = "POLL2"
           /\ request' = Register(To(Enqueue(kind), "POLL_QUERY1"))
        \/ /\ State = "TWO_PHASE"
           /\ request' = Register(To(Enqueue(kind), "TWO_PHASE_QUERY1"))
        \/ request' = Enqueue(kind)
    BY DEF Signal
  <1> QED BY <1>1, <1>2, QueryJob

\* COMMIT_REQUEST moves the machine on before the submission.
LEMMA CommitRequestJob ==
    ASSUME RequestInvariant, JobCore, CommitRequest PROVE JobCore'
  <1> DEFINE x == To(request, "TWO_PHASE_COMMITTED")
  <1>1. /\ request \in RequestRecord /\ request' = Register(x)
        /\ State \in {"START", "TWO_PHASE", "TWO_PHASE_QUERY1",
                      "TWO_PHASE_QUERY2"}
        /\ UNCHANGED <<rsl, scriptVars, submissions, state_file, sent>>
    BY DEF RequestInvariant, TypeOK, CommitRequest
  <1>2. /\ x \in RequestRecord /\ x.jobmanager_state = "TWO_PHASE_COMMITTED"
        /\ Kept(request, x)
    BY <1>1, ToFacts, MovesKeep DEF ManagerStates
  <1> HIDE DEF x
  <1>3. /\ Register(x).jobmanager_state = "TWO_PHASE_COMMITTED"
        /\ Kept(request, Register(x))
    BY <1>2, RegisterFacts, RegisterKeeps, KeptOn
  <1>4. Kept(request, request') /\ State' = "TWO_PHASE_COMMITTED"
    BY <1>1, <1>3 DEF State
  <1>5. Before(request)
    BY <1>1 DEF Before, PreSubmit, State
  <1> QED BY <1>1, <1>4, <1>5, QuietMove, SameScripts

\* The end of the two-phase protocol changes nothing but state and timer.
LEMMA CommitEndKeeps ==
    ASSUME NEW r \in RequestRecord PROVE Kept(r, CommitEndFrom(r))
  <1> DEFINE s == IF r.jobmanager_state = "FAILED_TWO_PHASE"
                    THEN "FAILED_TWO_PHASE_COMMITTED"
                    ELSE "TWO_PHASE_END_COMMITTED"
             x == To(r, s)
  <1>1. s \in ManagerStates /\ CommitEndFrom(r) = Register(x)
    BY DEF CommitEndFrom, ManagerStates
  <1> HIDE DEF s
  <1>2. x \in RequestRecord /\ Kept(r, x)
    BY <1>1, ToFacts, MovesKeep
  <1> HIDE DEF x
  <1> QED BY <1>1, <1>2, RegisterKeeps, KeptOn

\* COMMIT_END goes on to the clean-up.
LEMMA CommitEndJob ==
    ASSUME RequestInvariant, JobCore, CommitEnd PROVE JobCore'
  <1>1. /\ request \in RequestRecord /\ request' = CommitEndFrom(request)
        /\ UNCHANGED <<rsl, scriptVars, submissions, state_file, sent>>
    BY DEF RequestInvariant, TypeOK, CommitEnd
  <1>2. /\ Kept(request, request')
        /\ State' \in {"FAILED_TWO_PHASE_COMMITTED", "TWO_PHASE_END_COMMITTED"}
    BY <1>1, CommitEndFacts, CommitEndKeeps DEF State
  <1>3. State' \notin PreSubmit
    BY <1>2 DEF PreSubmit
  <1> QED BY <1>1, <1>2, <1>3, QuietMove, SameScripts

\* COMMIT_EXTEND only sets a mark.
LEMMA CommitExtendJob ==
    ASSUME RequestInvariant, JobCore, CommitExtend PROVE JobCore'
  <1>1. /\ request \in RequestRecord
        /\ request' = [request EXCEPT !.commit_extend = TRUE]
        /\ UNCHANGED <<rsl, scriptVars, submissions, state_file, sent>>
    BY DEF RequestInvariant, TypeOK, CommitExtend
  <1>2. /\ Kept(request, request') /\ State' = State
        /\ request'.pending_queries = request.pending_queries
    BY <1>1 DEF RequestRecord, State, Kept
  <1> QED BY <1>1, <1>2, InPlace, SameScripts

\* STOP_MANAGER records the state it stopped the request in.
LEMMA StopManagerJob ==
    ASSUME RequestInvariant, JobCore, StopManager PROVE JobCore'
  <1>1. /\ request \in RequestRecord /\ State \in ManagerStates
        /\ UNCHANGED <<rsl, scriptVars, submissions, state_file, sent>>
    BY DEF RequestInvariant, TypeOK, StopManager, RequestRecord, State
  <1> DEFINE a == [request EXCEPT !.unsent_status_change = TRUE]
             x == To(request, "STOP")
             r == [x EXCEPT !.unsent_status_change = TRUE,
                            !.restart_state = State]
  <1>2. \/ State = "STOP" /\ request' = a
        \/ request' = r \/ request' = Register(r)
    BY DEF StopManager
  <1>3. a.jobmanager_state = State /\ Kept(request, a)
        /\ a.pending_queries = request.pending_queries
    BY <1>1 DEF RequestRecord, State, Kept
  <1>4. x \in RequestRecord /\ x.jobmanager_state = "STOP" /\ Kept(request, x)
    BY <1>1, ToFacts, MovesKeep DEF ManagerStates
  <1> HIDE DEF a, x
  <1>5. /\ r \in RequestRecord /\ r.jobmanager_state = "STOP"
        /\ r.restart_state = State /\ r.jm_restart = request.jm_restart
        /\ r.stage_out_todo = request.stage_out_todo
    BY <1>1, <1>4 DEF RequestRecord, Kept
  <1> HIDE DEF r
  <1>6. CASE State = "STOP" /\ request' = a
    <2>1. State' = State
      BY <1>3, <1>6 DEF State
    <2> QED BY <1>1, <1>3, <1>6, <2>1, InPlace, SameScripts
  <1>7. CASE request' = r \/ request' = Register(r)
    <2>1. /\ State' = "STOP" /\ request'.restart_state = State
          /\ request'.jm_restart = request.jm_restart
          /\ request'.stage_out_todo = request.stage_out_todo
      BY <1>5, <1>7, RegisterFacts, RegisterKeeps DEF State, Kept
    <2>2. Before(request') => Before(request)
      BY <2>1 DEF Before, PreSubmit, State
    <2>3. EndAnswered'
      BY <2>1 DEF EndAnswered
    <2> QED BY <1>1, <2>1, <2>2, <2>3, JobMoves, SameScripts
  <1> QED BY <1>2, <1>6, <1>7

\* STDIO_UPDATE lists the files of the RSL again.
LEMMA StdioUpdateJob ==
    ASSUME RequestInvariant, JobCore, StdioUpdate PROVE JobCore'
  <1>1. /\ request \in RequestRecord
        /\ request' = StdioUpdated(request)
        /\ state_file' = StateFileOf(request')
        /\ UNCHANGED <<rsl, scriptVars, submissions, sent>>
    BY DEF RequestInvariant, TypeOK, StdioUpdate
  <1> DEFINE i == rsl.stage_in /\ ~request.jm_restart
             o == rsl.stage_out /\ ~request.jm_restart
             t == rsl.stream /\ ~request.jm_restart
  <1>2. i \in BOOLEAN /\ o \in BOOLEAN /\ t \in BOOLEAN
    OBVIOUS
  <1>3. request' = [request EXCEPT !.stage_in_todo = i,
                                   !.stage_out_todo = o,
                                   !.stage_stream_todo = t]
    BY <1>1 DEF StdioUpdated
  <1>4. rsl.stage_out => o
    BY DEF JobCore
  <1> HIDE DEF i, o, t
  <1>5. /\ request' \in RequestRecord /\ State' = State
        /\ request'.jm_restart = request.jm_restart
        /\ request'.restart_state = request.restart_state
        /\ request'.pending_queries = request.pending_queries
        /\ request'.stage_out_todo = o
    BY <1>1, <1>2, <1>3 DEF RequestRecord, State
  <1>6. Before(request') => Before(request)
    BY <1>5 DEF Before, State
  <1>7. FileBefore(state_file') => Before(request)
    BY <1>1, <1>5, <1>6, FileOf
  <1>8. StageOutKept'
    BY <1>1, <1>4, <1>5 DEF JobCore, StageOutKept
  <1>9. EndAnswered'
    BY <1>5 DEF JobCore, EndAnswered
  <1> QED BY <1>1, <1>5, <1>6, <1>7, <1>8, <1>9, JobSteps, SameScripts

\* A contact comes.
LEMMA RegisterContactJob ==
    ASSUME RequestInvariant, JobCore, NEW c \in Contacts, RegisterContact(c)
    PROVE  JobCore'
  <1>1. /\ request \in RequestRecord
        /\ request' = [request EXCEPT !.client_contacts = @ \union {c}]
        /\ UNCHANGED <<rsl, scriptVars, submissions, state_file, sent>>
    BY DEF RequestInvariant, TypeOK, RegisterContact
  <1>2. /\ Kept(request, request') /\ State' = State
        /\ request'.pending_queries = request.pending_queries
    BY <1>1 DEF RequestRecord, State, Kept
  <1> QED BY <1>1, <1>2, InPlace, SameScripts

\* A contact leaves.
LEMMA UnregisterContactJob ==
    ASSUME RequestInvariant, JobCore, NEW c \in Contacts, UnregisterContact(c)
    PROVE  JobCore'
  <1> DEFINE r == [request EXCEPT !.client_contacts = @ \ {c}]
  <1>1. /\ request \in RequestRecord
        /\ request' = CommitEndFrom(r) \/ request' = r
        /\ UNCHANGED <<rsl, scriptVars, submissions, state_file, sent>>
    BY DEF RequestInvariant, TypeOK, UnregisterContact
  <1>2. /\ r \in RequestRecord /\ r.jobmanager_state = State
        /\ r.pending_queries = request.pending_queries /\ Kept(request, r)
    BY <1>1 DEF RequestRecord, State, Kept
  <1> HIDE DEF r
  <1>3. CASE request' = r
    <2>1. State' = State
      BY <1>2, <1>3 DEF State
    <2> QED BY <1>1, <1>2, <1>3, <2>1, InPlace, SameScripts
  <1>4. CASE request' = CommitEndFrom(r)
    <2>1. /\ Kept(r, CommitEndFrom(r))
          /\ State' \in {"FAILED_TWO_PHASE_COMMITTED",
                         "TWO_PHASE_END_COMMITTED"}
      BY <1>2, <1>4, CommitEndFacts, CommitEndKeeps DEF State
    <2>2. Kept(request, request')
      BY <1>2, <1>4, <2>1, KeptOn
    <2>3. State' \notin PreSubmit
      BY <2>1 DEF PreSubmit
    <2> QED BY <1>1, <2>1, <2>2, <2>3, QuietMove, SameScripts
  <1> QED BY <1>1, <1>3, <1>4

\* Every query and signal of the client keeps the invariant.
LEMMA ClientJob ==
    ASSUME RequestInvariant, JobCore, Client PROVE JobCore'
  BY CancelJob, SignalJob, CommitRequestJob, CommitEndJob, CommitExtendJob,
     StopManagerJob, StdioUpdateJob, RegisterContactJob, UnregisterContactJob
     DEF Client

-----------------------------------------------------------------------------
(* The environment keeps it                                                 *)

\* The job id is noted.
LEMMA ScriptJobIdJob ==
    ASSUME RequestInvariant, JobCore, NEW i \in DOMAIN scripts, ScriptJobId(i)
    PROVE  JobCore'
  <1>1. /\ TypeOK /\ request \in RequestRecord
        /\ Said(i, "JOB_ID") /\ "JOB_ID" \in ScriptVars
        /\ request' = [request EXCEPT !.job_id_string = "set"]
        /\ UNCHANGED <<rsl, staged_out, submissions, sent, state_file>>
    BY DEF RequestInvariant, TypeOK, ScriptJobId, ScriptVars
  <1>2. /\ Kept(request, request') /\ State' = State
        /\ request'.pending_queries = request.pending_queries
    BY <1>1 DEF RequestRecord, State, Kept
  <1>3. ScriptsKept
    BY <1>1, ScriptSaid
  <1> QED BY <1>1, <1>2, <1>3, InPlace

\* The LRM's status is reported.
LEMMA ScriptJobStateJob ==
    ASSUME RequestInvariant, JobCore, NEW i \in DOMAIN scripts,
           ScriptJobState(i)
    PROVE  JobCore'
  <1>1. /\ TypeOK /\ request \in RequestRecord
        /\ Said(i, "JOB_STATE") /\ "JOB_STATE" \in ScriptVars
        /\ request' = ReportStatus(request, lrm)
        /\ UNCHANGED <<rsl, staged_out, submissions, sent, state_file>>
    BY DEF RequestInvariant, TypeOK, ScriptJobState, ScriptVars
  <1>2. lrm \in JobStates
    BY <1>1 DEF ScriptJobState, TypeOK, LrmStates, SegEvents, JobStates
  <1>3. /\ Kept(request, request') /\ State' = State
        /\ request'.pending_queries = request.pending_queries
    BY <1>1, <1>2, ReportStatusFacts, ReportStatusKeeps DEF State, SameQueues
  <1>4. ScriptsKept
    BY <1>1, ScriptSaid
  <1> QED BY <1>1, <1>3, <1>4, InPlace

\* An error fails the job.
LEMMA ScriptErrorJob ==
    ASSUME RequestInvariant, JobCore, NEW i \in DOMAIN scripts, ScriptError(i)
    PROVE  JobCore'
  <1> DEFINE x == SetStatus(request, "FAILED")
             y == [x EXCEPT !.failure_code = "SCRIPT_ERROR",
                            !.unsent_status_change = TRUE]
  <1>1. /\ TypeOK /\ request \in RequestRecord
        /\ Said(i, "ERROR") /\ "ERROR" \in ScriptVars
        /\ request' = request \/ request' = y
        /\ UNCHANGED <<rsl, staged_out, submissions, sent, state_file>>
    BY DEF RequestInvariant, TypeOK, ScriptError, ScriptVars
  <1>2. /\ x \in RequestRecord /\ x.jobmanager_state = State
        /\ x.pending_queries = request.pending_queries /\ Kept(request, x)
    <2>1. "FAILED" \in JobStates
      BY DEF JobStates
    <2> QED BY <1>1, <2>1, SetStatusFacts, SetStatusKeeps
               DEF State, SameQueues
  <1> HIDE DEF x
  <1>3. /\ y.jobmanager_state = State
        /\ y.pending_queries = request.pending_queries /\ Kept(request, y)
    BY <1>2 DEF RequestRecord, Kept
  <1> HIDE DEF y
  <1>4. /\ Kept(request, request') /\ State' = State
        /\ request'.pending_queries = request.pending_queries
    BY <1>1, <1>3 DEF State, Kept
  <1>5. ScriptsKept
    BY <1>1, ScriptSaid
  <1> QED BY <1>1, <1>4, <1>5, InPlace

\* The files of stage-in have arrived.
LEMMA ScriptStagedInJob ==
    ASSUME RequestInvariant, JobCore, NEW i \in DOMAIN scripts,
           ScriptStagedIn(i)
    PROVE  JobCore'
  <1>1. /\ TypeOK /\ request \in RequestRecord
        /\ Said(i, "STAGED") /\ "STAGED" \in ScriptVars
        /\ request' = [request EXCEPT !.stage_in_todo = FALSE]
        /\ state_file' = state_file \/ state_file' = StateFileOf(request')
        /\ UNCHANGED <<rsl, staged_out, submissions, sent>>
    BY DEF RequestInvariant, TypeOK, ScriptStagedIn, ScriptVars
  <1>2. /\ request' \in RequestRecord
        /\ Kept(request, request') /\ State' = State
        /\ request'.pending_queries = request.pending_queries
    BY <1>1 DEF RequestRecord, State, Kept
  <1>3. Before(request') => Before(request)
    BY <1>2 DEF Before, State, Kept
  <1>4. FileBefore(state_file') => FileBefore(state_file) \/ Before(request)
    BY <1>1, <1>2, <1>3, FileOf
  <1>5. ScriptsKept
    BY <1>1, ScriptSaid
  <1> QED BY <1>1, <1>2, <1>4, <1>5, InPlace

\* The files of stage-out, or the streamed output, have been delivered: only
\* then are they taken off their list.
LEMMA ScriptStagedOutJob ==
    ASSUME RequestInvariant, JobCore, NEW i \in DOMAIN scripts,
           NEW var \in {"STAGED", "STREAMED"}, ScriptStagedOut(i, var)
    PROVE  JobCore'
  <1>1. /\ TypeOK /\ request \in RequestRecord
        /\ Said(i, var) /\ var \in ScriptVars
        /\ staged_out' = (staged_out \/ var = "STAGED")
        /\ UNCHANGED <<rsl, submissions, sent>>
    BY DEF RequestInvariant, TypeOK, ScriptStagedOut, ScriptVars
  <1>2. \/ /\ \/ /\ request' = [request EXCEPT !.stage_out_todo = FALSE]
                 /\ var = "STAGED"
              \/ request' = [request EXCEPT !.stage_stream_todo = FALSE]
           /\ state_file' = StateFileOf(request')
        \/ request' = request /\ state_file' = state_file
    BY DEF ScriptStagedOut
  <1>3. /\ request' \in RequestRecord /\ State' = State
        /\ request'.jm_restart = request.jm_restart
        /\ request'.restart_state = request.restart_state
        /\ request'.pending_queries = request.pending_queries
        /\ request'.stage_out_todo = request.stage_out_todo \/ var = "STAGED"
    BY <1>1, <1>2 DEF RequestRecord, State
  <1>4. Before(request') => Before(request)
    BY <1>3 DEF Before, State
  <1>5. FileBefore(state_file') => FileBefore(state_file) \/ Before(request)
    BY <1>2, <1>3, <1>4, FileOf
  <1>6. StageOutKept'
    BY <1>1, <1>3 DEF JobCore, StageOutKept
  <1>7. EndAnswered'
    BY <1>3 DEF JobCore, EndAnswered
  <1>8. ScriptsKept
    BY <1>1, ScriptSaid
  <1> QED BY <1>1, <1>3, <1>4, <1>5, <1>6, <1>7, <1>8, JobSteps

\* The answer of a cancel or signal script.
LEMMA ScriptQueryStateJob ==
    ASSUME RequestInvariant, JobCore, NEW i \in DOMAIN scripts,
           ScriptQueryState(i)
    PROVE  JobCore'
  <1> DEFINE s == QueryReport(scripts[i].query.kind)
             x == SetStatus(request, s)
             c == IF s = "FAILED" THEN "USER_CANCELLED" ELSE x.failure_code
             y == [x EXCEPT !.unsent_status_change = TRUE, !.failure_code = c]
  <1>1. /\ TypeOK /\ request \in RequestRecord
        /\ Said(i, "JOB_STATE") /\ "JOB_STATE" \in ScriptVars
        /\ request' = request
           \/ request' = [x EXCEPT !.unsent_status_change = TRUE,
                                   !.failure_code = IF s = "FAILED"
                                     THEN "USER_CANCELLED" ELSE @]
        /\ UNCHANGED <<rsl, staged_out, submissions, sent, state_file>>
    BY DEF RequestInvariant, TypeOK, ScriptQueryState, ScriptVars
  <1>2. s \in JobStates
    BY DEF QueryReport, JobStates
  <1> HIDE DEF s
  <1>3. /\ x \in RequestRecord /\ x.jobmanager_state = State
        /\ x.pending_queries = request.pending_queries /\ Kept(request, x)
    BY <1>1, <1>2, SetStatusFacts, SetStatusKeeps DEF State, SameQueues
  <1> HIDE DEF x
  <1>4. request' = request \/ request' = y
    BY <1>1
  <1> HIDE DEF c
  <1>5. /\ y.jobmanager_state = State
        /\ y.pending_queries = request.pending_queries /\ Kept(request, y)
    BY <1>3 DEF RequestRecord, Kept
  <1> HIDE DEF y
  <1>6. /\ Kept(request, request') /\ State' = State
        /\ request'.pending_queries = request.pending_queries
    BY <1>4, <1>5 DEF State, Kept
  <1>7. ScriptsKept
    BY <1>1, ScriptSaid
  <1> QED BY <1>1, <1>6, <1>7, InPlace

\* A script ends.
LEMMA ScriptDoneJob ==
    ASSUME RequestInvariant, JobCore, NEW i \in DOMAIN scripts,
           NEW broken \in BOOLEAN, ScriptDone(i, broken)
    PROVE  JobCore'
  <1> DEFINE code == IF broken THEN "INVALID_SCRIPT_STATUS"
                               ELSE request.failure_code
             x == [request EXCEPT !.failure_code = code]
  <1>1. /\ TypeOK /\ request \in RequestRecord
        /\ scripts' = SubSeq(scripts, 1, i - 1)
                      \o SubSeq(scripts, i + 1, Len(scripts))
        /\ request' = Register(x)
        /\ UNCHANGED <<rsl, staged_out, submissions, sent, state_file>>
    BY DEF RequestInvariant, TypeOK, ScriptDone
  <1>2. code \in FailureCodes
    BY <1>1 DEF RequestRecord, FailureCodes
  <1> HIDE DEF code
  <1>3. /\ x \in RequestRecord /\ x.jobmanager_state = State
        /\ x.pending_queries = request.pending_queries /\ Kept(request, x)
    BY <1>1, <1>2 DEF RequestRecord, State, Kept
  <1> HIDE DEF x
  <1>4. /\ Kept(request, Register(x)) /\ State' = State
        /\ request'.pending_queries = request.pending_queries
    BY <1>1, <1>3, RegisterFacts, RegisterKeeps, KeptOn DEF State
  <1>5. ScriptsKept
    BY <1>1, ScriptRemoved
  <1> QED BY <1>1, <1>4, <1>5, InPlace

\* The LRM takes the job from the one submit script, which had not handed it
\* over before.
LEMMA LrmAcceptsJob ==
    ASSUME RequestInvariant, JobCore, NEW i \in DOMAIN scripts, LrmAccepts(i)
    PROVE  JobCore'
  <1>1. /\ TypeOK /\ SubmitIn(scripts, i)
        /\ "ACCEPTED" \notin scripts[i].said
        /\ Said(i, "ACCEPTED") /\ "ACCEPTED" \in ScriptVars
        /\ submissions' = submissions + 1
        /\ UNCHANGED <<request, rsl, staged_out, sent, state_file>>
    BY DEF RequestInvariant, LrmAccepts, ScriptVars, SubmitIn
  <1> DEFINE new == [scripts[i] EXCEPT !.said = @ \union {"ACCEPTED"}]
  <1>2. scripts \in Seq(Scripts) /\ scripts[i] \in Scripts
    BY <1>1 DEF TypeOK
  <1>3. new.cmd = scripts[i].cmd /\ "ACCEPTED" \in new.said
    BY <1>2 DEF Scripts
  <1>4. scripts' = [scripts EXCEPT ![i] = new]
    BY <1>1 DEF Said
  <1> HIDE DEF new
  <1>5. /\ DOMAIN scripts' = DOMAIN scripts /\ scripts'[i] = new
        /\ \A k \in DOMAIN scripts : k # i => scripts'[k] = scripts[k]
    BY <1>2, <1>4
  <1>6. /\ submissions = 0 /\ Submitted
        /\ \A k \in DOMAIN scripts : SubmitIn(scripts, k) => k = i
    BY <1>1 DEF JobCore, OneSubmitScript, Submitted
  <1>7. \A k \in DOMAIN scripts' : SubmitIn(scripts', k) => k = i
    BY <1>3, <1>5, <1>6 DEF SubmitIn
  <1>8. submissions' <= 1
    BY <1>1, <1>6
  <1>9. OneSubmitScript'
    BY <1>3, <1>5, <1>7, <1>8 DEF OneSubmitScript
  <1>10. PastSubmission'
    BY <1>1, <1>6 DEF JobCore, PastSubmission, Before
  <1>11. StageOutKept' /\ EndAnswered' /\ ~request'.jm_restart
    BY <1>1 DEF JobCore, StageOutKept, EndAnswered, State
  <1> QED BY <1>9, <1>10, <1>11 DEF JobCore

\* The LRM obeys a script.
LEMMA LrmObeysJob ==
    ASSUME RequestInvariant, JobCore, NEW i \in DOMAIN scripts, LrmObeys(i)
    PROVE  JobCore'
  <1>1. /\ TypeOK /\ Said(i, "ACCEPTED") /\ "ACCEPTED" \in ScriptVars
        /\ UNCHANGED <<request, rsl, staged_out, sent, submissions,
                       state_file>>
    BY DEF RequestInvariant, LrmObeys, ScriptVars
  <1>2. ScriptsKept
    BY <1>1, ScriptSaid
  <1> QED BY <1>1, <1>2, InPlace DEF Kept, State

\* The job moves on in the LRM.
LEMMA LrmMovesJob ==
    ASSUME JobCore, LrmMoves PROVE JobCore'
  <1>1. UNCHANGED <<request, rsl, scripts, staged_out, sent, submissions,
                    state_file>>
    BY DEF LrmMoves
  <1> QED BY <1>1, InPlace, SameScripts DEF Kept, State

\* An event is queued; it may move a waiting machine to POLL1.
LEMMA SegDeliversJob ==
    ASSUME RequestInvariant, JobCore, NEW event \in SegEvents,
           SegDelivers(event)
    PROVE  JobCore'
  <1> DEFINE x == [request EXCEPT !.seg_event_queue = Append(@, event)]
             p == To(x, "POLL1")
  <1>1. /\ request \in RequestRecord /\ request' = Wake(x)
        /\ UNCHANGED <<rsl, scriptVars, sent, submissions, state_file>>
    BY DEF RequestInvariant, TypeOK, SegDelivers
  <1>2. /\ x \in RequestRecord /\ x.jobmanager_state = State
        /\ x.pending_queries = request.pending_queries /\ Kept(request, x)
    <2>1. Append(request.seg_event_queue, event) \in Seq(SegEvents)
      BY <1>1 DEF RequestRecord
    <2> QED BY <1>1, <2>1 DEF RequestRecord, State, Kept
  <1>3. request' = (IF State = "POLL2" THEN Register(p) ELSE x)
    BY <1>1, <1>2 DEF Wake
  <1> HIDE DEF x
  <1>4. p \in RequestRecord /\ p.jobmanager_state = "POLL1" /\ Kept(request, p)
    BY <1>2, ToFacts, MovesKeep, KeptOn DEF ManagerStates
  <1> HIDE DEF p
  <1>5. CASE State = "POLL2"
    <2>1. Kept(request, Register(p)) /\ State' = "POLL1"
      BY <1>3, <1>4, <1>5, RegisterFacts, RegisterKeeps, KeptOn DEF State
    <2>2. State' \notin PreSubmit
      BY <2>1 DEF PreSubmit
    <2> QED BY <1>1, <1>3, <1>5, <2>1, <2>2, QuietMove, SameScripts
  <1>6. CASE State # "POLL2"
    <2>1. State' = State
      BY <1>2, <1>3, <1>6 DEF State
    <2> QED BY <1>1, <1>2, <1>3, <1>6, <2>1, InPlace, SameScripts
  <1> QED BY <1>5, <1>6

\* The reply of a restarting callback.
LEMMA CallbackReplyJob ==
    ASSUME RequestInvariant, JobCore, CallbackReply PROVE JobCore'
  <1>1. /\ request \in RequestRecord /\ request' = Register(request)
        /\ UNCHANGED <<rsl, scriptVars, submissions, state_file, sent>>
    BY DEF RequestInvariant, TypeOK, CallbackReply
  <1>2. /\ Kept(request, request') /\ State' = State
        /\ request'.pending_queries = request.pending_queries
    BY <1>1, RegisterFacts, RegisterKeeps DEF State
  <1> QED BY <1>1, <1>2, InPlace, SameScripts

\* Script output, the LRM, scheduler events and replies keep it.
LEMMA EnvironmentJob ==
    ASSUME RequestInvariant, JobCore, Environment PROVE JobCore'
  <1>1. CASE ScriptOutput
    BY <1>1, ScriptJobIdJob, ScriptJobStateJob, ScriptErrorJob,
       ScriptStagedInJob, ScriptStagedOutJob, ScriptQueryStateJob
       DEF ScriptOutput
  <1>2. CASE ScriptEnds
    BY <1>2, ScriptDoneJob DEF ScriptEnds
  <1> QED BY <1>1, <1>2, LrmAcceptsJob, LrmObeysJob, LrmMovesJob,
             SegDeliversJob, CallbackReplyJob DEF Environment

-----------------------------------------------------------------------------
(* The theorems                                                             *)

\* A new request satisfies it: its files are listed, its state file says
\* START, and it was not restarted.
LEMMA InitJob == Init => JobCore
  <1> SUFFICES ASSUME Init PROVE JobCore
    OBVIOUS
  <1> DEFINE new == NewRequest(rsl)
  <1>1. PICK contacts \in SUBSET Contacts :
            request = StartedRequest(rsl, contacts)
    BY DEF Init
  <1> DEFINE c == [new EXCEPT !.client_contacts = contacts]
             r == Register(c)
             d == [r EXCEPT !.failure_code = "DRYRUN"]
  <1>2. /\ rsl \in Requests /\ rsl.stage_in \in BOOLEAN
        /\ rsl.stage_out \in BOOLEAN /\ rsl.stream \in BOOLEAN
    BY ConstantsAssumption DEF Init, RSL
  <1>3. /\ new \in RequestRecord /\ new.jobmanager_state = "START"
        /\ ~new.jm_restart /\ (rsl.stage_out => new.stage_out_todo)
    <2>1. <<>> \in Seq(Queries) /\ <<>> \in Seq(SegEvents)
      OBVIOUS
    <2> QED BY <1>2, <2>1 DEF NewRequest, RequestRecord, ManagerStates,
                              JobStates, FailureCodes, JobIds
  <1> HIDE DEF new
  <1>4. /\ c \in RequestRecord /\ c.jobmanager_state = "START"
        /\ Kept(new, c)
    BY <1>3 DEF RequestRecord, Kept
  <1> HIDE DEF c
  <1>5. r \in RequestRecord /\ r.jobmanager_state = "START" /\ Kept(new, r)
    BY <1>4, RegisterFacts, RegisterKeeps, KeptOn
  <1>6. request = r \/ request = SetStatus(d, "FAILED")
    BY <1>1 DEF StartedRequest, r, c, new
  <1> HIDE DEF r
  <1>7. d \in RequestRecord /\ d.jobmanager_state = "START" /\ Kept(new, d)
    BY <1>5 DEF RequestRecord, FailureCodes, Kept
  <1> HIDE DEF d
  <1>8. State = "START" /\ Kept(new, request)
    <2>1. "FAILED" \in JobStates
      BY DEF JobStates
    <2> QED BY <1>5, <1>6, <1>7, <2>1, SetStatusFacts, SetStatusKeeps, KeptOn
               DEF State
  <1>9. /\ scripts = <<>> /\ submissions = 0 /\ sent = {}
    BY DEF Init
  <1>10. OneSubmitScript /\ ~Submitted
    BY <1>9 DEF OneSubmitScript, Submitted
  <1>11. StageOutKept /\ EndAnswered /\ ~request.jm_restart
    BY <1>3, <1>8, <1>9 DEF StageOutKept, EndAnswered, Kept
  <1> QED BY <1>10, <1>11 DEF JobCore, PastSubmission

\* The invariant holds for every request, client and bound, for a job manager
\* that is not restarted.
THEOREM JobCoreHolds == Spec => []JobCore
  <1>1. RequestInvariant /\ JobCore /\ [Next]_vars => JobCore'
    <2> SUFFICES ASSUME RequestInvariant, JobCore, [Next]_vars PROVE JobCore'
      OBVIOUS
    <2>1. CASE Next
      BY <2>1, TimerFiresJob, StateMachineJob, ClientJob, EnvironmentJob
         DEF Next
    <2>2. CASE UNCHANGED vars
      <3>1. UNCHANGED <<request, rsl, scripts, staged_out, sent, submissions,
                        state_file>>
        BY <2>2 DEF vars
      <3> QED BY <3>1, InPlace, SameScripts DEF Kept, State
    <2> QED BY <2>1, <2>2
  <1> QED BY <1>1, InitJob, RequestInvariantHolds, PTL DEF Spec

\* The LRM gets the job at most once, whatever scripts fail to say and
\* whatever the client sends meanwhile.
THEOREM OneSubmission == Spec => []AtMostOneSubmission
  <1>1. JobCore => AtMostOneSubmission
    BY DEF JobCore, OneSubmitScript, AtMostOneSubmission
  <1> QED BY <1>1, JobCoreHolds, PTL

\* Once the LRM may have the job, no state file that a later job manager could
\* read says that it is still to be submitted.
THEOREM SubmissionRecorded == Spec => []SubmitRecorded
  <1>1. JobCore => SubmitRecorded
    BY DEF JobCore, PastSubmission, Submitted, FileBefore, PreSubmit,
           SubmitRecorded
  <1> QED BY <1>1, JobCoreHolds, PTL

\* No contact hears that a job with files to stage out is done before they
\* are staged, also when STDIO_UPDATE replaces the list meanwhile.
THEOREM StagedOutBeforeDone == Spec => []StageOutBeforeDone
  <1>1. RequestInvariant /\ JobCore => StageOutBeforeDone
    BY DEF JobCore, StageOutKept, StageOutBeforeDone, RequestInvariant, TypeOK
  <1> QED BY <1>1, RequestInvariantHolds, JobCoreHolds, PTL

\* A request that came to its end owes no client an answer.
THEOREM EveryQueryAnswered == Spec => []QueriesAnswered
  <1>1. JobCore => QueriesAnswered
    BY DEF JobCore, EndAnswered, QueriesAnswered, AtRest
  <1> QED BY <1>1, JobCoreHolds, PTL

-----------------------------------------------------------------------------
(* Who wakes the machine, and what is known when a job is over              *)

\* The states of a job whose final status is set.
Over == {"TWO_PHASE_END", "TWO_PHASE_END_COMMITTED", "FILE_CLEAN_UP",
         "SCRATCH_CLEAN_UP", "CACHE_CLEAN_UP", "DONE", "FAILED_TWO_PHASE",
         "FAILED_TWO_PHASE_COMMITTED", "FAILED_FILE_CLEAN_UP",
         "FAILED_SCRATCH_CLEAN_UP", "FAILED_CACHE_CLEAN_UP", "FAILED_DONE",
         "STOP"}

\* The states in which a script runs.
Busy == {"STAGE_IN", "SUBMIT", "POLL1", "POLL_QUERY2", "TWO_PHASE_QUERY2",
         "STAGE_OUT", "FAILED"}

\* The states in which a query is worked on before the commit.
EarlyQuery == {"TWO_PHASE_QUERY1", "TWO_PHASE_QUERY2"}

\* Nothing wakes a machine while its script runs, and a script runs alone: a
\* script, an armed timer and the loop exclude each other.  The script of a
\* query runs while that query is the oldest.
OneWaker ==
    /\ Len(scripts) <= 1
    /\ scripts # <<>> => /\ ~running /\ ~request.poll_timer
                         /\ restart_callbacks = 0 /\ State \in Busy
    /\ running => ~request.poll_timer
    /\ restart_callbacks > 0 => State \in Over
    /\ \A i \in DOMAIN scripts : scripts[i].query # NoQuery =>
          /\ State \in {"POLL_QUERY2", "TWO_PHASE_QUERY2"}
          /\ request.pending_queries # <<>>
          /\ Head(request.pending_queries) = scripts[i].query
    /\ Signals \cap ClientOps = {} => State \notin EarlyQuery

\* The manager's copy of a final status is the status.
CopyRight(r) == /\ r.status \in {"DONE", "FAILED"}
                /\ r.cached_status = r.status
                /\ r.cached_failure_code = r.failure_code
Coherent == State \in Over => CopyRight(request)

\* What a submitted job's request r owes its contacts when they were told
\* the states in told: a failure and the end of the job are marked as unsent
\* until they are sent.
Good(r, told) ==
    IF r.jobmanager_state \in Over
      THEN /\ r.status \in {"DONE", "FAILED"}
           /\ Recipients(r) = {} \/ r.status \in told
      ELSE /\ r.status = "FAILED" => r.unsent_status_change
           /\ r.jobmanager_state \in {"FAILED_CLOSE_OUTPUT", "STAGE_OUT"} =>
                 r.unsent_status_change
           /\ r.jobmanager_state = "FAILED" => r.status = "FAILED"

Notified ==
    /\ Submitted => ~rsl.dry_run /\ Good(request, sent)
    /\ state_file = NoStateFile => State \in Over
    /\ \A i \in DOMAIN scripts : scripts[i].start \notin Over

\* A client that does not stop the manager, and jobs that are not dry runs.
Plain == "stop_manager" \notin ClientOps /\ \A d \in Requests : ~d.dry_run

\* It does not both commit a job and send signals.
Separate == "commit_request" \notin ClientOps \/ Signals \cap ClientOps = {}

\* No allocation and no post fails, and contacts do not come late.
Reliable == /\ ~OutOfMemory /\ ~PostFails
            /\ {"stop_manager", "register"} \cap ClientOps = {}

\* The inductive invariant.
WakeCore ==
    /\ Plain => PauseBalanced
    /\ Plain /\ Separate => OneWaker /\ Coherent
    /\ Reliable => Notified

-----------------------------------------------------------------------------
(* What its parts depend on                                                 *)

\* Requests with the same status and the same copy of it.
SameCopy(a, b) == /\ b.status = a.status /\ b.failure_code = a.failure_code
                  /\ b.cached_status = a.cached_status
                  /\ b.cached_failure_code = a.cached_failure_code

\* Requests that differ in state, timer and queries.
Alike(a, b) == /\ SameCopy(a, b)
               /\ b.unsent_status_change = a.unsent_status_change
               /\ b.client_contacts = a.client_contacts

\* A move and a registration leave them alike.
LEMMA MovesAlike ==
    ASSUME NEW r \in RequestRecord, NEW s \in ManagerStates
    PROVE  Alike(r, To(r, s)) /\ To(r, s).poll_timer = r.poll_timer
  BY DEF RequestRecord, To, Alike, SameCopy

\* So does a registration.
LEMMA RegisterAlike ==
    ASSUME NEW r \in RequestRecord
    PROVE  Alike(r, Register(r))
  BY DEF RequestRecord, Register, Alike, SameCopy

\* Two such changes together.
LEMMA AlikeOn ==
    ASSUME NEW a, NEW b, NEW c, Alike(a, b), Alike(b, c)
    PROVE  Alike(a, c)
  BY DEF Alike, SameCopy

\* A new status, and the manager's copy of it.
LEMMA SetStatusCopy ==
    ASSUME NEW r \in RequestRecord, NEW s \in JobStates
    PROVE  LET q == SetStatus(r, s)
           IN /\ q.status = s /\ q.cached_status = s
              /\ q.failure_code = r.failure_code
              /\ q.cached_failure_code = r.failure_code
              /\ q.unsent_status_change = r.unsent_status_change
              /\ q.client_contacts = r.client_contacts
              /\ q.poll_timer = r.poll_timer
  BY DEF RequestRecord, SetStatus

\* What is owed depends on the state, the status and its mark, and on the
\* contacts.
LEMMA GoodAlike ==
    ASSUME NEW r, NEW q, NEW told, NEW more, Good(r, told), told \subseteq more,
           q.status = r.status,
           q.unsent_status_change = r.unsent_status_change,
           q.client_contacts \subseteq r.client_contacts,
           q.jobmanager_state = r.jobmanager_state
    PROVE  Good(q, more)
  BY DEF Good, Recipients

\* The final states keep it, also when more was told.
LEMMA GoodOver ==
    ASSUME NEW r, NEW q, NEW told, NEW more, Good(r, told), told \subseteq more,
           r.jobmanager_state \in Over, q.jobmanager_state \in Over,
           q.status = r.status, q.client_contacts \subseteq r.client_contacts
    PROVE  Good(q, more)
  BY DEF Good, Recipients

\* The pause count goes with SUBMIT.
LEMMA PauseKept ==
    ASSUME PauseBalanced, UNCHANGED seg_pause_count,
           State' = "SUBMIT" <=> State = "SUBMIT"
    PROVE  PauseBalanced'
  BY DEF PauseBalanced

\* A step of the loop that starts no script.
LEMMA LoopWaker ==
    ASSUME OneWaker, running, UNCHANGED scripts,
           running' => ~request'.poll_timer,
           restart_callbacks' > 0 => State' \in Over,
           State' \in EarlyQuery => State \in EarlyQuery
    PROVE  OneWaker'
  <1>1. scripts' = <<>> /\ scripts = <<>>
    BY DEF OneWaker
  <1> QED BY <1>1 DEF OneWaker

\* A step of the loop that starts a script and sleeps.
LEMMA LaunchWaker ==
    ASSUME TypeOK, OneWaker, running, NEW cmd, NEW start, NEW query,
           Launch(cmd, start, query), ~running', ~request'.poll_timer,
           restart_callbacks' = restart_callbacks,
           State \notin Over, State' \in Busy,
           State' \in EarlyQuery => State \in EarlyQuery,
           query # NoQuery =>
              /\ State' \in {"POLL_QUERY2", "TWO_PHASE_QUERY2"}
              /\ request'.pending_queries # <<>>
              /\ Head(request'.pending_queries) = query
    PROVE  OneWaker'
  <1> DEFINE new == [cmd |-> cmd, start |-> start, query |-> query, said |-> {}]
  <1>1. scripts = <<>> /\ restart_callbacks \in Nat
    BY DEF OneWaker, TypeOK
  <1>2. scripts' = <<new>>
    BY <1>1 DEF Launch
  <1>3. new.query = query
    OBVIOUS
  <1> HIDE DEF new
  <1>4. Len(scripts') = 1 /\ DOMAIN scripts' = {1} /\ scripts'[1] = new
    BY <1>2
  <1>5. restart_callbacks' = 0
    BY <1>1 DEF OneWaker
  <1> QED BY <1>3, <1>4, <1>5 DEF OneWaker

\* A step outside the loop that starts and ends no script.
LEMMA StillWaker ==
    ASSUME TypeOK, OneWaker, ~running, ~running',
           scripts' \in Seq(Scripts), DOMAIN scripts' = DOMAIN scripts,
           \A i \in DOMAIN scripts : scripts'[i].query = scripts[i].query,
           restart_callbacks' \in Nat, restart_callbacks' <= restart_callbacks,
           State \in Over => State' \in Over,
           scripts # <<>> => request'.poll_timer = request.poll_timer,
           State \in Busy => State' \in Busy,
           State \in {"POLL_QUERY2", "TWO_PHASE_QUERY2"} /\ scripts # <<>> =>
              /\ State' = State
              /\ request.pending_queries # <<>> =>
                    /\ request'.pending_queries # <<>>
                    /\ Head(request'.pending_queries) =
                          Head(request.pending_queries),
           Signals \cap ClientOps = {} /\ State' \in EarlyQuery =>
              State \in EarlyQuery
    PROVE  OneWaker'
  <1>1. /\ scripts \in Seq(Scripts) /\ restart_callbacks \in Nat
    BY DEF TypeOK
  <1>2. /\ Len(scripts') = Len(scripts)
        /\ scripts' # <<>> => scripts # <<>>
    BY <1>1
  <1>3. Len(scripts') <= 1
    BY <1>2 DEF OneWaker
  <1>4. scripts' # <<>> => /\ ~running' /\ ~request'.poll_timer
                           /\ restart_callbacks' = 0 /\ State' \in Busy
    BY <1>1, <1>2 DEF OneWaker
  <1>5. restart_callbacks' > 0 => State' \in Over
    BY <1>1 DEF OneWaker
  <1>6. ASSUME NEW i \in DOMAIN scripts', scripts'[i].query # NoQuery
        PROVE  /\ State' \in {"POLL_QUERY2", "TWO_PHASE_QUERY2"}
               /\ request'.pending_queries # <<>>
               /\ Head(request'.pending_queries) = scripts'[i].query
    <2>1. i \in DOMAIN scripts /\ scripts # <<>>
      BY <1>1
    <2>2. /\ State \in {"POLL_QUERY2", "TWO_PHASE_QUERY2"}
          /\ request.pending_queries # <<>>
          /\ Head(request.pending_queries) = scripts'[i].query
      BY <1>6, <2>1 DEF OneWaker
    <2> QED BY <2>1, <2>2
  <1>7. Signals \cap ClientOps = {} => State' \notin EarlyQuery
    BY DEF OneWaker
  <1> QED BY <1>3, <1>4, <1>5, <1>6, <1>7 DEF OneWaker

\* A final state is entered with a right copy, or kept with it.
LEMMA CoherentKept ==
    ASSUME Coherent,
           State' \in Over => \/ State \in Over /\ SameCopy(request, request')
                              \/ CopyRight(request')
    PROVE  Coherent'
  BY DEF Coherent, CopyRight, SameCopy

\* Contacts are owed nothing new by a step that submits nothing.
LEMMA NotifiedKept ==
    ASSUME Notified, ScriptsKept, UNCHANGED <<rsl, submissions>>,
           Submitted => Good(request', sent'),
           state_file' = NoStateFile =>
              \/ state_file = NoStateFile /\ (State \in Over => State' \in Over)
              \/ State' \in Over,
           \A i \in DOMAIN scripts' : scripts'[i].start \notin Over
    PROVE  Notified'
  <1>1. Submitted' => Submitted
    BY DEF Submitted, ScriptsKept
  <1> QED BY <1>1 DEF Notified

\* Before the submission nothing was submitted.
LEMMA NotSubmitted ==
    ASSUME JobCore, State \in PreSubmit PROVE ~Submitted
  BY DEF JobCore, PastSubmission, Before, State

\* A case before the submission that starts no script.
LEMMA EarlyWake ==
    ASSUME JobCore, WakeCore, running, State \in PreSubmit,
           Plain => State' \notin Over \union {"SUBMIT"},
           State' \in EarlyQuery => State \in EarlyQuery,
           running' /\ request'.poll_timer => request.poll_timer,
           restart_callbacks' = restart_callbacks,
           UNCHANGED <<rsl, scripts, submissions, seg_pause_count>>,
           state_file' = NoStateFile => state_file = NoStateFile
    PROVE  WakeCore'
  <1>1. ~Submitted /\ State \notin Over /\ State # "SUBMIT" /\ ScriptsKept
    BY NotSubmitted, SameScripts DEF PreSubmit, Over
  <1>2. Plain => PauseBalanced'
    BY <1>1, PauseKept DEF WakeCore
  <1>3. ASSUME Plain, Separate PROVE OneWaker' /\ Coherent'
    <2>1. OneWaker /\ Coherent
      BY <1>3 DEF WakeCore
    <2>2. restart_callbacks' > 0 => State' \in Over
      BY <1>1, <2>1 DEF OneWaker
    <2>3. running' => ~request'.poll_timer
      BY <2>1 DEF OneWaker
    <2>4. State' \notin Over
      BY <1>3
    <2> QED BY <2>1, <2>2, <2>3, <2>4, LoopWaker, CoherentKept
  <1>4. ASSUME Reliable PROVE Notified'
    <2>1. Notified
      BY <1>4 DEF WakeCore
    <2>2. \A i \in DOMAIN scripts' : scripts'[i].start \notin Over
      BY <2>1 DEF Notified
    <2> QED BY <1>1, <2>1, <2>2, NotifiedKept
  <1> QED BY <1>2, <1>3, <1>4 DEF WakeCore

\* A case after it.
LEMMA LateWake ==
    ASSUME WakeCore, running,
           Plain /\ PauseBalanced => PauseBalanced',
           State' \notin EarlyQuery,
           State \in Over => State' \in Over,
           running' /\ request'.poll_timer => request.poll_timer,
           restart_callbacks' = restart_callbacks \/ State' \in Over,
           UNCHANGED <<rsl, scripts, submissions>>,
           state_file' = NoStateFile =>
              state_file = NoStateFile \/ State' \in Over,
           Plain /\ Coherent /\ State' \in Over =>
              \/ State \in Over /\ SameCopy(request, request')
              \/ CopyRight(request'),
           Reliable /\ Submitted /\ ~rsl.dry_run /\ Good(request, sent) =>
              Good(request', sent')
    PROVE  WakeCore'
  <1>1. Plain => PauseBalanced'
    BY DEF WakeCore
  <1>2. ASSUME Plain, Separate PROVE OneWaker' /\ Coherent'
    <2>1. OneWaker /\ Coherent
      BY <1>2 DEF WakeCore
    <2>2. restart_callbacks' > 0 => State' \in Over
      BY <2>1 DEF OneWaker
    <2>3. running' => ~request'.poll_timer
      BY <2>1 DEF OneWaker
    <2>4. OneWaker'
      BY <2>1, <2>2, <2>3, LoopWaker
    <2>5. Coherent'
      BY <1>2, <2>1, CoherentKept
    <2> QED BY <2>4, <2>5
  <1>3. ASSUME Reliable PROVE Notified'
    <2>1. Notified
      BY <1>3 DEF WakeCore
    <2>2. /\ \A i \in DOMAIN scripts' : scripts'[i].start \notin Over
          /\ Submitted => ~rsl.dry_run /\ Good(request, sent)
          /\ ScriptsKept
      BY <2>1, SameScripts DEF Notified
    <2>3. Submitted => Good(request', sent')
      BY <1>3, <2>2
    <2>4. state_file' = NoStateFile =>
              \/ state_file = NoStateFile /\ (State \in Over => State' \in Over)
              \/ State' \in Over
      OBVIOUS
    <2> QED BY <2>1, <2>2, <2>3, <2>4, NotifiedKept
  <1> QED BY <1>1, <1>2, <1>3 DEF WakeCore

\* A case that starts a script for a job that is not over, and leaves its
\* status as it is.
LEMMA LaunchWake ==
    ASSUME TypeOK, WakeCore, running, NEW cmd \in ScriptCmds, NEW start,
           NEW query, Launch(cmd, start, query), cmd # "submit",
           start \notin Over, ~running',
           request'.poll_timer = request.poll_timer,
           UNCHANGED <<rsl, submissions, restart_callbacks, seg_pause_count,
                       state_file>>,
           State \notin Over \union {"SUBMIT"}, State' \in Busy \ {"SUBMIT"},
           State' \in EarlyQuery => State \in EarlyQuery,
           query # NoQuery =>
              /\ State' \in {"POLL_QUERY2", "TWO_PHASE_QUERY2"}
              /\ request'.pending_queries # <<>>
              /\ Head(request'.pending_queries) = query,
           Submitted /\ Good(request, sent) => Good(request', sent')
    PROVE  WakeCore'
  <1>1. Plain => PauseBalanced'
    BY PauseKept DEF WakeCore
  <1>2. State' \notin Over
    BY DEF Busy, Over
  <1>3. ASSUME Plain, Separate PROVE OneWaker' /\ Coherent'
    <2>1. OneWaker /\ Coherent
      BY <1>3 DEF WakeCore
    <2>2. ~request'.poll_timer
      BY <2>1 DEF OneWaker
    <2> QED BY <1>2, <2>1, <2>2, LaunchWaker, CoherentKept
  <1>4. ASSUME Reliable PROVE Notified'
    <2>1. Notified /\ ScriptsKept
      BY <1>4, OtherLaunched DEF WakeCore
    <2> DEFINE new == [cmd |-> cmd, start |-> start, query |-> query,
                       said |-> {}]
    <2>2. scripts \in Seq(Scripts) /\ scripts' = Append(scripts, new)
          /\ new.start = start
      BY DEF TypeOK, Launch
    <2> HIDE DEF new
    <2>3. \A i \in DOMAIN scripts' : scripts'[i].start \notin Over
      <3>1. /\ DOMAIN scripts' = 1..(Len(scripts) + 1)
            /\ DOMAIN scripts = 1..Len(scripts) /\ Len(scripts) \in Nat
            /\ \A i \in DOMAIN scripts : scripts'[i] = scripts[i]
            /\ scripts'[Len(scripts) + 1] = new
        BY <2>2
      <3>2. \A i \in DOMAIN scripts' : i \in DOMAIN scripts \/ scripts'[i] = new
        BY <3>1
      <3> QED BY <2>1, <2>2, <3>1, <3>2 DEF Notified
    <2>4. Submitted => Good(request', sent')
      BY <2>1 DEF Notified
    <2>5. state_file' = NoStateFile => state_file = NoStateFile
      OBVIOUS
    <2> QED BY <2>1, <2>3, <2>4, <2>5, NotifiedKept
  <1> QED BY <1>1, <1>3, <1>4 DEF WakeCore

\* A step outside the loop.
LEMMA StillWake ==
    ASSUME TypeOK, WakeCore, ~running, ~running', ScriptsKept,
           scripts' \in Seq(Scripts), DOMAIN scripts' = DOMAIN scripts,
           \A i \in DOMAIN scripts : /\ scripts'[i].query = scripts[i].query
                                     /\ scripts'[i].start = scripts[i].start,
           restart_callbacks' \in Nat, restart_callbacks' <= restart_callbacks,
           UNCHANGED <<rsl, submissions, seg_pause_count>>,
           State' = "SUBMIT" <=> State = "SUBMIT",
           State \in Over <=> State' \in Over,
           Plain /\ Separate /\ OneWaker =>
              /\ scripts # <<>> => request'.poll_timer = request.poll_timer
              /\ State \in Busy => State' \in Busy
              /\ State \in {"POLL_QUERY2", "TWO_PHASE_QUERY2"}
                 /\ scripts # <<>> =>
                    /\ State' = State
                    /\ request.pending_queries # <<>> =>
                          /\ request'.pending_queries # <<>>
                          /\ Head(request'.pending_queries) =
                                Head(request.pending_queries)
              /\ Signals \cap ClientOps = {} /\ State' \in EarlyQuery =>
                    State \in EarlyQuery,
           Plain /\ Separate /\ OneWaker /\ State \in Over =>
              SameCopy(request, request'),
           state_file' = NoStateFile => state_file = NoStateFile,
           /\ Reliable /\ Submitted /\ Good(request, sent)
           /\ \A i \in DOMAIN scripts : scripts[i].start \notin Over
           => Good(request', sent')
    PROVE  WakeCore'
  <1>1. Plain => PauseBalanced'
    BY PauseKept DEF WakeCore
  <1>2. ASSUME Plain, Separate PROVE OneWaker' /\ Coherent'
    <2>1. OneWaker /\ Coherent
      BY <1>2 DEF WakeCore
    <2>2. Coherent'
      BY <1>2, <2>1, CoherentKept
    <2>3. OneWaker'
      BY <1>2, <2>1, StillWaker
    <2> QED BY <2>2, <2>3
  <1>3. ASSUME Reliable PROVE Notified'
    <2>1. Notified
      BY <1>3 DEF WakeCore
    <2>2. /\ \A i \in DOMAIN scripts' : scripts'[i].start \notin Over
          /\ Submitted => Good(request', sent')
      BY <1>3, <2>1 DEF Notified
    <2> QED BY <2>1, <2>2, NotifiedKept
  <1> QED BY <1>1, <1>2, <1>3 DEF WakeCore

-----------------------------------------------------------------------------
(* The cases of the state machine keep it                                   *)

\* A state file that is written is a state file.
LEMMA FileWritten ==
    ASSUME NEW r \in RequestRecord PROVE StateFileOf(r) # NoStateFile
  <1>1. StateFileOf(r) \in StateFiles
    BY StateFileTyped
  <1>2. StateFileOf(r).restart_state \in ManagerStates
    BY <1>1 DEF StateFiles
  <1>3. "none" \notin ManagerStates /\ NoStateFile.restart_state = "none"
    BY DEF ManagerStates, NoStateFile
  <1> QED BY <1>2, <1>3

\* The timer starts the loop, and nothing else could have.
LEMMA TimerFiresWake ==
    ASSUME RequestInvariant, WakeCore, TimerFires PROVE WakeCore'
  <1>1. /\ TypeOK /\ request \in RequestRecord /\ request.poll_timer
        /\ ~running /\ running'
        /\ request' = [request EXCEPT !.poll_timer = FALSE]
        /\ UNCHANGED <<rsl, scripts, submissions, seg_pause_count,
                       restart_callbacks, sent, state_file>>
    BY DEF RequestInvariant, TypeOK, TimerFires
  <1>2. /\ State' = State /\ Alike(request, request')
        /\ ~request'.poll_timer
    BY <1>1 DEF RequestRecord, Alike, SameCopy, State
  <1>3. Plain => PauseBalanced'
    BY <1>1, <1>2, PauseKept DEF WakeCore
  <1>4. ASSUME Plain, Separate PROVE OneWaker' /\ Coherent'
    <2>1. OneWaker /\ Coherent
      BY <1>4 DEF WakeCore
    <2>2. scripts = <<>> /\ scripts' = <<>>
      BY <1>1, <2>1 DEF OneWaker
    <2>3. OneWaker'
      BY <1>1, <1>2, <2>1, <2>2 DEF OneWaker
    <2> QED BY <1>2, <2>1, <2>3, CoherentKept DEF Alike
  <1>5. ASSUME Reliable PROVE Notified'
    <2>1. Notified
      BY <1>5 DEF WakeCore
    <2>2. Submitted => Good(request', sent')
      BY <1>1, <1>2, <2>1, GoodAlike DEF Notified, Alike, SameCopy, State
    <2> QED BY <1>1, <1>2, <2>1, <2>2, NotifiedKept, SameScripts DEF Notified
  <1> QED BY <1>3, <1>4, <1>5 DEF WakeCore

\* START goes on to TWO_PHASE.
LEMMA CaseStartWake ==
    ASSUME RequestInvariant, JobCore, WakeCore, CaseStart PROVE WakeCore'
  <1> DEFINE r == To(request, "TWO_PHASE")
  <1>1. /\ request \in RequestRecord /\ State = "START" /\ running
        /\ UNCHANGED <<rsl, scripts, submissions, seg_pause_count,
                       restart_callbacks, state_file>>
    BY DEF RequestInvariant, TypeOK, CaseStart, At, Becomes
  <1>2. /\ r \in RequestRecord /\ r.jobmanager_state = "TWO_PHASE"
        /\ r.poll_timer = request.poll_timer
    BY <1>1, ToFacts DEF ManagerStates, SameQueues
  <1>3. request' = r \/ (request' = Register(r) /\ ~running')
    BY DEF CaseStart, Becomes, Sleep
  <1> HIDE DEF r
  <1>4. /\ State' = "TWO_PHASE"
        /\ running' /\ request'.poll_timer => request.poll_timer
    BY <1>2, <1>3, RegisterFacts DEF State
  <1>5. State \in PreSubmit /\ State' \notin Over \union EarlyQuery
    BY <1>1, <1>4 DEF PreSubmit, Over, EarlyQuery
  <1> QED BY <1>1, <1>4, <1>5, EarlyWake

\* TWO_PHASE waits on, is committed, or fails.
LEMMA CaseTwoPhaseWake ==
    ASSUME RequestInvariant, JobCore, WakeCore, CaseTwoPhase PROVE WakeCore'
  <1>1. /\ request \in RequestRecord /\ State = "TWO_PHASE" /\ running
        /\ ~request.jm_restart
        /\ UNCHANGED <<rsl, scripts, submissions, seg_pause_count,
                       restart_callbacks, state_file>>
    BY DEF RequestInvariant, TypeOK, CaseTwoPhase, At, JobCore, Becomes
  <1> DEFINE x == [request EXCEPT !.commit_extend = FALSE]
             c == To(request, "TWO_PHASE_COMMITTED")
             t == To(request, "FAILED")
             f == [t EXCEPT !.failure_code = "COMMIT_TIMED_OUT",
                            !.unsent_status_change = TRUE]
  <1>2. (request' = Register(x) /\ ~running') \/ request' \in {c, f}
    BY <1>1 DEF CaseTwoPhase, Becomes, TwoPhaseExpired, Sleep
  <1>3. x \in RequestRecord /\ x.jobmanager_state = "TWO_PHASE"
    BY <1>1 DEF RequestRecord, State
  <1>4. /\ c.jobmanager_state = "TWO_PHASE_COMMITTED"
        /\ c.poll_timer = request.poll_timer
    BY <1>1, ToFacts DEF ManagerStates, SameQueues
  <1>5. /\ t \in RequestRecord /\ t.jobmanager_state = "FAILED"
        /\ t.poll_timer = request.poll_timer
    BY <1>1, ToFacts DEF ManagerStates, SameQueues
  <1> HIDE DEF t, c, x
  <1>6. f.jobmanager_state = "FAILED" /\ f.poll_timer = request.poll_timer
    BY <1>5 DEF RequestRecord
  <1> HIDE DEF f
  <1>7. Register(x).jobmanager_state = "TWO_PHASE"
    BY <1>3, RegisterFacts
  <1>8. /\ State' \in {"TWO_PHASE", "TWO_PHASE_COMMITTED", "FAILED"}
        /\ running' /\ request'.poll_timer => request.poll_timer
    BY <1>2, <1>4, <1>6, <1>7 DEF State
  <1>9. State \in PreSubmit /\ State' \notin Over \union EarlyQuery \union {"SUBMIT"}
    BY <1>1, <1>8 DEF PreSubmit, Over, EarlyQuery
  <1> QED BY <1>1, <1>8, <1>9, EarlyWake

\* A callback that restarts nothing.
LEMMA CallbackQuiet ==
    ASSUME NEW r, ContactStateCallback(r, FALSE), TypeOK
    PROVE  /\ request' = r /\ restart_callbacks' = restart_callbacks
           /\ sent \subseteq sent'
  BY DEF ContactStateCallback, TypeOK

\* A committed request starts its stage-in script or goes on in the loop.
LEMMA CaseTwoPhaseCommittedWake ==
    ASSUME RequestInvariant, JobCore, WakeCore, CaseTwoPhaseCommitted
    PROVE  WakeCore'
  <1>1. /\ TypeOK /\ request \in RequestRecord /\ running
        /\ State = "TWO_PHASE_COMMITTED" /\ ~request.jm_restart
        /\ UNCHANGED <<rsl, submissions, seg_pause_count, state_file>>
    BY DEF RequestInvariant, TypeOK, CaseTwoPhaseCommitted, At, JobCore
  <1> DEFINE s == EnterStageIn
             r == SetStatus(s, "STAGE_IN")
             g == To(r, "FAILED")
             f == [g EXCEPT !.failure_code = "MALLOC_FAILED"]
  <1>2. /\ s \in RequestRecord /\ s.jobmanager_state = "STAGE_IN"
        /\ s.poll_timer = request.poll_timer
    BY <1>1, ToFacts DEF EnterStageIn, ManagerStates, SameQueues
  <1> HIDE DEF s
  <1>3. /\ r \in RequestRecord /\ r.jobmanager_state = "STAGE_IN"
        /\ r.poll_timer = request.poll_timer
    <2>1. "STAGE_IN" \in JobStates
      BY DEF JobStates
    <2> QED BY <1>2, <2>1, SetStatusFacts DEF SameQueues
  <1> HIDE DEF r
  <1>4. /\ g \in RequestRecord /\ g.jobmanager_state = "FAILED"
        /\ g.poll_timer = request.poll_timer
    <2>1. "FAILED" \in ManagerStates
      BY DEF ManagerStates
    <2> QED BY <1>3, <2>1, ToFacts DEF SameQueues
  <1> HIDE DEF g
  <1>5. f.jobmanager_state = "FAILED" /\ f.poll_timer = request.poll_timer
    BY <1>4 DEF RequestRecord
  <1> HIDE DEF f
  <1>6. /\ request' \in {s, r, f} /\ restart_callbacks' = restart_callbacks
    <2>1. \/ Becomes(s)
          \/ Becomes(r) \/ ContactStateCallback(r, FALSE)
          \/ Becomes(f) \/ ContactStateCallback(f, FALSE)
      BY <1>1 DEF CaseTwoPhaseCommitted, f, g, r, s
    <2> QED BY <1>1, <2>1, CallbackQuiet DEF Becomes
  <1>7. /\ State' \in {"STAGE_IN", "FAILED"}
        /\ request'.poll_timer = request.poll_timer
    BY <1>2, <1>3, <1>5, <1>6 DEF State
  <1>8. /\ State \in PreSubmit /\ State \notin Over \union {"SUBMIT"}
        /\ State' \notin Over \union EarlyQuery \union {"SUBMIT"}
        /\ State' \in Busy
    BY <1>1, <1>7 DEF PreSubmit, Over, EarlyQuery, Busy
  <1>9. CASE UNCHANGED scripts
    BY <1>1, <1>6, <1>7, <1>8, <1>9, EarlyWake
  <1>10. CASE Launch("stage_in", "STAGE_IN", NoQuery) /\ ~running'
    <2>1. "stage_in" \in ScriptCmds /\ "STAGE_IN" \notin Over
      BY DEF ScriptCmds, Over
    <2>2. ~Submitted
      BY <1>8, NotSubmitted
    <2> QED BY <1>1, <1>6, <1>7, <1>8, <1>10, <2>1, <2>2, LaunchWake
  <1> QED BY <1>9, <1>10 DEF CaseTwoPhaseCommitted, Sleep

\* The submit script is started, and events wait for it to end.
LEMMA SubmitWake ==
    ASSUME TypeOK, JobCore, WakeCore, running, ~running', State = "STAGE_IN",
           State' = "SUBMIT", request'.status = request.status,
           request.status # "FAILED", ~rsl.dry_run,
           request'.poll_timer = request.poll_timer,
           Launch("submit", "SUBMIT", NoQuery),
           seg_pause_count' = seg_pause_count + 1,
           state_file' # NoStateFile,
           UNCHANGED <<rsl, submissions, restart_callbacks, sent>>
    PROVE  WakeCore'
  <1>1. /\ State \in PreSubmit /\ State \notin Over /\ State' \notin Over
        /\ State' \in Busy /\ State' \notin EarlyQuery /\ "SUBMIT" \notin Over
    BY DEF PreSubmit, Over, Busy, EarlyQuery
  <1>2. Plain => PauseBalanced'
    BY DEF WakeCore, PauseBalanced
  <1>3. ASSUME Plain, Separate PROVE OneWaker' /\ Coherent'
    <2>1. OneWaker /\ Coherent
      BY <1>3 DEF WakeCore
    <2>2. ~request'.poll_timer
      BY <2>1 DEF OneWaker
    <2> QED BY <1>1, <2>1, <2>2, LaunchWaker, CoherentKept
  <1>4. ASSUME Reliable PROVE Notified'
    <2>1. Notified
      BY <1>4 DEF WakeCore
    <2> DEFINE new == [cmd |-> "submit", start |-> "SUBMIT",
                       query |-> NoQuery, said |-> {}]
    <2>2. scripts \in Seq(Scripts) /\ scripts' = Append(scripts, new)
          /\ new.start = "SUBMIT"
      BY DEF TypeOK, Launch
    <2> HIDE DEF new
    <2>3. \A i \in DOMAIN scripts' : scripts'[i].start \notin Over
      <3>1. /\ DOMAIN scripts' = 1..(Len(scripts) + 1)
            /\ DOMAIN scripts = 1..Len(scripts) /\ Len(scripts) \in Nat
            /\ \A i \in DOMAIN scripts : scripts'[i] = scripts[i]
            /\ scripts'[Len(scripts) + 1] = new
        BY <2>2
      <3>2. \A i \in DOMAIN scripts' : i \in DOMAIN scripts \/ scripts'[i] = new
        BY <3>1
      <3> QED BY <1>1, <2>1, <2>2, <3>1, <3>2 DEF Notified
    <2>4. Good(request', sent')
      BY <1>1 DEF Good, State
    <2> QED BY <2>3, <2>4 DEF Notified
  <1> QED BY <1>2, <1>3, <1>4 DEF WakeCore

\* STAGE_IN starts the submit script, or fails in the loop.
LEMMA CaseStageInWake ==
    ASSUME RequestInvariant, JobCore, WakeCore, CaseStageIn PROVE WakeCore'
  <1>1. /\ TypeOK /\ request \in RequestRecord /\ State = "STAGE_IN" /\ running
        /\ rsl \in Requests
        /\ UNCHANGED <<rsl, submissions, restart_callbacks, sent>>
    BY DEF RequestInvariant, TypeOK, CaseStageIn, At, Becomes
  <1>2. State \in PreSubmit /\ (Plain => ~rsl.dry_run)
    BY <1>1 DEF PreSubmit, Plain
  <1>3. ASSUME UNCHANGED <<scripts, seg_pause_count>>,
               state_file' = NoStateFile => state_file = NoStateFile,
               \/ State' = "FAILED"
               \/ /\ rsl.dry_run
                  /\ State' \in {"FAILED_TWO_PHASE_COMMITTED", "SUBMIT"},
               request'.poll_timer = request.poll_timer
        PROVE  WakeCore'
    <2>1. /\ Plain => State' \notin Over \union {"SUBMIT"}
          /\ State' \notin EarlyQuery
      BY <1>2, <1>3 DEF Over, EarlyQuery
    <2> QED BY <1>1, <1>2, <1>3, <2>1, EarlyWake
  <1>4. CASE /\ Becomes([To(request, "FAILED") EXCEPT
                           !.failure_code = IF @ = "SUCCESS"
                                              THEN "STAGE_IN_FAILED" ELSE @])
             /\ UNCHANGED <<scriptVars, seg_pause_count, state_file>>
    <2> DEFINE x == To(request, "FAILED")
    <2>1. /\ x \in RequestRecord /\ x.jobmanager_state = "FAILED"
          /\ x.poll_timer = request.poll_timer
      BY <1>1, ToFacts DEF ManagerStates, SameQueues
    <2>2. request' = [x EXCEPT !.failure_code = IF @ = "SUCCESS"
                                              THEN "STAGE_IN_FAILED" ELSE @]
      BY <1>4 DEF Becomes
    <2> HIDE DEF x
    <2>3. State' = "FAILED" /\ request'.poll_timer = request.poll_timer
      BY <2>1, <2>2 DEF RequestRecord, State
    <2> QED BY <1>3, <1>4, <2>3
  <1>5. CASE /\ Becomes(To(request, IF rsl.dry_run
                                      THEN "FAILED_TWO_PHASE_COMMITTED"
                                      ELSE "FAILED"))
             /\ UNCHANGED <<scriptVars, seg_pause_count, state_file>>
    <2>1. /\ To(request, "FAILED").jobmanager_state = "FAILED"
          /\ To(request, "FAILED").poll_timer = request.poll_timer
      BY <1>1, ToFacts DEF ManagerStates, SameQueues
    <2>2. /\ To(request, "FAILED_TWO_PHASE_COMMITTED").jobmanager_state
                = "FAILED_TWO_PHASE_COMMITTED"
          /\ To(request, "FAILED_TWO_PHASE_COMMITTED").poll_timer
                = request.poll_timer
      BY <1>1, ToFacts DEF ManagerStates, SameQueues
    <2>3. \/ request' = To(request, "FAILED")
          \/ rsl.dry_run /\ request' = To(request, "FAILED_TWO_PHASE_COMMITTED")
      BY <1>5 DEF Becomes
    <2>4. /\ \/ State' = "FAILED"
             \/ rsl.dry_run /\ State' = "FAILED_TWO_PHASE_COMMITTED"
          /\ request'.poll_timer = request.poll_timer
      BY <2>1, <2>2, <2>3 DEF State
    <2> QED BY <1>3, <1>5, <2>4
  <1> DEFINE s == To(request, "SUBMIT")
             r == [s EXCEPT !.restart_state = "SUBMIT"]
             code == IF rsl.dry_run THEN "DRYRUN" ELSE "MALLOC_FAILED"
             c == [r EXCEPT !.failure_code = code]
             f == SetStatus(c, "FAILED")
             g == To(f, "FAILED")
             h == [g EXCEPT !.unsent_status_change = TRUE]
  <1>6. /\ s \in RequestRecord /\ s.jobmanager_state = "SUBMIT"
        /\ s.poll_timer = request.poll_timer /\ s.status = request.status
    BY <1>1, ToFacts DEF ManagerStates, SameQueues
  <1> HIDE DEF s
  <1>7. /\ r \in RequestRecord /\ r.jobmanager_state = "SUBMIT"
        /\ r.poll_timer = request.poll_timer /\ r.status = request.status
    BY <1>6 DEF RequestRecord, ManagerStates
  <1>8. SubmitFile(r) # NoStateFile
    <2> HIDE DEF r
    <2> QED BY <1>7, FileWritten DEF SubmitFile
  <1>9. CASE /\ state_file' = SubmitFile(r) /\ request.status # "FAILED"
             /\ ~rsl.dry_run
             /\ Becomes(r)
             /\ Launch("submit", "SUBMIT", NoQuery)
             /\ seg_pause_count' = seg_pause_count + 1
             /\ Sleep
    <2> HIDE DEF r
    <2>1. /\ State' = "SUBMIT" /\ request'.poll_timer = request.poll_timer
          /\ request'.status = request.status /\ ~running'
          /\ state_file' # NoStateFile
      BY <1>7, <1>8, <1>9 DEF Becomes, State, Sleep
    <2> QED BY <1>1, <1>9, <2>1, SubmitWake
  <1>10. CASE /\ state_file' = SubmitFile(r)
              /\ Becomes(IF rsl.dry_run THEN f ELSE h)
              /\ UNCHANGED <<scriptVars, seg_pause_count>>
    <2> HIDE DEF r
    <2>1. c \in RequestRecord /\ c.jobmanager_state = "SUBMIT"
          /\ c.poll_timer = request.poll_timer
      BY <1>7 DEF RequestRecord, FailureCodes
    <2> HIDE DEF c
    <2>2. f \in RequestRecord /\ f.jobmanager_state = "SUBMIT"
          /\ f.poll_timer = request.poll_timer
      BY <2>1, SetStatusFacts DEF JobStates, SameQueues
    <2> HIDE DEF f
    <2>3. g \in RequestRecord /\ g.jobmanager_state = "FAILED"
          /\ g.poll_timer = request.poll_timer
      BY <2>2, ToFacts DEF ManagerStates, SameQueues
    <2> HIDE DEF g
    <2>4. h.jobmanager_state = "FAILED" /\ h.poll_timer = request.poll_timer
      BY <2>3 DEF RequestRecord
    <2> HIDE DEF h
    <2>5. /\ State' = "FAILED" \/ (rsl.dry_run /\ State' = "SUBMIT")
          /\ request'.poll_timer = request.poll_timer
      BY <1>10, <2>2, <2>4 DEF Becomes, State
    <2> QED BY <1>3, <1>8, <1>10, <2>5
  <1> QED BY <1>4, <1>5, <1>9, <1>10 DEF CaseStageIn, s, r

-----------------------------------------------------------------------------
(* What is owed, through the reports of scripts and events                  *)

\* What contacts are owed of a job that is not over: a failure is unsent.
Owed(r) == r.status = "FAILED" => r.unsent_status_change

\* A reported status is marked as unsent, and a final one is not replaced.
LEMMA ReportStatusOwed ==
    ASSUME NEW r \in RequestRecord, NEW s \in JobStates
    PROVE  LET q == ReportStatus(r, s)
           IN /\ q.client_contacts = r.client_contacts
              /\ Owed(r) => Owed(q)
              /\ r.unsent_status_change => q.unsent_status_change
              /\ r.status \in {"DONE", "FAILED"} => q = r
  <1> DEFINE new == IF s = "DONE" /\ (rsl.stage_out \/ rsl.stream)
                      THEN "STAGE_OUT" ELSE s
             set == SetStatus(r, new)
             told == [set EXCEPT !.unsent_status_change = TRUE]
  <1>1. new \in JobStates
    BY DEF JobStates
  <1>2. /\ ReportStatus(r, s) = r \/ ReportStatus(r, s) = told
        /\ r.status \in {"DONE", "FAILED"} => ReportStatus(r, s) = r
    <2>1. r.status \in {"DONE", "FAILED"} => ~ValidStateChange(r.status, s)
      BY DEF ValidStateChange
    <2> QED BY <2>1 DEF ReportStatus
  <1> HIDE DEF new
  <1>3. set \in RequestRecord /\ set.client_contacts = r.client_contacts
    BY <1>1, SetStatusFacts, SetStatusCopy
  <1> HIDE DEF set
  <1>4. told.client_contacts = r.client_contacts /\ told.unsent_status_change
    BY <1>3 DEF RequestRecord
  <1> HIDE DEF told
  <1> QED BY <1>2, <1>4 DEF Owed

\* So is what an event brings.
LEMMA HandleEventOwed ==
    ASSUME NEW r \in RequestRecord, r.seg_event_queue # <<>>
    PROVE  LET q == HandleEvent(r)
           IN /\ q.client_contacts = r.client_contacts
              /\ Owed(r) => Owed(q)
              /\ r.status \in {"DONE", "FAILED"} => Alike(r, q)
  <1> DEFINE event    == Head(r.seg_event_queue)
             popped   == [r EXCEPT !.seg_event_queue = Tail(@)]
             finished == [popped EXCEPT
                            !.job_id_string = "empty",
                            !.expected_terminal_state =
                                IF event = "FAILED" THEN "FAILED" ELSE @]
  <1>1. r.seg_event_queue \in Seq(SegEvents)
    BY DEF RequestRecord
  <1>2. event \in SegEvents /\ Tail(r.seg_event_queue) \in Seq(SegEvents)
    BY <1>1, HeadTailProperties
  <1>3. event \in JobStates
    BY <1>2 DEF SegEvents, JobStates
  <1>4. popped \in RequestRecord /\ Alike(r, popped)
    BY <1>2 DEF RequestRecord, Alike, SameCopy
  <1>5. /\ finished \in RequestRecord /\ Alike(r, finished)
        /\ finished.expected_terminal_state \in {"DONE", "FAILED"}
    BY <1>2, <1>4 DEF RequestRecord, JobIds, Alike, SameCopy
  <1>6. finished.expected_terminal_state \in JobStates
    BY <1>5 DEF JobStates
  <1>7. \/ HandleEvent(r) = ReportStatus(finished,
                                         finished.expected_terminal_state)
        \/ HandleEvent(r) = ReportStatus(popped, event)
    BY DEF HandleEvent
  <1> HIDE DEF event, popped, finished
  <1>8. ASSUME NEW x \in RequestRecord, NEW s \in JobStates, Alike(r, x)
        PROVE  LET q == ReportStatus(x, s)
               IN /\ q.client_contacts = r.client_contacts
                  /\ Owed(r) => Owed(q)
                  /\ r.status \in {"DONE", "FAILED"} => Alike(r, q)
    <2>1. /\ x.status = r.status /\ x.client_contacts = r.client_contacts
          /\ x.unsent_status_change = r.unsent_status_change
      BY <1>8 DEF Alike, SameCopy
    <2>2. Owed(r) => Owed(x)
      BY <2>1 DEF Owed
    <2> QED BY <1>8, <2>1, <2>2, ReportStatusOwed
  <1> QED BY <1>3, <1>4, <1>5, <1>6, <1>7, <1>8

-----------------------------------------------------------------------------
(* Cases after the submission                                               *)

\* A job that is not over owes what its status and state say.
LEMMA GoodOwed ==
    ASSUME NEW q, NEW told, Owed(q), q.jobmanager_state \notin Over,
           q.jobmanager_state \in {"FAILED_CLOSE_OUTPUT", "STAGE_OUT"} =>
              q.unsent_status_change,
           q.jobmanager_state = "FAILED" => q.status = "FAILED"
    PROVE  Good(q, told)
  BY DEF Good, Owed

\* And says so.
LEMMA OwedGood ==
    ASSUME NEW r, NEW told, Good(r, told), r.jobmanager_state \notin Over
    PROVE  /\ Owed(r)
           /\ r.jobmanager_state \in {"FAILED_CLOSE_OUTPUT", "STAGE_OUT"} =>
                 r.unsent_status_change
           /\ r.jobmanager_state = "FAILED" => r.status = "FAILED"
  BY DEF Good, Owed

\* What POLL1 leaves: no timer in the loop, no restarting callback, a failure
\* that is still unsent.
LEMMA PollOwed ==
    ASSUME TypeOK, NEW r \in RequestRecord, NEW first \in BOOLEAN,
           NEW file, Poll(r, file, first)
    PROVE  /\ restart_callbacks' = restart_callbacks
           /\ running' /\ request'.poll_timer => r.poll_timer
           /\ file # NoStateFile => state_file' # NoStateFile
           /\ State' \in {"FAILED", "PRE_CLOSE_OUTPUT", "POLL_QUERY1", "POLL1",
                          "POLL2"}
           /\ State' = "FAILED" => request'.status = "FAILED"
           /\ Owed(r) => Owed(request')
  <1> DEFINE seen  == IF r.seg_event_queue # <<>> THEN HandleEvent(r) ELSE r
             saved == IF seen.unsent_status_change
                        THEN [seen EXCEPT !.restart_state = "POLL1"] ELSE seen
             told  == [saved EXCEPT !.unsent_status_change = FALSE]
             tell(next) == IF saved.unsent_status_change
                             THEN ContactStateCallback(next, FALSE)
                             ELSE Becomes(next)
  <1>1. /\ seen \in RequestRecord /\ seen.poll_timer = r.poll_timer
        /\ Owed(r) => Owed(seen)
    BY HandleEventFacts, HandleEventOwed
  <1>2. /\ saved \in RequestRecord /\ saved.poll_timer = r.poll_timer
        /\ Owed(r) => Owed(saved)
    <2> HIDE DEF seen
    <2>1. "POLL1" \in ManagerStates
      BY DEF ManagerStates
    <2> DEFINE x == [seen EXCEPT !.restart_state = "POLL1"]
    <2>2. /\ x \in RequestRecord /\ x.poll_timer = seen.poll_timer
          /\ Owed(seen) => Owed(x)
      BY <1>1, <2>1 DEF RequestRecord, Owed
    <2> HIDE DEF x
    <2>3. saved = x \/ saved = seen
      BY DEF x
    <2> QED BY <1>1, <2>2, <2>3
  <1>3. /\ told \in RequestRecord /\ told.status = saved.status
        /\ told.poll_timer = r.poll_timer
    <2> HIDE DEF saved
    <2> QED BY <1>2 DEF RequestRecord
  <1>4. file # NoStateFile => state_file' # NoStateFile
    <2>1. state_file' = IF seen.unsent_status_change
                          THEN StateFileOf(saved) ELSE file
      BY DEF Poll
    <2> HIDE DEF saved, seen
    <2> QED BY <1>2, <2>1, FileWritten
  <1>5. \/ Becomes(To(saved, "FAILED")) /\ saved.status = "FAILED"
        \/ Becomes(To(saved, "PRE_CLOSE_OUTPUT"))
        \/ /\ saved.status # "FAILED"
           /\ \/ \E s \in {"POLL_QUERY1", "POLL1", "POLL2"} : tell(To(told, s))
              \/ tell(Register(To(told, "POLL2"))) /\ ~running'
    BY DEF Poll, Sleep
  <1> HIDE DEF seen, saved, told
  <1>6. ASSUME NEW next, tell(next)
        PROVE  request' = next /\ restart_callbacks' = restart_callbacks
    BY <1>6, CallbackQuiet DEF Becomes
  <1> HIDE DEF tell
  <1>7. ASSUME NEW s \in {"FAILED", "PRE_CLOSE_OUTPUT"}
        PROVE  /\ To(saved, s).jobmanager_state = s
               /\ To(saved, s).status = saved.status
               /\ To(saved, s).poll_timer = r.poll_timer
               /\ Owed(saved) => Owed(To(saved, s))
    <2>1. s \in ManagerStates
      BY DEF ManagerStates
    <2> QED BY <1>2, <2>1, ToFacts, MovesAlike DEF SameQueues, Alike, SameCopy,
                                                   Owed
  <1>8. ASSUME NEW s \in {"POLL_QUERY1", "POLL1", "POLL2"}
        PROVE  /\ To(told, s) \in RequestRecord
               /\ To(told, s).jobmanager_state = s
               /\ To(told, s).status = saved.status
               /\ To(told, s).poll_timer = r.poll_timer
    <2>1. s \in ManagerStates
      BY DEF ManagerStates
    <2> QED BY <1>3, <2>1, ToFacts DEF SameQueues
  <1>9. CASE Becomes(To(saved, "FAILED")) /\ saved.status = "FAILED"
    <2>1. request' = To(saved, "FAILED") /\ restart_callbacks' = restart_callbacks
      BY <1>9 DEF Becomes
    <2> QED BY <1>2, <1>4, <1>7, <1>9, <2>1 DEF State
  <1>10. CASE Becomes(To(saved, "PRE_CLOSE_OUTPUT"))
    <2>1. /\ request' = To(saved, "PRE_CLOSE_OUTPUT")
          /\ restart_callbacks' = restart_callbacks
      BY <1>10 DEF Becomes
    <2> QED BY <1>2, <1>4, <1>7, <2>1 DEF State
  <1>11. CASE /\ saved.status # "FAILED"
              /\ \E s \in {"POLL_QUERY1", "POLL1", "POLL2"} : tell(To(told, s))
    <2>1. PICK s \in {"POLL_QUERY1", "POLL1", "POLL2"} : tell(To(told, s))
      BY <1>11
    <2>2. request' = To(told, s) /\ restart_callbacks' = restart_callbacks
      BY <1>6, <2>1
    <2> QED BY <1>4, <1>8, <1>11, <2>2 DEF State, Owed
  <1>12. CASE /\ saved.status # "FAILED" /\ ~running'
              /\ tell(Register(To(told, "POLL2")))
    <2> DEFINE y == To(told, "POLL2")
    <2>1. y \in RequestRecord /\ y.jobmanager_state = "POLL2"
          /\ y.status = saved.status
      BY <1>8
    <2>2. request' = Register(y) /\ restart_callbacks' = restart_callbacks
      BY <1>6, <1>12
    <2> HIDE DEF y
    <2>3. State' = "POLL2" /\ request'.status = saved.status
      BY <2>1, <2>2, RegisterFacts, RegisterKeeps DEF State
    <2> QED BY <1>4, <1>12, <2>2, <2>3 DEF Owed
  <1> QED BY <1>5, <1>9, <1>10, <1>11, <1>12

\* The states POLL1 leads to belong to a job that is not over.
LEMMA PollWake ==
    ASSUME TypeOK, WakeCore, running, NEW r \in RequestRecord,
           NEW first \in BOOLEAN, NEW file, Poll(r, file, first),
           Plain /\ PauseBalanced => PauseBalanced',
           State \notin Over,
           UNCHANGED <<rsl, scripts, submissions>>,
           file # NoStateFile \/ file = state_file,
           r.poll_timer = request.poll_timer,
           Owed(request) => Owed(r)
    PROVE  WakeCore'
  <1>1. /\ restart_callbacks' = restart_callbacks
        /\ running' /\ request'.poll_timer => request.poll_timer
        /\ state_file' = NoStateFile => state_file = NoStateFile
        /\ State' \in {"FAILED", "PRE_CLOSE_OUTPUT", "POLL_QUERY1", "POLL1",
                       "POLL2"}
        /\ State' = "FAILED" => request'.status = "FAILED"
        /\ Owed(r) => Owed(request')
    BY PollOwed
  <1>2. State' \notin Over \union EarlyQuery
    BY <1>1 DEF Over, EarlyQuery
  <1>3. Good(request, sent) => Good(request', sent')
    <2> SUFFICES ASSUME Good(request, sent) PROVE Good(request', sent')
      OBVIOUS
    <2>1. Owed(request')
      BY <1>1, OwedGood DEF State
    <2> QED BY <1>1, <1>2, <2>1, GoodOwed DEF State
  <1> QED BY <1>1, <1>2, <1>3, LateWake

\* POLL1 as a case of its own.
LEMMA CasePoll1Wake ==
    ASSUME RequestInvariant, WakeCore, CasePoll1 PROVE WakeCore'
  <1>1. /\ TypeOK /\ request \in RequestRecord /\ State = "POLL1" /\ running
        /\ Poll(request, state_file, FALSE)
        /\ UNCHANGED <<rsl, scripts, submissions, seg_pause_count>>
    BY DEF RequestInvariant, TypeOK, CasePoll1, At
  <1>2. State' \in {"FAILED", "PRE_CLOSE_OUTPUT", "POLL_QUERY1", "POLL1",
                    "POLL2"}
    BY <1>1, PollOwed
  <1>3. PauseBalanced => PauseBalanced'
    BY <1>1, <1>2, PauseKept
  <1>4. State \notin Over
    BY <1>1 DEF Over
  <1> QED BY <1>1, <1>3, <1>4, PollWake

\* SUBMIT ends in POLL1, and events are delivered again.
LEMMA CaseSubmitWake ==
    ASSUME RequestInvariant, WakeCore, CaseSubmit PROVE WakeCore'
  <1>1. /\ TypeOK /\ request \in RequestRecord /\ State = "SUBMIT" /\ running
        /\ request.failure_code \in FailureCodes /\ rsl \in Requests
        /\ seg_pause_count' = seg_pause_count - 1
        /\ UNCHANGED <<rsl, scripts, submissions>>
    BY DEF RequestInvariant, TypeOK, CaseSubmit, At, RequestRecord
  <1> DEFINE set(code) == [request EXCEPT !.failure_code = code]
             fails(code) == [SetStatus(set(code), "FAILED")
                               EXCEPT !.unsent_status_change = TRUE]
             toPoll(r) == [To(r, "POLL1") EXCEPT !.restart_state = "POLL1"]
             poll(r) == Poll(toPoll(r), StateFileOf(toPoll(r)), TRUE)
  <1>2. \/ /\ Becomes(To(request, "FAILED_TWO_PHASE_COMMITTED"))
           /\ rsl.dry_run /\ UNCHANGED state_file
        \/ \E code \in FailureCodes : poll(fails(code))
        \/ poll(request)
    BY <1>1 DEF CaseSubmit, FailureCodes
  <1>3. State' # "SUBMIT" => (PauseBalanced => PauseBalanced')
    BY <1>1 DEF PauseBalanced
  <1>4. CASE /\ Becomes(To(request, "FAILED_TWO_PHASE_COMMITTED"))
             /\ rsl.dry_run /\ UNCHANGED state_file
    <2> DEFINE x == To(request, "FAILED_TWO_PHASE_COMMITTED")
    <2>1. /\ x.jobmanager_state = "FAILED_TWO_PHASE_COMMITTED"
          /\ x.poll_timer = request.poll_timer
      BY <1>1, ToFacts DEF ManagerStates, SameQueues
    <2>2. request' = x /\ restart_callbacks' = restart_callbacks
      BY <1>4 DEF Becomes
    <2> HIDE DEF x
    <2>3. /\ State' = "FAILED_TWO_PHASE_COMMITTED"
          /\ request'.poll_timer = request.poll_timer
      BY <2>1, <2>2 DEF State
    <2>4. /\ State' \notin EarlyQuery /\ State' \in Over /\ State' # "SUBMIT"
          /\ ~Plain
      BY <1>1, <1>4, <2>3 DEF EarlyQuery, Over, Plain
    <2> QED BY <1>1, <1>4, <2>2, <2>3, <2>4, LateWake
  <1>5. ASSUME NEW r \in RequestRecord, poll(r),
               r.poll_timer = request.poll_timer, Owed(request) => Owed(r)
        PROVE  WakeCore'
    <2> DEFINE y == To(r, "POLL1")
               x == [y EXCEPT !.restart_state = "POLL1"]
    <2>1. /\ y \in RequestRecord /\ y.poll_timer = request.poll_timer
          /\ Owed(r) => Owed(y)
      <3>1. "POLL1" \in ManagerStates
        BY DEF ManagerStates
      <3>2. y \in RequestRecord /\ SameQueues(r, y) /\ Alike(r, y)
        BY <3>1, ToFacts, MovesAlike
      <3> HIDE DEF y
      <3> QED BY <1>5, <3>2 DEF SameQueues, Alike, SameCopy, Owed
    <2> HIDE DEF y
    <2>2. /\ x \in RequestRecord /\ x.poll_timer = request.poll_timer
          /\ Owed(y) => Owed(x)
      <3>1. "POLL1" \in ManagerStates
        BY DEF ManagerStates
      <3>2. x \in RequestRecord
        BY <2>1, <3>1 DEF RequestRecord
      <3>3. /\ x.poll_timer = y.poll_timer /\ x.status = y.status
            /\ x.unsent_status_change = y.unsent_status_change
        BY <2>1 DEF RequestRecord
      <3> HIDE DEF x
      <3> QED BY <2>1, <3>2, <3>3 DEF Owed
    <2>3. Poll(x, StateFileOf(x), TRUE)
      BY <1>5 DEF x, y
    <2> HIDE DEF x
    <2>4. StateFileOf(x) # NoStateFile
      BY <2>2, FileWritten
    <2>5. State' \in {"FAILED", "PRE_CLOSE_OUTPUT", "POLL_QUERY1", "POLL1",
                      "POLL2"}
      BY <1>1, <2>2, <2>3, PollOwed
    <2>6. PauseBalanced => PauseBalanced'
      BY <1>3, <2>5
    <2>7. State \notin Over
      BY <1>1 DEF Over
    <2> QED BY <1>1, <1>5, <2>1, <2>2, <2>3, <2>4, <2>6, <2>7, PollWake
  <1>6. ASSUME NEW code \in FailureCodes, poll(fails(code)) PROVE WakeCore'
    <2> DEFINE a == set(code)
               b == SetStatus(a, "FAILED")
               c == [b EXCEPT !.unsent_status_change = TRUE]
    <2>1. a \in RequestRecord /\ a.poll_timer = request.poll_timer
      BY <1>1 DEF RequestRecord
    <2> HIDE DEF a
    <2>2. b \in RequestRecord /\ b.poll_timer = request.poll_timer
      <3>1. "FAILED" \in JobStates
        BY DEF JobStates
      <3> QED BY <2>1, <3>1, SetStatusFacts DEF SameQueues
    <2> HIDE DEF b
    <2>3. /\ c \in RequestRecord /\ c.poll_timer = request.poll_timer
          /\ Owed(c)
      BY <2>2 DEF RequestRecord, Owed
    <2>4. poll(c)
      BY <1>6 DEF a, b, c
    <2> HIDE DEF c
    <2> QED BY <1>5, <2>3, <2>4
  <1>7. Owed(request) => Owed(request)
    OBVIOUS
  <1> HIDE DEF poll, fails
  <1> QED BY <1>1, <1>2, <1>4, <1>5, <1>6, <1>7

\* POLL2 starts the poll script, reads the grid monitor's file, or waits.
LEMMA CasePoll2Wake ==
    ASSUME RequestInvariant, WakeCore, CasePoll2 PROVE WakeCore'
  <1>1. /\ TypeOK /\ request \in RequestRecord /\ State = "POLL2" /\ running
        /\ UNCHANGED <<rsl, submissions, seg_pause_count, state_file>>
    BY DEF RequestInvariant, TypeOK, CasePoll2, At
  <1> DEFINE p == To(request, "POLL1")
  <1>2. /\ p \in RequestRecord /\ p.jobmanager_state = "POLL1"
        /\ p.poll_timer = request.poll_timer
        /\ p.status = request.status
        /\ p.unsent_status_change = request.unsent_status_change
    <2>1. "POLL1" \in ManagerStates
      BY DEF ManagerStates
    <2> QED BY <1>1, <2>1, ToFacts, MovesAlike DEF SameQueues, Alike, SameCopy
  <1> HIDE DEF p
  <1>3. Owed(request) => Owed(p)
    BY <1>2 DEF Owed
  <1>4. State \notin Over \union EarlyQuery \union {"SUBMIT"}
    BY <1>1 DEF Over, EarlyQuery
  <1>5. ASSUME State' \in {"POLL1", "POLL2"}, Owed(request) => Owed(request')
        PROVE  /\ State' \notin Over \union EarlyQuery \union {"SUBMIT"}
               /\ Good(request, sent) => Good(request', sent')
               /\ PauseBalanced => PauseBalanced'
    <2>1. State' \notin Over \union EarlyQuery \union {"SUBMIT"}
      BY <1>5 DEF Over, EarlyQuery
    <2>2. Good(request, sent) => Good(request', sent')
      BY <1>4, <1>5, <2>1, OwedGood, GoodOwed DEF State
    <2> QED BY <1>1, <1>4, <2>1, <2>2, PauseKept
  <1>6. ASSUME UNCHANGED <<scripts, restart_callbacks>>,
               State' \in {"POLL1", "POLL2"},
               Owed(request) => Owed(request'),
               running' /\ request'.poll_timer => request.poll_timer
        PROVE  WakeCore'
    BY <1>1, <1>4, <1>5, <1>6, LateWake
  <1>7. CASE Becomes(p) /\ Launch("poll", "POLL1", NoQuery) /\ Sleep
    <2>1. /\ request' = p /\ ~running'
          /\ restart_callbacks' = restart_callbacks
      BY <1>7 DEF Becomes, Sleep
    <2>2. "poll" \in ScriptCmds /\ "POLL1" \notin Over /\ "POLL1" \in Busy
      BY DEF ScriptCmds, Over, Busy
    <2>3. State' = "POLL1" /\ request'.poll_timer = request.poll_timer
      BY <1>2, <2>1 DEF State
    <2> QED BY <1>1, <1>3, <1>4, <1>5, <1>7, <2>1, <2>2, <2>3, LaunchWake
  <1>8. CASE Becomes(p) /\ UNCHANGED scripts
    BY <1>2, <1>3, <1>6, <1>8 DEF Becomes, State
  <1>9. CASE PollFast /\ UNCHANGED scripts /\ Sleep
    <2>1. PICK s \in {request.status} \union ({lrm} \ {"none", "FAILED"}) :
              Becomes(Register(IF s = p.status THEN p
                               ELSE [SetStatus(p, s) EXCEPT
                                       !.unsent_status_change = TRUE]))
      BY <1>9 DEF PollFast, p
    <2>2. s \in JobStates
      BY <1>1 DEF TypeOK, LrmStates, SegEvents, JobStates, RequestRecord
    <2> DEFINE x == SetStatus(p, s)
               y == [x EXCEPT !.unsent_status_change = TRUE]
               z == IF s = p.status THEN p ELSE y
    <2>3. x \in RequestRecord /\ x.jobmanager_state = "POLL1"
      BY <1>2, <2>2, SetStatusFacts
    <2> HIDE DEF x
    <2>4. y \in RequestRecord /\ y.jobmanager_state = "POLL1" /\ Owed(y)
      BY <2>3 DEF RequestRecord, Owed
    <2> HIDE DEF y
    <2>5. /\ z \in RequestRecord /\ z.jobmanager_state = "POLL1"
          /\ Owed(request) => Owed(z)
      BY <1>2, <1>3, <2>4
    <2>6. request' = Register(z) /\ restart_callbacks' = restart_callbacks
      BY <2>1 DEF Becomes, x, y, z
    <2> HIDE DEF z
    <2>7. /\ Register(z).jobmanager_state = "POLL1"
          /\ Register(z).status = z.status
          /\ Register(z).unsent_status_change = z.unsent_status_change
      BY <2>5, RegisterFacts, RegisterAlike DEF Alike, SameCopy
    <2>8. State' = "POLL1" /\ (Owed(request) => Owed(request'))
      BY <2>5, <2>6, <2>7 DEF State, Owed
    <2>9. ~running'
      BY <1>9 DEF Sleep
    <2> QED BY <1>6, <1>9, <2>6, <2>8, <2>9
  <1>10. CASE Becomes(request) /\ UNCHANGED scripts
    BY <1>1, <1>6, <1>10 DEF Becomes, State
  <1> QED BY <1>7, <1>8, <1>9, <1>10 DEF CasePoll2, p

\* The queue without its first query, otherwise the same request.
LEMMA DequeuedAlike ==
    ASSUME TypeOK
    PROVE  /\ Alike(request, Dequeued)
           /\ Dequeued.poll_timer = request.poll_timer
  BY DEF TypeOK, RequestRecord, Dequeued, Alike, SameCopy

\* The oldest query gets its script, or its answer.
LEMMA CaseQuery1Wake ==
    ASSUME RequestInvariant, JobCore, WakeCore, CaseQuery1 PROVE WakeCore'
  <1> DEFINE query == Head(request.pending_queries)
             cmd   == IF query.kind = "cancel" THEN "cancel" ELSE "signal"
             next  == IF State = "POLL_QUERY1" THEN "POLL_QUERY2"
                                               ELSE "TWO_PHASE_QUERY2"
  <1>1. /\ TypeOK /\ request \in RequestRecord /\ running
        /\ State \in {"POLL_QUERY1", "TWO_PHASE_QUERY1"}
        /\ request.pending_queries # <<>>
        /\ UNCHANGED <<rsl, submissions, seg_pause_count, state_file>>
    BY DEF RequestInvariant, TypeOK, CaseQuery1, At, QueriesMatchState,
           QueryStates, State
  <1>2. /\ State \notin Over \union {"SUBMIT"}
        /\ State # "POLL_QUERY1" => State \in PreSubmit
    BY <1>1 DEF Over, PreSubmit
  <1>3. /\ next \in {"POLL_QUERY2", "TWO_PHASE_QUERY2"}
        /\ next \in ManagerStates /\ next \in Busy \ {"SUBMIT"}
        /\ next \in EarlyQuery => State \in EarlyQuery
        /\ next \notin Over /\ "POLL2" \in ManagerStates
    BY <1>1 DEF ManagerStates, Busy, EarlyQuery, Over
  <1>4. CASE Launch(cmd, State, query) /\ Becomes(To(request, next)) /\ Sleep
    <2> HIDE DEF next
    <2>1. /\ request' = To(request, next) /\ ~running'
          /\ restart_callbacks' = restart_callbacks /\ sent' = sent
      BY <1>4 DEF Becomes, Sleep
    <2>2. /\ To(request, next).jobmanager_state = next
          /\ SameQueues(request, To(request, next))
          /\ Alike(request, To(request, next))
      BY <1>1, <1>3, ToFacts, MovesAlike
    <2>3. /\ State' = next /\ request'.poll_timer = request.poll_timer
          /\ request'.pending_queries = request.pending_queries
          /\ Owed(request) => Owed(request')
      BY <2>1, <2>2 DEF State, SameQueues, Owed, Alike, SameCopy
    <2>4. cmd \in ScriptCmds /\ cmd # "submit"
      BY DEF ScriptCmds
    <2>5. Good(request, sent) => Good(request', sent')
      BY <1>2, <1>3, <2>3, OwedGood, GoodOwed DEF State
    <2>6. query # NoQuery =>
             /\ State' \in {"POLL_QUERY2", "TWO_PHASE_QUERY2"}
             /\ request'.pending_queries # <<>>
             /\ Head(request'.pending_queries) = query
      BY <1>1, <1>3, <2>3
    <2> HIDE DEF cmd, query
    <2> QED BY <1>1, <1>2, <1>3, <1>4, <2>1, <2>3, <2>4, <2>5, <2>6, LaunchWake
  <1>5. CASE /\ request' = To(Dequeued, "POLL2") \/ request' = Dequeued
             /\ UNCHANGED <<scripts, restart_callbacks, sent>>
    <2>1. /\ Dequeued \in RequestRecord /\ Dequeued.jobmanager_state = State
          /\ Alike(request, Dequeued)
          /\ Dequeued.poll_timer = request.poll_timer
      BY <1>1, QueueFacts, DequeuedAlike
    <2>2. /\ To(Dequeued, "POLL2").jobmanager_state = "POLL2"
          /\ To(Dequeued, "POLL2").poll_timer = request.poll_timer
          /\ Alike(request, To(Dequeued, "POLL2"))
      BY <1>3, <2>1, ToFacts, MovesAlike, AlikeOn
    <2>3. /\ State' \in {State, "POLL2"} /\ Alike(request, request')
          /\ request'.poll_timer = request.poll_timer
      BY <1>5, <2>1, <2>2 DEF State
    <2>4. /\ State' \notin Over \union {"SUBMIT"}
          /\ State' \in EarlyQuery => State \in EarlyQuery
      BY <1>1, <2>3 DEF Over, EarlyQuery
    <2>5. CASE State \in PreSubmit
      BY <1>1, <1>5, <2>3, <2>4, <2>5, EarlyWake
    <2>6. CASE State = "POLL_QUERY1"
      <3>1. State' \notin EarlyQuery
        BY <2>3, <2>6 DEF EarlyQuery
      <3>2. Good(request, sent) => Good(request', sent')
        <4>1. Owed(request) => Owed(request')
          BY <2>3 DEF Owed, Alike, SameCopy
        <4> QED BY <1>2, <2>3, <2>4, <2>6, <4>1, OwedGood, GoodOwed DEF State
      <3> QED BY <1>1, <1>2, <1>5, <2>3, <2>4, <3>1, <3>2, PauseKept, LateWake
    <2> QED BY <1>2, <2>5, <2>6
  <1>6. \/ Launch(cmd, State, query) /\ Becomes(To(request, next)) /\ Sleep
        \/ /\ request' = To(Dequeued, "POLL2") \/ request' = Dequeued
           /\ UNCHANGED <<scripts, restart_callbacks, sent>>
    BY DEF CaseQuery1, Becomes, Dequeued
  <1> QED BY <1>4, <1>5, <1>6

\* After a signal in TWO_PHASE.
LEMMA CaseTwoPhaseQuery2Wake ==
    ASSUME RequestInvariant, JobCore, WakeCore, CaseTwoPhaseQuery2
    PROVE  WakeCore'
  <1>1. /\ TypeOK /\ request.pending_queries # <<>> /\ running
        /\ State = "TWO_PHASE_QUERY2"
        /\ UNCHANGED <<rsl, scripts, submissions, seg_pause_count,
                       restart_callbacks, state_file>>
    BY DEF RequestInvariant, CaseTwoPhaseQuery2, At, QueriesMatchState,
           QueryStates, Becomes
  <1>2. /\ Dequeued \in RequestRecord
        /\ Dequeued.poll_timer = request.poll_timer
    BY <1>1, QueueFacts, DequeuedAlike
  <1> DEFINE t == To(Dequeued, "TWO_PHASE")
             q == To(Dequeued, "TWO_PHASE_QUERY1")
  <1>3. "TWO_PHASE" \in ManagerStates /\ "TWO_PHASE_QUERY1" \in ManagerStates
    BY DEF ManagerStates
  <1>4. /\ t \in RequestRecord /\ t.jobmanager_state = "TWO_PHASE"
        /\ q.jobmanager_state = "TWO_PHASE_QUERY1"
        /\ q.poll_timer = request.poll_timer
    BY <1>2, <1>3, ToFacts DEF SameQueues
  <1>5. (request' = Register(t) /\ ~running') \/ request' = q
    BY DEF CaseTwoPhaseQuery2, Becomes, Sleep
  <1> HIDE DEF t, q
  <1>6. /\ State' \in {"TWO_PHASE", "TWO_PHASE_QUERY1"}
        /\ running' /\ request'.poll_timer => request.poll_timer
    BY <1>4, <1>5, RegisterFacts DEF State
  <1>7. /\ State \in PreSubmit /\ State \in EarlyQuery
        /\ State' \notin Over \union {"SUBMIT"}
    BY <1>1, <1>6 DEF PreSubmit, Over, EarlyQuery
  <1> QED BY <1>1, <1>6, <1>7, EarlyWake

\* After a query in POLL.
LEMMA CasePollQuery2Wake ==
    ASSUME RequestInvariant, WakeCore, CasePollQuery2 PROVE WakeCore'
  <1> DEFINE next == AfterPollQuery(Dequeued)
             x == To(Dequeued, next)
  <1>1. /\ TypeOK /\ request.pending_queries # <<>> /\ running
        /\ State = "POLL_QUERY2" /\ request' = x
        /\ UNCHANGED <<rsl, scripts, submissions, seg_pause_count,
                       restart_callbacks, state_file>>
    BY DEF RequestInvariant, CasePollQuery2, At, QueriesMatchState,
           QueryStates, Becomes
  <1>2. /\ Dequeued \in RequestRecord /\ Alike(request, Dequeued)
        /\ Dequeued.poll_timer = request.poll_timer
    BY <1>1, QueueFacts, DequeuedAlike
  <1>3. next \in {"POLL_QUERY1", "POLL1", "POLL2"} /\ next \in ManagerStates
    BY DEF AfterPollQuery, ManagerStates
  <1> HIDE DEF next
  <1>4. /\ x.jobmanager_state = next /\ Alike(request, x)
        /\ x.poll_timer = request.poll_timer
    BY <1>2, <1>3, ToFacts, MovesAlike, AlikeOn
  <1> HIDE DEF x
  <1>5. /\ State' \in {"POLL_QUERY1", "POLL1", "POLL2"}
        /\ Owed(request) => Owed(request')
        /\ request'.poll_timer = request.poll_timer
    BY <1>1, <1>3, <1>4 DEF State, Owed, Alike, SameCopy
  <1>6. /\ State \notin Over \union {"SUBMIT"}
        /\ State' \notin Over \union EarlyQuery \union {"SUBMIT"}
    BY <1>1, <1>5 DEF Over, EarlyQuery
  <1>7. Good(request, sent) => Good(request', sent')
    BY <1>5, <1>6, OwedGood, GoodOwed DEF State
  <1> QED BY <1>1, <1>5, <1>6, <1>7, PauseKept, LateWake

\* The end of the job is recorded; a failure stays unsent.
LEMMA CasePreCloseWake ==
    ASSUME RequestInvariant, WakeCore, CasePreClose PROVE WakeCore'
  <1> DEFINE saved == IF request.unsent_status_change
                        THEN [request EXCEPT !.restart_state = State]
                        ELSE request
             s     == IF State = "FAILED" THEN "FAILED_CLOSE_OUTPUT"
                                          ELSE "CLOSE_OUTPUT"
             moved == To(saved, s)
             next  == [moved EXCEPT !.pending_queries = <<>>]
             told  == [next EXCEPT !.unsent_status_change = FALSE]
             Same(b) == /\ b.poll_timer = request.poll_timer
                        /\ b.status = request.status
  <1>1. /\ TypeOK /\ request \in RequestRecord /\ State \in ManagerStates
        /\ State \in {"PRE_CLOSE_OUTPUT", "FAILED"} /\ running
    BY DEF RequestInvariant, TypeOK, RequestRecord, State, CasePreClose, At
  <1>2. UNCHANGED <<rsl, scripts, submissions, seg_pause_count>>
    BY DEF CasePreClose
  <1>3. /\ \/ /\ ContactStateCallback(told, FALSE)
              /\ request.status = "STAGE_OUT"
           \/ Becomes(next)
        /\ state_file' = StateFileOf(saved) \/ state_file' = state_file
    BY DEF CasePreClose
  <1>4. /\ saved \in RequestRecord /\ Same(saved)
        /\ saved.unsent_status_change = request.unsent_status_change
    BY <1>1 DEF RequestRecord, State
  <1>5. /\ s \in {"FAILED_CLOSE_OUTPUT", "CLOSE_OUTPUT"} /\ s \in ManagerStates
        /\ s = "FAILED_CLOSE_OUTPUT" => State = "FAILED"
    BY DEF ManagerStates
  <1> HIDE DEF saved, s
  <1>6. /\ moved \in RequestRecord /\ moved.jobmanager_state = s /\ Same(moved)
        /\ moved.unsent_status_change = request.unsent_status_change
    BY <1>4, <1>5, ToFacts, MovesAlike DEF Alike, SameCopy
  <1> HIDE DEF moved
  <1>7. /\ next \in RequestRecord /\ next.jobmanager_state = s /\ Same(next)
        /\ next.unsent_status_change = request.unsent_status_change
    BY <1>6, NoQueriesTyped DEF RequestRecord
  <1> HIDE DEF next
  <1>8. told.jobmanager_state = s /\ Same(told)
    BY <1>7 DEF RequestRecord
  <1> HIDE DEF told
  <1>9. /\ State' = s /\ restart_callbacks' = restart_callbacks
        /\ request'.poll_timer = request.poll_timer
        /\ request'.status = request.status
        /\ \/ request.status = "STAGE_OUT"
           \/ request'.unsent_status_change = request.unsent_status_change
    <2>1. CASE /\ ContactStateCallback(told, FALSE)
               /\ request.status = "STAGE_OUT"
      <3>1. request' = told /\ restart_callbacks' = restart_callbacks
        BY <1>1, <2>1, CallbackQuiet
      <3> QED BY <1>8, <2>1, <3>1 DEF State
    <2>2. CASE Becomes(next)
      BY <1>7, <2>2 DEF Becomes, State
    <2> QED BY <1>3, <2>1, <2>2
  <1>10. /\ State \notin Over \union {"SUBMIT"}
         /\ State' \notin Over \union EarlyQuery \union {"SUBMIT"}
    BY <1>1, <1>5, <1>9 DEF Over, EarlyQuery
  <1>11. state_file' = NoStateFile => state_file = NoStateFile
    BY <1>3, <1>4, FileWritten
  <1>12. Good(request, sent) => Good(request', sent')
    <2> SUFFICES ASSUME Good(request, sent) PROVE Good(request', sent')
      OBVIOUS
    <2>1. /\ Owed(request) /\ (State = "FAILED" => request.status = "FAILED")
      BY <1>10, OwedGood DEF State
    <2>2. /\ Owed(request')
          /\ State' = "FAILED_CLOSE_OUTPUT" => request'.unsent_status_change
          /\ State' \in {"FAILED_CLOSE_OUTPUT", "CLOSE_OUTPUT"}
      BY <1>5, <1>9, <2>1 DEF Owed
    <2> QED BY <1>10, <2>2, GoodOwed DEF State
  <1> QED BY <1>1, <1>2, <1>9, <1>10, <1>11, <1>12, PauseKept, LateWake

\* Stage-out marks the end of the job as unsent before its script starts.
LEMMA CaseCloseOutputWake ==
    ASSUME RequestInvariant, WakeCore, CaseCloseOutput PROVE WakeCore'
  <1> DEFINE a == To(request, "FAILED_CLOSE_OUTPUT")
             b == To(request, "STAGE_OUT")
             c == To(request, "FAILED")
             o == [b EXCEPT !.unsent_status_change = TRUE]
             m == [c EXCEPT !.failure_code = "MALLOC_FAILED"]
  <1>1. /\ TypeOK /\ request \in RequestRecord /\ running
        /\ State = "CLOSE_OUTPUT"
        /\ UNCHANGED <<rsl, submissions, state_file, sent, restart_callbacks,
                       seg_pause_count>>
    BY DEF RequestInvariant, TypeOK, CaseCloseOutput, At, Becomes
  <1>2. \/ /\ request' = a /\ UNCHANGED scripts /\ request.status = "FAILED"
        \/ request' = o /\ UNCHANGED scripts
        \/ /\ request' = o /\ ~running'
           /\ Launch("stage_out", "STAGE_OUT", NoQuery)
        \/ request' = m /\ UNCHANGED scripts /\ OutOfMemory
    BY DEF CaseCloseOutput, ToStageOut, Becomes, Sleep
  <1>3. /\ a.jobmanager_state = "FAILED_CLOSE_OUTPUT" /\ Alike(request, a)
        /\ a.poll_timer = request.poll_timer
        /\ b \in RequestRecord /\ b.jobmanager_state = "STAGE_OUT"
        /\ b.poll_timer = request.poll_timer
        /\ c \in RequestRecord /\ c.jobmanager_state = "FAILED"
        /\ c.poll_timer = request.poll_timer
    BY <1>1, ToFacts, MovesAlike DEF ManagerStates
  <1> HIDE DEF a, b, c
  <1>4. /\ o.jobmanager_state = "STAGE_OUT" /\ o.unsent_status_change
        /\ o.poll_timer = request.poll_timer
    BY <1>3 DEF RequestRecord
  <1>5. m.jobmanager_state = "FAILED" /\ m.poll_timer = request.poll_timer
    BY <1>3 DEF RequestRecord
  <1> HIDE DEF o, m
  <1>6. /\ State' \in {"FAILED_CLOSE_OUTPUT", "STAGE_OUT", "FAILED"}
        /\ request'.poll_timer = request.poll_timer
    BY <1>2, <1>3, <1>4, <1>5 DEF State
  <1>7. /\ State \notin Over \union {"SUBMIT"}
        /\ State' \notin Over \union EarlyQuery \union {"SUBMIT"}
        /\ "stage_out" \in ScriptCmds /\ "STAGE_OUT" \notin Over
        /\ "STAGE_OUT" \in Busy
    BY <1>1, <1>6 DEF Over, EarlyQuery, ScriptCmds, Busy
  <1>8. ~OutOfMemory /\ Good(request, sent) => Good(request', sent')
    <2> SUFFICES ASSUME ~OutOfMemory, Good(request, sent)
                 PROVE  Good(request', sent')
      OBVIOUS
    <2>1. Owed(request)
      BY <1>7, OwedGood DEF State
    <2>2. /\ Owed(request') /\ request'.unsent_status_change
          /\ State' # "FAILED"
      BY <1>2, <1>3, <1>4, <2>1 DEF Owed, Alike, SameCopy, State
    <2> QED BY <1>7, <2>2, GoodOwed DEF State
  <1>9. CASE UNCHANGED scripts
    <2>1. Reliable => ~OutOfMemory
      BY DEF Reliable
    <2> QED BY <1>1, <1>6, <1>7, <1>8, <1>9, <2>1, PauseKept, LateWake
  <1>10. CASE /\ request' = o /\ ~running'
              /\ Launch("stage_out", "STAGE_OUT", NoQuery)
    <2>1. State' = "STAGE_OUT" /\ State' \in Busy \ {"SUBMIT"}
      BY <1>4, <1>7, <1>10 DEF State
    <2>2. Good(request', sent')
      BY <1>4, <1>7, <1>10, <2>1, GoodOwed DEF Owed, State
    <2> QED BY <1>1, <1>6, <1>7, <1>10, <2>1, <2>2, LaunchWake
  <1> QED BY <1>2, <1>9, <1>10

\* The final status is set, copied and sent.
LEMMA CaseFinalStatusWake ==
    ASSUME RequestInvariant, WakeCore, CaseFinalStatus PROVE WakeCore'
  <1> DEFINE r == IF State = "STAGE_OUT" THEN StageOutLeft(request)
                                         ELSE request
             done  == SetStatus(r, "DONE")
             fail  == SetStatus(r, "FAILED")
             final == IF r.jobmanager_state = "STAGE_OUT"
                        THEN To(done, "TWO_PHASE_END")
                        ELSE To(fail, "FAILED_TWO_PHASE")
             told  == [final EXCEPT !.unsent_status_change = FALSE]
             Same(q) == /\ q.unsent_status_change = request.unsent_status_change
                        /\ q.poll_timer = request.poll_timer
  <1>1. /\ TypeOK /\ request \in RequestRecord /\ rsl.two_phase \in BOOLEAN
        /\ State \in {"STAGE_OUT", "FAILED_CLOSE_OUTPUT"} /\ running
    BY ConstantsAssumption DEF RequestInvariant, TypeOK, RSL, CaseFinalStatus, At
  <1>2. UNCHANGED <<rsl, scripts, submissions, state_file, seg_pause_count>>
    BY DEF CaseFinalStatus
  <1>3. \/ /\ ContactStateCallback(told, rsl.two_phase)
           /\ running' = ~rsl.two_phase
        \/ ~final.unsent_status_change /\ Becomes(final)
    BY DEF CaseFinalStatus
  <1>4. r \in RequestRecord /\ Same(r)
    <2> DEFINE x == To(request, "FAILED_CLOSE_OUTPUT")
               y(c) == [x EXCEPT !.failure_code = c]
    <2>1. x \in RequestRecord /\ Same(x)
      BY <1>1, ToFacts, MovesAlike DEF ManagerStates, Alike
    <2>2. \/ r = request
          \/ r = [x EXCEPT !.failure_code =
                    IF @ \in {"SUCCESS", "STAGE_OUT_FAILED"}
                      THEN "OPENING_STDOUT" ELSE @]
          \/ r = [x EXCEPT !.failure_code =
                    IF @ = "SUCCESS" THEN "STAGE_OUT_FAILED" ELSE @]
      BY DEF StageOutLeft
    <2> HIDE DEF x, r
    <2>3. /\ x.failure_code \in FailureCodes
          /\ "OPENING_STDOUT" \in FailureCodes
          /\ "STAGE_OUT_FAILED" \in FailureCodes
      BY <2>1 DEF RequestRecord, FailureCodes
    <2>4. \A c \in FailureCodes : y(c) \in RequestRecord /\ Same(y(c))
      BY <2>1 DEF RequestRecord
    <2>5. r = request \/ \E c \in FailureCodes : r = y(c)
      BY <2>2, <2>3
    <2> HIDE DEF y
    <2> QED BY <1>1, <2>4, <2>5
  <1> HIDE DEF r
  <1>5. /\ done \in RequestRecord /\ CopyRight(done) /\ Same(done)
        /\ fail \in RequestRecord /\ CopyRight(fail) /\ Same(fail)
    <2>1. "DONE" \in JobStates /\ "FAILED" \in JobStates
      BY DEF JobStates
    <2> QED BY <1>4, <2>1, SetStatusFacts, SetStatusCopy DEF CopyRight
  <1> HIDE DEF done, fail
  <1>6. /\ final \in RequestRecord /\ CopyRight(final) /\ Same(final)
        /\ final.jobmanager_state \in {"TWO_PHASE_END", "FAILED_TWO_PHASE"}
    <2>1. "TWO_PHASE_END" \in ManagerStates /\ "FAILED_TWO_PHASE" \in ManagerStates
      BY DEF ManagerStates
    <2> DEFINE x == To(done, "TWO_PHASE_END")
               y == To(fail, "FAILED_TWO_PHASE")
    <2>2. /\ x \in RequestRecord /\ Alike(done, x)
          /\ x.poll_timer = done.poll_timer
          /\ x.jobmanager_state = "TWO_PHASE_END"
          /\ y \in RequestRecord /\ Alike(fail, y)
          /\ y.poll_timer = fail.poll_timer
          /\ y.jobmanager_state = "FAILED_TWO_PHASE"
      BY <1>5, <2>1, ToFacts, MovesAlike
    <2>3. final = x \/ final = y
      OBVIOUS
    <2> HIDE DEF x, y, final
    <2>4. CopyRight(x) /\ Same(x) /\ CopyRight(y) /\ Same(y)
      BY <1>5, <2>2 DEF Alike, SameCopy, CopyRight
    <2> QED BY <2>2, <2>3, <2>4
  <1> HIDE DEF final
  <1>7. /\ told \in RequestRecord /\ CopyRight(told)
        /\ told.poll_timer = request.poll_timer
        /\ told.jobmanager_state = final.jobmanager_state
    BY <1>6 DEF RequestRecord, CopyRight
  <1> HIDE DEF told
  <1>8. /\ Register(told).jobmanager_state = final.jobmanager_state
        /\ Alike(told, Register(told))
    BY <1>7, RegisterFacts, RegisterAlike
  <1>9. /\ \/ request' \in {told, final} /\ request'.poll_timer = request.poll_timer
           \/ request' = Register(told) /\ ~running'
        /\ ~PostFails /\ request.unsent_status_change =>
              /\ request' = told \/ request' = Register(told)
              /\ Recipients(told) = {} \/ told.status \in sent'
    <2>1. told.jobmanager_state # "STOP"
      BY <1>6, <1>7
    <2>2. CASE /\ ContactStateCallback(told, rsl.two_phase)
               /\ running' = ~rsl.two_phase
      BY <1>1, <1>7, <2>1, <2>2 DEF ContactStateCallback
    <2>3. CASE ~final.unsent_status_change /\ Becomes(final)
      BY <1>6, <2>3 DEF Becomes
    <2> QED BY <1>3, <2>2, <2>3
  <1>10. /\ State' \in {"TWO_PHASE_END", "FAILED_TWO_PHASE"}
         /\ CopyRight(request')
    BY <1>6, <1>7, <1>8, <1>9 DEF State, CopyRight, Alike, SameCopy
  <1>11. /\ State \notin Over \union {"SUBMIT"}
         /\ State' \notin EarlyQuery \union {"SUBMIT"} /\ State' \in Over
    BY <1>1, <1>10 DEF Over, EarlyQuery
  <1>12. ~PostFails /\ Good(request, sent) => Good(request', sent')
    <2> SUFFICES ASSUME ~PostFails, Good(request, sent)
                 PROVE  Good(request', sent')
      OBVIOUS
    <2>1. request.unsent_status_change
      BY <1>1, <1>11, OwedGood DEF State
    <2>2. /\ request'.status = told.status
          /\ request'.client_contacts = told.client_contacts
          /\ Recipients(told) = {} \/ told.status \in sent'
      BY <1>8, <1>9, <2>1 DEF Alike, SameCopy
    <2>3. Recipients(request') = Recipients(told)
      BY <2>2 DEF Recipients
    <2> QED BY <1>10, <1>11, <2>2, <2>3 DEF Good, CopyRight, State
  <1>13. Reliable => ~PostFails
    BY DEF Reliable
  <1> QED BY <1>1, <1>2, <1>9, <1>10, <1>11, <1>12, <1>13, PauseKept, LateWake

\* A job that is over stays over, with the same status.
LEMMA OverWake ==
    ASSUME WakeCore, running, State \in Over, State' \in Over,
           UNCHANGED <<rsl, scripts, submissions, seg_pause_count>>,
           restart_callbacks' = restart_callbacks, sent \subseteq sent',
           running' /\ request'.poll_timer => request.poll_timer,
           request.status \in {"DONE", "FAILED"} => Alike(request, request')
    PROVE  WakeCore'
  <1>1. /\ State' \notin EarlyQuery /\ State' # "SUBMIT" /\ State # "SUBMIT"
    BY DEF Over, EarlyQuery
  <1>2. PauseBalanced => PauseBalanced'
    BY <1>1, PauseKept
  <1>3. Coherent => SameCopy(request, request')
    BY DEF Coherent, CopyRight, Alike
  <1>4. Good(request, sent) => Good(request', sent')
    <2> SUFFICES ASSUME Good(request, sent) PROVE Good(request', sent')
      OBVIOUS
    <2>1. request.status \in {"DONE", "FAILED"}
      BY DEF Good, State
    <2> QED BY <2>1, GoodOver DEF Alike, SameCopy, State
  <1> QED BY <1>1, <1>2, <1>3, <1>4, LateWake

\* Waiting for the end commit, going on without it, or stopping.
LEMMA CaseTwoPhaseEndWake ==
    ASSUME RequestInvariant, WakeCore, CaseTwoPhaseEnd PROVE WakeCore'
  <1> DEFINE e == [request EXCEPT !.commit_extend = FALSE]
             n == IF State = "TWO_PHASE_END" THEN "TWO_PHASE_END_COMMITTED"
                                             ELSE "FAILED_TWO_PHASE_COMMITTED"
             m == To(request, n)
             x == To(request, "STOP")
             t == [x EXCEPT !.restart_state = State]
  <1>1. /\ request \in RequestRecord /\ running
        /\ State \in {"TWO_PHASE_END", "FAILED_TWO_PHASE"}
        /\ UNCHANGED <<rsl, scripts, submissions, seg_pause_count, sent,
                       restart_callbacks, state_file>>
    BY DEF RequestInvariant, TypeOK, CaseTwoPhaseEnd, At, Becomes
  <1>2. request' \in {m, t} \/ (request' = Register(e) /\ ~running')
    BY DEF CaseTwoPhaseEnd, Becomes, Sleep
  <1>3. e \in RequestRecord /\ e.jobmanager_state = State /\ Alike(request, e)
    BY <1>1 DEF RequestRecord, State, Alike, SameCopy
  <1> HIDE DEF e
  <1>4. Register(e).jobmanager_state = State /\ Alike(request, Register(e))
    BY <1>3, RegisterFacts, RegisterAlike, AlikeOn
  <1>5. n \in ManagerStates /\ "STOP" \in ManagerStates
        /\ n \in Over /\ "STOP" \in Over /\ State \in Over
    BY <1>1 DEF ManagerStates, Over
  <1> HIDE DEF n
  <1>6. /\ m.jobmanager_state = n /\ Alike(request, m)
        /\ m.poll_timer = request.poll_timer
    BY <1>1, <1>5, ToFacts, MovesAlike
  <1>7. /\ x \in RequestRecord /\ x.jobmanager_state = "STOP"
        /\ Alike(request, x) /\ x.poll_timer = request.poll_timer
    BY <1>1, <1>5, ToFacts, MovesAlike
  <1> HIDE DEF x, m
  <1>8. /\ t.jobmanager_state = "STOP" /\ Alike(request, t)
        /\ t.poll_timer = request.poll_timer
    BY <1>7 DEF RequestRecord, Alike, SameCopy
  <1> HIDE DEF t
  <1>9. /\ State' \in Over /\ Alike(request, request')
        /\ running' /\ request'.poll_timer => request.poll_timer
    BY <1>2, <1>4, <1>5, <1>6, <1>8 DEF State
  <1> QED BY <1>1, <1>5, <1>9, OverWake

\* The clean-up states follow one another in the loop.
LEMMA CaseCleanUpWake ==
    ASSUME RequestInvariant, WakeCore, CaseCleanUp PROVE WakeCore'
  <1> DEFINE n == IF State = "FILE_CLEAN_UP" /\ request.status = "FAILED"
                    THEN "FAILED_SCRATCH_CLEAN_UP" ELSE CleanUpNext[State]
             x == To(request, n)
  <1>1. /\ request \in RequestRecord /\ State \in DOMAIN CleanUpNext
        /\ request' = x /\ running
        /\ UNCHANGED <<rsl, scripts, submissions, seg_pause_count, sent,
                       restart_callbacks, state_file>>
    BY DEF RequestInvariant, TypeOK, CaseCleanUp, At, Becomes
  <1>2. n \in {"FILE_CLEAN_UP", "FAILED_FILE_CLEAN_UP", "SCRATCH_CLEAN_UP",
               "FAILED_SCRATCH_CLEAN_UP", "CACHE_CLEAN_UP",
               "FAILED_CACHE_CLEAN_UP"}
    BY <1>1 DEF CleanUpNext
  <1> HIDE DEF n
  <1>3. n \in ManagerStates /\ n \in Over
    BY <1>2 DEF ManagerStates, Over
  <1>4. /\ x.jobmanager_state = n /\ Alike(request, x)
        /\ x.poll_timer = request.poll_timer
    BY <1>1, <1>3, ToFacts, MovesAlike
  <1> HIDE DEF x
  <1>5. /\ State \in Over /\ State' \in Over /\ Alike(request, request')
        /\ request'.poll_timer = request.poll_timer
    BY <1>1, <1>3, <1>4 DEF State, CleanUpNext, Over
  <1> QED BY <1>1, <1>5, OverWake

\* The last clean-up removes the state file.
LEMMA CaseCacheCleanUpWake ==
    ASSUME RequestInvariant, WakeCore, CaseCacheCleanUp PROVE WakeCore'
  <1> DEFINE n == IF State = "CACHE_CLEAN_UP" THEN "DONE" ELSE "FAILED_DONE"
             x == To(request, n)
             r == [x EXCEPT !.pending_queries = <<>>]
  <1>1. /\ request \in RequestRecord /\ request' = r /\ running
        /\ State \in {"CACHE_CLEAN_UP", "FAILED_CACHE_CLEAN_UP"}
        /\ UNCHANGED <<rsl, scripts, submissions, seg_pause_count, sent,
                       restart_callbacks>>
    BY DEF RequestInvariant, TypeOK, CaseCacheCleanUp, At, Becomes
  <1>2. n \in Over /\ n \in ManagerStates /\ State \in Over
    BY <1>1 DEF ManagerStates, Over
  <1> HIDE DEF n
  <1>3. /\ x \in RequestRecord /\ x.jobmanager_state = n /\ Alike(request, x)
        /\ x.poll_timer = request.poll_timer
    BY <1>1, <1>2, ToFacts, MovesAlike
  <1> HIDE DEF x
  <1>4. /\ r.jobmanager_state = n /\ Alike(request, r)
        /\ r.poll_timer = request.poll_timer
    BY <1>3, NoQueriesTyped DEF RequestRecord, Alike, SameCopy
  <1> HIDE DEF r
  <1>5. /\ State' \in Over /\ Alike(request, request')
        /\ request'.poll_timer = request.poll_timer
    BY <1>1, <1>2, <1>4 DEF State
  <1> QED BY <1>1, <1>2, <1>5, OverWake

\* DONE and FAILED_DONE handle the events left over: they change no final
\* status.
LEMMA CaseDoneWake ==
    ASSUME RequestInvariant, WakeCore, CaseDone PROVE WakeCore'
  <1> DEFINE r == [request EXCEPT !.restart_state = State,
                                  !.pending_queries = <<>>]
  <1>1. /\ request \in RequestRecord /\ State \in ManagerStates /\ running
        /\ State \in {"DONE", "FAILED_DONE"}
        /\ UNCHANGED <<rsl, scripts, submissions, seg_pause_count, sent,
                       restart_callbacks>>
    BY DEF RequestInvariant, TypeOK, CaseDone, At, RequestRecord, State, Becomes
  <1>2. \/ r.seg_event_queue # <<>> /\ request' = HandleEvent(r)
        \/ request' = r
    BY DEF CaseDone, Becomes
  <1>3. /\ r \in RequestRecord /\ r.jobmanager_state = State
        /\ Alike(request, r) /\ r.poll_timer = request.poll_timer
    BY <1>1, NoQueriesTyped DEF RequestRecord, State, Alike, SameCopy
  <1>4. r.status = request.status
    BY <1>3 DEF Alike, SameCopy
  <1> HIDE DEF r
  <1>5. /\ State' = State /\ request'.poll_timer = request.poll_timer
        /\ request.status \in {"DONE", "FAILED"} => Alike(request, request')
    BY <1>2, <1>3, <1>4, HandleEventFacts, HandleEventOwed, AlikeOn DEF State
  <1>6. State \in Over /\ State' \in Over
    BY <1>1, <1>5 DEF Over
  <1> QED BY <1>1, <1>5, <1>6, OverWake

\* STOP tells the contacts.
LEMMA CaseStopWake ==
    ASSUME RequestInvariant, WakeCore, CaseStop PROVE WakeCore'
  <1>1. /\ TypeOK /\ request \in RequestRecord /\ State = "STOP" /\ running
        /\ ContactStateCallback(request, FALSE)
        /\ UNCHANGED <<rsl, scripts, submissions, seg_pause_count>>
    BY DEF RequestInvariant, TypeOK, CaseStop, At
  <1>2. /\ request' = request /\ restart_callbacks' = restart_callbacks
        /\ sent \subseteq sent'
    BY <1>1, CallbackQuiet
  <1>3. /\ State \in Over /\ State' \in Over /\ Alike(request, request')
    BY <1>1, <1>2 DEF Over, State, Alike, SameCopy
  <1> QED BY <1>1, <1>2, <1>3, OverWake

\* Every case of the state machine keeps it.
LEMMA StateMachineWake ==
    ASSUME RequestInvariant, JobCore, WakeCore, StateMachine PROVE WakeCore'
  BY CaseStartWake, CaseTwoPhaseWake, CaseTwoPhaseCommittedWake,
     CaseStageInWake, CaseSubmitWake, CasePoll1Wake, CasePoll2Wake,
     CaseQuery1Wake, CaseTwoPhaseQuery2Wake, CasePollQuery2Wake,
     CasePreCloseWake, CaseCloseOutputWake, CaseFinalStatusWake,
     CaseTwoPhaseEndWake, CaseCleanUpWake, CaseCacheCleanUpWake, CaseDoneWake,
     CaseStopWake DEF StateMachine

-----------------------------------------------------------------------------
(* The client keeps it                                                      *)

\* A step outside the loop that touches no script and no callback.
LEMMA StepWake ==
    ASSUME TypeOK, WakeCore, ~running, ~running',
           UNCHANGED <<rsl, scripts, submissions, seg_pause_count,
                       restart_callbacks>>,
           State' = "SUBMIT" <=> State = "SUBMIT",
           State \in Over <=> State' \in Over,
           State \in Over => SameCopy(request, request'),
           Plain /\ Separate /\ OneWaker =>
              \/ /\ State' = State
                 /\ request'.poll_timer = request.poll_timer
                 /\ request.pending_queries # <<>> =>
                       /\ request'.pending_queries # <<>>
                       /\ Head(request'.pending_queries) =
                             Head(request.pending_queries)
              \/ /\ State \notin Busy
                 /\ Signals \cap ClientOps = {} => State' \notin EarlyQuery,
           state_file' = NoStateFile => state_file = NoStateFile,
           Reliable /\ Submitted /\ Good(request, sent) => Good(request', sent')
    PROVE  WakeCore'
  <1>1. /\ scripts \in Seq(Scripts) /\ restart_callbacks \in Nat /\ ScriptsKept
    BY SameScripts DEF TypeOK
  <1>2. Plain /\ Separate /\ OneWaker =>
              /\ scripts # <<>> => request'.poll_timer = request.poll_timer
              /\ State \in Busy => State' \in Busy
              /\ State \in {"POLL_QUERY2", "TWO_PHASE_QUERY2"}
                 /\ scripts # <<>> =>
                    /\ State' = State
                    /\ request.pending_queries # <<>> =>
                          /\ request'.pending_queries # <<>>
                          /\ Head(request'.pending_queries) =
                                Head(request.pending_queries)
              /\ Signals \cap ClientOps = {} /\ State' \in EarlyQuery =>
                    State \in EarlyQuery
    <2> SUFFICES ASSUME Plain, Separate, OneWaker
                 PROVE  /\ scripts # <<>> =>
                              request'.poll_timer = request.poll_timer
                        /\ State \in Busy => State' \in Busy
                        /\ State \in {"POLL_QUERY2", "TWO_PHASE_QUERY2"}
                           /\ scripts # <<>> =>
                              /\ State' = State
                              /\ request.pending_queries # <<>> =>
                                    /\ request'.pending_queries # <<>>
                                    /\ Head(request'.pending_queries) =
                                          Head(request.pending_queries)
                        /\ Signals \cap ClientOps = {} /\ State' \in EarlyQuery
                              => State \in EarlyQuery
      OBVIOUS
    <2>1. scripts # <<>> => State \in Busy
      BY DEF OneWaker
    <2> QED BY <2>1
  <1> QED BY <1>1, <1>2, StillWake

\* A queued query goes behind the others and changes nothing else.
LEMMA EnqueueAlike ==
    ASSUME TypeOK, NEW kind \in QueryKinds
    PROVE  /\ Alike(request, Enqueue(kind))
           /\ request.pending_queries # <<>> =>
                 Head(Enqueue(kind).pending_queries) =
                    Head(request.pending_queries)
  <1> DEFINE n == [id |-> NextId, kind |-> kind]
             q == Append(request.pending_queries, n)
  <1>1. /\ request \in RequestRecord
        /\ request.pending_queries \in Seq(Queries)
    BY DEF TypeOK, RequestRecord
  <1>2. Enqueue(kind) = [request EXCEPT !.pending_queries = q]
    BY DEF Enqueue
  <1>3. request.pending_queries # <<>> => Head(q) = Head(request.pending_queries)
    <2> HIDE DEF n
    <2> QED BY <1>1
  <1> HIDE DEF q
  <1> QED BY <1>1, <1>2, <1>3 DEF RequestRecord, Alike, SameCopy

\* The handlers for a queued query.
LEMMA QueryWake ==
    ASSUME RequestInvariant, WakeCore, NEW kind \in QueryKinds,
           State \in QueryValid, ~running, ~running',
           UNCHANGED <<rsl, scripts, submissions, seg_pause_count,
                       restart_callbacks, sent, state_file>>,
           \/ /\ State = "POLL2"
              /\ request' = Register(To(Enqueue(kind), "POLL_QUERY1"))
           \/ /\ State = "TWO_PHASE" /\ Signals \cap ClientOps # {}
              /\ request' = Register(To(Enqueue(kind), "TWO_PHASE_QUERY1"))
           \/ request' = Enqueue(kind)
    PROVE  WakeCore'
  <1>1. TypeOK /\ request \in RequestRecord
    BY DEF RequestInvariant, TypeOK
  <1>2. /\ Enqueue(kind) \in RequestRecord
        /\ Enqueue(kind).jobmanager_state = State
        /\ Enqueue(kind).poll_timer = request.poll_timer
        /\ Alike(request, Enqueue(kind))
        /\ Enqueue(kind).pending_queries # <<>>
    BY <1>1, EnqueueFacts, EnqueueAlike
  <1>3. "POLL_QUERY1" \in ManagerStates /\ "TWO_PHASE_QUERY1" \in ManagerStates
    BY DEF ManagerStates
  <1> DEFINE p == To(Enqueue(kind), "POLL_QUERY1")
             t == To(Enqueue(kind), "TWO_PHASE_QUERY1")
  <1>4. /\ p \in RequestRecord /\ p.jobmanager_state = "POLL_QUERY1"
        /\ Alike(request, p)
        /\ t \in RequestRecord /\ t.jobmanager_state = "TWO_PHASE_QUERY1"
        /\ Alike(request, t)
    BY <1>2, <1>3, ToFacts, MovesAlike, AlikeOn
  <1>5. \/ State = "POLL2" /\ request' = Register(p)
        \/ /\ State = "TWO_PHASE" /\ Signals \cap ClientOps # {}
           /\ request' = Register(t)
        \/ request' = Enqueue(kind)
    OBVIOUS
  <1> HIDE DEF p, t
  <1>6. /\ Register(p).jobmanager_state = "POLL_QUERY1"
        /\ Alike(request, Register(p))
        /\ Register(t).jobmanager_state = "TWO_PHASE_QUERY1"
        /\ Alike(request, Register(t))
    BY <1>4, RegisterFacts, RegisterAlike, AlikeOn
  <1>7. /\ Alike(request, request')
        /\ \/ State = "POLL2" /\ State' = "POLL_QUERY1"
           \/ /\ State = "TWO_PHASE" /\ State' = "TWO_PHASE_QUERY1"
              /\ Signals \cap ClientOps # {}
           \/ State' = State /\ request' = Enqueue(kind)
    BY <1>2, <1>5, <1>6 DEF State
  <1>8. /\ State \notin Over
        /\ State \notin {"FAILED_CLOSE_OUTPUT", "STAGE_OUT", "FAILED"}
    BY DEF QueryValid, Over
  <1>9. /\ State' \notin Over
        /\ State' \notin {"FAILED_CLOSE_OUTPUT", "STAGE_OUT", "FAILED"}
        /\ State' = "SUBMIT" <=> State = "SUBMIT"
    BY <1>7, <1>8 DEF Over
  <1>10. Good(request, sent) => Good(request', sent')
    <2>1. Owed(request) => Owed(request')
      BY <1>7 DEF Owed, Alike, SameCopy
    <2> QED BY <1>8, <1>9, <2>1, OwedGood, GoodOwed DEF State
  <1>11. \/ /\ State' = State
            /\ request'.poll_timer = request.poll_timer
            /\ request.pending_queries # <<>> =>
                  /\ request'.pending_queries # <<>>
                  /\ Head(request'.pending_queries) =
                        Head(request.pending_queries)
         \/ /\ State \notin Busy
            /\ Signals \cap ClientOps = {} => State' \notin EarlyQuery
    BY <1>1, <1>2, <1>7, EnqueueAlike DEF Busy, EarlyQuery
  <1> QED BY <1>1, <1>8, <1>9, <1>10, <1>11, StepWake

\* cancel()
LEMMA CancelWake ==
    ASSUME RequestInvariant, JobCore, WakeCore, Cancel PROVE WakeCore'
  <1>1. /\ TypeOK /\ request \in RequestRecord /\ ~running /\ ~running'
        /\ UNCHANGED <<rsl, scripts, submissions, seg_pause_count,
                       restart_callbacks, sent, state_file>>
    BY DEF RequestInvariant, TypeOK, Cancel, MayAsk
  <1> DEFINE x == To(request, "FAILED")
             y == SetStatus(x, "FAILED")
             z == [y EXCEPT !.failure_code = "USER_CANCELLED"]
             t == [z EXCEPT !.unsent_status_change = TRUE]
  <1>2. \/ /\ request' = z \/ request' = t
           /\ State \in {"START"} \union CancelAtOnce
        \/ /\ State \in {"SUBMIT", "POLL1", "POLL2", "POLL_QUERY1",
                         "POLL_QUERY2"}
           /\ request' = IF State = "POLL2"
                           THEN Register(To(Enqueue("cancel"), "POLL_QUERY1"))
                           ELSE Enqueue("cancel")
    BY DEF Cancel, Cancelled
  <1>3. CASE /\ request' = z \/ request' = t
             /\ State \in {"START"} \union CancelAtOnce
    <2>1. "FAILED" \in ManagerStates /\ "FAILED" \in JobStates
      BY DEF ManagerStates, JobStates
    <2>2. /\ x \in RequestRecord /\ x.jobmanager_state = "FAILED"
          /\ x.poll_timer = request.poll_timer
      BY <1>1, <2>1, ToFacts, MovesAlike
    <2> HIDE DEF x
    <2>3. /\ y \in RequestRecord /\ y.jobmanager_state = "FAILED"
          /\ y.poll_timer = request.poll_timer
      BY <2>1, <2>2, SetStatusFacts, SetStatusCopy
    <2> HIDE DEF y
    <2>4. /\ z \in RequestRecord /\ z.jobmanager_state = "FAILED"
          /\ z.poll_timer = request.poll_timer
      BY <2>3 DEF RequestRecord, FailureCodes
    <2> HIDE DEF z
    <2>5. t.jobmanager_state = "FAILED" /\ t.poll_timer = request.poll_timer
      BY <2>4 DEF RequestRecord
    <2> HIDE DEF t
    <2>6. State' = "FAILED" /\ request'.poll_timer = request.poll_timer
      BY <1>3, <2>4, <2>5 DEF State
    <2>7. /\ State \in PreSubmit /\ State \notin Over \union {"SUBMIT"}
          /\ State' \notin Over \union EarlyQuery \union {"SUBMIT"}
          /\ State' \in Busy
          /\ State \notin {"POLL_QUERY2", "TWO_PHASE_QUERY2"}
      BY <1>3, <2>6 DEF CancelAtOnce, PreSubmit, Over, EarlyQuery, Busy
    <2>8. ~Submitted /\ ScriptsKept /\ scripts \in Seq(Scripts)
          /\ restart_callbacks \in Nat
      BY <1>1, <2>7, NotSubmitted, SameScripts DEF TypeOK
    <2> QED BY <1>1, <2>6, <2>7, <2>8, StillWake
  <1>4. CASE /\ State \in {"SUBMIT", "POLL1", "POLL2", "POLL_QUERY1",
                           "POLL_QUERY2"}
             /\ request' = IF State = "POLL2"
                             THEN Register(To(Enqueue("cancel"), "POLL_QUERY1"))
                             ELSE Enqueue("cancel")
    <2>1. "cancel" \in QueryKinds /\ State \in QueryValid
      BY <1>4 DEF QueryKinds, QueryValid
    <2>2. \/ /\ State = "POLL2"
             /\ request' = Register(To(Enqueue("cancel"), "POLL_QUERY1"))
          \/ request' = Enqueue("cancel")
      BY <1>4
    <2> QED BY <1>1, <2>1, <2>2, QueryWake
  <1> QED BY <1>2, <1>3, <1>4

\* signal()
LEMMA SignalWake ==
    ASSUME RequestInvariant, WakeCore, NEW kind \in Signals, Signal(kind)
    PROVE  WakeCore'
  <1>1. /\ State \in QueryValid /\ kind \in QueryKinds /\ ~running /\ ~running'
        /\ Signals \cap ClientOps # {}
        /\ UNCHANGED <<rsl, scripts, submissions, seg_pause_count,
                       restart_callbacks, sent, state_file>>
    BY DEF Signal, Signals, MayAsk
  <1>2. \/ /\ State = "POLL2"
           /\ request' = Register(To(Enqueue(kind), "POLL_QUERY1"))
        \/ /\ State = "TWO_PHASE"
           /\ request' = Register(To(Enqueue(kind), "TWO_PHASE_QUERY1"))
        \/ request' = Enqueue(kind)
    BY DEF Signal
  <1> QED BY <1>1, <1>2, QueryWake

\* COMMIT_REQUEST does not come while a signal is worked on.
LEMMA CommitRequestWake ==
    ASSUME RequestInvariant, JobCore, WakeCore, CommitRequest PROVE WakeCore'
  <1> DEFINE x == To(request, "TWO_PHASE_COMMITTED")
  <1>1. /\ TypeOK /\ request \in RequestRecord /\ request' = Register(x)
        /\ State \in {"START", "TWO_PHASE", "TWO_PHASE_QUERY1",
                      "TWO_PHASE_QUERY2"}
        /\ ~running /\ ~running' /\ "commit_request" \in ClientOps
        /\ UNCHANGED <<rsl, scripts, submissions, seg_pause_count,
                       restart_callbacks, sent, state_file>>
    BY DEF RequestInvariant, TypeOK, CommitRequest, MayAsk
  <1>2. x \in RequestRecord /\ x.jobmanager_state = "TWO_PHASE_COMMITTED"
    BY <1>1, ToFacts DEF ManagerStates
  <1> HIDE DEF x
  <1>3. State' = "TWO_PHASE_COMMITTED"
    BY <1>1, <1>2, RegisterFacts DEF State
  <1>4. /\ State \in PreSubmit /\ State \notin Over \union {"SUBMIT"}
        /\ State' \notin Over \union EarlyQuery \union {"SUBMIT"}
        /\ State \notin EarlyQuery => State \notin Busy
    BY <1>1, <1>3 DEF PreSubmit, Over, EarlyQuery, Busy
  <1>5. Separate /\ OneWaker => State \notin EarlyQuery
    BY <1>1 DEF Separate, OneWaker
  <1>6. ~Submitted
    BY <1>4, NotSubmitted
  <1> QED BY <1>1, <1>4, <1>5, <1>6, StepWake

\* COMMIT_END goes on to the clean-up; no script runs any more.
LEMMA CommitEndAlike ==
    ASSUME NEW r \in RequestRecord
    PROVE  Alike(r, CommitEndFrom(r))
  <1> DEFINE s == IF r.jobmanager_state = "FAILED_TWO_PHASE"
                    THEN "FAILED_TWO_PHASE_COMMITTED"
                    ELSE "TWO_PHASE_END_COMMITTED"
             x == To(r, s)
  <1>1. s \in ManagerStates /\ CommitEndFrom(r) = Register(x)
    BY DEF CommitEndFrom, ManagerStates
  <1> HIDE DEF s
  <1>2. x \in RequestRecord /\ Alike(r, x)
    BY <1>1, ToFacts, MovesAlike
  <1> HIDE DEF x
  <1> QED BY <1>1, <1>2, RegisterAlike, AlikeOn

\* The end commit of a job that is over, perhaps with fewer contacts.
LEMMA EndWake ==
    ASSUME TypeOK, WakeCore, ~running, ~running', NEW r \in RequestRecord,
           State \in Over, request' = CommitEndFrom(r), SameCopy(request, r),
           r.client_contacts \subseteq request.client_contacts,
           UNCHANGED <<rsl, scripts, submissions, seg_pause_count,
                       restart_callbacks, sent, state_file>>
    PROVE  WakeCore'
  <1>1. /\ Alike(r, request')
        /\ State' \in {"FAILED_TWO_PHASE_COMMITTED", "TWO_PHASE_END_COMMITTED"}
    BY CommitEndAlike, CommitEndFacts DEF State
  <1>2. /\ SameCopy(request, request')
        /\ request'.client_contacts \subseteq request.client_contacts
    BY <1>1 DEF Alike, SameCopy
  <1>3. /\ State' \in Over /\ State \notin Busy \union {"SUBMIT"}
        /\ State' \notin EarlyQuery \union {"SUBMIT"}
    BY <1>1 DEF Over, Busy, EarlyQuery
  <1>4. Good(request, sent) => Good(request', sent')
    BY <1>2, <1>3, GoodOver DEF SameCopy, State
  <1> QED BY <1>2, <1>3, <1>4, StepWake

\* COMMIT_END
LEMMA CommitEndWake ==
    ASSUME RequestInvariant, WakeCore, CommitEnd PROVE WakeCore'
  <1>1. /\ TypeOK /\ request \in RequestRecord /\ ~running /\ ~running'
        /\ request' = CommitEndFrom(request)
        /\ UNCHANGED <<rsl, scripts, submissions, seg_pause_count,
                       restart_callbacks, sent, state_file>>
    BY DEF RequestInvariant, TypeOK, CommitEnd, MayAsk
  <1>2. State \in Over
    BY DEF CommitEnd, Over
  <1> QED BY <1>1, <1>2, EndWake DEF SameCopy

\* A step outside the loop that keeps the state, the status and the queue.
LEMMA SameWake ==
    ASSUME TypeOK, WakeCore, ~running, ~running',
           State' = State, Alike(request, request'),
           request'.poll_timer = request.poll_timer,
           request'.pending_queries = request.pending_queries,
           UNCHANGED <<rsl, scripts, submissions, seg_pause_count,
                       restart_callbacks, sent>>,
           state_file' = NoStateFile => state_file = NoStateFile
    PROVE  WakeCore'
  <1>1. Good(request, sent) => Good(request', sent')
    BY GoodAlike DEF Alike, SameCopy, State
  <1> QED BY <1>1, StepWake DEF Alike

\* COMMIT_EXTEND only sets a mark.
LEMMA CommitExtendWake ==
    ASSUME RequestInvariant, WakeCore, CommitExtend PROVE WakeCore'
  <1>1. /\ TypeOK /\ request \in RequestRecord /\ ~running /\ ~running'
        /\ request' = [request EXCEPT !.commit_extend = TRUE]
        /\ UNCHANGED <<rsl, scripts, submissions, seg_pause_count,
                       restart_callbacks, sent, state_file>>
    BY DEF RequestInvariant, TypeOK, CommitExtend, MayAsk
  <1>2. /\ Alike(request, request') /\ State' = State
        /\ request'.poll_timer = request.poll_timer
        /\ request'.pending_queries = request.pending_queries
    BY <1>1 DEF RequestRecord, State, Alike, SameCopy
  <1> QED BY <1>1, <1>2, SameWake

\* STDIO_UPDATE lists the files again and writes the state file.
LEMMA StdioUpdateWake ==
    ASSUME RequestInvariant, WakeCore, StdioUpdate PROVE WakeCore'
  <1>1. /\ TypeOK /\ request \in RequestRecord /\ ~running /\ ~running'
        /\ request' = StdioUpdated(request)
        /\ state_file' = StateFileOf(request')
        /\ UNCHANGED <<rsl, scripts, submissions, seg_pause_count,
                       restart_callbacks, sent>>
    BY DEF RequestInvariant, TypeOK, StdioUpdate, MayAsk
  <1> DEFINE i == rsl.stage_in /\ ~request.jm_restart
             o == rsl.stage_out /\ ~request.jm_restart
             t == rsl.stream /\ ~request.jm_restart
  <1>2. i \in BOOLEAN /\ o \in BOOLEAN /\ t \in BOOLEAN
    OBVIOUS
  <1>3. request' = [request EXCEPT !.stage_in_todo = i,
                                   !.stage_out_todo = o,
                                   !.stage_stream_todo = t]
    BY <1>1 DEF StdioUpdated
  <1> HIDE DEF i, o, t
  <1>4. /\ request' \in RequestRecord
        /\ Alike(request, request') /\ State' = State
        /\ request'.poll_timer = request.poll_timer
        /\ request'.pending_queries = request.pending_queries
    BY <1>1, <1>2, <1>3 DEF RequestRecord, State, Alike, SameCopy
  <1>5. state_file' # NoStateFile
    BY <1>1, <1>4, FileWritten
  <1> QED BY <1>1, <1>4, <1>5, SameWake

\* A contact comes: not where Reliable is assumed.
LEMMA RegisterContactWake ==
    ASSUME RequestInvariant, WakeCore, NEW c \in Contacts, RegisterContact(c)
    PROVE  WakeCore'
  <1>1. /\ TypeOK /\ request \in RequestRecord /\ ~running /\ ~running'
        /\ request' = [request EXCEPT !.client_contacts = @ \union {c}]
        /\ UNCHANGED <<rsl, scripts, submissions, seg_pause_count,
                       restart_callbacks, sent, state_file>>
    BY DEF RequestInvariant, TypeOK, RegisterContact, MayAsk
  <1>2. /\ SameCopy(request, request') /\ State' = State
        /\ request'.poll_timer = request.poll_timer
        /\ request'.pending_queries = request.pending_queries
    BY <1>1 DEF RequestRecord, State, SameCopy
  <1>3. ~Reliable
    BY DEF Reliable, RegisterContact, MayAsk
  <1> QED BY <1>1, <1>2, <1>3, StepWake

\* A contact leaves; the last one may stand for the end commit.
LEMMA UnregisterContactWake ==
    ASSUME RequestInvariant, WakeCore, NEW c \in Contacts, UnregisterContact(c)
    PROVE  WakeCore'
  <1> DEFINE r == [request EXCEPT !.client_contacts = @ \ {c}]
  <1>1. /\ TypeOK /\ request \in RequestRecord /\ ~running /\ ~running'
        /\ \/ request' = CommitEndFrom(r) /\ State = "TWO_PHASE_END"
           \/ request' = r
        /\ UNCHANGED <<rsl, scripts, submissions, seg_pause_count,
                       restart_callbacks, sent, state_file>>
    BY DEF RequestInvariant, TypeOK, UnregisterContact, MayAsk
  <1>2. /\ r \in RequestRecord /\ r.jobmanager_state = State
        /\ r.pending_queries = request.pending_queries
        /\ r.poll_timer = request.poll_timer
        /\ SameCopy(request, r)
        /\ r.unsent_status_change = request.unsent_status_change
        /\ r.client_contacts \subseteq request.client_contacts
    BY <1>1 DEF RequestRecord, State, SameCopy
  <1> HIDE DEF r
  <1>3. CASE request' = r
    <2>1. State' = State
      BY <1>2, <1>3 DEF State
    <2>2. Good(request, sent) => Good(request', sent')
      BY <1>1, <1>2, <1>3, GoodAlike DEF SameCopy, State
    <2> QED BY <1>1, <1>2, <1>3, <2>1, <2>2, StepWake
  <1>4. CASE request' = CommitEndFrom(r) /\ State = "TWO_PHASE_END"
    <2>1. State \in Over
      BY <1>4 DEF Over
    <2> QED BY <1>1, <1>2, <1>4, <2>1, EndWake
  <1> QED BY <1>1, <1>3, <1>4

\* Every query and signal of the client keeps it.
LEMMA ClientWake ==
    ASSUME RequestInvariant, JobCore, WakeCore, Client PROVE WakeCore'
  <1>1. CASE StopManager
    <2>1. ~Plain /\ ~Reliable
      BY <1>1 DEF StopManager, MayAsk, Plain, Reliable
    <2> QED BY <2>1 DEF WakeCore
  <1> QED BY <1>1, CancelWake, SignalWake, CommitRequestWake, CommitEndWake,
             CommitExtendWake, StdioUpdateWake, RegisterContactWake,
             UnregisterContactWake DEF Client

-----------------------------------------------------------------------------
(* Scripts, scheduler events and replies keep it                            *)

\* A script that says something stays the script it is.
LEMMA SaidSame ==
    ASSUME TypeOK, NEW i \in DOMAIN scripts, NEW var \in ScriptVars,
           Said(i, var)
    PROVE  /\ scripts' \in Seq(Scripts) /\ DOMAIN scripts' = DOMAIN scripts
           /\ \A k \in DOMAIN scripts : /\ scripts'[k].query = scripts[k].query
                                        /\ scripts'[k].start = scripts[k].start
           /\ ScriptsKept /\ scripts # <<>>
  <1> DEFINE new == [scripts[i] EXCEPT !.said = @ \union {var}]
  <1>1. scripts \in Seq(Scripts) /\ scripts[i] \in Scripts /\ scripts # <<>>
    BY DEF TypeOK
  <1>2. new.query = scripts[i].query /\ new.start = scripts[i].start
    BY <1>1 DEF Scripts
  <1>3. scripts' = [scripts EXCEPT ![i] = new]
    BY DEF Said
  <1> HIDE DEF new
  <1>4. \A k \in DOMAIN scripts : /\ scripts'[k].query = scripts[k].query
                                  /\ scripts'[k].start = scripts[k].start
    BY <1>1, <1>2, <1>3
  <1> QED BY <1>1, <1>4, SaidFacts, ScriptSaid

\* A variable of a script's output: the state and the queue stay.
LEMMA SayWake ==
    ASSUME TypeOK, WakeCore, ~running, ~running', NEW i \in DOMAIN scripts,
           NEW var \in ScriptVars, Said(i, var), State' = State,
           request'.poll_timer = request.poll_timer,
           request'.pending_queries = request.pending_queries,
           UNCHANGED <<rsl, submissions, seg_pause_count, restart_callbacks>>,
           state_file' = NoStateFile => state_file = NoStateFile,
           Submitted /\ Good(request, sent) /\ scripts[i].start \notin Over
              => Good(request', sent')
    PROVE  WakeCore'
  <1>1. /\ scripts' \in Seq(Scripts) /\ DOMAIN scripts' = DOMAIN scripts
        /\ \A k \in DOMAIN scripts : /\ scripts'[k].query = scripts[k].query
                                     /\ scripts'[k].start = scripts[k].start
        /\ ScriptsKept /\ scripts # <<>>
    BY SaidSame
  <1>2. OneWaker => State \notin Over
    BY <1>1 DEF OneWaker, Busy, Over
  <1>3. restart_callbacks' \in Nat /\ restart_callbacks' <= restart_callbacks
    BY DEF TypeOK
  <1> QED BY <1>1, <1>2, <1>3, StillWake

\* A reported status is good news or unsent.
LEMMA GoodReport ==
    ASSUME NEW r, NEW q, NEW told, Good(r, told),
           q.jobmanager_state = r.jobmanager_state,
           Owed(r) => Owed(q),
           r.unsent_status_change => q.unsent_status_change,
           r.status \in {"DONE", "FAILED"} => q = r
    PROVE  Good(q, told)
  <1>1. CASE r.status \in {"DONE", "FAILED"}
    BY <1>1
  <1>2. CASE r.status \notin {"DONE", "FAILED"}
    <2>1. r.jobmanager_state \notin Over /\ r.jobmanager_state # "FAILED"
      BY <1>2 DEF Good
    <2> QED BY <2>1, OwedGood, GoodOwed
  <1> QED BY <1>1, <1>2

\* The job id is noted.
LEMMA ScriptJobIdWake ==
    ASSUME RequestInvariant, WakeCore, NEW i \in DOMAIN scripts, ScriptJobId(i)
    PROVE  WakeCore'
  <1>1. /\ TypeOK /\ request \in RequestRecord /\ ~running /\ ~running'
        /\ Said(i, "JOB_ID") /\ "JOB_ID" \in ScriptVars
        /\ request' = [request EXCEPT !.job_id_string = "set"]
        /\ UNCHANGED <<rsl, submissions, seg_pause_count, restart_callbacks,
                       sent, state_file>>
    BY DEF RequestInvariant, TypeOK, ScriptJobId, ScriptVars, MaySay
  <1>2. /\ Alike(request, request') /\ State' = State
        /\ request'.poll_timer = request.poll_timer
        /\ request'.pending_queries = request.pending_queries
    BY <1>1 DEF RequestRecord, State, Alike, SameCopy
  <1>3. Good(request, sent) => Good(request', sent')
    BY <1>1, <1>2, GoodAlike DEF Alike, SameCopy, State
  <1> QED BY <1>1, <1>2, <1>3, SayWake

\* The LRM's status is reported.
LEMMA ScriptJobStateWake ==
    ASSUME RequestInvariant, WakeCore, NEW i \in DOMAIN scripts,
           ScriptJobState(i)
    PROVE  WakeCore'
  <1>1. /\ TypeOK /\ request \in RequestRecord /\ ~running /\ ~running'
        /\ Said(i, "JOB_STATE") /\ "JOB_STATE" \in ScriptVars
        /\ request' = ReportStatus(request, lrm)
        /\ UNCHANGED <<rsl, submissions, seg_pause_count, restart_callbacks,
                       sent, state_file>>
    BY DEF RequestInvariant, TypeOK, ScriptJobState, ScriptVars, MaySay
  <1>2. lrm \in JobStates
    BY <1>1 DEF ScriptJobState, TypeOK, LrmStates, SegEvents, JobStates
  <1>3. /\ State' = State /\ request'.poll_timer = request.poll_timer
        /\ request'.pending_queries = request.pending_queries
    BY <1>1, <1>2, ReportStatusFacts DEF State, SameQueues
  <1>4. Good(request, sent) => Good(request', sent')
    <2>1. /\ Owed(request) => Owed(request')
          /\ request.unsent_status_change => request'.unsent_status_change
          /\ request.status \in {"DONE", "FAILED"} => request' = request
      BY <1>1, <1>2, ReportStatusOwed
    <2> QED BY <1>1, <1>3, <2>1, GoodReport DEF State
  <1> QED BY <1>1, <1>3, <1>4, SayWake

\* An error fails a job that is not over, and is unsent.
LEMMA ScriptErrorWake ==
    ASSUME RequestInvariant, WakeCore, NEW i \in DOMAIN scripts, ScriptError(i)
    PROVE  WakeCore'
  <1> DEFINE x == SetStatus(request, "FAILED")
             y == [x EXCEPT !.failure_code = "SCRIPT_ERROR",
                            !.unsent_status_change = TRUE]
  <1>1. /\ TypeOK /\ request \in RequestRecord /\ ~running /\ ~running'
        /\ Said(i, "ERROR") /\ "ERROR" \in ScriptVars
        /\ request' = request \/ (request' = y /\ State = scripts[i].start)
        /\ UNCHANGED <<rsl, submissions, seg_pause_count, restart_callbacks,
                       sent, state_file>>
    BY DEF RequestInvariant, TypeOK, ScriptError, ScriptVars, MaySay
  <1>2. /\ x \in RequestRecord /\ x.jobmanager_state = State
        /\ x.pending_queries = request.pending_queries
        /\ x.poll_timer = request.poll_timer /\ x.status = "FAILED"
    <2>1. "FAILED" \in JobStates
      BY DEF JobStates
    <2> QED BY <1>1, <2>1, SetStatusFacts, SetStatusKeeps
               DEF State, SameQueues
  <1> HIDE DEF x
  <1>3. /\ y.jobmanager_state = State
        /\ y.pending_queries = request.pending_queries
        /\ y.poll_timer = request.poll_timer /\ y.status = "FAILED"
        /\ y.unsent_status_change
    BY <1>2 DEF RequestRecord
  <1> HIDE DEF y
  <1>4. /\ State' = State /\ request'.poll_timer = request.poll_timer
        /\ request'.pending_queries = request.pending_queries
    BY <1>1, <1>3 DEF State
  <1>5. Good(request, sent) /\ scripts[i].start \notin Over =>
            Good(request', sent')
    <2>1. State \notin Over => Good(y, sent)
      BY <1>3, GoodOwed DEF Owed
    <2> QED BY <1>1, <2>1
  <1> QED BY <1>1, <1>4, <1>5, SayWake

\* The files of stage-in have arrived.
LEMMA ScriptStagedInWake ==
    ASSUME RequestInvariant, WakeCore, NEW i \in DOMAIN scripts,
           ScriptStagedIn(i)
    PROVE  WakeCore'
  <1>1. /\ TypeOK /\ request \in RequestRecord /\ ~running /\ ~running'
        /\ Said(i, "STAGED") /\ "STAGED" \in ScriptVars
        /\ request' = [request EXCEPT !.stage_in_todo = FALSE]
        /\ state_file' = state_file \/ state_file' = StateFileOf(request')
        /\ UNCHANGED <<rsl, submissions, seg_pause_count, restart_callbacks,
                       sent>>
    BY DEF RequestInvariant, TypeOK, ScriptStagedIn, ScriptVars, MaySay
  <1>2. /\ request' \in RequestRecord
        /\ Alike(request, request') /\ State' = State
        /\ request'.poll_timer = request.poll_timer
        /\ request'.pending_queries = request.pending_queries
    BY <1>1 DEF RequestRecord, State, Alike, SameCopy
  <1>3. Good(request, sent) => Good(request', sent')
    BY <1>1, <1>2, GoodAlike DEF Alike, SameCopy, State
  <1>4. state_file' = NoStateFile => state_file = NoStateFile
    BY <1>1, <1>2, FileWritten
  <1> QED BY <1>1, <1>2, <1>3, <1>4, SayWake

\* The files of stage-out, or the streamed output, have been delivered.
LEMMA ScriptStagedOutWake ==
    ASSUME RequestInvariant, WakeCore, NEW i \in DOMAIN scripts,
           NEW var \in {"STAGED", "STREAMED"}, ScriptStagedOut(i, var)
    PROVE  WakeCore'
  <1>1. /\ TypeOK /\ request \in RequestRecord /\ ~running /\ ~running'
        /\ Said(i, var) /\ var \in ScriptVars
        /\ UNCHANGED <<rsl, submissions, seg_pause_count, restart_callbacks,
                       sent>>
    BY DEF RequestInvariant, TypeOK, ScriptStagedOut, ScriptVars, MaySay
  <1>2. \/ /\ \/ request' = [request EXCEPT !.stage_out_todo = FALSE]
              \/ request' = [request EXCEPT !.stage_stream_todo = FALSE]
           /\ state_file' = StateFileOf(request')
        \/ request' = request /\ state_file' = state_file
    BY DEF ScriptStagedOut
  <1>3. /\ request' \in RequestRecord
        /\ Alike(request, request') /\ State' = State
        /\ request'.poll_timer = request.poll_timer
        /\ request'.pending_queries = request.pending_queries
    BY <1>1, <1>2 DEF RequestRecord, State, Alike, SameCopy
  <1>4. Good(request, sent) => Good(request', sent')
    BY <1>1, <1>3, GoodAlike DEF Alike, SameCopy, State
  <1>5. state_file' = NoStateFile => state_file = NoStateFile
    BY <1>2, <1>3, FileWritten
  <1> QED BY <1>1, <1>3, <1>4, <1>5, SayWake

\* The answer of a cancel or signal script replaces no final status.
LEMMA ScriptQueryStateWake ==
    ASSUME RequestInvariant, WakeCore, NEW i \in DOMAIN scripts,
           ScriptQueryState(i)
    PROVE  WakeCore'
  <1> DEFINE s == QueryReport(scripts[i].query.kind)
             x == SetStatus(request, s)
             c == IF s = "FAILED" THEN "USER_CANCELLED" ELSE x.failure_code
             y == [x EXCEPT !.unsent_status_change = TRUE, !.failure_code = c]
  <1>1. /\ TypeOK /\ request \in RequestRecord /\ ~running /\ ~running'
        /\ Said(i, "JOB_STATE") /\ "JOB_STATE" \in ScriptVars
        /\ request' = request
           \/ (/\ ValidStateChange(request.status, s)
               /\ request' = [x EXCEPT !.unsent_status_change = TRUE,
                                       !.failure_code = IF s = "FAILED"
                                         THEN "USER_CANCELLED" ELSE @])
        /\ UNCHANGED <<rsl, submissions, seg_pause_count, restart_callbacks,
                       sent, state_file>>
    BY DEF RequestInvariant, TypeOK, ScriptQueryState, ScriptVars, MaySay
  <1>2. s \in JobStates
    BY DEF QueryReport, JobStates
  <1>3. ValidStateChange(request.status, s) =>
            request.status \notin {"DONE", "FAILED"}
    BY DEF ValidStateChange
  <1> HIDE DEF s
  <1>4. /\ x \in RequestRecord /\ x.jobmanager_state = State
        /\ x.pending_queries = request.pending_queries
        /\ x.poll_timer = request.poll_timer
    BY <1>1, <1>2, SetStatusFacts DEF State, SameQueues
  <1> HIDE DEF x
  <1>5. \/ request' = request
        \/ request' = y /\ request.status \notin {"DONE", "FAILED"}
    BY <1>1, <1>3
  <1> HIDE DEF c
  <1>6. /\ y.jobmanager_state = State
        /\ y.pending_queries = request.pending_queries
        /\ y.poll_timer = request.poll_timer /\ y.unsent_status_change
    BY <1>4 DEF RequestRecord
  <1> HIDE DEF y
  <1>7. /\ State' = State /\ request'.poll_timer = request.poll_timer
        /\ request'.pending_queries = request.pending_queries
    BY <1>5, <1>6 DEF State
  <1>8. Good(request, sent) => Good(request', sent')
    <2>1. /\ Owed(request) => Owed(request')
          /\ request.unsent_status_change => request'.unsent_status_change
          /\ request.status \in {"DONE", "FAILED"} => request' = request
      BY <1>5, <1>6 DEF Owed
    <2> QED BY <1>1, <1>7, <2>1, GoodReport DEF State
  <1> QED BY <1>1, <1>7, <1>8, SayWake

\* The only positive number up to one.
LEMMA One == ASSUME NEW n \in Nat, n > 0, n <= 1 PROVE n = 1
  OBVIOUS

\* A script ends, and with it the one thing the machine waited for; its end
\* wakes the machine.
LEMMA ScriptDoneWake ==
    ASSUME RequestInvariant, WakeCore, NEW i \in DOMAIN scripts,
           NEW broken \in BOOLEAN, ScriptDone(i, broken)
    PROVE  WakeCore'
  <1> DEFINE code == IF broken THEN "INVALID_SCRIPT_STATUS"
                               ELSE request.failure_code
             x == [request EXCEPT !.failure_code = code]
  <1>1. /\ TypeOK /\ request \in RequestRecord /\ ~running /\ ~running'
        /\ scripts' = SubSeq(scripts, 1, i - 1)
                      \o SubSeq(scripts, i + 1, Len(scripts))
        /\ request' = Register(x)
        /\ UNCHANGED <<rsl, submissions, seg_pause_count, restart_callbacks,
                       sent, state_file>>
    BY DEF RequestInvariant, TypeOK, ScriptDone
  <1>2. code \in FailureCodes
    BY <1>1 DEF RequestRecord, FailureCodes
  <1> HIDE DEF code
  <1>3. /\ x \in RequestRecord /\ x.jobmanager_state = State
        /\ x.status = request.status
        /\ x.unsent_status_change = request.unsent_status_change
        /\ x.client_contacts = request.client_contacts
    BY <1>1, <1>2 DEF RequestRecord, State
  <1> HIDE DEF x
  <1>4. /\ State' = State /\ request'.status = request.status
        /\ request'.unsent_status_change = request.unsent_status_change
        /\ request'.client_contacts = request.client_contacts
    BY <1>1, <1>3, RegisterFacts, RegisterAlike DEF State, Alike, SameCopy
  <1>5. /\ ScriptsKept
        /\ scripts' \in Seq(Scripts) /\ Len(scripts') = Len(scripts) - 1
        /\ \A k \in DOMAIN scripts' : \E m \in DOMAIN scripts :
              scripts'[k] = scripts[m]
    BY <1>1, ScriptRemoved
  <1>6. scripts \in Seq(Scripts) /\ Len(scripts) > 0 /\ scripts # <<>>
    BY <1>1 DEF TypeOK
  <1>7. Plain => PauseBalanced'
    BY <1>1, <1>4, PauseKept DEF WakeCore
  <1>8. ASSUME Plain, Separate PROVE OneWaker' /\ Coherent'
    <2>1. OneWaker /\ Coherent
      BY <1>8 DEF WakeCore
    <2>2. /\ State \in Busy /\ restart_callbacks = 0 /\ Len(scripts) = 1
      <3>1. Len(scripts) <= 1 /\ State \in Busy /\ restart_callbacks = 0
        BY <1>6, <2>1 DEF OneWaker
      <3>2. Len(scripts) \in Nat
        BY <1>6
      <3> QED BY <1>6, <3>1, <3>2, One
    <2>3. scripts' = <<>>
      BY <1>5, <2>2
    <2>4. State' \notin Over
      BY <1>4, <2>2 DEF Busy, Over
    <2>5. OneWaker'
      BY <1>1, <1>4, <2>1, <2>2, <2>3 DEF OneWaker
    <2> QED BY <2>1, <2>4, <2>5, CoherentKept
  <1>9. ASSUME Reliable PROVE Notified'
    <2>1. Notified
      BY <1>9 DEF WakeCore
    <2>2. Submitted => Good(request', sent')
      BY <1>1, <1>4, <2>1, GoodAlike DEF Notified, State
    <2>3. \A k \in DOMAIN scripts' : scripts'[k].start \notin Over
      BY <1>5, <2>1 DEF Notified
    <2> QED BY <1>1, <1>4, <1>5, <2>1, <2>2, <2>3, NotifiedKept
  <1> QED BY <1>7, <1>8, <1>9 DEF WakeCore

\* The LRM takes a job or obeys a script: only that script's record changes.
LEMMA LrmWake ==
    ASSUME TypeOK, WakeCore, NEW i \in DOMAIN scripts, Said(i, "ACCEPTED"),
           Submitted' => Submitted,
           UNCHANGED <<rsl, request, running, seg_pause_count,
                       restart_callbacks, sent, state_file>>
    PROVE  WakeCore'
  <1>1. "ACCEPTED" \in ScriptVars
    BY DEF ScriptVars
  <1>2. /\ scripts \in Seq(Scripts) /\ scripts' \in Seq(Scripts)
        /\ DOMAIN scripts' = DOMAIN scripts /\ scripts # <<>>
        /\ \A k \in DOMAIN scripts : /\ scripts'[k].query = scripts[k].query
                                     /\ scripts'[k].start = scripts[k].start
    BY <1>1, SaidSame DEF TypeOK
  <1>3. Len(scripts') = Len(scripts)
    BY <1>2
  <1>4. State' = State
    BY DEF State
  <1>5. Plain => PauseBalanced'
    BY <1>4, PauseKept DEF WakeCore
  <1>6. ASSUME Plain, Separate PROVE OneWaker' /\ Coherent'
    <2>1. OneWaker /\ Coherent
      BY <1>6 DEF WakeCore
    <2>2. Coherent'
      BY <1>4, <2>1 DEF Coherent
    <2> QED BY <1>2, <1>3, <1>4, <2>1, <2>2 DEF OneWaker
  <1>7. ASSUME Reliable PROVE Notified'
    <2>1. Notified
      BY <1>7 DEF WakeCore
    <2> QED BY <1>2, <1>4, <2>1 DEF Notified
  <1> QED BY <1>5, <1>6, <1>7 DEF WakeCore

\* The LRM takes the job from a submit script.
LEMMA LrmAcceptsWake ==
    ASSUME RequestInvariant, WakeCore, NEW i \in DOMAIN scripts, LrmAccepts(i)
    PROVE  WakeCore'
  <1>1. /\ TypeOK /\ SubmitIn(scripts, i) /\ Said(i, "ACCEPTED")
        /\ UNCHANGED <<rsl, request, running, seg_pause_count,
                       restart_callbacks, sent, state_file>>
    BY DEF RequestInvariant, LrmAccepts, SubmitIn
  <1>2. Submitted
    BY <1>1 DEF Submitted
  <1> QED BY <1>1, <1>2, LrmWake

\* The LRM obeys a script.
LEMMA LrmObeysWake ==
    ASSUME RequestInvariant, WakeCore, NEW i \in DOMAIN scripts, LrmObeys(i)
    PROVE  WakeCore'
  <1>1. /\ TypeOK /\ Said(i, "ACCEPTED") /\ "ACCEPTED" \in ScriptVars
        /\ UNCHANGED <<rsl, request, running, seg_pause_count,
                       restart_callbacks, sent, state_file, submissions>>
    BY DEF RequestInvariant, LrmObeys, ScriptVars
  <1>2. Submitted' => Submitted
    BY <1>1, ScriptSaid DEF Submitted, ScriptsKept
  <1> QED BY <1>1, <1>2, LrmWake

\* What leaves the request, its scripts and its callbacks alone.
LEMMA NothingWake ==
    ASSUME WakeCore,
           UNCHANGED <<rsl, request, running, scripts, seg_pause_count,
                       restart_callbacks, sent, state_file, submissions>>
    PROVE  WakeCore'
  <1>1. State' = State /\ (Submitted' <=> Submitted)
    BY DEF State, Submitted
  <1>2. Plain => PauseBalanced'
    BY <1>1, PauseKept DEF WakeCore
  <1>3. OneWaker /\ Coherent => OneWaker' /\ Coherent'
    BY <1>1 DEF OneWaker, Coherent
  <1>4. Notified => Notified'
    BY <1>1 DEF Notified
  <1> QED BY <1>2, <1>3, <1>4 DEF WakeCore

\* An event wakes a machine that waits for it; no script runs then.
LEMMA SegDeliversWake ==
    ASSUME RequestInvariant, WakeCore, NEW event \in SegEvents,
           SegDelivers(event)
    PROVE  WakeCore'
  <1> DEFINE x == [request EXCEPT !.seg_event_queue = Append(@, event)]
             p == To(x, "POLL1")
  <1>1. /\ TypeOK /\ request \in RequestRecord /\ request' = Wake(x)
        /\ ~running /\ ~running'
        /\ UNCHANGED <<rsl, scripts, submissions, seg_pause_count,
                       restart_callbacks, sent, state_file>>
    BY DEF RequestInvariant, TypeOK, SegDelivers
  <1>2. /\ x \in RequestRecord /\ x.jobmanager_state = State
        /\ x.pending_queries = request.pending_queries /\ Alike(request, x)
        /\ x.poll_timer = request.poll_timer
    <2>1. Append(request.seg_event_queue, event) \in Seq(SegEvents)
      BY <1>1 DEF RequestRecord
    <2> QED BY <1>1, <2>1 DEF RequestRecord, State, Alike, SameCopy
  <1>3. request' = (IF State = "POLL2" THEN Register(p) ELSE x)
    BY <1>1, <1>2 DEF Wake
  <1> HIDE DEF x
  <1>4. p \in RequestRecord /\ p.jobmanager_state = "POLL1" /\ Alike(request, p)
    BY <1>2, ToFacts, MovesAlike, AlikeOn DEF ManagerStates
  <1> HIDE DEF p
  <1>5. CASE State = "POLL2"
    <2>1. Alike(request, request') /\ State' = "POLL1"
      BY <1>3, <1>4, <1>5, RegisterFacts, RegisterAlike, AlikeOn DEF State
    <2>2. /\ State \notin Over \union Busy \union {"SUBMIT"}
          /\ State' \notin Over \union EarlyQuery \union {"SUBMIT"}
      BY <1>5, <2>1 DEF Over, Busy, EarlyQuery
    <2>3. Good(request, sent) => Good(request', sent')
      <3>1. Owed(request) => Owed(request')
        BY <2>1 DEF Owed, Alike, SameCopy
      <3> QED BY <2>1, <2>2, <3>1, OwedGood, GoodOwed DEF State
    <2> QED BY <1>1, <2>2, <2>3, StepWake
  <1>6. CASE State # "POLL2"
    <2>1. State' = State
      BY <1>2, <1>3, <1>6 DEF State
    <2> QED BY <1>1, <1>2, <1>3, <1>6, <2>1, SameWake
  <1> QED BY <1>5, <1>6

\* The reply of a restarting callback wakes a machine that runs no script.
LEMMA CallbackReplyWake ==
    ASSUME RequestInvariant, WakeCore, CallbackReply PROVE WakeCore'
  <1>1. /\ TypeOK /\ request \in RequestRecord /\ request' = Register(request)
        /\ ~running /\ ~running' /\ restart_callbacks \in Nat
        /\ restart_callbacks > 0 /\ restart_callbacks' = restart_callbacks - 1
        /\ UNCHANGED <<rsl, scripts, submissions, seg_pause_count, sent,
                       state_file>>
    BY DEF RequestInvariant, TypeOK, CallbackReply
  <1>2. /\ Alike(request, request') /\ State' = State
        /\ request'.pending_queries = request.pending_queries
    BY <1>1, RegisterFacts, RegisterAlike DEF State
  <1>3. Good(request, sent) => Good(request', sent')
    BY <1>1, <1>2, GoodAlike DEF Alike, SameCopy, State
  <1>4. OneWaker => scripts = <<>>
    BY <1>1 DEF OneWaker
  <1>5. /\ scripts' \in Seq(Scripts) /\ ScriptsKept
        /\ restart_callbacks' \in Nat /\ restart_callbacks' <= restart_callbacks
    BY <1>1, SameScripts DEF TypeOK
  <1>6. SameCopy(request, request')
    BY <1>2 DEF Alike
  <1> QED BY <1>1, <1>2, <1>3, <1>4, <1>5, <1>6, StillWake

\* Script output, the LRM, scheduler events and replies keep it.
LEMMA EnvironmentWake ==
    ASSUME RequestInvariant, WakeCore, Environment PROVE WakeCore'
  <1>1. CASE ScriptOutput
    BY <1>1, ScriptJobIdWake, ScriptJobStateWake, ScriptErrorWake,
       ScriptStagedInWake, ScriptStagedOutWake, ScriptQueryStateWake
       DEF ScriptOutput
  <1>2. CASE ScriptEnds
    BY <1>2, ScriptDoneWake DEF ScriptEnds
  <1>3. CASE LrmMoves
    BY <1>3, NothingWake DEF LrmMoves
  <1> QED BY <1>1, <1>2, <1>3, LrmAcceptsWake, LrmObeysWake, SegDeliversWake,
             CallbackReplyWake DEF Environment

-----------------------------------------------------------------------------
(* What follows                                                             *)

\* A new request has no script and no status to tell.
LEMMA InitWake == Init => WakeCore
  <1> SUFFICES ASSUME Init PROVE WakeCore
    OBVIOUS
  <1>1. /\ scripts = <<>> /\ submissions = 0 /\ ~running
        /\ restart_callbacks = 0 /\ seg_pause_count = 0
    BY DEF Init
  <1>2. PICK contacts \in SUBSET Contacts :
            request = StartedRequest(rsl, contacts)
    BY DEF Init
  <1> DEFINE new == NewRequest(rsl)
             c == [new EXCEPT !.client_contacts = contacts]
             r == Register(c)
             d == [r EXCEPT !.failure_code = "DRYRUN"]
  <1>3. /\ rsl \in Requests /\ rsl.stage_in \in BOOLEAN
        /\ rsl.stage_out \in BOOLEAN /\ rsl.stream \in BOOLEAN
    BY ConstantsAssumption DEF Init, RSL
  <1>4. new \in RequestRecord /\ new.jobmanager_state = "START"
    <2>1. <<>> \in Seq(Queries) /\ <<>> \in Seq(SegEvents)
      OBVIOUS
    <2> QED BY <1>3, <2>1 DEF NewRequest, RequestRecord, ManagerStates,
                              JobStates, FailureCodes, JobIds
  <1>5. state_file # NoStateFile
    BY <1>4, FileWritten DEF Init
  <1> HIDE DEF new
  <1>6. c \in RequestRecord /\ c.jobmanager_state = "START"
    BY <1>4 DEF RequestRecord
  <1> HIDE DEF c
  <1>7. r \in RequestRecord /\ r.jobmanager_state = "START"
    BY <1>6, RegisterFacts
  <1>8. request = r \/ request = SetStatus(d, "FAILED")
    BY <1>2 DEF StartedRequest, r, c, new
  <1> HIDE DEF r
  <1>9. d \in RequestRecord /\ d.jobmanager_state = "START"
    BY <1>7 DEF RequestRecord, FailureCodes
  <1> HIDE DEF d
  <1>10. State = "START"
    <2>1. "FAILED" \in JobStates
      BY DEF JobStates
    <2> QED BY <1>7, <1>8, <1>9, <2>1, SetStatusFacts DEF State
  <1>11. State \notin Over \union EarlyQuery \union {"SUBMIT"} /\ ~Submitted
    BY <1>1, <1>10 DEF Over, EarlyQuery, Submitted
  <1>12. PauseBalanced /\ OneWaker /\ Coherent
    BY <1>1, <1>11 DEF PauseBalanced, OneWaker, Coherent
  <1>13. Notified
    BY <1>1, <1>5, <1>11 DEF Notified
  <1> QED BY <1>12, <1>13 DEF WakeCore

\* Every step of every request keeps the invariant, each part of it under the
\* assumptions it names.
THEOREM WakeCoreHolds == Spec => []WakeCore
  <1>1. RequestInvariant /\ JobCore /\ WakeCore /\ [Next]_vars => WakeCore'
    <2> SUFFICES ASSUME RequestInvariant, JobCore, WakeCore, [Next]_vars
                 PROVE  WakeCore'
      OBVIOUS
    <2>1. CASE Next
      BY <2>1, TimerFiresWake, StateMachineWake, ClientWake, EnvironmentWake
         DEF Next
    <2>2. CASE UNCHANGED vars
      BY <2>2, NothingWake DEF vars
    <2> QED BY <2>1, <2>2
  <1> QED BY <1>1, InitWake, RequestInvariantHolds, JobCoreHolds, PTL DEF Spec

\* Of a request that is not stopped, the SEG is paused exactly while the submit
\* script of its job is outstanding: seg_pause() and seg_resume() balance.
THEOREM PausesBalance ==
    ASSUME Plain PROVE Spec => []PauseBalanced
  <1>1. WakeCore => PauseBalanced
    BY DEF WakeCore
  <1> QED BY <1>1, WakeCoreHolds, PTL

\* The query a cancel or signal script works for is not freed before
\* query_done() is called with it, when signals and a commit do not meet.
THEOREM QueryOfScriptLives ==
    ASSUME Plain, Separate PROVE Spec => []ScriptQueryLive
  <1>1. RequestInvariant /\ WakeCore => ScriptQueryLive
    <2> SUFFICES ASSUME RequestInvariant, WakeCore,
                        NEW i \in DOMAIN scripts, scripts[i].query # NoQuery
                 PROVE  \E j \in DOMAIN request.pending_queries :
                            request.pending_queries[j] = scripts[i].query
      BY DEF ScriptQueryLive
    <2>1. request.pending_queries \in Seq(Queries)
      BY DEF RequestInvariant, TypeOK, RequestRecord
    <2>2. /\ request.pending_queries # <<>>
          /\ Head(request.pending_queries) = scripts[i].query
      BY DEF WakeCore, OneWaker
    <2>3. /\ 1 \in DOMAIN request.pending_queries
          /\ request.pending_queries[1] = Head(request.pending_queries)
      BY <2>1, <2>2
    <2> QED BY <2>2, <2>3
  <1> QED BY <1>1, RequestInvariantHolds, WakeCoreHolds, PTL

\* A status query of a job that came to its end is answered with the status
\* and the failure code the job ended with.
THEOREM FinalStatusIsCopied ==
    ASSUME Plain, Separate PROVE Spec => []StatusCoherent
  <1>1. WakeCore => StatusCoherent
    BY DEF WakeCore, Coherent, CopyRight, StatusCoherent, Over, Resting
  <1> QED BY <1>1, WakeCoreHolds, PTL

\* The state file of a job the LRM accepted is removed only after its contacts
\* were sent the final status, when no post and no allocation fails.
THEOREM ContactsAreNotified ==
    ASSUME Reliable PROVE Spec => []SubmittedJobNotified
  <1>1. WakeCore => SubmittedJobNotified
    <2> SUFFICES ASSUME WakeCore, submissions > 0, state_file = NoStateFile,
                        Recipients(request) # {}
                 PROVE  request.status \in sent
      BY DEF SubmittedJobNotified
    <2>1. Submitted /\ Notified
      BY DEF WakeCore, Submitted
    <2> QED BY <2>1 DEF Notified, Good, State
  <1> QED BY <1>1, WakeCoreHolds, PTL

=============================================================================
