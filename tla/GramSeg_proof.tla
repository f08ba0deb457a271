---------------------------- MODULE GramSeg_proof ----------------------------
(***************************************************************************)
(* Proofs about GramSeg for any number of jobs and of events per job.      *)
(*                                                                         *)
(* QueueHandedOver holds in every state.  EventsKept holds until a dry run *)
(* with files to stage in has been through SUBMIT (Balanced) and rests on  *)
(* SegCore: the pause count is the number of submit scripts, so an event   *)
(* is thrown away only when none of them runs, and then its job has been   *)
(* registered, and found, until its last event.                            *)
(***************************************************************************)
EXTENDS GramSeg, FiniteSetTheorems, SequenceTheorems, TLAPS

-----------------------------------------------------------------------------
(* Queues                                                                   *)

\* Taking the head off a queue of events leaves a queue of the same events.
LEMMA TailOfQueue ==
    ASSUME NEW S, NEW q \in Seq(S), q # <<>>
    PROVE  /\ Head(q) \in S /\ 1 \in DOMAIN q /\ Head(q) = q[1]
           /\ Tail(q) \in Seq(S)
           /\ \A i \in DOMAIN Tail(q) :
                 i + 1 \in DOMAIN q /\ Tail(q)[i] = q[i + 1]
  OBVIOUS

\* Appending an event keeps the others where they are.
LEMMA AppendToQueue ==
    ASSUME NEW S, NEW q \in Seq(S), NEW e \in S
    PROVE  /\ Append(q, e) \in Seq(S)
           /\ \A i \in DOMAIN Append(q, e) :
                 \/ i \in DOMAIN q /\ Append(q, e)[i] = q[i]
                 \/ Append(q, e)[i] = e
  OBVIOUS

\* An element of two queues put together is an element of one of them.
LEMMA JoinQueues ==
    ASSUME NEW S, NEW q \in Seq(S), NEW r \in Seq(S)
    PROVE  /\ q \o r \in Seq(S)
           /\ \A i \in DOMAIN (q \o r) :
                 \/ i \in DOMAIN q /\ (q \o r)[i] = q[i]
                 \/ \E k \in DOMAIN r : (q \o r)[i] = r[k]
  <1>1. q \o r \in Seq(S) /\ Len(q \o r) = Len(q) + Len(r)
    OBVIOUS
  <1>2. ASSUME NEW i \in DOMAIN (q \o r), i > Len(q)
        PROVE  i - Len(q) \in DOMAIN r /\ (q \o r)[i] = r[i - Len(q)]
    BY <1>1, <1>2
  <1>3. ASSUME NEW i \in DOMAIN (q \o r), i <= Len(q)
        PROVE  i \in DOMAIN q /\ (q \o r)[i] = q[i]
    BY <1>1, <1>3
  <1> QED BY <1>1, <1>2, <1>3

\* What a queue of events holds is an event of one of the jobs.
LEMMA QueuedEvents ==
    ASSUME NEW q \in Seq(Events)
    PROVE  \A i \in DOMAIN q : q[i] \in Events /\ q[i].job \in Jobs
  <1> SUFFICES ASSUME NEW i \in DOMAIN q
               PROVE  q[i] \in Events /\ q[i].job \in Jobs
    OBVIOUS
  <1>1. q[i] \in Events
    OBVIOUS
  <1> QED BY <1>1 DEF Events

-----------------------------------------------------------------------------
(* Types and the queue, for every manager                                   *)

\* The initial state is well typed.
LEMMA InitTypeOK == Init => TypeOK
  BY SegAssumption DEF Init, TypeOK, Phases, Events

\* Handing an event over or throwing it away keeps the types.
LEMMA DeliverTypeOK ==
    ASSUME TypeOK, NEW event \in Events, Deliver(event) \/ Ignore(event)
    PROVE  /\ job_id_hash' \subseteq Jobs
           /\ delivered' \subseteq Events /\ ignored' \subseteq Events
  BY DEF TypeOK, Deliver, Ignore

\* seg_resume() keeps the types of what it touches.
LEMMA ResumeTypeOK ==
    ASSUME TypeOK, SegResume
    PROVE  /\ seg_pause_count' \in Int
           /\ seg_event_queue' \in Seq(Events) /\ resuming' \in Seq(Events)
  <1>1. seg_pause_count \in Int /\ seg_event_queue \in Seq(Events)
        /\ resuming \in Seq(Events)
    BY DEF TypeOK
  <1>2. resuming \o seg_event_queue \in Seq(Events) /\ <<>> \in Seq(Events)
    BY <1>1, JoinQueues, EmptySeq
  <1>3. seg_pause_count' \in Int
    BY <1>1 DEF SegResume
  <1>4. CASE seg_pause_count' = 0
    BY <1>2, <1>3, <1>4 DEF SegResume
  <1>5. CASE seg_pause_count' # 0
    BY <1>1, <1>3, <1>5 DEF SegResume
  <1> QED BY <1>4, <1>5

\* Every step keeps the types.
LEMMA NextTypeOK == TypeOK /\ [Next]_vars => TypeOK'
  <1> SUFFICES ASSUME TypeOK, [Next]_vars PROVE TypeOK'
    OBVIOUS
  <1>1. ASSUME NEW j \in Jobs, StartSubmit(j) PROVE TypeOK'
    BY <1>1 DEF StartSubmit, MoveTo, TypeOK, Phases, lrmVars, eventVars
  <1>2. ASSUME NEW j \in Jobs, RefuseDryRun(j) PROVE TypeOK'
    BY <1>2 DEF RefuseDryRun, MoveTo, TypeOK, Phases, managerVars, lrmVars,
                eventVars
  <1>3. ASSUME NEW j \in Jobs, LrmAccepts(j) PROVE TypeOK'
    BY <1>3 DEF LrmAccepts, MoveTo, TypeOK, Phases, managerVars, lrmVars,
                eventVars
  <1>4. ASSUME NEW j \in Jobs, LrmReports(j) PROVE TypeOK'
    <2>1. reported[j] + 1 \in 1..NEvents /\ reported'[j] = reported[j] + 1
      BY <1>4, SegAssumption DEF LrmReports, TypeOK
    <2>2. reported' \in [Jobs -> 0..NEvents]
      BY <1>4, <2>1 DEF LrmReports, TypeOK
    <2>3. [job |-> j, n |-> reported'[j]] \in Events
      BY <2>1 DEF Events
    <2>4. log' \in Seq(Events)
      BY <1>4, <2>3, AppendToQueue DEF LrmReports, TypeOK
    <2> QED BY <1>4, <2>2, <2>4 DEF LrmReports, TypeOK, managerVars, eventVars
  <1>5. ASSUME NEW j \in Jobs, SubmitDone(j) PROVE TypeOK'
    BY <1>5, ResumeTypeOK
       DEF SubmitDone, MoveTo, TypeOK, Phases, lrmVars, eventVars
  <1>6. ASSUME NEW j \in Jobs, SubmitFails(j) PROVE TypeOK'
    BY <1>6, ResumeTypeOK
       DEF SubmitFails, MoveTo, TypeOK, Phases, lrmVars, eventVars
  <1>7. CASE SegEvent
    <2>1. Head(log) \in Events /\ log' \in Seq(Events)
      BY <1>7, TailOfQueue DEF SegEvent, TypeOK
    <2>2. Append(seg_event_queue, Head(log)) \in Seq(Events)
      BY <2>1, AppendToQueue DEF TypeOK
    <2>3. seg_event_queue' \in Seq(Events)
      BY <1>7, <2>2 DEF SegEvent, TypeOK
    <2>4. /\ job_id_hash' \subseteq Jobs
          /\ delivered' \subseteq Events /\ ignored' \subseteq Events
      BY <1>7, <2>1, DeliverTypeOK DEF SegEvent, TypeOK, eventVars
    <2> QED BY <1>7, <2>1, <2>3, <2>4 DEF SegEvent, TypeOK
  <1>8. CASE ResumeEvent
    <2>1. Head(resuming) \in Events /\ resuming' \in Seq(Events)
      BY <1>8, TailOfQueue DEF ResumeEvent, TypeOK
    <2>2. /\ job_id_hash' \subseteq Jobs
          /\ delivered' \subseteq Events /\ ignored' \subseteq Events
      BY <1>8, <2>1, DeliverTypeOK DEF ResumeEvent
    <2> QED BY <1>8, <2>1, <2>2 DEF ResumeEvent, TypeOK, lrmVars
  <1>9. CASE UNCHANGED vars
    BY <1>9 DEF vars, managerVars, lrmVars, eventVars, TypeOK
  <1> QED BY <1>1, <1>2, <1>3, <1>4, <1>5, <1>6, <1>7, <1>8, <1>9 DEF Next

\* Every variable of the SEG's state keeps its type, for every manager.
THEOREM SegTypeCorrect == Spec => []TypeOK
  BY InitTypeOK, NextTypeOK, PTL DEF Spec

\* seg_resume() and the queueing branch of seg_event_callback() never leave
\* an event in the queue of a manager that is not paused.
LEMMA NextQueueHandedOver ==
    TypeOK /\ QueueHandedOver /\ [Next]_vars => QueueHandedOver'
  <1> SUFFICES ASSUME TypeOK, QueueHandedOver, [Next]_vars
               PROVE  QueueHandedOver'
    OBVIOUS
  <1> USE DEF QueueHandedOver
  <1>1. CASE SegResume
    <2>1. seg_pause_count \in Int
      BY DEF TypeOK
    <2> QED BY <1>1, <2>1 DEF SegResume
  <1>2. ASSUME NEW j \in Jobs, StartSubmit(j) PROVE QueueHandedOver'
    BY <1>2 DEF StartSubmit, TypeOK
  <1>3. CASE SegEvent
    BY <1>3 DEF SegEvent, TypeOK
  <1>4. CASE UNCHANGED <<seg_pause_count, seg_event_queue>>
    BY <1>4
  <1> QED
    BY <1>1, <1>2, <1>3, <1>4
       DEF Next, RefuseDryRun, LrmAccepts, LrmReports, SubmitDone, SubmitFails,
           ResumeEvent, vars, managerVars

\* No event waits in the manager's queue unless a submit script runs, for
\* every manager: the last seg_resume() hands the queue over.
THEOREM QueueAlwaysHandedOver == Spec => []QueueHandedOver
  <1>1. Init => QueueHandedOver
    BY DEF Init, QueueHandedOver
  <1> QED BY <1>1, SegTypeCorrect, NextQueueHandedOver, PTL DEF Spec

-----------------------------------------------------------------------------
(* No event is lost when no dry run resumes what it did not pause           *)

\* The set of submitting jobs is finite, so its size is a number that is
\* zero exactly when no submit script runs.
LEMMA SubmittingFinite ==
    /\ IsFiniteSet(Submitting) /\ Cardinality(Submitting) \in Nat
    /\ Cardinality(Submitting) = 0 <=> Submitting = {}
  <1>1. IsFiniteSet(Submitting)
    BY SegAssumption, FS_Subset DEF Submitting
  <1> QED BY <1>1, FS_CardinalityType, FS_EmptySet

\* Starting a submit script adds its job to the submitting ones.
LEMMA SubmittingGrows ==
    ASSUME TypeOK, NEW j \in Jobs, StartSubmit(j)
    PROVE  Cardinality(Submitting') = Cardinality(Submitting) + 1
  <1>1. Submitting' = Submitting \cup {j} /\ j \notin Submitting
    BY DEF TypeOK, StartSubmit, MoveTo, Submitting
  <1> QED BY <1>1, SubmittingFinite, FS_AddElement

\* SUBMIT takes its job out of the submitting ones.
LEMMA SubmittingShrinks ==
    ASSUME TypeOK, NEW j \in Jobs, j \in Submitting,
           NEW p \in {"submitted", "over"}, MoveTo(j, p)
    PROVE  /\ Submitting' = Submitting \ {j}
           /\ Cardinality(Submitting') = Cardinality(Submitting) - 1
  <1>1. Submitting' = Submitting \ {j}
    BY DEF TypeOK, MoveTo, Submitting
  <1> QED BY <1>1, SubmittingFinite, FS_RemoveElement

\* When SUBMIT ends, the pause count still counts the submit scripts and the
\* queue that is handed over, if it is, only holds events of registered jobs.
LEMMA ResumeStep ==
    ASSUME SegCore, NEW j \in Submitting,
           NEW p \in {"submitted", "over"}, p = "over" => phase[j] = "submitting",
           MoveTo(j, p), SegResume, UNCHANGED <<lrmVars, eventVars>>
    PROVE  PausedWhileSubmitting' /\ EventsOfLrmJobs' /\ QueueHandedOver'
  <1> USE DEF SegCore
  <1>1. j \in Jobs /\ phase[j] \in {"submitting", "accepted"}
    BY DEF Submitting
  <1>2. /\ Submitting' = Submitting \ {j}
        /\ Cardinality(Submitting') = Cardinality(Submitting) - 1
    BY <1>1, SubmittingShrinks
  <1>3. PausedWhileSubmitting'
    BY <1>2 DEF PausedWhileSubmitting, SegResume
  <1>4. /\ \A k \in Jobs \ {j} : phase'[k] = phase[k]
        /\ phase[j] = "accepted" => phase'[j] = "submitted"
    BY <1>1 DEF MoveTo, TypeOK
  <1>5. \A k \in Jobs : phase[k] \in {"accepted", "submitted"} =>
                          phase'[k] \in {"accepted", "submitted"}
    BY <1>1, <1>4
  <1>6. \A k \in Jobs : phase[k] = "submitted" => phase'[k] = "submitted"
    BY <1>1, <1>4
  <1>7. /\ \A i \in DOMAIN log : log[i].job \in Jobs
        /\ \A i \in DOMAIN seg_event_queue : seg_event_queue[i].job \in Jobs
        /\ \A i \in DOMAIN resuming : resuming[i].job \in Jobs
    BY QueuedEvents DEF TypeOK
  <1>8. \A i \in DOMAIN log' :
            phase'[log'[i].job] \in {"accepted", "submitted"}
    BY <1>5, <1>7 DEF EventsOfLrmJobs, lrmVars
  <1>9. \A i \in DOMAIN seg_event_queue' :
            phase'[seg_event_queue'[i].job] \in {"accepted", "submitted"}
    BY <1>5, <1>7 DEF EventsOfLrmJobs, SegResume
  <1>10. \A i \in DOMAIN resuming : phase'[resuming[i].job] = "submitted"
    BY <1>6, <1>7 DEF EventsOfLrmJobs
  <1>11. CASE seg_pause_count' = 0
    <2>1. Submitting \ {j} = {}
      BY <1>2, <1>3, <1>11, SubmittingFinite, FS_EmptySet, FS_RemoveElement
         DEF PausedWhileSubmitting
    <2>2. \A k \in Jobs : phase[k] \in {"accepted", "submitted"} =>
                            phase'[k] = "submitted"
      BY <1>1, <1>4, <2>1 DEF Submitting
    <2>3. \A i \in DOMAIN seg_event_queue :
              phase'[seg_event_queue[i].job] = "submitted"
      BY <1>7, <2>2 DEF EventsOfLrmJobs
    <2>4. resuming' = resuming \o seg_event_queue /\ seg_event_queue' = <<>>
      BY <1>11 DEF SegResume
    <2>5. \A i \in DOMAIN resuming' : phase'[resuming'[i].job] = "submitted"
      BY <1>10, <2>3, <2>4, JoinQueues DEF TypeOK
    <2> QED BY <1>3, <1>8, <1>9, <2>4, <2>5 DEF EventsOfLrmJobs, QueueHandedOver
  <1>12. CASE seg_pause_count' # 0
    <2>1. UNCHANGED <<resuming, seg_event_queue>>
      BY <1>12 DEF SegResume
    <2>2. seg_pause_count \in Int /\ seg_pause_count' = seg_pause_count - 1
      BY DEF TypeOK, SegResume
    <2>3. QueueHandedOver'
      BY <1>12, <2>1, <2>2 DEF QueueHandedOver
    <2> QED BY <1>3, <1>8, <1>9, <1>10, <2>1, <2>3 DEF EventsOfLrmJobs
  <1> QED BY <1>11, <1>12

\* An event is thrown away only after the last event of its job; delivering
\* one keeps its job registered until then.
LEMMA DeliverStep ==
    ASSUME SegCore, NEW event \in Events,
           event.job \notin job_id_hash => phase[event.job] = "submitted",
           phase' = phase,
           \/ event.job \in job_id_hash /\ Deliver(event)
           \/ event.job \notin job_id_hash /\ Ignore(event)
    PROVE  FoundUntilTerminal' /\ EventsKept'
  <1>1. event.job \in Jobs /\ event.n \in 1..NEvents
        /\ event = [job |-> event.job, n |-> event.n]
    BY DEF Events
  <1>2. CASE event.job \in job_id_hash /\ Deliver(event)
    <2>1. delivered' = delivered \union {event} /\ ignored' = ignored
      BY <1>2 DEF Deliver
    <2>2. EventsKept'
      BY <2>1 DEF SegCore, EventsKept
    <2>3. ASSUME NEW j \in Jobs, phase'[j] = "submitted"
          PROVE  j \in job_id_hash' \/ Terminal(j) \in delivered'
      <3>1. j \in job_id_hash \/ Terminal(j) \in delivered
        BY <2>3 DEF SegCore, FoundUntilTerminal
      <3>2. CASE Terminal(j) \in delivered
        BY <2>1, <3>2
      <3>3. CASE j \in job_id_hash /\ j # event.job
        BY <1>2, <3>3 DEF Deliver
      <3>4. CASE j \in job_id_hash /\ j = event.job /\ event.n # NEvents
        BY <1>2, <3>4 DEF Deliver
      <3>5. CASE j = event.job /\ event.n = NEvents
        BY <1>1, <2>1, <3>5 DEF Terminal
      <3> QED BY <3>1, <3>2, <3>3, <3>4, <3>5
    <2> QED BY <2>2, <2>3 DEF FoundUntilTerminal
  <1>3. CASE event.job \notin job_id_hash /\ Ignore(event)
    <2>1. Terminal(event.job) \in delivered
      BY <1>1, <1>3 DEF SegCore, FoundUntilTerminal
    <2> QED
      BY <1>3, <2>1 DEF SegCore, FoundUntilTerminal, EventsKept, Ignore,
                        Terminal
  <1> QED BY <1>2, <1>3

\* The initial state satisfies the invariant.
LEMMA InitSegCore == Init => SegCore
  <1> SUFFICES ASSUME Init PROVE SegCore
    OBVIOUS
  <1>1. Submitting = {}
    BY DEF Init, Submitting
  <1>2. PausedWhileSubmitting
    BY <1>1, FS_EmptySet DEF Init, PausedWhileSubmitting
  <1>3. FoundUntilTerminal /\ EventsOfLrmJobs /\ QueueHandedOver /\ EventsKept
        /\ \A j \in Jobs : phase[j] = "refused" => j \in DryRuns
    BY DEF Init, FoundUntilTerminal, EventsOfLrmJobs, QueueHandedOver,
           EventsKept
  <1> QED BY <1>2, <1>3, InitTypeOK DEF SegCore

\* As long as no dry run leaves SUBMIT every step keeps the invariant.
LEMMA NextSegCore ==
    SegCore /\ [Next]_vars /\ Balanced' => SegCore'
  <1> SUFFICES ASSUME SegCore, [Next]_vars, Balanced' PROVE SegCore'
    OBVIOUS
  <1>t. TypeOK /\ TypeOK' /\ QueueHandedOver /\ QueueHandedOver'
    BY NextTypeOK, NextQueueHandedOver DEF SegCore
  <1>e. /\ \A i \in DOMAIN log : log[i].job \in Jobs
        /\ \A i \in DOMAIN seg_event_queue : seg_event_queue[i].job \in Jobs
        /\ \A i \in DOMAIN resuming : resuming[i].job \in Jobs
    BY <1>t, QueuedEvents DEF TypeOK
  <1>1. ASSUME NEW j \in Jobs, StartSubmit(j) PROVE SegCore'
    <2>1. /\ phase[j] = "staging" /\ phase'[j] = "submitting"
          /\ \A k \in Jobs \ {j} : phase'[k] = phase[k]
          /\ UNCHANGED <<job_id_hash, seg_event_queue, resuming, log, delivered,
                         ignored>>
      BY <1>1, <1>t DEF StartSubmit, MoveTo, TypeOK, lrmVars, eventVars
    <2>2. PausedWhileSubmitting'
      BY <1>1, <1>t, SubmittingGrows
         DEF StartSubmit, PausedWhileSubmitting, SegCore
    <2>3. FoundUntilTerminal' /\ EventsKept'
          /\ \A k \in Jobs : phase'[k] = "refused" => k \in DryRuns
      BY <2>1 DEF FoundUntilTerminal, EventsKept, SegCore, Terminal
    <2>4. EventsOfLrmJobs'
      BY <2>1, <1>e DEF EventsOfLrmJobs, SegCore
    <2> QED BY <1>t, <2>2, <2>3, <2>4 DEF SegCore
  <1>2. ASSUME NEW j \in Jobs, RefuseDryRun(j) PROVE SegCore'
    <2>1. /\ phase[j] = "staging" /\ phase'[j] = "refused" /\ j \in DryRuns
          /\ \A k \in Jobs \ {j} : phase'[k] = phase[k]
          /\ UNCHANGED <<job_id_hash, seg_event_queue, resuming, log, delivered,
                         ignored, seg_pause_count>>
      BY <1>2, <1>t DEF RefuseDryRun, MoveTo, TypeOK, managerVars, lrmVars,
                        eventVars
    <2>2. Submitting' = Submitting
      BY <2>1 DEF Submitting
    <2>3. PausedWhileSubmitting'
      BY <2>1, <2>2 DEF PausedWhileSubmitting, SegCore
    <2>4. FoundUntilTerminal' /\ EventsKept'
          /\ \A k \in Jobs : phase'[k] = "refused" => k \in DryRuns
      BY <2>1 DEF FoundUntilTerminal, EventsKept, SegCore, Terminal
    <2>5. EventsOfLrmJobs'
      BY <2>1, <1>e DEF EventsOfLrmJobs, SegCore
    <2> QED BY <1>t, <2>3, <2>4, <2>5 DEF SegCore
  <1>3. ASSUME NEW j \in Jobs, LrmAccepts(j) PROVE SegCore'
    <2>1. /\ phase[j] = "submitting" /\ phase'[j] = "accepted"
          /\ \A k \in Jobs \ {j} : phase'[k] = phase[k]
          /\ UNCHANGED <<job_id_hash, seg_event_queue, resuming, log, delivered,
                         ignored, seg_pause_count>>
      BY <1>3, <1>t DEF LrmAccepts, MoveTo, TypeOK, managerVars, lrmVars,
                        eventVars
    <2>2. Submitting' = Submitting
      BY <2>1 DEF Submitting
    <2>3. PausedWhileSubmitting'
      BY <2>1, <2>2 DEF PausedWhileSubmitting, SegCore
    <2>4. FoundUntilTerminal' /\ EventsKept'
          /\ \A k \in Jobs : phase'[k] = "refused" => k \in DryRuns
      BY <2>1 DEF FoundUntilTerminal, EventsKept, SegCore, Terminal
    <2>5. EventsOfLrmJobs'
      BY <2>1, <1>e DEF EventsOfLrmJobs, SegCore
    <2> QED BY <1>t, <2>3, <2>4, <2>5 DEF SegCore
  <1>4. ASSUME NEW j \in Jobs, LrmReports(j) PROVE SegCore'
    <2>1. /\ phase[j] \in {"accepted", "submitted"}
          /\ UNCHANGED <<phase, job_id_hash, seg_pause_count, seg_event_queue,
                         resuming, delivered, ignored>>
          /\ log' = Append(log, [job |-> j, n |-> reported'[j]])
      BY <1>4 DEF LrmReports, managerVars, eventVars
    <2>2. [job |-> j, n |-> reported'[j]] \in Events
      BY <1>4, SegAssumption, <1>t DEF Events, LrmReports, TypeOK
    <2> DEFINE new == [job |-> j, n |-> reported'[j]]
    <2>3. \A i \in DOMAIN log' :
              phase[log'[i].job] \in {"accepted", "submitted"}
      <3>1. log \in Seq(Events) /\ new.job = j
        BY <1>t DEF TypeOK
      <3>2. \A i \in DOMAIN log' :
                \/ i \in DOMAIN log /\ log'[i] = log[i]
                \/ log'[i] = new
        BY <2>1, <2>2, <3>1, AppendToQueue
      <3> HIDE DEF new
      <3> QED BY <2>1, <3>1, <3>2 DEF SegCore, EventsOfLrmJobs
    <2>4. EventsOfLrmJobs'
      BY <2>1, <2>3 DEF EventsOfLrmJobs, SegCore
    <2>5. PausedWhileSubmitting'
      BY <2>1 DEF PausedWhileSubmitting, Submitting, SegCore
    <2>6. FoundUntilTerminal' /\ EventsKept'
          /\ \A k \in Jobs : phase'[k] = "refused" => k \in DryRuns
      BY <2>1 DEF FoundUntilTerminal, EventsKept, SegCore, Terminal
    <2> QED BY <1>t, <2>4, <2>5, <2>6 DEF SegCore
  <1>5. ASSUME NEW j \in Jobs, SubmitDone(j) PROVE SegCore'
    <2>1. /\ phase[j] = "accepted" /\ phase'[j] = "submitted"
          /\ \A k \in Jobs \ {j} : phase'[k] = phase[k]
          /\ job_id_hash' = job_id_hash \union {j}
          /\ UNCHANGED <<delivered, ignored>>
      BY <1>5, <1>t DEF SubmitDone, MoveTo, TypeOK, eventVars
    <2>2. j \in Submitting /\ MoveTo(j, "submitted") /\ SegResume
          /\ UNCHANGED <<lrmVars, eventVars>>
      BY <1>5, <2>1 DEF Submitting, SubmitDone
    <2>3. PausedWhileSubmitting' /\ EventsOfLrmJobs'
      BY <2>2, ResumeStep
    <2>4. FoundUntilTerminal' /\ EventsKept'
          /\ \A k \in Jobs : phase'[k] = "refused" => k \in DryRuns
      BY <2>1 DEF FoundUntilTerminal, EventsKept, SegCore, Terminal
    <2> QED BY <1>t, <2>3, <2>4 DEF SegCore
  <1>6. ASSUME NEW j \in Jobs, SubmitFails(j) PROVE SegCore'
    <2>1. /\ phase[j] = "submitting" /\ phase'[j] = "over"
          /\ \A k \in Jobs \ {j} : phase'[k] = phase[k]
          /\ UNCHANGED <<job_id_hash, delivered, ignored>>
      BY <1>6, <1>t DEF SubmitFails, MoveTo, TypeOK, eventVars, SegCore, Balanced
    <2>2. j \in Submitting /\ MoveTo(j, "over") /\ SegResume
          /\ UNCHANGED <<lrmVars, eventVars>>
      BY <1>6, <2>1 DEF Submitting, SubmitFails
    <2>3. PausedWhileSubmitting' /\ EventsOfLrmJobs'
      BY <2>1, <2>2, ResumeStep
    <2>4. FoundUntilTerminal' /\ EventsKept'
          /\ \A k \in Jobs : phase'[k] = "refused" => k \in DryRuns
      BY <2>1 DEF FoundUntilTerminal, EventsKept, SegCore, Terminal
    <2> QED BY <1>t, <2>3, <2>4 DEF SegCore
  <1>7. CASE SegEvent
    <2> DEFINE event == Head(log)
    <2>1. /\ event \in Events /\ event.job \in Jobs
          /\ phase[event.job] \in {"accepted", "submitted"}
      BY <1>7, <1>t, <1>e, TailOfQueue
         DEF SegEvent, TypeOK, SegCore, EventsOfLrmJobs
    <2>2. UNCHANGED <<phase, seg_pause_count, resuming>>
      BY <1>7 DEF SegEvent
    <2>3. PausedWhileSubmitting' /\ \A k \in Jobs : phase'[k] = "refused" => k \in DryRuns
      BY <2>2 DEF PausedWhileSubmitting, Submitting, SegCore
    <2>4. \A i \in DOMAIN log' :
              phase[log'[i].job] \in {"accepted", "submitted"}
      BY <1>7, <1>t, TailOfQueue
         DEF SegEvent, TypeOK, SegCore, EventsOfLrmJobs
    <2>5. \A i \in DOMAIN seg_event_queue' :
              phase[seg_event_queue'[i].job] \in {"accepted", "submitted"}
      <3>1. seg_event_queue \in Seq(Events)
        BY <1>t DEF TypeOK
      <3>2. \/ seg_event_queue' = seg_event_queue
            \/ seg_event_queue' = Append(seg_event_queue, event)
        BY <1>7 DEF SegEvent
      <3>3. \A i \in DOMAIN seg_event_queue' :
                \/ /\ i \in DOMAIN seg_event_queue
                   /\ seg_event_queue'[i] = seg_event_queue[i]
                \/ seg_event_queue'[i] = event
        BY <2>1, <3>1, <3>2, AppendToQueue
      <3> HIDE DEF event
      <3> QED BY <2>1, <3>3 DEF SegCore, EventsOfLrmJobs
    <2>6. EventsOfLrmJobs'
      BY <2>2, <2>4, <2>5 DEF EventsOfLrmJobs, SegCore
    <2>7. CASE event.job \in job_id_hash
      <3>1. Deliver(event)
        BY <1>7, <2>7 DEF SegEvent
      <3>2. FoundUntilTerminal' /\ EventsKept'
        BY <2>1, <2>2, <2>7, <3>1, DeliverStep
      <3> QED BY <1>t, <2>3, <2>6, <3>2 DEF SegCore
    <2>8. CASE event.job \notin job_id_hash /\ seg_pause_count > 0
      <3>1. UNCHANGED <<job_id_hash, delivered, ignored>>
        BY <1>7, <1>t, <2>8 DEF SegEvent, TypeOK, eventVars
      <3>2. FoundUntilTerminal' /\ EventsKept'
        BY <2>2, <3>1 DEF FoundUntilTerminal, EventsKept, SegCore,
                          Terminal
      <3> QED BY <1>t, <2>3, <2>6, <3>2 DEF SegCore
    <2>9. CASE event.job \notin job_id_hash /\ seg_pause_count <= 0
      <3>1. Ignore(event)
        BY <1>7, <1>t, <2>9 DEF SegEvent, TypeOK
      <3>2. Submitting = {}
        BY <2>9, SubmittingFinite DEF SegCore, PausedWhileSubmitting
      <3>3. phase[event.job] = "submitted"
        BY <2>1, <3>2 DEF Submitting
      <3>4. FoundUntilTerminal' /\ EventsKept'
        BY <2>1, <2>2, <2>9, <3>1, <3>3, DeliverStep
      <3> QED BY <1>t, <2>3, <2>6, <3>4 DEF SegCore
    <2> QED BY <1>t, <2>7, <2>8, <2>9 DEF TypeOK
  <1>8. CASE ResumeEvent
    <2> DEFINE event == Head(resuming)
    <2>1. event \in Events /\ phase[event.job] = "submitted"
      BY <1>8, <1>t, TailOfQueue
         DEF ResumeEvent, TypeOK, SegCore, EventsOfLrmJobs
    <2>2. UNCHANGED <<phase, seg_pause_count, seg_event_queue, log>>
      BY <1>8 DEF ResumeEvent, lrmVars
    <2>3. PausedWhileSubmitting' /\ \A k \in Jobs : phase'[k] = "refused" => k \in DryRuns
      BY <2>2 DEF PausedWhileSubmitting, Submitting, SegCore
    <2>4. \A i \in DOMAIN resuming' : phase[resuming'[i].job] = "submitted"
      BY <1>8, <1>t, TailOfQueue
         DEF ResumeEvent, TypeOK, SegCore, EventsOfLrmJobs
    <2>5. EventsOfLrmJobs'
      BY <2>2, <2>4 DEF EventsOfLrmJobs, SegCore
    <2>6. \/ event.job \in job_id_hash /\ Deliver(event)
          \/ event.job \notin job_id_hash /\ Ignore(event)
      BY <1>8 DEF ResumeEvent
    <2>7. FoundUntilTerminal' /\ EventsKept'
      BY <2>1, <2>2, <2>6, DeliverStep
    <2> QED BY <1>t, <2>3, <2>5, <2>7 DEF SegCore
  <1>9. CASE UNCHANGED vars
    BY <1>9, <1>t
       DEF vars, managerVars, lrmVars, eventVars, SegCore, Submitting,
           PausedWhileSubmitting, FoundUntilTerminal, EventsOfLrmJobs,
           EventsKept, Terminal
  <1> QED
    BY <1>1, <1>2, <1>3, <1>4, <1>5, <1>6, <1>7, <1>8, <1>9 DEF Next

\* A dry run that has left SUBMIT does not come back.
LEMMA BalancedBefore == TypeOK /\ [Next]_vars /\ Balanced' => Balanced
  <1> SUFFICES ASSUME TypeOK, [Next]_vars, NEW j \in DryRuns, phase[j] = "over"
               PROVE  phase'[j] = "over"
    BY DEF Balanced
  <1>0. j \in Jobs
    BY SegAssumption
  <1>1. CASE SegEvent \/ ResumeEvent \/ UNCHANGED vars
    BY <1>1 DEF SegEvent, ResumeEvent, vars
  <1>2. ASSUME NEW k \in Jobs,
               \/ StartSubmit(k) \/ RefuseDryRun(k) \/ LrmAccepts(k)
               \/ LrmReports(k) \/ SubmitDone(k) \/ SubmitFails(k)
        PROVE  phase'[j] = "over"
    BY <1>0, <1>2 DEF StartSubmit, RefuseDryRun, LrmAccepts, LrmReports,
                      SubmitDone, SubmitFails, MoveTo, TypeOK
  <1> QED BY <1>1, <1>2 DEF Next

\* Every step keeps the whole invariant.
LEMMA NextSegInvariant == SegInvariant /\ [Next]_vars => SegInvariant'
  <1> SUFFICES ASSUME SegInvariant, [Next]_vars PROVE SegInvariant'
    OBVIOUS
  <1>1. TypeOK' /\ QueueHandedOver'
    BY NextTypeOK, NextQueueHandedOver DEF SegInvariant
  <1>2. ASSUME Balanced' PROVE SegCore'
    BY <1>2, BalancedBefore, NextSegCore DEF SegInvariant
  <1> QED BY <1>1, <1>2 DEF SegInvariant

\* The inductive invariant itself: the pause count is the number of running
\* submit scripts, and every event still on its way finds its job, for any
\* number of jobs and events, until a dry run resumes once too often.
THEOREM SegInvariantHolds == Spec => []SegInvariant
  <1>1. Init => SegInvariant
    BY InitSegCore DEF SegInvariant, SegCore
  <1> QED BY <1>1, NextSegInvariant, PTL DEF Spec

\* For any number of jobs an event is thrown away only after its job's last
\* event was delivered, as long as no dry run with files to stage in has been
\* through SUBMIT: the race between a submit script and the SEG loses nothing.
THEOREM NoEventEverLost == Spec => []NoEventLost
  <1>1. SegInvariant => NoEventLost
    BY DEF SegInvariant, SegCore, NoEventLost
  <1> QED BY <1>1, SegInvariantHolds, PTL

=============================================================================
