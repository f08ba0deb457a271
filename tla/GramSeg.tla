------------------------------ MODULE GramSeg ------------------------------
(***************************************************************************)
(* How the jobs of one manager share the scheduler event generator.  An    *)
(* event names an LRM job id; the manager finds the request through        *)
(* job_id_hash, which learns the id only when the submit script is done.   *)
(* While a submit script runs the SEG is paused: events of unknown jobs    *)
(* go to a manager-wide queue, and the last resume hands that queue to a   *)
(* callback that delivers it.                                              *)
(*                                                                         *)
(* A job is reduced to the part of the state machine that touches the SEG  *)
(* (STAGE_IN, SUBMIT, the unregistration when its last event comes).       *)
(***************************************************************************)
EXTENDS Integers, Sequences, FiniteSets

CONSTANTS
    Jobs,      \* requests of the manager
    DryRuns,   \* those that are dry runs with files to stage in
    NEvents    \* the LRM reports a job NEvents times, the last one terminal

ASSUME SegAssumption ==
    /\ IsFiniteSet(Jobs)
    /\ DryRuns \subseteq Jobs
    /\ NEvents \in Nat \ {0}

Events == [job : Jobs, n : 1..NEvents]

\* Where a request is: before STAGE_IN, submit script running, the LRM has
\* the job, SUBMIT is over, a dry run refused in STAGE_IN.
Phases == {"staging", "submitting", "accepted", "submitted", "refused",
           "over"}

VARIABLES
    phase,            \* [Jobs -> Phases]
    job_id_hash,      \* jobs whose id the manager knows
    seg_pause_count,  \* manager->seg_pause_count
    seg_event_queue,  \* manager->seg_event_queue
    resuming,         \* events of the registered resume callbacks, in order
    log,              \* external: LRM events the SEG has not read yet
    reported,         \* external: how many events the LRM wrote of each job
    delivered,        \* events appended to the requests' queues
    ignored           \* events thrown away

managerVars == <<job_id_hash, seg_pause_count, seg_event_queue, resuming>>
lrmVars     == <<log, reported>>
eventVars   == <<delivered, ignored>>
vars == <<phase, managerVars, lrmVars, eventVars>>

-----------------------------------------------------------------------------

MoveTo(j, p) == phase' = [phase EXCEPT ![j] = p]

\* Mutant: the queue is freed, nothing is registered to deliver it.
SegResume_dropsQueue ==
    /\ seg_pause_count' = seg_pause_count - 1
    /\ seg_event_queue' = IF seg_pause_count' = 0 THEN <<>> ELSE seg_event_queue
    /\ UNCHANGED resuming

\* seg_resume(): the last one to resume takes the whole queue.
SegResume ==
    /\ seg_pause_count' = seg_pause_count - 1
    /\ IF seg_pause_count' = 0
         THEN /\ resuming' = resuming \o seg_event_queue
              /\ seg_event_queue' = <<>>
         ELSE UNCHANGED <<resuming, seg_event_queue>>

\* Mutant: the submit script is started without seg_pause().
StartSubmit_noPause(j) ==
    /\ phase[j] = "staging" /\ j \notin DryRuns
    /\ MoveTo(j, "submitting")
    /\ UNCHANGED <<managerVars, lrmVars, eventVars>>

\* STAGE_IN: seg_pause(), then the submit script is started.
StartSubmit(j) ==
    /\ phase[j] = "staging" /\ j \notin DryRuns
    /\ MoveTo(j, "submitting")
    /\ seg_pause_count' = seg_pause_count + 1
    /\ UNCHANGED <<job_id_hash, seg_event_queue, resuming, lrmVars, eventVars>>

\* STAGE_IN of a dry run: script_submit() refuses it, so seg_pause() is
\* undone at once and the machine goes on to SUBMIT.  With nothing paused the
\* queue is empty, and otherwise the count stays positive.
RefuseDryRun(j) ==
    /\ phase[j] = "staging" /\ j \in DryRuns
    /\ MoveTo(j, "refused")
    /\ UNCHANGED <<managerVars, lrmVars, eventVars>>

\* External: the submit script hands the job to the LRM.
LrmAccepts(j) ==
    /\ phase[j] = "submitting"
    /\ MoveTo(j, "accepted")
    /\ UNCHANGED <<managerVars, lrmVars, eventVars>>

\* External: the LRM writes the next event of a job to its log.
LrmReports(j) ==
    /\ phase[j] \in {"accepted", "submitted"} /\ reported[j] < NEvents
    /\ reported' = [reported EXCEPT ![j] = @ + 1]
    /\ log' = Append(log, [job |-> j, n |-> reported'[j]])
    /\ UNCHANGED <<phase, managerVars, eventVars>>

\* SUBMIT with a job id: register_job_id(), then seg_resume().
SubmitDone(j) ==
    /\ phase[j] = "accepted"
    /\ MoveTo(j, "submitted")
    /\ job_id_hash' = job_id_hash \union {j}
    /\ SegResume
    /\ UNCHANGED <<lrmVars, eventVars>>

\* Mutant: a failed submission returns before seg_resume().
SubmitFails_noResume(j) ==
    /\ phase[j] \in {"submitting", "refused"}
    /\ MoveTo(j, "over")
    /\ UNCHANGED <<managerVars, lrmVars, eventVars>>

\* SUBMIT without a job id, and SUBMIT of a dry run: seg_resume() only.
SubmitFails(j) ==
    /\ phase[j] \in {"submitting", "refused"}
    /\ MoveTo(j, "over")
    /\ SegResume
    /\ UNCHANGED <<job_id_hash, lrmVars, eventVars>>

\* deliver_event(): the terminal event unregisters the job id.
Deliver(event) ==
    /\ delivered' = delivered \union {event}
    /\ job_id_hash' = IF event.n = NEvents THEN job_id_hash \ {event.job}
                                           ELSE job_id_hash
    /\ UNCHANGED ignored

Ignore(event) ==
    /\ ignored' = ignored \union {event}
    /\ UNCHANGED <<job_id_hash, delivered>>

\* seg_event_callback()
SegEvent ==
    /\ log # <<>>
    /\ log' = Tail(log)
    /\ LET event == Head(log)
       IN \/ /\ event.job \in job_id_hash
             /\ Deliver(event)
             /\ UNCHANGED seg_event_queue
          \/ /\ event.job \notin job_id_hash /\ seg_pause_count > 0
             /\ seg_event_queue' = Append(seg_event_queue, event)
             /\ UNCHANGED <<job_id_hash, eventVars>>
          \/ /\ event.job \notin job_id_hash /\ seg_pause_count <= 0
             /\ Ignore(event)
             /\ UNCHANGED seg_event_queue
    /\ UNCHANGED <<phase, seg_pause_count, resuming, reported>>

\* seg_resume_callback(), one event
ResumeEvent ==
    /\ resuming # <<>>
    /\ resuming' = Tail(resuming)
    /\ LET event == Head(resuming)
       IN IF event.job \in job_id_hash THEN Deliver(event) ELSE Ignore(event)
    /\ UNCHANGED <<phase, seg_pause_count, seg_event_queue, lrmVars>>

Init ==
    /\ phase = [j \in Jobs |-> "staging"]
    /\ job_id_hash = {}
    /\ seg_pause_count = 0 /\ seg_event_queue = <<>> /\ resuming = <<>>
    /\ log = <<>> /\ reported = [j \in Jobs |-> 0]
    /\ delivered = {} /\ ignored = {}

Next ==
    \/ \E j \in Jobs :
          \/ StartSubmit(j) \/ RefuseDryRun(j) \/ LrmAccepts(j)
          \/ LrmReports(j) \/ SubmitDone(j) \/ SubmitFails(j)
    \/ SegEvent \/ ResumeEvent

Spec == Init /\ [][Next]_vars

\* The submit scripts end, the LRM goes on to the end of a job, the SEG reads
\* its log and the callback library runs what is registered.
Fairness ==
    /\ \A j \in Jobs : WF_vars(SubmitDone(j) \/ SubmitFails(j))
                       /\ WF_vars(LrmReports(j))
    /\ WF_vars(SegEvent) /\ WF_vars(ResumeEvent)

FairSpec == Spec /\ Fairness

-----------------------------------------------------------------------------
(* Properties                                                               *)

\* Every variable keeps its type.
TypeOK ==
    /\ phase \in [Jobs -> Phases]
    /\ job_id_hash \subseteq Jobs
    /\ seg_pause_count \in Int
    /\ seg_event_queue \in Seq(Events) /\ resuming \in Seq(Events)
    /\ log \in Seq(Events)
    /\ reported \in [Jobs -> 0..NEvents]
    /\ delivered \subseteq Events /\ ignored \subseteq Events

\* Nothing is left in the manager's queue when no submit script runs:
\* seg_resume() hands it over exactly when the count returns to zero.
QueueHandedOver == seg_pause_count <= 0 => seg_event_queue = <<>>

\* Jobs whose submit script runs, so that the manager may not know their id.
Submitting == {j \in Jobs : phase[j] \in {"submitting", "accepted"}}

Terminal(j) == [job |-> j, n |-> NEvents]

\* The pause count is the number of submit scripts (seg_pause() in STAGE_IN,
\* seg_resume() in SUBMIT), so the SEG is paused while any of them runs.
PausedWhileSubmitting ==
    seg_pause_count = Cardinality(Submitting)

\* A job that left SUBMIT with an id is found by it until its last event.
FoundUntilTerminal ==
    \A j \in Jobs : phase[j] = "submitted" =>
        j \in job_id_hash \/ Terminal(j) \in delivered

\* An event that is still to be delivered is about a job the LRM has; one the
\* resume callback holds is about a job whose id is registered already.
EventsOfLrmJobs ==
    /\ \A i \in DOMAIN log : phase[log[i].job] \in {"accepted", "submitted"}
    /\ \A i \in DOMAIN seg_event_queue :
           phase[seg_event_queue[i].job] \in {"accepted", "submitted"}
    /\ \A i \in DOMAIN resuming : phase[resuming[i].job] = "submitted"

\* An event is thrown away only after its job's last one was delivered.
EventsKept == \A event \in ignored : Terminal(event.job) \in delivered

\* No dry run with files to stage in has been through SUBMIT, where it resumes
\* the SEG once more than it paused it.
Balanced == \A j \in DryRuns : phase[j] # "over"

\* No event is lost to the race between the submit script and the SEG
\* (seg_event_callback(), "Avoid race by adding this to the manager-wide
\* queue"): until a dry run resumes once too often, an event is thrown away
\* only when the terminal event of its job has already been delivered.
NoEventLost == Balanced => EventsKept

\* Why no event is lost: the pause covers every job the LRM may report before
\* its id is in job_id_hash.
SegCore ==
    /\ TypeOK
    /\ \A j \in Jobs : phase[j] = "refused" => j \in DryRuns
    /\ PausedWhileSubmitting
    /\ FoundUntilTerminal
    /\ EventsOfLrmJobs
    /\ QueueHandedOver
    /\ EventsKept

\* The inductive invariant: the queue is handed over in any case, and pauses,
\* ids and events match as long as no dry run has upset the count.
SegInvariant == TypeOK /\ QueueHandedOver /\ (Balanced => SegCore)

\* Every job the LRM accepted gets its terminal event in the end, whatever
\* other jobs were submitting when it was read, unless a dry run upset the
\* count (SUBMIT's unconditional seg_resume()).
TerminalDelivered ==
    \A j \in Jobs :
        (phase[j] = "accepted") ~> (Terminal(j) \in delivered \/ ~Balanced)

=============================================================================
