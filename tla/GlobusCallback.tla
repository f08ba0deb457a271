-------------------------- MODULE GlobusCallback --------------------------
(***************************************************************************)
(* The threaded callback library (common/source/library/                   *)
(* globus_callback_threads.c): the global callback space, its ready and    *)
(* timed queues, the polling threads, the threads dedicated to periodics   *)
(* of a small period, and the calls a program makes on a callback handle.  *)
(*                                                                         *)
(* One action is one section under the lock of the space (or of the thread *)
(* count), with the condition signal that ends it.  A callback a program   *)
(* registers is the entry <<c, "cb">>; the oneshot the library registers   *)
(* to deliver an unregister callback is the entry <<c, "kick">>.           *)
(***************************************************************************)
EXTENDS Naturals, Sequences, FiniteSets, SequencesExt

CONSTANTS
    Callbacks,      \* the callbacks the program registers
    NoHandle,       \* those registered without asking for a handle
    Oneshots,       \* those that are only registered as oneshots
    Threads,        \* thread identities; bounds the threads alive at once
    Pollers,        \* the threads the module starts on activation
    Starts,         \* when a callback may start: "now", "delay", "never"
    Periods,        \* periods in use: "zero", "own" (<= 5 ms), "long"
    MaxAdjust,      \* bound on the adjust_* calls
    ResumeBlocked   \* TRUE: programs resume a suspended periodic while its
                    \* only invocations are ones that have blocked

ASSUME CallbackAssumption ==
    /\ NoHandle \subseteq Callbacks
    /\ Oneshots \subseteq Callbacks
    /\ IsFiniteSet(Threads)
    /\ Pollers \subseteq Threads /\ Pollers # {}
    /\ Starts \subseteq {"now", "delay", "never"}
    /\ Periods \subseteq {"zero", "own", "long"}
    /\ MaxAdjust \in Nat
    /\ ResumeBlocked \in BOOLEAN

VARIABLES
    info,           \* entry -> its callback_info
    ready_queue,    \* sequence of entries ready to run
    timed_queue,    \* entries whose start time is in the future
    due_queue,      \* entries of the timed queue whose time has come
    thread,         \* thread -> its place in the code and its restart_info
    thread_count,   \* globus_l_callback_thread_count
    shutdown,       \* shutting_down, and the space's shutdown
    phase,          \* callback -> what the program has done with it
    notified,       \* callback -> calls of its unregister callback
    stolen,         \* a condition signal went to a dedicated thread
    adjusts         \* adjust_* calls made

vars == <<info, ready_queue, timed_queue, due_queue, thread, thread_count,
          shutdown, phase, notified, stolen, adjusts>>

space == <<ready_queue, timed_queue, due_queue>>

Entries == Callbacks \X {"cb", "kick"}
Cb(c) == <<c, "cb">>
Kick(c) == <<c, "kick">>

\* globus_l_callback_own_thread_period: periods up to it get a thread.
Small == {"zero", "own"}

NoInfo == [in_queue |-> "none", running_count |-> 0, is_periodic |-> FALSE,
           period |-> "long", unregister_callback |-> FALSE, refs |-> 0]

NoThread == [pc |-> "none", own |-> FALSE, restarted |-> FALSE, e |-> <<>>]
NewPoller == [NoThread EXCEPT !.pc = "poll"]

TypeOK ==
    /\ info \in [Entries -> [in_queue : {"none", "timed", "ready"},
                             running_count : 0 .. Cardinality(Threads),
                             is_periodic : BOOLEAN,
                             period : {"zero", "own", "long"},
                             unregister_callback : BOOLEAN,
                             refs : Nat]]
    /\ ready_queue \in Seq(Entries)
    /\ timed_queue \subseteq Entries
    /\ due_queue \in Seq(Entries)
    /\ thread \in [Threads ->
           [pc : {"none", "poll", "wait", "timedwait", "woken", "run", "ret",
                  "respawn", "finish", "kick", "decref", "spawn", "ownwait",
                  "ownwoken", "exit"},
            own : BOOLEAN, restarted : BOOLEAN, e : Entries \cup {<<>>}]]
    /\ thread_count \in 0 .. Cardinality(Threads)
    /\ shutdown \in BOOLEAN
    /\ phase \in [Callbacks -> {"new", "live", "inactive", "active",
                                "released", "draining"}]
    /\ notified \in [Callbacks -> Nat]
    /\ stolen \in BOOLEAN
    /\ adjusts \in 0 .. MaxAdjust

(***************************************************************************)
(* Queues and signals.                                                     *)
(***************************************************************************)

Waiting(th) == {t \in Threads : th[t].pc \in {"wait", "timedwait", "ownwait"}}

Wake(th, t) ==
    [th EXCEPT ![t].pc = IF @ = "ownwait" THEN "ownwoken" ELSE "woken"]

\* globus_cond_signal(&i_space->cond), sent when idle_count > 0: it wakes one
\* of the threads that wait, a poller or a dedicated thread that sleeps.
Signal(th) ==
    IF Waiting(th) = {}
    THEN thread' = th /\ UNCHANGED stolen
    ELSE \E t \in Waiting(th) :
             /\ thread' = Wake(th, t)
             /\ stolen' = (stolen \/ th[t].pc = "ownwait")

\* The head of get_next and of requeue: what is due moves to the ready queue.
DueReady(i) ==
    [e \in Entries |-> IF Contains(due_queue, e)
                       THEN [i[e] EXCEPT !.in_queue = "ready"] ELSE i[e]]

\* Takes e out of whichever queue holds it.
Dequeued(e) ==
    /\ ready_queue' = RemoveFirst(ready_queue, e)
    /\ due_queue' = RemoveFirst(due_queue, e)
    /\ timed_queue' = timed_queue \ {e}

EnqueueTimed(e) ==
    /\ ready_queue' = RemoveFirst(ready_queue, e)
    /\ due_queue' = RemoveFirst(due_queue, e)
    /\ timed_queue' = timed_queue \cup {e}

EnqueueReady(e) ==
    /\ ready_queue' = Append(RemoveFirst(ready_queue, e), e)
    /\ due_queue' = RemoveFirst(due_queue, e)
    /\ timed_queue' = timed_queue \ {e}

\* globus_l_callback_requeue: the next start time of a periodic with a
\* period may already have passed.
Requeue(i, e, q) ==
    /\ q = "timed" => i[e].period # "zero"
    /\ info' = [DueReady(i) EXCEPT ![e].in_queue = q]
    /\ ready_queue' = ready_queue \o due_queue
                        \o (IF q = "ready" THEN <<e>> ELSE <<>>)
    /\ due_queue' = <<>>
    /\ timed_queue' = IF q = "timed" THEN timed_queue \cup {e} ELSE timed_queue

Deactivated == shutdown /\ thread_count = 0

(***************************************************************************)
(* The program's calls.                                                    *)
(***************************************************************************)

QueueOf(start) == CASE start = "now" -> "ready" [] start = "delay" -> "timed"
                    [] start = "never" -> "none"

\* Mutant: the sleeping threads are told only of a callback that is ready.
Register_signalsReady(c, start, periodic, period) ==
    /\ phase[c] = "new" /\ ~Deactivated
    /\ phase' = [phase EXCEPT ![c] = "live"]
    /\ info' = [info EXCEPT ![Cb(c)] =
         [NoInfo EXCEPT !.in_queue = QueueOf(start), !.is_periodic = periodic,
                        !.period = period, !.refs = (IF c \in NoHandle THEN 1 ELSE 2) - (IF start = "never" THEN 1 ELSE 0)]]
    /\ ready_queue' = IF start = "now" THEN Append(ready_queue, Cb(c))
                                       ELSE ready_queue
    /\ timed_queue' = IF start = "delay" THEN timed_queue \cup {Cb(c)}
                                         ELSE timed_queue
    /\ IF start = "now" THEN Signal(thread) ELSE UNCHANGED <<thread, stolen>>
    /\ UNCHANGED <<due_queue, thread_count, shutdown, notified, adjusts>>

\* globus_callback_space_register_oneshot / _periodic, _register.  A callback
\* that never starts leaves the library's reference at once.
Register(c, start, periodic, period) ==
    /\ phase[c] = "new" /\ ~Deactivated
    /\ phase' = [phase EXCEPT ![c] = "live"]
    /\ info' = [info EXCEPT ![Cb(c)] =
         [NoInfo EXCEPT !.in_queue = QueueOf(start),
                        !.is_periodic = periodic,
                        !.period = period,
                        !.refs = (IF c \in NoHandle THEN 1 ELSE 2)
                                   - (IF start = "never" THEN 1 ELSE 0)]]
    /\ ready_queue' = IF start = "now" THEN Append(ready_queue, Cb(c))
                                       ELSE ready_queue
    /\ timed_queue' = IF start = "delay" THEN timed_queue \cup {Cb(c)}
                                         ELSE timed_queue
    /\ Signal(thread)
    /\ UNCHANGED <<due_queue, thread_count, shutdown, notified, adjusts>>

HasHandle(c) == phase[c] = "live" /\ c \notin NoHandle /\ ~Deactivated

\* The registration of the oneshot that delivers c's unregister callback.
KickoutInfo(i, c) ==
    [i EXCEPT ![Kick(c)] = [NoInfo EXCEPT !.in_queue = "ready", !.refs = 1]]

\* globus_callback_unregister of a callback with an invocation in progress.
UnregisterActive(c, cb) ==
    LET e == Cb(c) IN
    /\ HasHandle(c)
    /\ info[e].running_count > 0
    /\ phase' = [phase EXCEPT ![c] = IF cb THEN "active" ELSE "draining"]
    /\ info' = [info EXCEPT ![e] = [info[e] EXCEPT
                  !.unregister_callback = cb,
                  !.in_queue = IF info[e].is_periodic THEN "none"
                                                      ELSE info[e].in_queue,
                  !.is_periodic = FALSE,
                  !.refs = info[e].refs - 1]]
    /\ IF info[e].is_periodic THEN Dequeued(e) ELSE UNCHANGED space
    /\ UNCHANGED <<thread, thread_count, shutdown, notified, stolen, adjusts>>

\* globus_callback_unregister of a callback that is not running.
UnregisterInactive(c, cb) ==
    LET e == Cb(c)
        i == [info EXCEPT ![e] = [info[e] EXCEPT
                !.unregister_callback = cb,
                !.in_queue = "none",
                !.refs = info[e].refs
                           - (IF info[e].in_queue # "none" THEN 1 ELSE 0)
                           - (IF cb THEN 0 ELSE 1)]] IN
    /\ HasHandle(c)
    /\ info[e].running_count = 0
    /\ phase' = [phase EXCEPT ![c] = IF cb THEN "inactive" ELSE "released"]
    /\ timed_queue' = timed_queue \ {e}
    /\ due_queue' = RemoveFirst(due_queue, e)
    /\ IF cb
       THEN /\ info' = KickoutInfo(i, c)
            /\ ready_queue' = Append(RemoveFirst(ready_queue, e), Kick(c))
            /\ Signal(thread)
       ELSE /\ info' = i
            /\ ready_queue' = RemoveFirst(ready_queue, e)
            /\ UNCHANGED <<thread, stolen>>
    /\ UNCHANGED <<thread_count, shutdown, notified, adjusts>>

Adjust(c) ==
    /\ HasHandle(c)
    /\ adjusts < MaxAdjust /\ adjusts' = adjusts + 1
    /\ UNCHANGED <<thread_count, shutdown, phase, notified>>

\* globus_callback_adjust_oneshot of a queued callback: to a new delay, or
\* to run at once.
AdjustOneshot(c, q) ==
    LET e == Cb(c) IN
    /\ Adjust(c)
    /\ ~info[e].is_periodic /\ info[e].in_queue # "none"
    /\ info' = [info EXCEPT ![e].in_queue = q]
    /\ CASE q = "timed" -> EnqueueTimed(e)
         [] q = "ready" -> IF info[e].in_queue = "timed" THEN EnqueueReady(e)
                                                         ELSE UNCHANGED space
    /\ Signal(thread)

\* Mutant: the library's reference is dropped though an invocation runs.
Suspend_dropsRunning(c) ==
    LET e == Cb(c) IN
    /\ Adjust(c)
    /\ info' = [info EXCEPT ![e] = [info[e] EXCEPT
                  !.is_periodic = FALSE, !.in_queue = "none",
                  !.refs = info[e].refs
                             - (IF info[e].in_queue # "none" THEN 1 ELSE 0)]]
    /\ Dequeued(e)
    /\ UNCHANGED <<thread, stolen>>

\* globus_callback_adjust_period to infinity: suspends the callback.
Suspend(c) ==
    LET e == Cb(c) IN
    /\ Adjust(c)
    /\ info' = [info EXCEPT ![e] = [info[e] EXCEPT
                  !.is_periodic = FALSE,
                  !.in_queue = "none",
                  !.refs = info[e].refs - (IF info[e].in_queue # "none"
                                                /\ info[e].running_count = 0
                                           THEN 1 ELSE 0)]]
    /\ Dequeued(e)
    /\ UNCHANGED <<thread, stolen>>

\* Every thread that is in the callback has blocked in it (blocked_cb): none
\* will queue it again when it returns.
AllBlocked(e) ==
    \A t \in Threads :
        thread[t].e = e /\ thread[t].pc \notin {"kick", "decref"}
          => thread[t].restarted

\* The queue adjust_period puts a callback with period p in: the timed queue,
\* or the ready queue when the period is zero.
PeriodQueue(p) == IF p = "zero" THEN "ready" ELSE "timed"

\* globus_callback_adjust_period to a finite period, of a callback that is
\* queued, or that the library does not hold (it is queued again and the
\* library takes its reference back).
Resume(c, p) ==
    LET e == Cb(c) IN
    /\ Adjust(c)
    /\ info[e].in_queue # "none" \/ info[e].running_count = 0
    /\ info' = [info EXCEPT ![e] = [info[e] EXCEPT
                  !.is_periodic = TRUE, !.period = p,
                  !.in_queue = PeriodQueue(p),
                  !.refs = info[e].refs
                             + (IF info[e].in_queue = "none" THEN 1 ELSE 0)]]
    /\ CASE p # "zero" -> EnqueueTimed(e)
         [] p = "zero" -> IF info[e].in_queue # "ready" THEN EnqueueReady(e)
                                                        ELSE UNCHANGED space
    /\ Signal(thread)

\* globus_callback_adjust_period to a finite period while the callback runs
\* and is not queued: "when it gets requeued it will be with the new priority".
ResumeRunning(c, p) ==
    LET e == Cb(c) IN
    /\ Adjust(c)
    /\ info[e].in_queue = "none" /\ info[e].running_count > 0
    /\ ResumeBlocked \/ info[e].is_periodic \/ ~AllBlocked(e)
    /\ info' = [info EXCEPT ![e].is_periodic = TRUE, ![e].period = p]
    /\ UNCHANGED <<thread, stolen>> /\ UNCHANGED space

(***************************************************************************)
(* The threads.                                                            *)
(***************************************************************************)

\* The start time of a timed entry passes.
Due(e) ==
    /\ e \in timed_queue
    /\ timed_queue' = timed_queue \ {e}
    /\ due_queue' = Append(due_queue, e)
    /\ UNCHANGED <<info, ready_queue, thread, thread_count, shutdown, phase,
                   notified, stolen, adjusts>>

\* globus_l_callback_thread_poll, the loop under the space's lock: wait, or
\* get_next and run or hand to a thread of its own, or leave on shutdown.
Poll(t) ==
    LET q == ready_queue \o due_queue
        e == Head(q) IN
    /\ thread[t].pc \in {"poll", "woken"}
    /\ IF shutdown
       THEN /\ thread' = [thread EXCEPT ![t].pc = "exit"]
            /\ UNCHANGED <<info, space>>
       ELSE IF q = <<>>
       THEN /\ thread' = [thread EXCEPT ![t].pc =
                            IF timed_queue = {} THEN "wait" ELSE "timedwait"]
            /\ UNCHANGED <<info, space>>
       ELSE /\ info' = [DueReady(info) EXCEPT ![e].in_queue = "none",
                                              ![e].running_count = @ + 1]
            /\ ready_queue' = Tail(q)
            /\ due_queue' = <<>>
            /\ thread' = [thread EXCEPT ![t].e = e, ![t].pc =
                            IF info[e].is_periodic /\ info[e].period \in Small
                            THEN "spawn" ELSE "run"]
            /\ UNCHANGED timed_queue
    /\ UNCHANGED <<thread_count, shutdown, phase, notified, stolen, adjusts>>

\* globus_cond_timedwait returns because its time has come.
PollTimeout(t) ==
    /\ thread[t].pc = "timedwait"
    /\ thread' = [thread EXCEPT ![t].pc = "woken"]
    /\ UNCHANGED <<info, space, thread_count, shutdown, phase, notified,
                   stolen, adjusts>>

\* thread_poll hands a periodic of a small period to a thread of its own,
\* unless the module is shutting down.
SpawnOwn(t) ==
    /\ thread[t].pc = "spawn"
    /\ IF shutdown
       THEN /\ thread' = [thread EXCEPT ![t].pc = "poll", ![t].e = <<>>]
            /\ UNCHANGED thread_count
       ELSE \E n \in Threads :
            /\ thread[n].pc = "none"
            /\ thread' = [thread EXCEPT
                 ![t].pc = "poll", ![t].e = <<>>,
                 ![n] = [NoThread EXCEPT !.pc = "run", !.own = TRUE,
                                         !.e = thread[t].e]]
            /\ thread_count' = thread_count + 1
    /\ UNCHANGED <<info, space, shutdown, phase, notified, stolen, adjusts>>

\* globus_l_callback_blocked_cb: the running callback waits; a periodic is
\* queued again, and the thread is marked restarted.
Blocked(t, q) ==
    LET e == thread[t].e
        th == [thread EXCEPT ![t].restarted = TRUE,
                             ![t].pc = IF thread[t].own THEN "run" ELSE "respawn"] IN
    /\ thread[t].pc = "run" /\ ~thread[t].restarted
    /\ IF info[e].is_periodic
       THEN Requeue(info, e, q) /\ Signal(th)
       ELSE q = "ready" /\ thread' = th /\ UNCHANGED <<info, space, stolen>>
    /\ UNCHANGED <<thread_count, shutdown, phase, notified, adjusts>>

\* The rest of blocked_cb, under the thread lock: another poller takes the
\* blocked one's place, unless the module is shutting down.
Respawn(t) ==
    /\ thread[t].pc = "respawn"
    /\ IF shutdown
       THEN /\ thread' = [thread EXCEPT ![t].pc = "run"]
            /\ UNCHANGED thread_count
       ELSE \E n \in Threads :
            /\ thread[n].pc = "none"
            /\ thread' = [thread EXCEPT ![t].pc = "run", ![n] = NewPoller]
            /\ thread_count' = thread_count + 1
    /\ UNCHANGED <<info, space, shutdown, phase, notified, stolen, adjusts>>

\* globus_l_callback_cancel_kickout_cb: calls the unregister callback and
\* drops the reference it was given.
CancelKickout(t) ==
    LET c == thread[t].e[1] IN
    /\ thread[t].pc = "run" /\ thread[t].e = Kick(c)
    /\ notified' = [notified EXCEPT ![c] = @ + 1]
    /\ info' = [info EXCEPT ![Cb(c)].refs = @ - 1]
    /\ thread' = [thread EXCEPT ![t].pc = "finish"]
    /\ UNCHANGED <<space, thread_count, shutdown, phase, stolen, adjusts>>

\* A user callback returns to thread_poll.
Return(t) ==
    /\ thread[t].pc = "run" /\ ~thread[t].own /\ thread[t].e[2] = "cb"
    /\ thread' = [thread EXCEPT ![t].pc = "finish"]
    /\ UNCHANGED <<info, space, thread_count, shutdown, phase, notified,
                   stolen, adjusts>>

\* A periodic returns to globus_l_callback_thread_callback, which runs it
\* again, sleeps until its next start time, or gives the thread up.
ReturnOwn(t) ==
    LET i == info[thread[t].e] IN
    /\ thread[t].pc = "run" /\ thread[t].own
    /\ \/ /\ ~thread[t].restarted /\ i.is_periodic /\ i.period = "own"
          /\ ~shutdown
          /\ thread' = [thread EXCEPT ![t].pc = "ownwait"]
       \/ /\ thread[t].restarted \/ ~i.is_periodic \/ i.period \notin Small
               \/ shutdown
          /\ thread' = [thread EXCEPT ![t].pc = "finish"]
    /\ UNCHANGED <<info, space, thread_count, shutdown, phase, notified,
                   stolen, adjusts>>

\* The dedicated thread's timed wait ends: at its time or on shutdown it
\* runs the callback again or gives the thread up, otherwise it waits on.
OwnWake(t) ==
    LET i == info[thread[t].e] IN
    /\ thread[t].pc \in {"ownwait", "ownwoken"}
    /\ thread' = [thread EXCEPT ![t].pc =
                    IF ~shutdown /\ i.is_periodic /\ i.period \in Small
                    THEN "run" ELSE "finish"]
    /\ UNCHANGED <<info, space, thread_count, shutdown, phase, notified,
                   stolen, adjusts>>

OwnWaitAgain(t) ==
    /\ thread[t].pc = "ownwoken" /\ ~shutdown
    /\ thread' = [thread EXCEPT ![t].pc = "ownwait"]
    /\ UNCHANGED <<info, space, thread_count, shutdown, phase, notified,
                   stolen, adjusts>>

\* Mutant: a poller that was replaced while it was blocked polls on.
After_pollsOn(th, t) ==
    [th EXCEPT ![t].pc = IF th[t].own THEN "exit" ELSE "poll",
               ![t].restarted = FALSE, ![t].e = <<>>]

\* Where a thread goes after finish_callback.
After(th, t) ==
    [th EXCEPT ![t].pc = IF th[t].own \/ th[t].restarted THEN "exit" ELSE "poll",
               ![t].e = <<>>]

\* Mutant: the first invocation to end announces the end of all of them.
FinishCallback_eager(t, q) ==
    LET e == thread[t].e
        i == [info EXCEPT ![e].running_count = @ - 1] IN
    /\ thread[t].pc = "finish"
    /\ IF ~i[e].is_periodic
       THEN /\ q = "ready"
            /\ info' = i
            /\ thread' = [thread EXCEPT ![t].pc =
                            IF i[e].unregister_callback THEN "kick" ELSE "decref"]
            /\ UNCHANGED <<space, stolen>>
       ELSE IF ~thread[t].restarted
       THEN Requeue(i, e, q) /\ Signal(After(thread, t))
       ELSE /\ q = "ready"
            /\ info' = i
            /\ thread' = After(thread, t)
            /\ UNCHANGED <<space, stolen>>
    /\ UNCHANGED <<thread_count, shutdown, phase, notified, adjusts>>

\* globus_l_callback_finish_callback, its section under the space's lock.
FinishCallback(t, q) ==
    LET e == thread[t].e
        i == [info EXCEPT ![e].running_count = @ - 1] IN
    /\ thread[t].pc = "finish"
    /\ IF ~i[e].is_periodic /\ i[e].running_count = 0
       THEN /\ q = "ready"
            /\ info' = i
            /\ thread' = [thread EXCEPT ![t].pc =
                            IF i[e].unregister_callback THEN "kick" ELSE "decref"]
            /\ UNCHANGED <<space, stolen>>
       ELSE IF i[e].is_periodic /\ ~thread[t].restarted
       THEN Requeue(i, e, q) /\ Signal(After(thread, t))
       ELSE /\ q = "ready"
            /\ info' = i
            /\ thread' = After(thread, t)
            /\ UNCHANGED <<space, stolen>>
    /\ UNCHANGED <<thread_count, shutdown, phase, notified, adjusts>>

\* Mutant: the kickout is queued and no poller is told.
FinishKickout_quiet(t) ==
    LET c == thread[t].e[1] IN
    /\ thread[t].pc = "kick"
    /\ info' = KickoutInfo(info, c)
    /\ ready_queue' = Append(ready_queue, Kick(c))
    /\ thread' = After(thread, t)
    /\ UNCHANGED <<timed_queue, due_queue, thread_count, shutdown, phase,
                   notified, stolen, adjusts>>

\* finish_callback registers the oneshot for the unregister callback.
FinishKickout(t) ==
    LET c == thread[t].e[1] IN
    /\ thread[t].pc = "kick"
    /\ info' = KickoutInfo(info, c)
    /\ ready_queue' = Append(ready_queue, Kick(c))
    /\ Signal(After(thread, t))
    /\ UNCHANGED <<timed_queue, due_queue, thread_count, shutdown, phase,
                   notified, adjusts>>

\* finish_callback drops the library's reference.
FinishDecRef(t) ==
    /\ thread[t].pc = "decref"
    /\ info' = [info EXCEPT ![thread[t].e].refs = @ - 1]
    /\ thread' = After(thread, t)
    /\ UNCHANGED <<space, thread_count, shutdown, phase, notified, stolen,
                   adjusts>>

\* The end of thread_poll and of thread_callback.
Exit(t) ==
    /\ thread[t].pc = "exit"
    /\ thread' = [thread EXCEPT ![t] = NoThread]
    /\ thread_count' = thread_count - 1
    /\ UNCHANGED <<info, space, shutdown, phase, notified, stolen, adjusts>>

\* globus_l_callback_deactivate: stops new threads, marks the space shut
\* down and wakes whoever waits; it returns when thread_count is 0.
Deactivate ==
    /\ ~shutdown
    /\ shutdown' = TRUE
    /\ thread' = [t \in Threads |->
                    IF t \in Waiting(thread) THEN Wake(thread, t)[t] ELSE thread[t]]
    /\ UNCHANGED <<info, space, thread_count, phase, notified, stolen, adjusts>>

(***************************************************************************)
(* The specification.                                                      *)
(***************************************************************************)

\* globus_l_callback_activate.
Init ==
    /\ info = [e \in Entries |-> NoInfo]
    /\ ready_queue = <<>> /\ timed_queue = {} /\ due_queue = <<>>
    /\ thread = [t \in Threads |-> IF t \in Pollers THEN NewPoller ELSE NoThread]
    /\ thread_count = Cardinality(Pollers)
    /\ shutdown = FALSE
    /\ phase = [c \in Callbacks |-> "new"]
    /\ notified = [c \in Callbacks |-> 0]
    /\ stolen = FALSE
    /\ adjusts = 0

Program(c) ==
    \/ \E s \in Starts : Register(c, s, FALSE, "long")
    \/ \E s \in Starts, p \in Periods : c \notin Oneshots /\ Register(c, s, TRUE, p)
    \/ \E cb \in BOOLEAN : UnregisterActive(c, cb)
    \/ \E cb \in BOOLEAN : UnregisterInactive(c, cb)
    \/ \E q \in {"timed", "ready"} : AdjustOneshot(c, q)
    \/ Suspend(c)
    \/ \E p \in Periods : Resume(c, p)
    \/ \E p \in Periods : ResumeRunning(c, p)

ThreadStep(t) ==
    \/ Poll(t)
    \/ PollTimeout(t)
    \/ SpawnOwn(t)
    \/ Respawn(t)
    \/ CancelKickout(t)
    \/ Return(t)
    \/ ReturnOwn(t)
    \/ OwnWake(t)
    \/ \E q \in {"timed", "ready"} : FinishCallback(t, q)
    \/ FinishKickout(t)
    \/ FinishDecRef(t)
    \/ Exit(t)

Next ==
    \/ \E c \in Callbacks : Program(c)
    \/ \E e \in Entries : Due(e)
    \/ \E t \in Threads : ThreadStep(t)
    \/ \E t \in Threads, q \in {"timed", "ready"} : Blocked(t, q)
    \/ \E t \in Threads : OwnWaitAgain(t)
    \/ Deactivate

\* Threads are scheduled, time passes, and callbacks return.
Fairness ==
    /\ \A t \in Threads : WF_vars(ThreadStep(t))
    /\ \A e \in Entries : WF_vars(Due(e))

Spec == Init /\ [][Next]_vars /\ Fairness

(***************************************************************************)
(* Properties.                                                             *)
(***************************************************************************)

B(b) == IF b THEN 1 ELSE 0

\* The reference count of a callback is exactly the number of those that will
\* still use it: the program while it holds the handle, the library while the
\* callback is queued or running, a thread about to drop the library's
\* reference or to register the kickout, and a kickout not yet delivered
\* (register, unregister, adjust_period, finish_callback, cancel_kickout_cb).
\* A count too low frees the callback under a thread, one too high leaks it.
RefsAccounted ==
    \A c \in Callbacks :
        LET i == info[Cb(c)]  k == info[Kick(c)] IN
        /\ i.refs = B(phase[c] = "live" /\ c \notin NoHandle)
                     + B(i.in_queue # "none" \/ i.running_count > 0)
                     + Cardinality({t \in Threads : thread[t].e = Cb(c)
                                      /\ thread[t].pc \in {"decref", "kick"}})
                     + B(k.refs > 0 /\ notified[c] = 0)
        /\ k.refs = B(k.in_queue # "none" \/ k.running_count > 0)
                     + Cardinality({t \in Threads : thread[t].e = Kick(c)
                                      /\ thread[t].pc \in {"decref", "kick"}})

\* Type correctness and the reference counts together.
CallbackInvariant == TypeOK /\ RefsAccounted

\* A poller that is not asleep and will look at the queues again.
Active(t) ==
    /\ ~thread[t].own
    /\ thread[t].pc \in {"poll", "woken", "run", "respawn", "finish", "kick",
                          "decref", "spawn"}
    /\ ~thread[t].restarted \/ thread[t].pc = "respawn"

\* No wake-up is lost: while something is ready some poller is awake, and
\* while something is timed some poller is awake or waits with a time limit.
\* It holds for as long as no signal on the space's condition variable was
\* taken by a dedicated thread, which sleeps on the same variable
\* (register, adjust_*, requeue, thread_poll, thread_callback).
NoWakeupLost ==
    ~shutdown /\ ~stolen =>
        /\ ready_queue # <<>> => \E t \in Threads : Active(t)
        /\ timed_queue # {} \/ due_queue # <<>> =>
              \E t \in Threads : Active(t) \/ thread[t].pc = "timedwait"

\* Until shutdown the number of pollers that will poll again stays what
\* activation made it, through blocked callbacks and dedicated threads
\* (blocked_cb, thread_poll), and deactivation waits for every thread.
PollersKept ==
    /\ ~shutdown => Cardinality({t \in Threads : Active(t)
                        \/ thread[t].pc \in {"wait", "timedwait"}})
                     = Cardinality(Pollers)
    /\ thread_count = Cardinality({t \in Threads : thread[t].pc # "none"})

\* A callback that is ready does not wait for ever, unless the module shuts
\* down or a dedicated thread took a signal.
ReadyServed ==
    \A e \in Entries :
        (info[e].in_queue = "ready")
           ~> (info[e].in_queue # "ready" \/ shutdown \/ stolen)

\* What the library promises the program, as GlobusCallbackService states it.
Service == INSTANCE GlobusCallbackService WITH
    executing <- [c \in Callbacks |->
                    Cardinality({t \in Threads : thread[t].e = Cb(c)
                                   /\ thread[t].pc \in {"run", "respawn"}})],
    impaired <- shutdown \/ stolen

Implements == Service!Spec
=============================================================================
