# A TLA+ verification of the Globus Toolkit

The repository holds the Globus Toolkit: a common runtime (callbacks, threads,
handles), the XIO stack, GridFTP, GASS, the GSI security libraries and GRAM,
which submits and monitors jobs in local resource managers (LRMs).  This
project models the parts with the most protocol state of their own: the GRAM5
job manager (`src/gram/jobmanager/source`), the threaded callback library
everything runs on, the life of an XIO handle and of its reads, and a transfer
in the data node of the GridFTP server.  It keeps an inventory and a plan for
the rest.

File names below without a path are in `src/gram/jobmanager/source`, and
`state.c`, `query.c`, ... stand for `globus_gram_job_manager_state.c`, ....
`callback_threads.c` is `src/common/source/library/globus_callback_threads.c`;
`handle.c`, `pass.c`, `driver.c`, `timeout.c` are `src/xio/src/globus_xio_*.c`;
`gfs_data.c` is `src/gridftp/server/src/globus_i_gfs_data.c`.

## 1. Inventory

### The job manager

| Part | State it keeps | Operations | Hard behaviour | What makes it correct |
|---|---|---|---|---|
| State machine (`state.c`) | `jobmanager_state`, `status`, `failure_code`, `restart_state`, `unsent_status_change`, `poll_timer` | one `case` per state; `state_machine_register` | it sleeps whenever a case returns `event_registered`, and only a timer, script, callback, query or event wakes it | it is never left asleep with work to do; every job settles; the LRM gets a job once and only after its commit |
| Queries and signals (`query.c`) | `pending_queries`, `commit_extend` | cancel, register, unregister, SUSPEND, RESUME, PRIORITY, CANCEL, COMMIT_REQUEST, COMMIT_END, COMMIT_EXTEND, STDIO_UPDATE, STOP_MANAGER | they arrive in every state of the machine and change that state themselves | a queued query is answered, and only once its script is over |
| LRM scripts (`script.c`) | the scripts in flight, the state each was started in | start, one callback per output variable, end of output | output arrives while queries and events change the request; a script may end without saying anything | a script writes to a query only while it is queued |
| Scheduler events (`seg.c`) | `seg_pause_count`, `seg_event_queue` (manager), `seg_event_queue` (request), `job_id_hash` | pause, resume, event callback, resume callback, `seg_handle_event` | events of a job come before the manager knows the job's id | no event of a job that is still monitored is thrown away |
| Contacts (`contact.c`) | `client_contacts`, callbacks in flight | `contact_state_callback`, the reply | the reply of the final callback restarts the machine | a job that was accepted is not forgotten before its end was sent |
| State file and recovery (`state_file.c`, `request.c`, `globus_gram_job_manager.c`) | the file, `restart_state`, `pending_restarts`, reference counts | write, read, load all, swap out | a crash between any two steps | a job the LRM has is found again and not submitted again |
| Restart by a client (`startup_socket.c`, `request.c`) | the request that is alive | merge of the new RSL, `stdio_update` | races with staging and with the end commit | staging is finished, the machine runs again |
| Staging lists (`staging.c`) | stage-in, stage-out, stream lists | create, remove | rebuilt by STDIO_UPDATE | DONE is sent after everything was staged |

The parts meet in the request record, under its mutex; `main()` chooses the
single-threaded callback model (`main.c:143`), so the interleavings that matter
are those between callbacks, not between instructions.

### The runtime, XIO and GridFTP

| Part | State it keeps | Operations | Hard behaviour | What makes it correct |
|---|---|---|---|---|
| Callback library (`callback_threads.c`) | ready and timed queues, `running_count` and references of a callback, thread count, one condition variable per space | register, unregister, adjust_oneshot, adjust_period, the pollers, dedicated threads, `thread_will_block`, deactivate | threads wait and are signalled; a callback may run in several threads; unregistration races with all of it | a wake-up is not lost; the unregister callback comes once, after the last invocation; nothing is freed early or leaked |
| XIO handle (`handle.c`, `pass.c`, `driver.c`) | handle, context and operation states, references, `outstanding_operations`, `close_op` | register open, read, write, close; cancel; the driver's finish; delivery | the driver may finish before its call returns, refuse, or finish while the application is asked about a timeout; a close comes at any time | one callback per accepted operation; the driver's close is last; the close ends |
| XIO timer (`timeout.c`) | `op_list`, `running` | register, unregister, the poller | the poller holds entries of its own while others come and go | a listed operation is looked at again |
| Reads of a context (`pass.c`) | `read_operations`, `eof_operations`, the pending queue | pass_read, finished_read, read_delivered, pass_pending_reads | end of file for one read while others are with the driver, queued or being registered | end of file is the last thing delivered; counters agree with the reads |
| GridFTP data node (`gfs_data.c`) | operation state and references, data handle state | request, begin, connect callback, finish, abort, events, handle destroy | storage interface, data channel, control connection and callback queue act in any order | every transfer is answered once; COMPLETE is the last event; no assertion is reached |

They are layers: XIO's callbacks and timer are callbacks of the library, the
data channel is built on XIO, and the data node sees both as "a function that
will come back".  Each model keeps the layer below as the set of orders in which
that layer may call it (`GfsData` uses the queue order of the thread model
"none", or any order with `-threads`).

### The rest of the toolkit

`PROJECT.json` lists all components.  Those with state worth a model that have
none yet: the reader-writer mutex and the thread pool, handle tables and module
activation, the GridFTP client's operation state machine, the control library's
data channel, the server's IPC, the GASS cache.  Containers, parsers, drivers,
the security libraries and MyProxy are left out: sequential code, system calls
or cryptography.

## 2. Modules

| Module | Models |
|---|---|
| `GramRequest` | one request in one job manager: state machine, queries, scripts, events, callbacks, state file |
| `GramRecovery` | extends it: the process crashes and the next one loads the state file; a client restarts a live request |
| `GramSeg` | many requests that share one event generator: pause, queue, resume, delivery |
| `GramRequest_proof` | the request's types, its queries, the commit and the wake-ups, proved |
| `GramRequestJob_proof` | extends it: what becomes of the job, its queries, the final status and the contacts |
| `GramRecovery_proof` | extends both modules: crashes and restarts |
| `GramSeg_proof` | the shared event queue |
| `GlobusCallback_proof` | threads and wake-ups of the callback library |
| `GlobusCallbackRefs_proof` | extends it: references, and the refinement of the service |
| `XioHandle_proof`, `XioRead_proof` | the XIO handle and the read side of a context |
| `GlobusCallback` | the global space of the threaded callback library, its threads, and a program's calls |
| `GlobusCallbackService` | what that library promises a program about one callback; `GlobusCallback` implements it |
| `XioHandle` | one XIO handle over one driver: open, reads and writes, cancel, timeout, close |
| `XioRead` | the reads of one context entry and its end-of-file states |
| `GfsData` | one transfer in the GridFTP data node |
| `MC...` | instances for TLC |

### GramRequest

`request` is the record `globus_gram_jobmanager_request_t` with the fields that
steer it.  `running` says that `state_machine_callback()` is in its loop and
holds the request mutex: `TimerFires` sets it, the actions `Case...` (one per
`case` of the switch, or per group of cases that share their code) either keep
it (`KeepLoop`, the loop goes round) or release it (`Sleep`,
`event_registered`).  Everything else that locks the request (queries, script
output, scheduler events, callback replies) requires `~running`; the LRM does
not.

* `Client` has one action per operation of `query.c`.  `ClientOps` chooses the
  operations of an instance, `MaxQueries` bounds the queued ones.
* A script is `[cmd, start, query, said]`: `script_run()` records the state it
  was started in (`start`), a cancel or signal script the query it works for.
  Each output variable is an action (`ScriptJobId`, `ScriptJobState`, ...) and
  may come once, in any order; `ScriptDone` is the end of the output, with the
  terminator or without (a broken script).  The submit script hands the job to
  the LRM (`LrmAccepts`) before or after any of its output.
* The LRM is external: `lrm` is its view of the job, `seg_events` what it
  reported and the event generator has not delivered.
* Staging lists are reduced to whether they are empty; job ids to null, set,
  and empty (all sub-jobs ended).  A request has one sub-job.
* Delays are not modelled.  An armed `poll_timer` may fire at any time, so a
  timeout races with every signal.
* History variables: `sent` (states sent to contacts), `submissions`,
  `committed`, `answered`, `staged_out`.
* `SegStarted`, `Condor`, `GridMonitor` are the manager's configuration;
  `OutOfMemory` and `PostFails` allow failures of `script_run()`,
  `register_job_id()` and of all posts of a state callback.

### GramRecovery

`CrashAndReload` may happen at any moment at which the state file exists,
also between two cases of one run of the loop.
The request is rebuilt from the file as `request_init()` does
(`TWO_PHASE_COMMITTED`), then, if the recorded state is one of the polling
states, placed in POLL2, where the generator or the timer of
`pending_restarts` wakes it.  The LRM's job survives, and the generator reads
again from the recorded time (`Replayed`).  `ClientRestart` is the restart
branch of `startup_socket.c`; it writes the state file, and `stale` records that
the file then had the id of a job and a state before its submission (`Resubmits`).
Scripts die with the process; a submit script
that outlives it is not modelled.

### GramSeg

A request is reduced to where it is between STAGE_IN and the end of SUBMIT.
`seg_pause_count` and `seg_event_queue` are the manager's; `resuming` holds the
events of the registered resume callbacks.  `DryRuns` are the requests that are
dry runs with files to stage in: they pass through STAGE_IN and SUBMIT both, and
resume twice.  A submit script that hands its job over and ends without JOB_ID is
not modelled: its job is never found by an event, whatever is paused.  Each job has `NEvents` events, the last one terminal.

### GlobusCallback and GlobusCallbackService

An action is one section under the space's lock.  A callback of the program is
the entry `<<c, "cb">>`; the oneshot the library registers to call its unregister
callback is `<<c, "kick">>`.  `thread[t].pc` is where a thread is: polling,
waiting (with or without a time limit), in a callback, between the sections of
`finish_callback()`, or on its way out.  `Signal` wakes one of the threads that
wait on the space's condition variable; threads dedicated to a periodic of a
small period (`own`) sleep on the same variable, and `stolen` records that one of
them took a signal.  Time is abstract: a timed entry becomes due at any moment.
A callback that calls `thread_will_block` is `Blocked`; its poller is replaced
unless the library shuts down.  The library starts at least one poller
(`callback_threads.c:481`), and the set of threads is finite.  The abstract service has no queues, threads or
references: a callback is entered, left, unregistered and notified.

### XioHandle and XioRead

An action is one section under the context's mutex with the unlocked code up to
the next.  An operation's record holds its state, its references, and how far
each thread that holds it has come: the registering one (`reg`), the one that
starts the close (`start`), the driver (`drv`), the callback (`kick`), the timer
(`timer`).  The timer's thread takes expired entries off its list (`Poll`), asks
about one after the other (`TimeoutCallback`, `TimeoutAnswer`), and puts those that
are to wait on back in a later section (`Relist`).  `setup` says which operations have a timeout and which the driver may
refuse.  A failed `globus_assert` sets `failed` and stops the program.  `BlockIn`
lists the callbacks in which the application blocks, `Overlap` allows a close or
a timeout between a registration and its pass.  `XioRead` takes the read side
apart that `XioHandle` treats as one more write: the three counters, the queue of
ends of file, the pending queue and the thread that empties it.

### GfsData

`d` is the data node: operation, data handle, data channel, and in `d.thr` where
each function that gives up the session's mutex is.  `ctl` is the control
connection's side (are events enabled, the data object, an ABORT that waits),
`dsi` the storage interface.  Operators such as `StartAbort`, `FcReturn` and
`OpDec` take and return the data node as the C functions change it.  With the
thread model "none" no callback starts in the middle of another (`Calm`) and
oneshots run in their order (`Turn`); both thread models are explored.  A request
starts where it is authorized; its module may be unknown, and a path that the data
node refuses is a finish with an error before the begin.  The data object is READY,
so the request finds its handle; that the operation cannot be allocated is left
out.  The COMMIT that
`end_read_kickout()` asks leave for (`gfs_data.c:10785`) is granted at once: the
server's only authorization module does so (`globus_i_gfs_cas.c:122`), and one that
makes it wait would have to be added as an extension.

## 3. What is checked

All runs use TLC without symmetry.  Deadlock checking is off except in
`gridftp_data`: a request that is DONE, a manager without jobs, a library that
was deactivated or a handle that is closed has nothing left to do.  In
`gridftp_data` the states in which all is done are named (`Rest`), and every
other state must have a step.

| Run | Instance | Distinct states | Shows |
|---|---|---|---|
| `two_phase` | two-phase and plain jobs, SEG, cancel, SUSPEND, both commits | 254,557 | no submission before the commit, final status sent before the file is removed, the inductive invariant of the proofs, every job settles, every query is answered |
| `signals` | plain jobs with and without staging, two queries of every kind, contacts that come and go | 2,106,411 | no lost wake-up, the QUERY states never find an empty queue, no query is freed under its script, pause and resume balance, the manager's copy of the status is right when a job is over |
| `poll` | polled LRMs, grid monitor file, dry runs, COMMIT_EXTEND, STOP_MANAGER, STDIO_UPDATE, memory and network failures | 2,076,638 | no query left unanswered under all these failures |
| `recovery` | Condor job, with files and with a stream to stage out, two crashes | 520,282 | one submission, a known job is not resubmitted, the file says SUBMIT before the LRM can have the job, stage-out before DONE |
| `restart` | a polled LRM (no SEG, no Condor); a two-phase job and one with stage-out; two crashes and a client restart, commits | 1,779,662 | a reloaded job is woken although no generator exists; a known job is resubmitted only by way of a file that a restart had written (`stale`, section 4) |
| `seg` | three jobs and a dry run submitting at once, two events each | 160,368 | no event lost while pauses and resumes balance, the inductive invariant, every terminal event is delivered |
| `callback` | a callback with a handle, a oneshot without; one poller, two thread identities; one adjustment | 56,745 | exact references, no lost wake-up, the number of pollers, the refinement of `GlobusCallbackService`, ready callbacks run |
| `xio_handle` | open, one write, close; timeouts and refusals on different operations, two timers at once; the application may block | 641,392 | exact references, no assertion, the close barrier, one callback, no callback during a timeout question, the close ends (but for the finding `xio_timer`) |
| `xio_read` | four reads, each registered any number of times, one close | 68,499 | counters, end of file last, no assertion, close after the reads, reads and close end |
| `gridftp_data` | either direction, stream and mode E, with and without threads; one abort, any number of markers, a module that may be unknown | 16,064 | exact references, no assertion (but for the unknown module), COMPLETE last and once, every transfer is answered and its operation destroyed |
| `uncommitted` | one crash of a two-phase job | | finding of section 4 |
| `xio_timer` | a write and a close that both have a timeout | | finding of section 4 |

Bounds.  One request per instance is enough for `GramRequest` because requests
share only the event generator, which `GramSeg` treats with four.  Two queued
queries let one wait while the other's script runs; the second dequeue then sees
both a queue that becomes empty and one that does not.  One submission is all a
single process can cause from one pass through SUBMIT; the recovery runs allow
two, so that a second one would be seen.  One crash reaches every recorded
state; the second one in `recovery` and `restart` hits a request that was itself reloaded.
Three jobs and two events each let one job's events be queued while a second
resumes and a third still pauses, and let a direct delivery overtake a queued one.
In `callback` two threads are enough for a blocked callback to run a second time
in the poller's replacement, for a poller and a dedicated thread to sleep on the
same condition variable, and for an unregistration between two invocations.  The
second callback competes for the poller.  In `xio_handle` an operation holds four
parties already (registration, driver, callback, timer); the write races with
open and close, and reads race with each other in `xio_read`, where four let one
be with the driver, one end with end of file, one wait in each queue.

Fairness.  In `two_phase` and `seg`: registered timers fire and the loop goes on (the
callback library serves its queue); scripts end (`globus_l_gram_job_manager_script_done`
runs on end of file as well as on the terminator); callbacks are answered or
closed by the protocol library; the LRM finishes jobs; the generator delivers
terminal events.  Nothing is assumed of the client or of what a script prints.
The LRM's acceptance is not fair either.
COMMIT_EXTEND is left out of `two_phase`: a client may extend for ever.  No
liveness is stated for polled LRMs: a job ends only when some poll script says
so, which the code cannot enforce.  In `callback` every thread takes its next
step, time passes, and callbacks return (a callback that blocks returns too);
nothing is assumed of the program.  In `xio_handle` and `xio_read` threads inside
the library go on, callbacks return, the timer's periodic callback comes to every
entry while it is scheduled, and the driver finishes an open, a close, a
read and whatever was canceled; a write that is not canceled may take for ever,
which is why `CloseCompletes` is about closes that cancel.  In `gridftp_data`
registered callbacks run and the channel's connect and close end (weak fairness);
the storage interface finishes, although markers without end may keep the server
busy (strong fairness: the queue of callbacks serves its own too).

Refinement.  `Implements` is `GlobusCallbackService!Spec` with `executing` mapped
to the threads inside a callback and `impaired` to "shut down, or a dedicated
thread took a signal".  It carries the three promises of
`globus_callback_unregister()`: after "not active" the callback is never entered,
the unregister callback comes once and after the last invocation, and it comes.

## 4. Findings

* `uncommitted`: a two-phase job whose state file was written before the commit
  is submitted by the job manager that reloads it, because a reloaded request
  starts in TWO_PHASE_COMMITTED (`request.c:678`).  `rsl.txt:128` promises to
  wait for the client's signal.
* `xio_timer`: when the last listed timeout is unregistered the timer pauses its
  periodic callback (`timeout.c:207`), also while the poller holds expired entries
  in its own list.  An entry whose callback answers "wait on" goes back to a list
  nobody looks at, and its operation cannot time out until another timeout is
  registered.  The entry goes back in a section of its own (`timeout.c:287`): an
  operation that finishes after the answer and before that section does not find
  its entry, which is then listed with a reference to a finished operation.  A
  poller that runs drops it on its next look; on a paused timer it stays, the
  handle is never freed and its close never completes.  `CloseCompletes` names this
  exception (`~TimerArmed`); without it the run `xio_handle` violates it.

Reproduced with other constants, and not kept as runs:

* `GramRecovery` with "stdio_update" among the operations: STDIO_UPDATE on a
  reloaded request frees the staging lists and `staging_create_list()` returns at
  once for it (`staging.c:91`): `StageOutBeforeDone` fails.
* `GramRecovery` with files to stage in: `set_restart_state()` puts a failed
  request in POLL1 but returns false (`state.c:1742`), so it is staged in and
  submitted again: `KnownJobNotResubmitted` fails.
* `GramRecovery` with "restart", "stdio_update" or "stop_manager" among the
  operations and two crashes: a reloaded request is in TWO_PHASE_COMMITTED until
  its timer fires, and each of the three writes the state file then
  (`request.c:2431`, `query.c:1653`), so that the file says the job is still to be
  submitted.  The next job manager submits a job whose id it has, also to Condor:
  `KnownJobNotResubmitted` fails.
* `GramRecovery` with "restart" or "stdio_update" and any LRM but Condor: one crash
  is enough.  The submit script has said its JOB_ID and has not ended; the
  update writes the file with the id and the restart state SUBMIT
  (`request.c:2458`), and the job manager that loads it submits again
  (`state.c:1653`).  `restart` records that a restart wrote such a file (`stale`)
  and shows that a known job is resubmitted in no other way: `RestartInvariant`.
* `GramSeg`: a dry run with files to stage in resumes the generator twice
  (`state.c:353` and `state.c:369`) for one pause.  From then on `EventsKept` is
  not guaranteed; `NoEventLost` is stated up to that moment (`Balanced`).
* `GlobusCallback` with `ResumeBlocked = TRUE`: `adjust_period()` makes a callback
  periodic whose invocations have all blocked (`callback_threads.c:1366`).  They do
  not queue it again when they return and do not drop the library's reference:
  `CallbackInvariant` fails, the callback never runs again and leaks.
* `GlobusCallback`: a dedicated thread can take the signal meant for a poller
  (they wait on the same variable), which then sleeps on although a callback is
  ready (`stolen`); the wake-up properties hold until that happens.
* `XioHandle` with "openFailed" in `BlockIn`: an application that blocks in the
  callback of a failed open and then closes reaches the assertion of `pass_close()`.
  So does one that closes from another thread once a timeout has delivered the
  error of an open ("open" in `timed`).
  With `Overlap = TRUE` a close or timeout between a registration and its pass
  reaches assertions too.
  With "open" in `BlockIn` and "close" in `refused`: an application that blocks in
  the callback of an open closes the handle there, the close is started by the
  open's kickout, and when the driver refuses it the assertion of the started
  close fails.
* `XioRead` with `NoCancel = TRUE`: after a delivered end of file a close without
  cancel lets `pass_pending_reads()` send reads whose end of file reaches the
  assertion at `pass.c:1172`.
* `XioHandle`: the error path of a registration writes `op->type` where it means
  `op->state` (`handle.c:1634`); a timeout that fires then asks about an operation
  that was given up.  The theorems on references and timeouts assume that no
  operation both has a timeout and is refused (`Apart`).
* `GramRequest` with `OutOfMemory = TRUE`: when the stage-out script cannot be
  started, CLOSE_OUTPUT goes to FAILED with the status STAGE_OUT already sent and
  does not mark the status as unsent (`state.c:970`): the job ends FAILED and
  `SubmittedJobNotified` fails.
* `GfsData`: a request for a module nobody provides calls `finished_transfer()`
  with "bad module" (`gfs_data.c:8619`, `8827` for sends) and again at the common
  exit (`8685`, `8876`), where the transfer is in FINISH: the assertion at
  `gfs_data.c:12772` fails, in any thread model.  `Request` has this path (`dsi =
  "unknown"`), and `AssertionsHold` excepts it.
* `GfsData`: a failed connection's callback does not give its reference back
  (`gfs_data.c:9959`), so COMPLETE is never sent and the operation never destroyed
  (`connect_failed` in `RefsAccounted` and `TransferEnds`).  With `-threads`, the
  kickout of an abort uses the operation after it dropped its reference
  (`gfs_data.c:7310`), the handle may be freed twice, and a marker may meet
  COMPLETING (`gfs_data.c:11150`): `AssertionsHold` is about the thread model
  "none", which the server uses by default.

Seen while reading, and not stated as runs:

* A cancel in START fails the job without telling anyone (`query.c:545`).
* If every post of a callback fails, the machine is not woken (`contact.c:1387`);
  the theorem on wake-ups assumes this away and the type invariant does not.
* After a signal in TWO_PHASE and a COMMIT_REQUEST while its script runs, the end
  of that script wakes the machine in a later state (`query.c:1035`).
* A crash after POLL1 wrote its file with a terminal status leaves the reloaded
  job in POLL2, where no further event comes (`globus_gram_job_manager.c:2572`).
* STOP_MANAGER during SUBMIT leaves the generator paused, and sent to a reloaded
  request it overwrites `restart_state` (`query.c:1653`).
* A stage-out script that reports an error after it staged everything leaves the
  job DONE (`state.c:1014`).
* A crash in SUBMIT makes any LRM but Condor get the job again: only Condor's
  job ids can be recovered.  `recovery` is about Condor for this reason.
* The search for an event's id in `job_id_string` does not end when the id
  occurs only inside a longer one (`seg.c:400`).
* The data node drops an ABORT that arrives in CONNECT_CB; `handle_destroy()` of a
  handle that is CLOSING only sets `destroy_requested`, which nothing reads
  (`gfs_data.c:7614`); a data object in DESTROY_WAIT whose transfer never enabled
  events is not destroyed.
* `seg_resume()` keeps the queue when it cannot allocate, and destroys the
  events when the callback cannot be registered (`seg.c:604`).

## 5. What is proved

All theorems are about every value of the constants: any sets of requests,
contacts, jobs, callbacks, threads, reads and operations (finite where they are
counted), every client and failure the constants allow, every bound.  The named
ASSUMEs give the types of the constants.  Where a theorem has a further
hypothesis it is listed; each of them excludes a case of section 4 in which the
code does something else, and each is met by the run that checks the property.

Each module proves one inductive invariant, with one lemma per action and lemmas
for the operators the actions are made of, and derives the properties from it.

### GramRequest_proof

`RequestInvariant` is `TypeOK /\ QueriesMatchState /\ PreCommit /\ (PostFails
\/ NoLostWakeup)`.  From it `RequestTypeCorrect`, `QueriesAlwaysMatchState`,
`NoSubmissionBeforeCommit`, and `NoWakeupLost` (assuming `~PostFails`).

The parts need each other.  `NoSubmitBeforeCommit` is not inductive: it takes
`PreCommit`, which keeps the machine outside the states that lead to the submit
script and the script from running.  `NoLostWakeup` lets the machine wait in
POLL2 with nothing queued; that a query never waits there is `QueriesMatchState`,
which needs every query operation and every QUERY2 case to leave queue and state
in step.

The lemma of each action proves `RequestKept`: the step keeps `RequestCore` (the
invariant without `PreCommit`), and keeps `PreCommit` if it held.  A reloaded
request does not have `PreCommit` (finding `uncommitted`), so `GramRecovery_proof`
uses the first half of the same lemmas.

### GramRequestJob_proof

`JobCore` says that at most one submit script exists and none that could submit
what the LRM has; that once it was started no state in memory, `restart_state` or
the state file leads back to it (STOP_MANAGER and STDIO_UPDATE write the file at
odd moments); that files to stage out stay listed until they are staged; and that
a request at its end has nothing queued.  No hypotheses:

* `OneSubmission`, `SubmissionRecorded`, `StagedOutBeforeDone`,
  `EveryQueryAnswered`.

`WakeCore` is about what runs the machine again, each part under what it needs:

* `PausesBalance` if the client never sends STOP_MANAGER and no job is a dry run
  (`Plain`): both leave the generator's pause unbalanced.
* `QueryOfScriptLives` and `FinalStatusIsCopied` if moreover the client does not
  send COMMIT_REQUEST and signals both (`Separate`).  The argument is `OneWaker`:
  a script, an armed timer and a running loop exclude each other, and the script
  of a query belongs to the oldest one.  A COMMIT_REQUEST while the script of a
  signal runs (`query.c:1035`) is what breaks it.  That the copy of the status is
  right needs the same: with two wakers a late script changes the failure code of
  a job that is over.
* `ContactsAreNotified` if allocations and posts do not fail, the manager is not
  stopped and no contact is registered late (`Reliable`).  The invariant: a failure
  is marked as unsent until it is sent, from the moment the status is set.

### GramRecovery_proof

Any number of crashes (at any moment at which the file exists) and restarts.
`RecoveryTypeCorrect` and `RecoveredQueriesMatch` have no hypotheses,
`RecoveredWakeup` assumes `~PostFails`: `RequestCore` is kept by the crash, whose
request has its timer or waits in POLL2 for the generator, and by the restart,
which leaves the machine where it is or sends it to START with a wake-up.

The theorems on the job assume `CrashesOnly`: the client sends neither a restart
nor STDIO_UPDATE nor STOP_MANAGER, and no job has files to stage in.  Each of the
four makes a property fail on two crashes or fewer (section 4).  `KnownJobSafe`,
`RecoveredSubmitRecorded` and `RecoveredStageOut` need no more;
`CondorSubmitsOnce` assumes `Condor`, since other LRMs get the job again after a
crash in SUBMIT.  The inductive invariant is `RecoveryCore`, TLC-checked first on
instances with Condor and without, with and without the generator:

* `NotAgain`: a job that must not be submitted again (`Known`: with Condor one the
  LRM has, otherwise one whose id this job manager has) is not on its way to the
  submit script.  This is the property's reason, and for it to survive a crash the
  file must say it too:
* `FileKnown`: the file never says START once the job may be in the LRM, nor SUBMIT
  once it holds a job id (unless Condor, which looks in its log), and lists the
  files to stage out until they are staged.
* `RestartKnown`: a reloaded request enters the machine only with a restart state
  such a file can hold, so that `set_restart_state()` leads it past the submission.
* `OneSubmitter` and `HonestScripts`: at most one submit script, and one that has not
  handed over its job hands over none that is known; the output of a script is for
  the state it was started in.
* `LrmKnown`: an id, an event or a registration means that the LRM has the job.
* `StageOutKept`: files not yet staged out are listed in the request.

### GramSeg_proof

* `QueueAlwaysHandedOver`: the queue is empty whenever the count is not
  positive, dry runs included.
* `SegInvariantHolds` and `NoEventEverLost`, for any set of dry runs: while no dry
  run has resumed the generator twice (`Balanced`), the count
  is the number of running submit scripts (`PausedWhileSubmitting`), every event
  in flight is about a job the LRM has, every job past SUBMIT is found by its id
  until its terminal event.  So an event of an unknown job is either queued or
  comes after the terminal one.  `Balanced` never becomes true again once it is
  false, which is why the implication is inductive.
* `SegTypeCorrect`.

### GlobusCallback_proof and GlobusCallbackRefs_proof

* `PollersAreKept`, `NoWakeupIsLost` (up to a stolen signal, as the property
  says), without hypotheses.  `ThreadCore` adds to
  `PollersKept` what a thread's record may look like at each place (a thread that
  respawns was replaced, a dedicated one is never counted).  A wake-up is not lost
  because a poller that sleeps without a time limit saw both queues empty under
  the lock, and whoever fills the ready queue signals.
* `RefsAreAccounted` and `LibraryImplementsService` assume `~ResumeBlocked`
  (section 4).  `CallbackCore` ties each callback's references to its place in the
  queues, its handle and the threads inside it, and the kickout entry to the
  unregistration that made it.  The refinement theorem is the safety part of
  `Implements`: initial states map to initial states and every step to a step of
  the service or a stutter.

### XioHandle_proof and XioRead_proof

* `XioCoreHolds`, `CloseIsLast`, `CallbackOnce` without hypotheses, so also for
  operations that are both timed and refused, applications that block in any
  callback, and registrations that overlap with a close.  `ReferencesAccounted`
  and `AskedFirst` assume `Apart`.  `XioCore` says of each operation which
  combinations of registration, driver, callback and timer exist (also that of a
  finished operation whose entry went back to the list) and what its reference
  count is in each; that an operation the handle can still reach, to cancel it, has
  not had its callback; of the context that it counts what was passed and
  not delivered; and of the close where it waits.
* `NoAssertionFails` (`AssertionsHold`) assumes `Careful`: `Apart` and `~Overlap`,
  the open has no timeout, the application does not block in the callback of a
  failed open, and if it may block in that of an open that succeeded, the driver
  does not refuse the close.  Each of them excludes a failed assertion of section 4.
  Blocking in other callbacks, timeouts of reads, writes and the close, refusals of
  anything else and every order of driver, timer and application are allowed.  The
  assertions are about the states of handle and context at the moment a thread
  comes back with an operation, so `Steady` relates the two states to the progress
  of the open and of the close (`SteadyOpen`, `SteadyClose`: for example, a close
  that the open's kickout started is not given up, and the context of a handle that
  was opened is not CLOSED before its close was passed), and to the reads and writes
  (`SteadyData`: there are none on a handle whose open failed, and all are over
  before it is CLOSED).  It is inductive together with `XioCore`; that the handle is
  freed only when it is closed comes from the reference counts there.
* `ReadInvariantHolds`, `EofIsLast`, `CloseWaitsForReads` without hypotheses,
  `ReadAssertionsHold` assumes `~NoCancel`.  `ReadCore` relates the counters to
  the sets of reads they count, both queues to the places of the reads in them, and
  the context's state to the first end of file; `EofLast` alone says nothing of
  the reads that wait in a queue.

### Model-checked only

* Liveness: `JobSettles`, `QueryAnswered`, `TerminalDelivered`, `ReadyServed`,
  `CloseCompletes`, `ReadSideEnds`, `TransferEnds`, and the fairness of
  `Implements`.  The proof system does not handle fairness and ENABLED.
* `RestartInvariant`: with client restarts a known job is resubmitted only after a
  restart wrote a file that says so (two crashes and one restart, run `restart`).
* `GfsData`: its only parameters are boolean, so the run covers every instance of
  the model.
* `TimerArmed`, whose violation is a finding.

The modules use no RECURSIVE operators.

## 6. Plan

Done: `GramRequest`, `GramRecovery`, `GramSeg`, `GlobusCallback` with its service,
`XioHandle`, `XioRead`, `GfsData`, and the proofs of all of them but `GfsData`.
Next, in this order:

1. `GramRefs`: reference counts, swap-out of idle requests, `pending_restarts`
   as a list, the manager's idle exit and the proxy timer.  Hazards:
   `globus_gram_job_manager.c:1031`, `query.c:1653`.
2. `GramJobId`: the matching of an event's id in a list of sub-job ids, against
   a reference definition.
3. `GramScriptQueue`: the priority queue, its limit and the persistent script
   processes; callback slots of `contact.c`.
4. The data channel of the control library under `GfsData`, then several
   transfers over one data handle.
5. The GridFTP client, the server's IPC, the GASS cache, the reader-writer mutex,
   handle table and module activation.

## 7. Not modelled

`PROJECT.json` gives the reason per component.  In short: text formats (RSL, GRAM
messages, FTP commands), cryptography and policy callouts, programs around system
calls (drivers, adapters, gatekeeper, streamer, gfork), and containers are
sequential or external.  Of the modelled parts the following are left out: in the
job manager reference counts and swap-out, the script queue, single files of the
staging lists, several sub-jobs; in the callback library spaces other than the
global one, signal and wake-up handlers, `space_poll()`; in XIO servers, stacks of
several drivers, blocking calls, attributes; in the GridFTP server remote data
nodes, authorization, lists and checksums, more than one transfer per handle.
The map covers a small share of the repository's half million lines, most of
which are of these kinds; the modules are the places where order and failure
decide what happens.
