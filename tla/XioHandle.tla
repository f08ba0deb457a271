----------------------------- MODULE XioHandle -----------------------------
(***************************************************************************)
(* A handle of Globus XIO over a stack of one transport driver, from       *)
(* globus_xio_handle.c, globus_xio_pass.c, globus_xio_driver.c and         *)
(* globus_xio_timeout.c.  An operation (the open, the close, a read or a   *)
(* write) is registered by an application thread, passed to the driver,    *)
(* finished by the driver on any thread, and delivered to the application; *)
(* a timer may meanwhile ask the application whether to give it up.  The   *)
(* operation is freed with its last reference, the handle with its last    *)
(* operation, and the close waits in the context until nothing else is     *)
(* outstanding.                                                            *)
(*                                                                         *)
(* One action is one section under the context's mutex, with the unlocked  *)
(* code up to the next one.  A failed globus_assert stops the program, as  *)
(* it does in a debugging build, and is recorded in "failed".  Left out:   *)
(* blocking calls, stacks of several drivers, accepted handles, the memory *)
(* of an operation (XioRead models the end-of-file states of a read).      *)
(***************************************************************************)
EXTENDS Naturals, FiniteSets

CONSTANTS
  Data,       \* the reads and writes the application registers
  Setups,     \* the settings of the handle and the driver explored
  BlockIn,    \* callbacks in which the application may block
  Overlap     \* a close or a timeout may come between a registration and its
              \* pass, or a close before the call that registers the open returns

Ops == Data \cup {"open", "close"}

ASSUME XioAssumption ==
  /\ "open" \notin Data /\ "close" \notin Data /\ "openFailed" \notin Data
  /\ IsFiniteSet(Data)
  /\ Setups \subseteq [timed : SUBSET Ops, refused : SUBSET Ops]
  /\ BlockIn \subseteq Data \cup {"open", "openFailed"}
  /\ Overlap \in BOOLEAN

VARIABLES
  handle,  \* globus_i_xio_handle_t
  ctx,     \* the context entry of the driver: state, close barrier
  op,      \* the operations, and where the threads that hold them are
  setup,   \* timed: the operations with a timeout callback (attributes of the
           \* handle); refused: those whose driver function may return an error
  running, \* timer->running: the timer's periodic callback is scheduled
  failed   \* a globus_assert failed

vars == <<handle, ctx, op, setup, running, failed>>

HandleStates == {"CLIENT", "OPENING", "OPENING_FAILED", "OPENING_AND_CLOSING",
                 "OPEN", "OPEN_FAILED", "CLOSING", "CLOSED"}
CtxStates == {"NONE", "OPENING", "OPEN", "OPEN_FAILED", "OPENING_AND_CLOSING",
              "CLOSING", "CLOSED"}
OpStates == {"NONE", "OPERATING", "TIMEOUT_PENDING", "FINISH_WAITING", "FINISHED"}

\* reg: the registering thread; drv: the driver; kick: the application's
\* callback and who runs it; timer: the operation's entry of the timer
OpRecords ==
  [state : OpStates, ref : Nat, ok : BOOLEAN, canceled : BOOLEAN, down : BOOLEAN,
   reg : {"no", "start", "pass", "calling", "passed", "err", "failed", "done"},
   start : {"no", "go", "calling", "done"},
   drv : {"no", "asked", "finished", "called"},
   kick : {"no", "user", "timerUser", "closing", "timerClosing", "done", "timerDone"},
   delivered : BOOLEAN, returned : BOOLEAN,
   timer : {"no", "listed", "due", "asking", "relist"}, progress : BOOLEAN, calls : Nat]

-----------------------------------------------------------------------------
(* References *)

B(p) == IF p THEN 1 ELSE 0

\* globus_i_xio_handle_dec
HandleDec(h) == [h EXCEPT !.ref = @ - 1]

\* the operation o becomes r; without references it is destroyed, and gives
\* back its reference to the handle
Put(o, r, h) ==
  /\ op' = [op EXCEPT ![o] = r]
  /\ handle' = IF r.ref = 0 THEN HandleDec(h) ELSE h

Listed == {o \in Ops : op[o].timer = "listed"}

\* globus_i_xio_timer_register_timeout, when the operation has a timeout
WithTimeout(o, r) ==
  IF o \in setup.timed THEN [r EXCEPT !.ref = @ + 1, !.timer = "listed", !.progress = TRUE] ELSE r

StartTimer(o) == running' = (running \/ o \in setup.timed)

\* globus_i_xio_timer_unregister_timeout and the reference it gives back; it
\* fails, and does nothing, once the timer has taken the entry off its list
Unlist(r) ==
  IF r.timer = "listed" THEN [r EXCEPT !.timer = "no", !.ref = @ - 1] ELSE r

\* the timer's callback is paused when its list becomes empty
PauseTimer(S) == running' = (running /\ (S \cap Listed # {} => Listed \ S # {}))

\* globus_assert: the program stops
Assert(c) == failed' = ~c

Live == ~failed /\ handle.ref > 0

\* a library function that stops in an assertion leaves the rest alone
Abort == failed' = TRUE /\ UNCHANGED <<handle, ctx, op, running>>

-----------------------------------------------------------------------------
(* Registration *)

\* globus_xio_register_open and globus_l_xio_register_open, up to the pass
RegisterOpen ==
  /\ Live /\ handle.state = "CLIENT"
  /\ handle' = [handle EXCEPT !.state = "OPENING", !.ref = @ + 1, !.open_op = TRUE]
  /\ op' = [op EXCEPT !["open"] = WithTimeout("open",
              [@ EXCEPT !.state = "OPERATING", !.ref = 2, !.reg = "pass"])]
  /\ StartTimer("open")
  /\ UNCHANGED <<ctx, failed>>

\* globus_xio_register_write (read) and globus_l_xio_register_writev (readv), up
\* to the pass; in any other state of the handle they have no effect
RegisterData(d) ==
  /\ Live /\ op[d].reg = "no" /\ handle.state = "OPEN"
  /\ handle' = [handle EXCEPT !.ref = @ + 1]
  /\ op' = [op EXCEPT ![d] = WithTimeout(d,
              [@ EXCEPT !.state = "OPERATING", !.ref = 2, !.reg = "pass"])]
  /\ StartTimer(d)
  /\ UNCHANGED <<ctx, failed>>

\* globus_xio_driver_pass_open, to the call of the driver
PassOpen ==
  LET r == op["open"] IN
  /\ ~failed /\ r.reg = "pass"
  /\ \/ /\ r.canceled
        /\ op' = [op EXCEPT !["open"].reg = "err", !["open"].progress = TRUE]
        /\ UNCHANGED ctx
     \/ /\ ~r.canceled
        /\ op' = [op EXCEPT !["open"] = [r EXCEPT !.reg = "calling", !.drv = "asked",
                    !.down = TRUE, !.ref = @ + 2, !.progress = TRUE]]
        /\ ctx' = [ctx EXCEPT !.state = "OPENING", !.out = @ + 1]
  /\ UNCHANGED <<handle, running, failed>>

\* globus_xio_driver_pass_write (read), to the call of the driver
PassData(d) ==
  LET r == op[d] IN
  /\ ~failed /\ r.reg = "pass"
  /\ IF ctx.state # "OPEN" THEN Abort
     ELSE /\ \/ /\ r.canceled
                /\ op' = [op EXCEPT ![d].reg = "err", ![d].progress = TRUE]
                /\ UNCHANGED ctx
             \/ /\ ~r.canceled
                /\ op' = [op EXCEPT ![d] = [r EXCEPT !.reg = "calling", !.drv = "asked",
                            !.down = TRUE, !.ref = @ + 2, !.progress = TRUE]]
                /\ ctx' = [ctx EXCEPT !.out = @ + 1]
          /\ UNCHANGED <<handle, running, failed>>

\* the driver accepted: the two references of the pass and of the registration
RegisterReturn(o) ==
  /\ ~failed /\ o # "close" /\ op[o].reg = "calling"
  /\ Put(o, [op[o] EXCEPT !.reg = "done", !.ref = @ - 2], handle)
  /\ UNCHANGED <<ctx, running, failed>>

\* the driver refused: globus_i_xio_pass_failed
PassFailed(o) ==
  /\ ~failed /\ o \in setup.refused \ {"close"}
  /\ op[o].reg = "calling" /\ op[o].drv = "asked"
  /\ LET close == ctx.state = "CLOSING" /\ ctx.out = 1 /\ ~ctx.close_started IN
     /\ op' = [op EXCEPT ![o] = [op[o] EXCEPT !.reg = "err", !.drv = "no", !.down = FALSE,
                                          !.ref = @ - 2],
                         !["close"].start = IF close THEN "go" ELSE @]
     /\ ctx' = [ctx EXCEPT !.out = @ - 1]
  /\ UNCHANGED <<handle, running, failed>>

\* the error path of the registration: the operation is given up, with its
\* timeout if the timer has not taken it yet
RegisterErr(o) ==
  /\ ~failed /\ o # "close" /\ op[o].reg = "err"
  /\ LET r == Unlist(op[o]) IN
       Put(o, [r EXCEPT !.reg = "failed", !.ref = @ - 2],
           IF o = "open" THEN [handle EXCEPT !.state = "OPEN_FAILED"] ELSE handle)
  /\ PauseTimer({o})
  /\ UNCHANGED <<ctx, failed>>

-----------------------------------------------------------------------------
(* Canceling *)

\* the operations the handle can reach: open_op, close_op and the lists
Reachable ==
  {d \in Data : op[d].state \in {"OPERATING", "TIMEOUT_PENDING"} /\ op[d].reg # "failed"}
    \cup (IF handle.open_op THEN {"open"} ELSE {})
    \cup (IF handle.close_op THEN {"close"} ELSE {})

\* mutant: an operation not passed yet is canceled too
OperationCancel_always(r) ==
  IF r.canceled THEN r ELSE [Unlist(r) EXCEPT !.canceled = TRUE]

\* globus_i_xio_operation_cancel from the application: an operation still in
\* its possession (not passed down) only loses its timeout
OperationCancel(r) ==
  IF r.canceled THEN r ELSE [Unlist(r) EXCEPT !.canceled = r.down]

CancelAll(S, f) == [o \in Ops |-> IF o \in S THEN OperationCancel(f[o]) ELSE f[o]]

\* an operation already canceled keeps its timeout
CancelUnlists(S) == PauseTimer({o \in S : ~op[o].canceled})

\* globus_xio_handle_cancel_operations
HandleCancel(mask) ==
  LET S == Reachable \cap mask IN
  /\ Live /\ handle.state # "CLOSED" /\ S # {}
  /\ op' = CancelAll(S, op)
  /\ CancelUnlists(S)
  /\ UNCHANGED <<handle, ctx, failed>>

-----------------------------------------------------------------------------
(* Closing *)

CloseOp == [op["close"] EXCEPT !.state = "OPERATING", !.ref = 1]

\* the application closes between its other calls, or in the open's callback
Orderly ==
  /\ \A o \in Ops : op[o].reg # "pass"
  /\ op["open"].reg \in {"no", "done", "failed"} \/ op["open"].calls > 0

\* globus_xio_register_close: globus_l_xio_handle_pre_close by the state of the
\* handle; cancel is false when the attribute says no_cancel
RegisterClose(cancel) ==
  /\ Live /\ op["close"].state = "NONE"
  /\ Overlap \/ Orderly
  /\ \/ \* never opened: the close is pretended
        /\ handle.state \in {"CLIENT", "OPEN_FAILED"}
        /\ handle' = [handle EXCEPT !.state = "OPENING_AND_CLOSING", !.ref = @ + 1,
                                    !.close_op = TRUE, !.cancel = cancel]
        /\ op' = [op EXCEPT !["close"] = [CloseOp EXCEPT !.state = "FINISH_WAITING",
                                                         !.reg = "done", !.ok = TRUE]]
        /\ UNCHANGED running
     \/ \* opening: the open is canceled, its callback starts the close
        /\ handle.state = "OPENING"
        /\ handle' = [handle EXCEPT !.state = "OPENING_AND_CLOSING", !.close_op = TRUE,
                                    !.cancel = cancel]
        /\ LET S == IF cancel THEN Reachable ELSE {} IN
           /\ op' = [CancelAll(S, op) EXCEPT !["close"] = CloseOp]
           /\ CancelUnlists(S)
     \/ \* the open failed and its callback is not over
        /\ handle.state = "OPENING_FAILED"
        /\ handle' = [handle EXCEPT !.state = "OPENING_AND_CLOSING", !.close_op = TRUE,
                                    !.cancel = cancel]
        /\ op' = [op EXCEPT !["close"] = CloseOp]
        /\ UNCHANGED running
     \/ \* open: the reads and writes are canceled
        /\ handle.state = "OPEN"
        /\ handle' = [handle EXCEPT !.state = "CLOSING", !.close_op = TRUE, !.cancel = cancel]
        /\ LET S == IF cancel THEN Reachable \cap Data ELSE {} IN
           /\ op' = [CancelAll(S, op) EXCEPT !["close"] = [CloseOp EXCEPT !.reg = "start"]]
           /\ CancelUnlists(S)
  /\ UNCHANGED <<ctx, failed>>

\* globus_l_xio_handle_unopened_close_callback, the oneshot of a pretended close
UnopenedClose ==
  LET r == op["close"] IN
  /\ ~failed /\ r.state = "FINISH_WAITING" /\ r.drv = "no" /\ r.kick = "no"
  /\ handle' = [handle EXCEPT !.state = "CLOSING"]
  /\ op' = [op EXCEPT !["close"].kick = "user", !["close"].calls = @ + 1]
  /\ UNCHANGED <<ctx, running, failed>>

\* globus_l_xio_register_close, up to the pass
RegisterCloseStart ==
  /\ ~failed /\ op["close"].reg = "start"
  /\ handle' = [handle EXCEPT !.ref = @ + 1]
  /\ op' = [op EXCEPT !["close"] =
              WithTimeout("close", [op["close"] EXCEPT !.ref = @ + 1, !.reg = "pass"])]
  /\ StartTimer("close")
  /\ UNCHANGED <<ctx, failed>>

\* globus_xio_driver_pass_close: the close goes on only when nothing else is
\* outstanding, and waits in the context otherwise
PassClose ==
  LET r == op["close"] IN
  /\ ~failed /\ r.reg = "pass"
  /\ IF ~r.canceled /\ (ctx.state \notin {"OPEN", "OPEN_FAILED", "OPENING"} \/ ctx.close_started)
     THEN Abort
     ELSE /\ \/ /\ r.canceled
                /\ op' = [op EXCEPT !["close"].reg = "err", !["close"].progress = TRUE]
                /\ ctx' = [ctx EXCEPT !.state = "CLOSED"]
             \/ /\ ~r.canceled
                /\ LET pass == ctx.out = 0 IN
                   /\ ctx' = [ctx EXCEPT
                        !.state = IF @ = "OPEN" THEN "CLOSING" ELSE "OPENING_AND_CLOSING",
                        !.close_started = pass, !.close_op = ~pass]
                   /\ op' = [op EXCEPT !["close"] = [@ EXCEPT !.down = TRUE, !.progress = TRUE,
                               !.start = IF pass THEN "go" ELSE "no",
                               !.reg = IF pass THEN "calling" ELSE "passed"]]
          /\ UNCHANGED <<handle, running, failed>>

\* mutant: the call of the driver holds no reference
StartClose_noref ==
  /\ ~failed /\ op["close"].start = "go"
  /\ op' = [op EXCEPT !["close"] = [@ EXCEPT !.start = "calling", !.drv = "asked",
                                             !.progress = TRUE]]
  /\ UNCHANGED <<handle, ctx, running, failed>>

\* globus_i_xio_driver_start_close, to the call of the driver
StartClose ==
  /\ ~failed /\ op["close"].start = "go"
  /\ op' = [op EXCEPT !["close"] = [op["close"] EXCEPT !.start = "calling", !.drv = "asked",
                                                       !.ref = @ + 1, !.progress = TRUE]]
  /\ UNCHANGED <<handle, ctx, running, failed>>

StartCloseReturn ==
  /\ ~failed /\ op["close"].start = "calling"
  /\ Put("close", [op["close"] EXCEPT !.start = "done", !.ref = @ - 1,
                     !.reg = IF @ = "calling" THEN "passed" ELSE @], handle)
  /\ UNCHANGED <<ctx, running, failed>>

\* the driver refuses to close: an error of the registration when the close was
\* passed from there (can_fail), and otherwise a close that finished in error
StartCloseRefused ==
  LET r == op["close"] IN
  /\ ~failed /\ "close" \in setup.refused /\ r.start = "calling" /\ r.drv = "asked"
  /\ ctx' = [ctx EXCEPT !.state = "CLOSED"]
  /\ LET canFail == r.reg = "calling" IN
       Put("close", [r EXCEPT !.start = "done", !.ref = @ - 1, !.ok = FALSE,
                       !.drv = IF canFail THEN "no" ELSE "finished",
                       !.reg = IF canFail THEN "err" ELSE @], handle)
  /\ UNCHANGED <<running, failed>>

RegisterCloseReturn ==
  /\ ~failed /\ op["close"].reg = "passed"
  /\ Put("close", [op["close"] EXCEPT !.reg = "done", !.ref = @ - 1], handle)
  /\ UNCHANGED <<ctx, running, failed>>

\* the error path of globus_l_xio_register_close: the handle is closed
RegisterCloseErr ==
  /\ ~failed /\ op["close"].reg = "err"
  /\ LET r == Unlist(op["close"]) IN
       Put("close", [r EXCEPT !.reg = "failed", !.ref = @ - 2],
           HandleDec([handle EXCEPT !.state = "CLOSED"]))
  /\ PauseTimer({"close"})
  /\ UNCHANGED <<ctx, failed>>

-----------------------------------------------------------------------------
(* The driver finishes, the application is called, the operation delivered *)

\* globus_xio_driver_finished_open, _write (read) and _close
DriverFinish(o, ok) ==
  /\ ~failed /\ op[o].drv = "asked"
  /\ IF (o = "open" /\ ctx.state # "OPENING")
        \/ (o \in Data /\ ctx.state \in {"OPENING", "CLOSED"})
     THEN Abort
     ELSE /\ op' = [op EXCEPT ![o].drv = "finished", ![o].ok = ok, ![o].progress = TRUE]
          /\ ctx' = CASE o = "open" -> [ctx EXCEPT !.state = IF ok THEN "OPEN" ELSE "OPEN_FAILED"]
                      [] o = "close" -> [ctx EXCEPT !.state = "CLOSED"]
                      [] OTHER -> ctx
          /\ UNCHANGED <<handle, running, failed>>

\* mutant: the callback is made though the timer is asking
Finished_twice(o) ==
  LET pending == op[o].state = "TIMEOUT_PENDING"
      r == IF pending THEN op[o] ELSE Unlist(op[o])
  IN [r EXCEPT !.state = "FINISH_WAITING", !.drv = "called", !.down = FALSE,
               !.canceled = FALSE, !.kick = "user", !.calls = @ + 1]

\* the operation is done unless the timer is asking about it: then the timer
\* will call the application
Finished(o) ==
  LET pending == op[o].state = "TIMEOUT_PENDING"
      r == IF pending THEN op[o] ELSE Unlist(op[o])
  IN [r EXCEPT !.state = "FINISH_WAITING", !.drv = "called", !.down = FALSE,
               !.canceled = FALSE, !.kick = IF pending THEN @ ELSE "user",
               !.calls = IF pending THEN @ ELSE @ + 1]

FinishUnlists(o) == IF op[o].state = "TIMEOUT_PENDING" THEN UNCHANGED running ELSE PauseTimer({o})

\* the driver's kickout and globus_l_xio_open_close_callback
OpenCloseCallback(o) ==
  /\ ~failed /\ o \in {"open", "close"} /\ op[o].drv = "finished"
  /\ IF \/ o = "open" /\ handle.state \notin {"OPENING", "OPENING_AND_CLOSING"}
        \/ o = "close" /\ handle.state # "CLOSING"
     THEN Abort
     ELSE /\ handle' = CASE handle.state = "CLOSING" -> [handle EXCEPT !.close_op = FALSE]
                         [] handle.state = "OPENING" ->
                              [handle EXCEPT !.state = IF op[o].ok THEN "OPEN" ELSE "OPENING_FAILED"]
                         [] OTHER -> handle
          /\ op' = [op EXCEPT ![o] = Finished(o)]
          /\ FinishUnlists(o)
          /\ UNCHANGED <<ctx, failed>>

\* the driver's kickout and globus_i_xio_read_write_callback
ReadWriteCallback(d) ==
  /\ ~failed /\ op[d].drv = "finished"
  /\ IF handle.state \notin {"OPEN", "CLOSING"} THEN Abort
     ELSE /\ op' = [op EXCEPT ![d] = Finished(d)]
          /\ FinishUnlists(d)
          /\ UNCHANGED <<handle, ctx, failed>>

\* the application's callback is over; the timer's thread may be the caller
InUser(o) == op[o].kick \in {"user", "timerUser"}
After(o, next) == IF op[o].kick = "user" THEN next
                  ELSE IF next = "done" THEN "timerDone" ELSE "timerClosing"

\* globus_l_xio_open_close_callback_kickout after the application's callback
OpenCloseKickout(o) ==
  /\ ~failed /\ o \in {"open", "close"} /\ InUser(o)
  /\ IF \/ op[o].state # "FINISH_WAITING"
        \/ o = "open" /\ handle.state \in {"CLIENT", "OPENING", "OPEN_FAILED"}
        \/ o = "close" /\ handle.state \notin {"CLOSING", "CLOSED"}
     THEN Abort
     ELSE LET starts == handle.state = "OPENING_AND_CLOSING"
              h == [handle EXCEPT !.open_op = FALSE]
              r == [op[o] EXCEPT !.state = "FINISHED", !.ref = @ - 1,
                                 !.kick = After(o, IF starts THEN "closing" ELSE "done")]
              h2 == CASE handle.state = "OPENING_FAILED" -> [h EXCEPT !.state = "OPEN_FAILED"]
                      [] starts -> [h EXCEPT !.state = "CLOSING"]
                      [] handle.state = "CLOSING" /\ o = "close" ->
                           HandleDec([h EXCEPT !.state = "CLOSED"])
                      [] OTHER -> h
          IN /\ op' = IF starts
                        THEN [op EXCEPT ![o] = r, !["close"].reg = "start"]
                        ELSE [op EXCEPT ![o] = r]
             /\ handle' = IF r.ref = 0 THEN HandleDec(h2) ELSE h2
             /\ UNCHANGED <<ctx, running, failed>>

\* the kickout of an open that started the close goes on when the registration
\* of the close returns; on an error it makes the close's callback itself
StartedClose ==
  /\ ~failed /\ op["open"].kick \in {"closing", "timerClosing"}
  /\ \/ /\ op["close"].reg = "done"
        /\ op' = [op EXCEPT !["open"].kick = IF @ = "closing" THEN "done" ELSE "timerDone"]
        /\ UNCHANGED failed
     \/ /\ op["close"].reg = "failed"
        /\ failed' = TRUE /\ UNCHANGED op
  /\ UNCHANGED <<handle, ctx, running>>

\* globus_l_xio_read_write_callback_kickout after the application's callback
ReadWriteKickout(d) ==
  /\ ~failed /\ d \in Data /\ InUser(d)
  /\ IF handle.state = "OPENING" THEN Abort
     ELSE /\ Put(d, [op[d] EXCEPT !.ref = @ - 1, !.kick = After(d, "done")], handle)
          /\ UNCHANGED <<ctx, running, failed>>

\* the assertions of open_delivered and write_delivered
Deliverable(o) ==
  ctx.out > 0 /\ (o = "open" => ctx.state \in {"OPEN_FAILED", "OPENING_AND_CLOSING", "OPEN", "CLOSING"})

\* mutant: the close does not wait for the last operation
Deliver_early(o) ==
  LET last == ~ctx.close_started /\ ctx.close_op
  IN [ctx |-> [ctx EXCEPT !.out = @ - 1,
                 !.state = CASE @ = "OPEN_FAILED" -> "CLOSED"
                             [] @ = "OPENING_AND_CLOSING" -> "CLOSING"
                             [] OTHER -> @,
                 !.close_started = @ \/ (last /\ ctx.state = "CLOSING")],
      close |-> IF last /\ ctx.state = "CLOSING" THEN "go" ELSE "no"]

\* what a delivered operation does to the context: it is no longer outstanding,
\* and the last one lets a waiting close go
Deliver(o) ==
  LET last == ctx.out = 1 /\ ~ctx.close_started /\ ctx.close_op
      closing == CASE ctx.state = "OPENING_AND_CLOSING" -> "finish"
                   [] ctx.state = "CLOSING" -> "go"
                   [] OTHER -> "no"
  IN [ctx |-> [ctx EXCEPT !.out = @ - 1,
                 !.state = CASE @ = "OPEN_FAILED" -> "CLOSED"
                             [] @ = "OPENING_AND_CLOSING" -> "CLOSING"
                             [] OTHER -> @,
                 !.close_started = @ \/ (last /\ closing # "no")],
      close |-> IF last THEN closing ELSE "no"]

\* mutant: nobody starts the close of a failed open
CloseAfter_lost(r, how) == IF how = "go" THEN [r EXCEPT !.start = "go"] ELSE r

\* the close after it: start_close, or, when the open failed, only its kickout
CloseAfter(r, how) ==
  CASE how = "go" -> [r EXCEPT !.start = "go"]
    [] how = "finish" -> [r EXCEPT !.drv = "finished", !.ok = TRUE]
    [] OTHER -> r

\* globus_i_xio_will_block_cb: the application blocks in the callback the driver
\* made, and the operation is delivered at once
WillBlock(o) ==
  /\ ~failed /\ o # "close" /\ op[o].kick = "user" /\ ~op[o].delivered
  /\ (IF o = "open" /\ ~op[o].ok THEN "openFailed" ELSE o) \in BlockIn
  /\ IF ~Deliverable(o) THEN Abort
     ELSE /\ ctx' = Deliver(o).ctx
          /\ op' = [op EXCEPT ![o].delivered = TRUE,
                              !["close"] = CloseAfter(@, Deliver(o).close)]
          /\ UNCHANGED <<handle, running, failed>>

\* globus_xio_driver_open_delivered, _write_delivered (_read_delivered), when the
\* driver's kickout returns from the callback
Delivered(o) ==
  LET d == Deliver(o)
      r == [op[o] EXCEPT !.delivered = TRUE, !.returned = TRUE, !.ref = @ - 1]
  IN
  /\ ~failed /\ o # "close" /\ op[o].drv = "called" /\ ~op[o].returned
  /\ op[o].kick \notin {"user", "closing"}
  /\ IF ~op[o].delivered /\ ~Deliverable(o) THEN Abort
     ELSE /\ ctx' = IF op[o].delivered THEN ctx ELSE d.ctx
          /\ op' = [op EXCEPT ![o] = r,
                       !["close"] = IF op[o].delivered THEN @ ELSE CloseAfter(@, d.close)]
          /\ handle' = IF r.ref = 0 THEN HandleDec(handle) ELSE handle
          /\ UNCHANGED <<running, failed>>

-----------------------------------------------------------------------------
(* Timeouts *)

\* the timer's thread is not between taking entries off its list and the end of
\* its callback
PollerIdle ==
  \A o \in Ops : op[o].timer \notin {"due", "asking", "relist"} /\ op[o].kick # "timerUser"

\* nor is it busy with one of the entries it took
BetweenEntries ==
  \A o \in Ops : op[o].timer \notin {"asking", "relist"} /\ op[o].kick # "timerUser"

\* globus_i_xio_timer_poller_callback: an expired entry without progress is
\* taken off the list
Poll(S) ==
  /\ ~failed /\ running /\ PollerIdle /\ S \subseteq Listed /\ S # {}
  /\ Overlap \/ \A o \in S : op[o].reg # "pass"
  /\ op' = [o \in Ops |->
              IF o \notin S THEN op[o]
              ELSE IF op[o].progress THEN [op[o] EXCEPT !.progress = FALSE]
              ELSE [op[o] EXCEPT !.timer = "due"]]
  /\ UNCHANGED <<handle, ctx, running, failed>>

\* mutant: the question does not hold back the callback
TimeoutCallback_open(o) ==
  LET r == op[o] IN
  /\ ~failed /\ r.timer = "due"
  /\ BetweenEntries
  /\ \/ /\ r.state \in {"FINISHED", "FINISH_WAITING"}
        /\ Put(o, [r EXCEPT !.timer = "no", !.ref = @ - 1], handle)
     \/ /\ r.state = "OPERATING"
        /\ op' = [op EXCEPT ![o].timer = "asking"]
        /\ UNCHANGED handle
  /\ UNCHANGED <<ctx, running, failed>>

\* globus_l_xio_timeout_callback, to the question to the application; when the
\* driver blocked the timeout the entry is to be listed again
TimeoutCallback(o) ==
  LET r == op[o] IN
  /\ ~failed /\ r.timer = "due"
  /\ BetweenEntries
  /\ \/ /\ r.state \in {"FINISHED", "FINISH_WAITING"}
        /\ Put(o, [r EXCEPT !.timer = "no", !.ref = @ - 1], handle)
     \/ /\ r.state = "OPERATING" /\ r.down
        /\ op' = [op EXCEPT ![o].timer = "relist"]
        /\ UNCHANGED handle
     \/ /\ r.state = "OPERATING"
        /\ op' = [op EXCEPT ![o].timer = "asking", ![o].state = "TIMEOUT_PENDING"]
        /\ UNCHANGED handle
  /\ UNCHANGED <<ctx, running, failed>>

\* the application answers whether to cancel; if the operation finished while it
\* was asked, the timer makes its callback
TimeoutAnswer(o, cancel) ==
  LET r == op[o]
      fire == r.state = "FINISH_WAITING"
      drop == cancel \/ fire
  IN
  /\ ~failed /\ r.timer = "asking"
  /\ op' = [op EXCEPT ![o] =
              [r EXCEPT !.state = IF fire THEN @ ELSE "OPERATING",
                        !.canceled = @ \/ cancel,
                        !.timer = IF drop THEN "no" ELSE "relist",
                        !.ref = IF drop THEN @ - 1 ELSE @,
                        !.kick = IF fire THEN "timerUser" ELSE @,
                        !.calls = IF fire THEN @ + 1 ELSE @]]
  /\ Assert(drop => r.ref > 1)
  /\ UNCHANGED <<handle, ctx, running>>

\* the entry of an operation that is to wait on goes back on the list, in a
\* section of its own: the operation may have finished meanwhile, and the timer
\* may have been paused
Relist(o) ==
  /\ ~failed /\ op[o].timer = "relist"
  /\ op' = [op EXCEPT ![o].timer = "listed"]
  /\ UNCHANGED <<handle, ctx, running, failed>>

-----------------------------------------------------------------------------

NoOp == [state |-> "NONE", ref |-> 0, ok |-> FALSE, canceled |-> FALSE, down |-> FALSE,
         reg |-> "no", start |-> "no", drv |-> "no", kick |-> "no",
         delivered |-> FALSE, returned |-> FALSE,
         timer |-> "no", progress |-> FALSE, calls |-> 0]

Init ==
  /\ handle = [state |-> "CLIENT", ref |-> 1, open_op |-> FALSE, close_op |-> FALSE,
               cancel |-> FALSE]
  /\ ctx = [state |-> "NONE", out |-> 0, close_started |-> FALSE, close_op |-> FALSE]
  /\ op = [o \in Ops |-> NoOp]
  /\ setup \in Setups
  /\ running = FALSE
  /\ failed = FALSE

Application ==
  \/ RegisterOpen
  \/ \E d \in Data : RegisterData(d)
  \/ \E mask \in {{"open"}, {"close"}, Data} : HandleCancel(mask)
  \/ \E cancel \in BOOLEAN : RegisterClose(cancel)

Registration ==
  \/ PassOpen
  \/ \E d \in Data : PassData(d)
  \/ \E o \in Ops : RegisterReturn(o) \/ PassFailed(o) \/ RegisterErr(o)
  \/ RegisterCloseStart \/ PassClose \/ StartClose
  \/ StartCloseReturn \/ StartCloseRefused
  \/ RegisterCloseReturn \/ RegisterCloseErr

Callbacks ==
  \/ UnopenedClose
  \/ \E o \in Ops : OpenCloseCallback(o) \/ OpenCloseKickout(o)
  \/ \E d \in Data : ReadWriteCallback(d) \/ ReadWriteKickout(d)
  \/ StartedClose
  \/ \E o \in Ops : Delivered(o)

Timer ==
  \/ \E o \in Ops : TimeoutCallback(o) \/ Relist(o)
  \/ \E o \in Ops, cancel \in BOOLEAN : TimeoutAnswer(o, cancel)

Next ==
  /\ \/ Application
     \/ Registration
     \/ \E o \in Ops, ok \in BOOLEAN : DriverFinish(o, ok)
     \/ Callbacks
     \/ \E o \in Ops : WillBlock(o)
     \/ \E S \in SUBSET Ops : Poll(S)
     \/ Timer
  /\ UNCHANGED setup

\* The driver ends an open and a close by itself, and any operation canceled
DriverEnds(o) ==
  (o \in {"open", "close"} \/ op[o].canceled) /\ \E ok \in BOOLEAN : DriverFinish(o, ok) /\ UNCHANGED setup

\* The timer's periodic callback comes to an entry once it has expired
Expires(o) == Poll({o}) /\ UNCHANGED setup

\* Threads inside the library go on, callbacks of the application return, and the
\* periodic callback is called again as long as it is scheduled
Fairness ==
  /\ WF_vars(Registration /\ UNCHANGED setup) /\ WF_vars(Callbacks /\ UNCHANGED setup) /\ WF_vars(Timer /\ UNCHANGED setup)
  /\ \A o \in Ops : WF_vars(Expires(o))
  /\ \A o \in Ops : WF_vars(DriverEnds(o))

Spec == Init /\ [][Next]_vars /\ Fairness

-----------------------------------------------------------------------------
(* Properties *)

\* Type correctness of the handle, the context and the operations.
TypeOK ==
  /\ handle \in [state : HandleStates, ref : Nat, open_op : BOOLEAN, close_op : BOOLEAN,
                 cancel : BOOLEAN]
  /\ ctx \in [state : CtxStates, out : Nat, close_started : BOOLEAN, close_op : BOOLEAN]
  /\ op \in [Ops -> OpRecords]
  /\ setup \in [timed : SUBSET Ops, refused : SUBSET Ops]
  /\ running \in BOOLEAN /\ failed \in BOOLEAN

\* who holds a reference to an operation: the operation until its callback is
\* over, its timeout, the threads that register and start it, and the driver
\* until it is delivered
Holders(o) ==
  LET r == op[o] IN
  B(r.state # "NONE" /\ r.reg # "failed" /\ r.kick \in {"no", "user", "timerUser"})
  + B(r.timer # "no")
  + B(r.reg \in {"pass", "calling", "passed", "err"}) + B(o # "close" /\ r.reg = "calling")
  + B(r.start = "calling")
  + B(o # "close" /\ r.drv # "no" /\ ~r.returned)

\* An operation has exactly the references of those who still use it and the
\* handle those of its live operations, so that neither is freed under a thread,
\* a timer or the driver, and both are freed at last (GlobusXIOOpInc/Dec).
RefsAccounted ==
  /\ \A o \in Ops : op[o].ref = Holders(o)
  /\ handle.ref = B(handle.state # "CLOSED")
       + Cardinality({o \in Ops : op[o].ref > 0 /\ ~(o = "close" /\ op[o].reg \in {"no", "start"})})

\* Type correctness and the reference counts together.
HandleInvariant == TypeOK /\ RefsAccounted

\* No globus_assert on the way of an operation fails, and a handle is freed only
\* when it is closed (globus_i_xio_handle_dec).
AssertionsHold == ~failed /\ (handle.ref = 0 => handle.state = "CLOSED")

\* The driver's close function is called only when every other operation it was
\* passed has been delivered, and no operation is passed to it afterwards
\* (outstanding_operations and close_op of the context).
CloseBarrier ==
  op["close"].start \in {"calling", "done"} \/ op["close"].drv # "no" =>
    \A o \in Ops \ {"close"} : op[o].drv # "no" => op[o].delivered

\* Every operation accepted is called back exactly once before it is freed, and
\* never one whose registration returned an error.
CalledBackOnce ==
  \A o \in Ops :
    /\ op[o].calls <= 1
    /\ op[o].reg = "failed" => op[o].calls = 0
    /\ op[o].state # "NONE" /\ op[o].ref = 0 /\ op[o].reg # "failed" => op[o].calls = 1

\* While the application is asked about a timeout it has not been called back for
\* the operation, which stays allocated for its callback (TIMEOUT_PENDING delays
\* the callback until the answer).
AskedBeforeCallback ==
  \A o \in Ops : op[o].timer = "asking" =>
    op[o].calls = 0 /\ op[o].state \in {"TIMEOUT_PENDING", "FINISH_WAITING"} /\ op[o].ref > 1

\* While operations wait for their timeout the timer's periodic callback is
\* scheduled, unless it is running (adjust_period in the timer).
TimerArmed == PollerIdle /\ Listed # {} => running

\* A close that cancels what is outstanding ends with the handle freed: nobody
\* waits for a callback that does not come, and the timer gives back the
\* references of operations that finished while it held their entries, unless
\* it has been paused with entries still to be listed (TimerArmed is violated).
CloseCompletes ==
  op["close"].state # "NONE" /\ handle.cancel ~> handle.ref = 0 \/ failed \/ ~TimerArmed

=============================================================================
