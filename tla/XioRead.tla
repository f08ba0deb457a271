------------------------------ MODULE XioRead ------------------------------
(***************************************************************************)
(* The reads of one XIO context entry and its end-of-file states, from     *)
(* globus_xio_pass.c and globus_xio_driver.c.  A driver may answer one of  *)
(* several outstanding reads with end of file while it still fills the     *)
(* others.  The end of file is held back until no read is with the driver; *)
(* reads registered meanwhile get it too, reads registered while it is     *)
(* being delivered wait in a queue and go to the driver afterwards.  A     *)
(* close waits for all of them.                                            *)
(*                                                                         *)
(* One action is one section under the context's mutex.  A failed          *)
(* globus_assert stops the program and is recorded in "failed".            *)
(***************************************************************************)
EXTENDS Naturals, Sequences, FiniteSets, SequencesExt

CONSTANTS
  Reads,    \* the reads; each may be registered again once delivered
  NoCancel  \* the application may close without canceling (no_cancel)

ASSUME XioReadAssumption == IsFiniteSet(Reads) /\ NoCancel \in BOOLEAN

VARIABLES
  state,            \* my_context->state
  read_operations,  \* reads with the driver or delivered from it, not yet counted off
  eof_operations,   \* reads that end with end of file, not yet delivered
  outstanding,      \* my_context->outstanding_operations
  pending,          \* my_context->pending_read_queue
  pc,               \* where each read is
  result,           \* what it ended with
  canceled,         \* op->canceled
  dispatcher,       \* globus_l_xio_pass_pending_reads
  close_op,         \* a close waits in the context
  close_started,    \* globus_i_xio_driver_start_close was called
  failed            \* a globus_assert failed

counters == <<read_operations, eof_operations, outstanding>>
reads == <<pending, pc, result, canceled>>
closing == <<close_op, close_started>>
vars == <<state, counters, reads, dispatcher, closing, failed>>

States == {"OPEN", "EOF_RECEIVED", "EOF_DELIVERED", "CLOSING", "EOF_RECEIVED_AND_CLOSING",
           "EOF_DELIVERED_AND_CLOSING", "CLOSED"}
Received == {"EOF_RECEIVED", "EOF_RECEIVED_AND_CLOSING"}

\* "eof" and "pending" are the two queues, "kick" a callback to be made, "user"
\* the application's callback
Places == {"idle", "driver", "eof", "pending", "kick", "user"}

Abort == failed' = TRUE /\ UNCHANGED <<state, counters, reads, dispatcher, closing>>

\* globus_l_xio_driver_purge_read_eof: the callbacks of the queued end of files
Purge(f) == [i \in Reads |-> IF f[i] = "eof" THEN "kick" ELSE f[i]]

\* mutant: the close does not wait for the last operation
CloseNow_early(s, out) ==
  s \in {"CLOSING", "EOF_DELIVERED_AND_CLOSING"} /\ out <= 1 /\ ~close_started

\* the last outstanding operation lets the close start
CloseNow(s, out) ==
  s \in {"CLOSING", "EOF_DELIVERED_AND_CLOSING"} /\ out = 0 /\ ~close_started

-----------------------------------------------------------------------------

\* mutant: a read is passed while ends of file are being delivered
PassRead_through(i) ==
  /\ ~failed /\ pc[i] = "idle" /\ state \in {"OPEN", "EOF_RECEIVED", "EOF_DELIVERED"}
  /\ pc' = [pc EXCEPT ![i] = "driver"]
  /\ result' = [result EXCEPT ![i] = "none"]
  /\ read_operations' = read_operations + 1
  /\ outstanding' = outstanding + 1
  /\ canceled' = [canceled EXCEPT ![i] = FALSE]
  /\ UNCHANGED <<state, eof_operations, pending, dispatcher, closing, failed>>

\* globus_xio_driver_pass_read, under globus_l_xio_register_readv's check
PassRead(i) ==
  /\ ~failed /\ pc[i] = "idle" /\ state \in {"OPEN", "EOF_RECEIVED", "EOF_DELIVERED"}
  /\ \/ /\ state = "EOF_RECEIVED"
        /\ pc' = [pc EXCEPT ![i] = "eof"]
        /\ result' = [result EXCEPT ![i] = "eof"]
        /\ eof_operations' = eof_operations + 1
        /\ UNCHANGED <<pending, read_operations>>
     \/ /\ state = "EOF_DELIVERED" \/ (state = "OPEN" /\ pending # <<>>)
        /\ pc' = [pc EXCEPT ![i] = "pending"]
        /\ pending' = Append(pending, i)
        /\ UNCHANGED <<result, read_operations, eof_operations>>
     \/ /\ state = "OPEN" /\ pending = <<>>
        /\ pc' = [pc EXCEPT ![i] = "driver"]
        /\ result' = [result EXCEPT ![i] = "none"]
        /\ read_operations' = read_operations + 1
        /\ UNCHANGED <<pending, eof_operations>>
  /\ outstanding' = outstanding + 1
  /\ canceled' = [canceled EXCEPT ![i] = FALSE]
  /\ UNCHANGED <<state, dispatcher, closing, failed>>

\* the driver's read function returns an error: globus_i_xio_pass_failed, and the
\* read is not registered (one sent by the dispatcher is finished instead)
PassFailed(i) ==
  /\ ~failed /\ pc[i] = "driver" /\ result[i] # "dispatched"
  /\ outstanding' = outstanding - 1
  /\ read_operations' = read_operations - 1
  /\ LET f == [pc EXCEPT ![i] = "idle"] IN
       pc' = IF read_operations = 1 /\ state \in Received THEN Purge(f) ELSE f
  /\ close_started' = (close_started \/ CloseNow(state, outstanding - 1))
  /\ UNCHANGED <<state, eof_operations, pending, result, canceled, dispatcher, close_op, failed>>

\* mutant: an end of file is called back at once
FinishedEof_eager(i) ==
  /\ ~failed /\ pc[i] = "driver"
  /\ IF state \notin {"OPEN", "CLOSING"} \cup Received THEN Abort
     ELSE /\ state' = CASE state = "OPEN" -> "EOF_RECEIVED"
                        [] state = "CLOSING" -> "EOF_RECEIVED_AND_CLOSING"
                        [] OTHER -> state
          /\ read_operations' = read_operations - 1
          /\ eof_operations' = eof_operations + 1
          /\ pc' = [pc EXCEPT ![i] = "kick"]
          /\ result' = [result EXCEPT ![i] = "eof"]
          /\ UNCHANGED <<outstanding, pending, canceled, dispatcher, closing, failed>>

\* globus_xio_driver_finished_read with end of file: it is called back only when
\* it was the last read of the driver
FinishedEof(i) ==
  /\ ~failed /\ pc[i] = "driver"
  /\ IF state \notin {"OPEN", "CLOSING"} \cup Received THEN Abort
     ELSE /\ state' = CASE state = "OPEN" -> "EOF_RECEIVED"
                        [] state = "CLOSING" -> "EOF_RECEIVED_AND_CLOSING"
                        [] OTHER -> state
          /\ read_operations' = read_operations - 1
          /\ eof_operations' = eof_operations + 1
          /\ pc' = [pc EXCEPT ![i] = IF read_operations > 1 THEN "eof" ELSE "kick"]
          /\ result' = [result EXCEPT ![i] = "eof"]
          /\ UNCHANGED <<outstanding, pending, canceled, dispatcher, closing, failed>>

\* globus_xio_driver_finished_read with data or another error
FinishedRead(i) ==
  /\ ~failed /\ pc[i] = "driver"
  /\ pc' = [pc EXCEPT ![i] = "kick"]
  /\ result' = [result EXCEPT ![i] = "data"]
  /\ UNCHANGED <<state, counters, pending, canceled, dispatcher, closing, failed>>

\* globus_l_xio_driver_op_read_kickout, to the application
Kickout(i) ==
  /\ ~failed /\ pc[i] = "kick"
  /\ pc' = [pc EXCEPT ![i] = "user"]
  /\ canceled' = [canceled EXCEPT ![i] = FALSE]
  /\ UNCHANGED <<state, counters, pending, result, dispatcher, closing, failed>>

\* what globus_xio_driver_read_delivered makes of the state when no read is with
\* the driver: an end of file was delivered
EofDelivered ==
  CASE state = "EOF_RECEIVED" -> "EOF_DELIVERED"
    [] state = "EOF_RECEIVED_AND_CLOSING" -> "EOF_DELIVERED_AND_CLOSING"
    [] OTHER -> state

\* globus_xio_driver_read_delivered, when the callback returns or blocks
ReadDelivered(i) ==
  LET f == [pc EXCEPT ![i] = "idle"]
      eof == read_operations = 0
      all == eof /\ eof_operations = 1
      s == IF ~eof THEN state
           ELSE IF all /\ EofDelivered = "EOF_DELIVERED" THEN "OPEN" ELSE EofDelivered
      purge == (eof \/ read_operations = 1) /\ state \in Received
  IN
  /\ ~failed /\ pc[i] = "user"
  /\ IF eof /\ state \in {"OPEN", "CLOSING", "CLOSED"} THEN Abort
     ELSE /\ state' = s
          /\ eof_operations' = IF eof THEN eof_operations - 1 ELSE eof_operations
          /\ read_operations' = IF eof THEN 0 ELSE read_operations - 1
          /\ outstanding' = outstanding - 1
          /\ pc' = IF purge THEN Purge(f) ELSE f
          /\ dispatcher' = IF all /\ pending # <<>> THEN "wanted" ELSE dispatcher
          /\ close_started' = (close_started \/ CloseNow(s, outstanding - 1))
          /\ UNCHANGED <<pending, result, canceled, close_op, failed>>

-----------------------------------------------------------------------------
(* globus_l_xio_pass_pending_reads *)

\* it counts as a read, so that no end of file is delivered before it is done
DispatchStart ==
  /\ ~failed /\ dispatcher = "wanted"
  /\ dispatcher' = "holding"
  /\ read_operations' = read_operations + 1
  /\ UNCHANGED <<state, eof_operations, outstanding, reads, closing, failed>>

\* the next read goes to the driver, unless it was canceled
DispatchOne ==
  LET i == Head(pending) IN
  /\ ~failed /\ dispatcher = "holding" /\ pending # <<>> /\ state \notin Received
  /\ IF state = "EOF_DELIVERED" THEN Abort
     ELSE /\ pending' = Tail(pending)
          /\ read_operations' = read_operations + 1
          /\ pc' = [pc EXCEPT ![i] = IF canceled[i] THEN "kick" ELSE "driver"]
          /\ result' = [result EXCEPT ![i] = IF canceled[i] THEN "data" ELSE "dispatched"]
          /\ UNCHANGED <<state, eof_operations, outstanding, canceled, dispatcher, closing, failed>>

\* mutant: the ends of file of the queue are not counted
DispatchEof_uncounted ==
  /\ ~failed /\ dispatcher = "holding" /\ pending # <<>> /\ state \in Received
  /\ pending' = <<>>
  /\ pc' = [i \in Reads |-> IF i \in ToSet(pending) THEN "eof" ELSE pc[i]]
  /\ result' = [i \in Reads |-> IF i \in ToSet(pending) THEN "eof" ELSE result[i]]
  /\ UNCHANGED <<state, counters, canceled, dispatcher, closing, failed>>

\* one of the reads dispatched hit end of file: the others get it as well
DispatchEof ==
  /\ ~failed /\ dispatcher = "holding" /\ pending # <<>> /\ state \in Received
  /\ pending' = <<>>
  /\ eof_operations' = eof_operations + Len(pending)
  /\ pc' = [i \in Reads |-> IF i \in ToSet(pending) THEN "eof" ELSE pc[i]]
  /\ result' = [i \in Reads |-> IF i \in ToSet(pending) THEN "eof" ELSE result[i]]
  /\ UNCHANGED <<state, read_operations, outstanding, canceled, dispatcher, closing, failed>>

\* mutant: the dispatcher does not call back the ends of file it held up
DispatchEnd_quiet ==
  /\ ~failed /\ dispatcher = "holding" /\ pending = <<>>
  /\ dispatcher' = "no"
  /\ read_operations' = read_operations - 1
  /\ UNCHANGED <<state, eof_operations, outstanding, reads, closing, failed>>

\* the dispatcher is done; the ends of file it held up are called back
DispatchEnd ==
  /\ ~failed /\ dispatcher = "holding" /\ pending = <<>>
  /\ dispatcher' = "no"
  /\ read_operations' = read_operations - 1
  /\ pc' = IF read_operations = 1 /\ state \in Received THEN Purge(pc) ELSE pc
  /\ UNCHANGED <<state, eof_operations, outstanding, pending, result, canceled, closing, failed>>

-----------------------------------------------------------------------------

\* globus_xio_register_close on an open handle: the reads not called back are
\* canceled, the close is passed or waits in the context
Close(cancel) ==
  /\ ~failed /\ state \in {"OPEN", "EOF_RECEIVED", "EOF_DELIVERED"}
  /\ state' = CASE state = "OPEN" -> "CLOSING"
                [] state = "EOF_RECEIVED" -> "EOF_RECEIVED_AND_CLOSING"
                [] OTHER -> "EOF_DELIVERED_AND_CLOSING"
  /\ close_started' = (outstanding = 0)
  /\ close_op' = (outstanding > 0)
  /\ canceled' = [i \in Reads |-> canceled[i] \/ (cancel /\ pc[i] \in Places \ {"idle", "user"})]
  /\ UNCHANGED <<counters, pending, pc, result, dispatcher, failed>>

\* the driver finished the close: globus_xio_driver_finished_close
Closed ==
  /\ ~failed /\ close_started /\ state # "CLOSED"
  /\ state' = "CLOSED"
  /\ UNCHANGED <<counters, reads, dispatcher, closing, failed>>

Init ==
  /\ state = "OPEN"
  /\ read_operations = 0 /\ eof_operations = 0 /\ outstanding = 0
  /\ pending = <<>>
  /\ pc = [i \in Reads |-> "idle"]
  /\ result = [i \in Reads |-> "none"]
  /\ canceled = [i \in Reads |-> FALSE]
  /\ dispatcher = "no"
  /\ close_op = FALSE /\ close_started = FALSE
  /\ failed = FALSE

Dispatch == DispatchStart \/ DispatchOne \/ DispatchEof \/ DispatchEnd

DriverFinish(i) == FinishedEof(i) \/ FinishedRead(i)

Next ==
  \/ \E i \in Reads :
       \/ PassRead(i) \/ PassFailed(i)
       \/ DriverFinish(i)
       \/ Kickout(i) \/ ReadDelivered(i)
  \/ Dispatch
  \/ \E cancel \in BOOLEAN : (cancel \/ NoCancel) /\ Close(cancel)
  \/ Closed

\* The driver finishes the reads it has, threads go on, callbacks return
Fairness ==
  /\ \A i \in Reads : WF_vars(DriverFinish(i)) /\ WF_vars(Kickout(i)) /\ WF_vars(ReadDelivered(i))
  /\ WF_vars(Dispatch) /\ WF_vars(Closed)

Spec == Init /\ [][Next]_vars /\ Fairness

-----------------------------------------------------------------------------
(* Properties *)

\* Type correctness of the context entry and the reads.
TypeOK ==
  /\ state \in States
  /\ read_operations \in Nat /\ eof_operations \in Nat /\ outstanding \in Nat
  /\ pending \in Seq(Reads)
  /\ pc \in [Reads -> Places]
  /\ result \in [Reads -> {"none", "data", "eof", "dispatched"}]
  /\ canceled \in [Reads -> BOOLEAN]
  /\ dispatcher \in {"no", "wanted", "holding"}
  /\ close_op \in BOOLEAN /\ close_started \in BOOLEAN /\ failed \in BOOLEAN

Ended(i, how) == pc[i] \in {"kick", "user"} /\ result[i] = how

\* The three counters of the context agree with the reads: read_operations counts
\* the driver's reads until they are delivered (and the dispatcher),
\* eof_operations the ends of file, outstanding_operations all of them.
CountersAccounted ==
  /\ read_operations = Cardinality({i \in Reads : pc[i] = "driver" \/ Ended(i, "data")})
                         + (IF dispatcher = "holding" THEN 1 ELSE 0)
  /\ eof_operations = Cardinality({i \in Reads : pc[i] = "eof" \/ Ended(i, "eof")})
  /\ outstanding = Cardinality({i \in Reads : pc[i] # "idle"})
  /\ ToSet(pending) = {i \in Reads : pc[i] = "pending"} /\ IsInjective(pending)

\* Type correctness and the counters together.
ReadInvariant == TypeOK /\ CountersAccounted

\* End of file reaches the application only when no read is with the driver and
\* the data of every other read was delivered (read_operations == 0).
EofLast ==
  \A i \in Reads : Ended(i, "eof") =>
    \A j \in Reads : pc[j] # "driver" /\ ~Ended(j, "data")

\* The driver is closed only when no read is outstanding (close_started).
CloseAfterReads == close_started => \A i \in Reads : pc[i] = "idle"

\* No globus_assert of the read side fails.
AssertionsHold == ~failed

\* Every read is delivered, also one queued behind an end of file, while others
\* are registered and closed around it.
ReadsDelivered == \A i \in Reads : pc[i] # "idle" ~> pc[i] = "idle" \/ failed

\* A close ends: no end of file in a queue holds back the barrier.
CloseEnds == state \in {"CLOSING", "EOF_RECEIVED_AND_CLOSING", "EOF_DELIVERED_AND_CLOSING"}
               ~> state = "CLOSED" \/ failed

\* Nothing waits for ever: every read is delivered and every close ends.
ReadSideEnds == ReadsDelivered /\ CloseEnds

=============================================================================
