------------------------------ MODULE GfsData ------------------------------
(***************************************************************************)
(* One transfer in the data node of the GridFTP server, from               *)
(* globus_i_gfs_data.c: the reference-counted operation, the data handle   *)
(* it uses, and the four parties that drive them: the storage interface    *)
(* (DSI), the data channel of the control library, the server's control    *)
(* connection and the callback library.                                    *)
(*                                                                         *)
(* "d" is the data node.  Operators take and return it, as the functions   *)
(* called under the session's mutex change it; an action is one section    *)
(* under that mutex.  d.thr says where each function that gives the mutex  *)
(* up is: "kick" waits in the callback queue, "fc" waits for the channel   *)
(* to close, the other values are places between two sections.  The server *)
(* runs with the thread model "none" unless it is started with -threads:   *)
(* then no callback runs in the middle of another and oneshots run in the  *)
(* order of their registration.                                            *)
(***************************************************************************)
EXTENDS Naturals, Sequences, FiniteSets

CONSTANTS
  ThreadModels, \* may callbacks run concurrently (-threads)
  Directions,   \* does the transfer write to the data channel
  Modes         \* is the data channel in mode E

ASSUME GfsDataAssumption ==
  /\ ThreadModels \subseteq BOOLEAN
  /\ Directions \subseteq BOOLEAN
  /\ Modes \subseteq BOOLEAN

VARIABLES
  d,        \* the data node
  ctl,      \* the control connection: its events, its data object, its ABORT
  dsi,      \* the storage interface's side of the transfer
  told,     \* the events passed to the storage interface
  pthreads, \* the thread model
  writing,  \* op->writing
  mode_e    \* data_handle->info.mode

setup == <<pthreads, writing, mode_e>>
vars == <<d, ctl, dsi, told, setup>>

OpStates == {"NONE", "REQUESTING", "CONNECTING", "CONNECT_CB", "CONNECTED", "ABORTING",
             "ABORT_CLOSING", "FINISH", "FINISH_WITH_ERROR", "COMPLETING", "COMPLETE", "FREED"}
HandleStates == {"VALID", "INUSE", "CLOSING", "TE_VALID", "TE_PRE_CLOSED",
                 "TE_PRE_AND_DESTROYED", "CLOSING_AND_DESTROYED",
                 "CLOSED_AND_DESTROYED", "CLOSED", "FREED"}

\* the functions that give the mutex up, and the places where they do
Threads == {"begin", "connect", "abort", "end", "trev", "done", "complete", "destroy", "hdl"}
Waiting == {"none", "kick", "fc", "pending", "end_read", "write_eof", "send_eof", "lost"}
Middle == {"run", "event", "enabled", "dsi", "disconnect", "reply", "last", "free",
           "after", "post"}

-----------------------------------------------------------------------------
(* Helpers on the data node                                                *)

At(x, t, pc) == [x EXCEPT !.thr[t] = pc]

Assert(x, b) == [x EXCEPT !.failed = @ \/ ~b]

\* globus_callback_register_oneshot
Oneshot(x, t, pc) ==
  [x EXCEPT !.thr[t] = pc, !.order = IF pthreads THEN @ ELSE Append(@, t)]

\* a callback may start: its turn has come and no other is in the middle
Turn(t) == pthreads \/ (d.order # <<>> /\ Head(d.order) = t)
Calm == ~d.failed /\ (pthreads \/ \A t \in Threads : d.thr[t] \in Waiting)
Started(x, t) == [x EXCEPT !.order = IF pthreads THEN @ ELSE Tail(@)]

\* mutant: the operation is destroyed one reference too early
OpDec_early(x) ==
  [x EXCEPT !.ref = @ - 1, !.thr["destroy"] = IF x.ref <= 2 THEN "run" ELSE @]

\* GFSDataOpDec: the last reference lets this thread destroy the operation
OpDec(x) ==
  [x EXCEPT !.ref = @ - 1, !.thr["destroy"] = IF x.ref = 1 THEN "run" ELSE @]

\* GFSDataOpDec and globus_l_gfs_data_check
OpDecCheck(x) ==
  [OpDec(x) EXCEPT !.handle =
     IF x.ref = 1 /\ @ = "TE_PRE_AND_DESTROYED" THEN "CLOSING_AND_DESTROYED" ELSE @]

\* the destroying thread expects the operation to be COMPLETING
Completing(x) == Assert(x, x.ref # 0 \/ x.state = "COMPLETING")

\* globus_ftp_control_data_force_close succeeds while there is a transfer handle
Closable(x) == x.conn \in {"ready", "connecting", "up"}
ForceClose(x, cb, t) == [x EXCEPT !.conn = "closing", !.fc = cb, !.thr[t] = "fc"]

\* globus_l_gfs_data_handle_free: the channel is destroyed if nothing is left of it
HandleFree(x) ==
  Assert([x EXCEPT !.handle = IF x.conn = "closed" \/ @ = "CLOSED_AND_DESTROYED" THEN "FREED" ELSE @],
         x.handle \in {"CLOSED_AND_DESTROYED", "CLOSING_AND_DESTROYED"})

\* globus_l_gfs_data_fc_return
FcReturn(x) ==
  CASE x.handle = "CLOSING" -> [x EXCEPT !.handle = "TE_PRE_CLOSED"]
    [] x.handle = "CLOSING_AND_DESTROYED" -> HandleFree(x)
    [] OTHER -> Assert(x, FALSE)

\* the end of the transfer is on its way: "kick" and "end_read" are oneshots
EndBy(x, pc) ==
  LET y == [x EXCEPT !.ends = @ + 1]
  IN  IF pc \in {"kick", "end_read"} THEN Oneshot(y, "end", pc) ELSE At(y, "end", pc)

\* globus_l_gfs_data_finish_connected
FinishConnected(x) ==
  EndBy(x, CASE ~writing -> "end_read"
             [] x.conn = "up" -> "write_eof"
             [] OTHER -> "kick")

\* mutant: an abort also tears down a transfer that is finishing
StartAbort_finish(x) ==
  CASE x.state = "REQUESTING" -> [x EXCEPT !.state = "ABORTING"]
    [] x.state \in {"CONNECTING", "CONNECTED", "FINISH"} ->
         LET y == [x EXCEPT !.handle = "CLOSING", !.state = "ABORT_CLOSING", !.ref = @ + 1]
         IN  IF ~x.connect_failed /\ Closable(x) THEN ForceClose(y, "abort", "abort")
                                                 ELSE Oneshot(y, "abort", "kick")
    [] OTHER -> x

\* mutant: the abort's callback holds no reference
StartAbort_noref(x) ==
  CASE x.state = "REQUESTING" -> [x EXCEPT !.state = "ABORTING"]
    [] x.state \in {"CONNECTING", "CONNECTED"} ->
         LET y == [x EXCEPT !.handle = "CLOSING", !.state = "ABORT_CLOSING"]
         IN  IF ~x.connect_failed /\ Closable(x) THEN ForceClose(y, "abort", "abort")
                                                 ELSE Oneshot(y, "abort", "kick")
    [] OTHER -> x

\* globus_l_gfs_data_start_abort
StartAbort(x) ==
  CASE x.state = "REQUESTING" -> [x EXCEPT !.state = "ABORTING"]
    [] x.state \in {"CONNECTING", "CONNECTED"} ->
         LET y == Assert([x EXCEPT !.handle = "CLOSING", !.state = "ABORT_CLOSING",
                                   !.ref = @ + 1], x.handle = "INUSE")
         IN  IF ~x.connect_failed /\ Closable(x) THEN ForceClose(y, "abort", "abort")
                                                 ELSE Oneshot(y, "abort", "kick")
    [] OTHER -> x

-----------------------------------------------------------------------------
(* Request, begin and connection                                           *)

Init ==
  /\ d = [state |-> "NONE", ref |-> 0, delayed |-> FALSE, connect_failed |-> FALSE,
          handle |-> "VALID", conn |-> "ready", fc |-> "none", inlib |-> FALSE,
          ends |-> 0, replies |-> 0, order |-> <<>>,
          thr |-> [t \in Threads |-> "none"], failed |-> FALSE]
  /\ ctl = [obj |-> "READY", events |-> FALSE, aborted |-> FALSE, asked |-> FALSE]
  /\ dsi = "none" /\ told = {}
  /\ pthreads \in ThreadModels /\ writing \in Directions /\ mode_e \in Modes

\* globus_i_gfs_data_request_recv and _send, once authorized.  A module the client
\* named and nobody provides finishes the transfer twice, with the error and at
\* error_module: whatever runs between, the second finds it finished.  A path the
\* data node refuses finishes it once (FinishedTransfer)
Request ==
  /\ Calm /\ d.state = "NONE" /\ ctl.obj = "READY"
  /\ LET x == Assert([d EXCEPT !.state = "REQUESTING", !.ref = 1, !.handle = "INUSE"],
                     d.handle \in {"VALID", "TE_VALID"})
     IN  \/ d' = x /\ dsi' = "called"
         \/ /\ d' = Assert(EndBy([x EXCEPT !.state = "FINISH"], "kick"), FALSE)
            /\ dsi' = "unknown"
  /\ ctl' = [ctl EXCEPT !.obj = "INUSE"]
  /\ UNCHANGED <<told, setup>>

\* globus_gridftp_server_begin_transfer, up to its event
BeginTransfer ==
  /\ Calm /\ dsi = "called"
  /\ dsi' = "begun"
  /\ d' = At([d EXCEPT !.ref = @ + 2], "begin", "event")
  /\ UNCHANGED <<ctl, told, setup>>

\* globus_gridftp_server_control_events_enable: an ABORT that waits comes at once
EventsEnable ==
  /\ ~d.failed /\ d.thr["begin"] = "event"
  /\ d' = At(IF ctl.aborted THEN StartAbort(d) ELSE d, "begin", "enabled")
  /\ ctl' = [ctl EXCEPT !.events = TRUE, !.aborted = FALSE]
  /\ UNCHANGED <<dsi, told, setup>>

\* globus_gridftp_server_begin_transfer, its section under the mutex: the channel is
\* asked to connect, unless an abort or a finish was faster
BeginLocked ==
  /\ ~d.failed /\ d.thr["begin"] = "enabled"
  /\ LET connecting == [d EXCEPT !.state = "CONNECTING", !.ref = @ + 1, !.conn = "connecting",
                                 !.thr["connect"] = "pending", !.thr["begin"] = "none"]
         passAbort == [d EXCEPT !.state = "ABORTING", !.ref = @ + 1, !.thr["begin"] = "dsi"]
     IN  \E ok \in BOOLEAN :
           d' = Completing(OpDec(
                  CASE d.state = "REQUESTING" -> IF ok THEN connecting ELSE passAbort
                    [] d.state = "ABORTING" -> passAbort
                    [] d.state \in {"ABORT_CLOSING", "FINISH", "COMPLETING"} -> At(d, "begin", "none")
                    [] OTHER -> Assert(d, FALSE)))
  /\ UNCHANGED <<ctl, dsi, told, setup>>

\* globus_gridftp_server_begin_transfer passes the ABORT it kept for the DSI
BeginAbort ==
  /\ ~d.failed /\ d.thr["begin"] = "dsi"
  /\ told' = told \union {"ABORT"}
  /\ d' = Completing(OpDecCheck(At(d, "begin", "none")))
  /\ UNCHANGED <<ctl, dsi, setup>>

\* globus_l_gfs_data_begin_cb, its first section: the channel is connected, or it is not
ConnectCallback ==
  /\ Calm /\ d.thr["connect"] = "pending"
  /\ \E ok \in BOOLEAN :
       /\ ok => d.conn = "connecting"
       /\ LET x == At([d EXCEPT !.conn = IF ok THEN "up" ELSE "closing"], "connect", "event")
              failed == At([x EXCEPT !.connect_failed = TRUE], "connect", "none")
          IN  d' = CASE d.state = "CONNECTING" ->
                          IF ok THEN [x EXCEPT !.state = "CONNECT_CB"] ELSE StartAbort(failed)
                     [] d.state \in {"FINISH", "FINISH_WITH_ERROR", "ABORTING", "ABORT_CLOSING"} ->
                          Assert(x, d.ref > 1)
                     [] d.state = "COMPLETING" ->
                          [x EXCEPT !.state = IF d.ref = 1 THEN "COMPLETE" ELSE @]
                     [] OTHER -> Assert(x, FALSE)
  /\ UNCHANGED <<ctl, dsi, told, setup>>

\* mutant: the finish that was put off is not taken up
ConnectedEvent_forgets ==
  /\ ~d.failed /\ d.thr["connect"] = "event"
  /\ d' = OpDecCheck(At([d EXCEPT !.state = IF @ = "CONNECT_CB" THEN "CONNECTED" ELSE @],
                        "connect", "none"))
  /\ UNCHANGED <<ctl, dsi, told, setup>>

\* globus_l_gfs_data_begin_cb, its second section: after the TRANSFER_CONNECTED event
ConnectedEvent ==
  /\ ~d.failed /\ d.thr["connect"] = "event"
  /\ LET x == OpDecCheck(At([d EXCEPT !.state = IF @ = "CONNECT_CB" THEN "CONNECTED" ELSE @],
                            "connect", "none"))
     IN  d' = IF x.delayed THEN FinishConnected(x) ELSE x
  /\ UNCHANGED <<ctl, dsi, told, setup>>

\* the peer of an established channel goes away (external)
ChannelLost ==
  /\ Calm /\ d.conn = "up"
  /\ d' = [d EXCEPT !.conn = "closing"]
  /\ UNCHANGED <<ctl, dsi, told, setup>>

-----------------------------------------------------------------------------
(* The storage interface finishes                                          *)

\* globus_l_gfs_data_force_close: the failed transfer ends with its handle closing
ForceCloseHandle(x) ==
  CASE x.handle = "INUSE" -> EndBy([x EXCEPT !.handle = "CLOSING"], "kick")
    [] x.handle \in {"CLOSED", "CLOSING"} -> x
    [] OTHER -> Assert(x, FALSE)

\* globus_gridftp_server_finished_transfer.  A DSI that has not begun only
\* reports an error; one that reads is done when it has read the end of file.  It
\* may finish as soon as the events of the transfer are enabled
FinishedTransfer(err) ==
  /\ Calm
  /\ \/ dsi = "called" /\ err
     \/ dsi = "begun" /\ d.thr["begin"] # "event" /\ (err \/ writing \/ d.state = "CONNECTED")
  /\ dsi' = "finished"
  /\ d' = CASE d.state = "CONNECTED" ->
                 [IF err THEN ForceCloseHandle(d) ELSE FinishConnected(d)
                  EXCEPT !.state = IF err THEN "FINISH_WITH_ERROR" ELSE "FINISH"]
            [] d.state \in {"CONNECT_CB", "CONNECTING"} ->
                 [d EXCEPT !.delayed = TRUE, !.state = IF err THEN "FINISH_WITH_ERROR" ELSE "FINISH"]
            [] d.state \in {"ABORTING", "REQUESTING"} -> EndBy([d EXCEPT !.state = "FINISH"], "kick")
            [] d.state = "ABORT_CLOSING" -> [d EXCEPT !.state = "FINISH"]
            [] OTHER -> Assert(d, FALSE)
  /\ UNCHANGED <<ctl, told, setup>>

\* globus_l_gfs_data_end_read_kickout: a stream is closed, a mode E channel kept.
\* The COMMIT it asks leave for is granted at once, as the server's own module
\* (globus_i_gfs_cas.c) does: no other is in the tree
EndRead ==
  /\ Calm /\ d.thr["end"] = "end_read" /\ Turn("end")
  /\ LET x == Started(d, "end")
     IN  d' = CASE d.handle # "INUSE" -> At(x, "end", "lost")
                [] mode_e -> At(x, "end", "run")
                [] Closable(d) -> ForceClose([x EXCEPT !.handle = "CLOSING"], "finish", "end")
                [] OTHER -> At([x EXCEPT !.handle = "TE_PRE_CLOSED"], "end", "run")
  /\ UNCHANGED <<ctl, dsi, told, setup>>

\* globus_l_gfs_data_cb_error
CbError(x) ==
  CASE x.handle = "INUSE" -> [x EXCEPT !.handle = "TE_PRE_CLOSED"]
    [] x.handle \in {"CLOSING", "CLOSING_AND_DESTROYED", "CLOSED"} -> x
    [] OTHER -> Assert(x, FALSE)

\* globus_l_gfs_data_write_eof_cb.  The channel may go away after the write and
\* before this callback, and the end of data of mode E may be refused at once
WriteEof ==
  /\ Calm /\ d.thr["end"] = "write_eof"
  /\ \E ok, sent \in BOOLEAN :
       /\ sent => d.conn = "up"
       /\ LET x == [d EXCEPT !.inlib = TRUE, !.conn = IF ok THEN @ ELSE "closing"]
          IN  d' = CASE ~ok -> At(CbError(x), "end", "run")
                     [] d.handle # "INUSE" -> At(d, "end", "lost")
                     [] mode_e -> IF sent THEN At(d, "end", "send_eof") ELSE At(x, "end", "run")
                     [] Closable(d) -> ForceClose([d EXCEPT !.handle = "CLOSING"], "finish", "end")
                     [] OTHER -> At([x EXCEPT !.handle = "TE_PRE_CLOSED"], "end", "run")
  /\ UNCHANGED <<ctl, dsi, told, setup>>

\* globus_l_gfs_data_send_eof_cb
SendEof ==
  /\ Calm /\ d.thr["end"] = "send_eof"
  /\ \E ok \in BOOLEAN :
       LET x == [d EXCEPT !.inlib = TRUE, !.conn = IF ok THEN @ ELSE "closing"]
       IN  d' = At(IF ok THEN x ELSE CbError(x), "end", "run")
  /\ UNCHANGED <<ctl, dsi, told, setup>>

-----------------------------------------------------------------------------
(* The end of the transfer                                                 *)

\* globus_l_gfs_data_end_transfer_kickout, its first section
EndTransfer ==
  /\ \/ Calm /\ d.thr["end"] = "kick" /\ Turn("end")
     \/ ~d.failed /\ d.thr["end"] = "run"
  /\ LET x == IF d.thr["end"] = "kick" THEN Started(d, "end") ELSE d
     IN  d' = CASE d.handle \in {"TE_VALID", "INUSE"} ->
                     At([x EXCEPT !.handle = "TE_VALID"], "end", "reply")
                [] d.handle \in {"TE_PRE_CLOSED", "TE_PRE_AND_DESTROYED", "CLOSING"} ->
                     At(x, "end", "disconnect")
                [] OTHER -> Assert(x, FALSE)
  /\ UNCHANGED <<ctl, dsi, told, setup>>

\* the DISCONNECTED event: globus_gridftp_server_control_disconnected
Disconnected ==
  /\ ~d.failed /\ d.thr["end"] = "disconnect"
  /\ d' = At(IF ctl.obj = "READY" THEN Oneshot(d, "hdl", "kick") ELSE d, "end", "reply")
  /\ ctl' = [ctl EXCEPT !.obj = CASE @ = "INUSE" -> "DESTROY_WAIT"
                                  [] @ = "READY" -> "DESTROYING"
                                  [] OTHER -> @]
  /\ UNCHANGED <<dsi, told, setup>>

\* op->callback: globus_gridftp_server_control_finished_transfer answers the
\* client and ends the events with a last one
Reply ==
  /\ ~d.failed /\ d.thr["end"] = "reply"
  /\ LET x == At([d EXCEPT !.replies = @ + 1], "end", "last")
     IN  d' = Assert(IF ctl.events THEN Oneshot(x, "done", "kick") ELSE x,
                     ctl.obj \in {"INUSE", "DESTROY_WAIT"})
  /\ ctl' = [ctl EXCEPT !.events = FALSE, !.obj = IF @ = "INUSE" THEN "READY" ELSE @]
  /\ UNCHANGED <<dsi, told, setup>>

\* globus_l_gfs_data_end_transfer_kickout, its last section
EndLast ==
  /\ ~d.failed /\ d.thr["end"] = "last"
  /\ LET free == d.handle = "TE_PRE_AND_DESTROYED"
         x == [d EXCEPT !.inlib = FALSE,
                        !.handle = CASE @ = "TE_PRE_CLOSED" -> "CLOSING"
                                     [] free -> "CLOSING_AND_DESTROYED"
                                     [] OTHER -> @,
                        !.thr["end"] = CASE ~free -> "none"
                                         [] d.ref = 1 -> "after"
                                         [] OTHER -> "free"]
     IN  d' = Assert(OpDecCheck(x), d.handle # "FREED")
  /\ UNCHANGED <<ctl, dsi, told, setup>>

\* the handle's memory is given back by the thread that found it destroyed
FreeHandle(t) ==
  /\ ~d.failed /\ t \in {"end", "hdl"}
  /\ d.thr[t] = "free" \/ (d.thr[t] = "after" /\ d.thr["destroy"] = "none")
  /\ d' = HandleFree(At(d, t, "none"))
  /\ UNCHANGED <<ctl, dsi, told, setup>>

\* the last reference is gone: TRANSFER_COMPLETE to the storage interface
DestroyComplete ==
  /\ ~d.failed /\ d.thr["destroy"] = "run"
  /\ told' = told \union {"COMPLETE"}
  /\ d' = At(d, "destroy", "post")
  /\ UNCHANGED <<ctl, dsi, setup>>

\* globus_l_gfs_data_post_transfer_event_cb, fire_cb, operation_destroy
DestroyPost ==
  /\ ~d.failed /\ d.thr["destroy"] = "post"
  /\ d' = Assert([d EXCEPT !.state = "FREED", !.thr["destroy"] = "none",
                           !.handle = CASE @ = "TE_PRE_CLOSED" -> "CLOSED"
                                        [] @ = "TE_PRE_AND_DESTROYED" -> "CLOSING_AND_DESTROYED"
                                        [] @ = "TE_VALID" -> "VALID"
                                        [] OTHER -> @],
                 d.handle \notin {"CLOSED", "CLOSED_AND_DESTROYED", "FREED"})
  /\ UNCHANGED <<ctl, dsi, told, setup>>

-----------------------------------------------------------------------------
(* Aborts and the closing channel                                          *)

\* ABOR, or the control connection ends: the ABORT event goes out while the data
\* object is in use, or waits until the events are enabled
ControlAbort(terminate) ==
  /\ Calm /\ ~ctl.asked /\ ctl.obj = "INUSE"
  /\ d' = IF ctl.events THEN StartAbort(d) ELSE d
  /\ ctl' = [ctl EXCEPT !.asked = TRUE, !.aborted = ~ctl.events,
                        !.obj = IF terminate THEN "DESTROY_WAIT" ELSE @]
  /\ UNCHANGED <<dsi, told, setup>>

\* globus_l_gfs_data_abort_kickout: the storage interface is told, or the
\* transfer it finished meanwhile is ended
AbortKickout ==
  /\ \/ Calm /\ d.thr["abort"] = "kick" /\ Turn("abort")
     \/ ~d.failed /\ d.thr["abort"] = "run"
  /\ LET x == IF d.thr["abort"] = "kick" THEN Started(d, "abort") ELSE d
         y == CASE d.state = "FINISH" -> EndBy(At(x, "abort", "none"), "run")
                [] d.state = "ABORT_CLOSING" -> At([x EXCEPT !.state = "ABORTING"], "abort", "dsi")
                [] OTHER -> Assert(x, FALSE)
     IN  d' = Assert(OpDec(y), d.ref # 1)
  /\ UNCHANGED <<ctl, dsi, told, setup>>

\* its event to the storage interface, after the reference was given back
AbortDsi ==
  /\ ~d.failed /\ d.thr["abort"] = "dsi"
  /\ told' = told \union {"ABORT"}
  /\ d' = Assert(At(d, "abort", "none"), d.state # "FREED")
  /\ UNCHANGED <<ctl, dsi, setup>>

\* no callback of the data channel is left (dc_dec_ref)
ChannelIdle == d.thr["connect"] = "none" /\ d.thr["end"] \notin {"write_eof", "send_eof"} /\ ~d.inlib

\* globus_l_gfs_data_complete_fc_cb
CompleteFc(x) == Completing(OpDecCheck(At(FcReturn(x), "complete", "none")))

\* globus_l_gfs_data_destroy_cb
DestroyCb(x) ==
  CASE x.handle = "CLOSING_AND_DESTROYED" -> At(x, "hdl", "free")
    [] x.handle \in {"TE_PRE_AND_DESTROYED", "CLOSING", "CLOSED"} -> At(x, "hdl", "none")
    [] OTHER -> Assert(x, FALSE)

\* the channel is closed: abort_fc_cb, finish_fc_cb, complete_fc_cb or destroy_cb
ChannelClosed ==
  /\ Calm /\ d.conn = "closing" /\ ChannelIdle
  /\ LET x == [d EXCEPT !.conn = "closed", !.fc = "none"]
     IN  d' = CASE d.fc = "abort" -> At(FcReturn(x), "abort", "run")
                [] d.fc = "finish" -> At(FcReturn(x), "end", "run")
                [] d.fc = "complete" -> CompleteFc(x)
                [] d.fc = "destroy" -> DestroyCb(x)
                [] OTHER -> x
  /\ UNCHANGED <<ctl, dsi, told, setup>>

-----------------------------------------------------------------------------
(* Markers, the last event and the data object                             *)

\* globus_i_gfs_data_request_transfer_event: a performance or restart marker
Marker ==
  /\ Calm /\ ctl.events /\ d.state = "CONNECTED" /\ d.thr["trev"] = "none"
  /\ d' = Oneshot([d EXCEPT !.ref = @ + 1], "trev", "kick")
  /\ UNCHANGED <<ctl, dsi, told, setup>>

\* globus_l_gfs_data_trev_kickout, its first section
TrevKickout ==
  /\ Calm /\ d.thr["trev"] = "kick" /\ Turn("trev")
  /\ d' = Assert(At(Started(d, "trev"), "trev", "event"),
                 d.state \in {"CONNECTING", "CONNECTED", "ABORTING", "ABORT_CLOSING",
                              "FINISH", "FINISH_WITH_ERROR"})
  /\ UNCHANGED <<ctl, dsi, told, setup>>

\* its second section
TrevDone ==
  /\ ~d.failed /\ d.thr["trev"] = "event"
  /\ d' = Completing(OpDecCheck(At(d, "trev", "none")))
  /\ UNCHANGED <<ctl, dsi, told, setup>>

\* globus_l_gsc_event_done_cb sends TRANSFER_COMPLETE, the barrier of the events: a
\* transfer that failed closes its channel first
Complete ==
  /\ Calm /\ d.thr["done"] = "kick" /\ Turn("done")
  /\ LET x == At([Started(d, "done") EXCEPT !.state = "COMPLETING"], "done", "run")
         y == [x EXCEPT !.handle = "CLOSING"]
         pass == d.state = "FINISH" \/ ~Closable(d)
         z == OpDecCheck(IF d.state = "FINISH" THEN x ELSE FcReturn(y))
     IN  d' = CASE d.state \notin {"FINISH", "FINISH_WITH_ERROR"} -> Assert(x, FALSE)
                [] ~pass -> ForceClose(y, "complete", "complete")
                [] z.ref = 0 -> At(z, "done", "after")
                [] OTHER -> z
  /\ UNCHANGED <<ctl, dsi, told, setup>>

\* globus_l_gsc_event_done_cb, its end: the data object that waited is destroyed
DestroyObject ==
  /\ ~d.failed
  /\ d.thr["done"] = "run" \/ (d.thr["done"] = "after" /\ d.thr["destroy"] = "none")
  /\ LET x == At(d, "done", "none")
     IN  d' = IF ctl.obj = "DESTROY_WAIT" THEN Oneshot(x, "hdl", "kick") ELSE x
  /\ ctl' = [ctl EXCEPT !.obj = IF @ = "DESTROY_WAIT" THEN "DESTROYING" ELSE @]
  /\ UNCHANGED <<dsi, told, setup>>

\* the client's next PASV or PORT, or its QUIT, replaces the data object
ClientDestroys ==
  /\ Calm /\ ctl.obj = "READY" /\ d.replies > 0 /\ (pthreads \/ d.thr["done"] = "none")
  /\ d' = Oneshot(d, "hdl", "kick")
  /\ ctl' = [ctl EXCEPT !.obj = "DESTROYING"]
  /\ UNCHANGED <<dsi, told, setup>>

\* globus_i_gfs_data_request_handle_destroy
HandleDestroy ==
  /\ Calm /\ d.thr["hdl"] = "kick" /\ Turn("hdl")
  /\ LET x == At(Started(d, "hdl"), "hdl", "none")
         to(h) == [x EXCEPT !.handle = h]
     IN  d' = CASE d.handle \in {"VALID", "TE_VALID"} /\ Closable(d) ->
                     ForceClose(to(IF d.handle = "VALID" THEN "CLOSING_AND_DESTROYED"
                                                         ELSE "TE_PRE_AND_DESTROYED"), "destroy", "hdl")
                [] d.handle \in {"VALID", "TE_VALID"} /\ ~Closable(d) -> to("CLOSED_AND_DESTROYED")
                [] d.handle = "INUSE" -> StartAbort(x)
                [] d.handle = "CLOSING" -> x
                [] d.handle = "TE_PRE_CLOSED" -> to("TE_PRE_AND_DESTROYED")
                [] d.handle = "CLOSED" -> At(to("CLOSING_AND_DESTROYED"), "hdl", "free")
                [] OTHER -> Assert(x, FALSE)
  /\ UNCHANGED <<ctl, dsi, told, setup>>

-----------------------------------------------------------------------------

\* the program is at rest: a failed assertion has stopped it, or all is done
Rest ==
  /\ d.failed \/ (dsi = "finished" /\ \A t \in Threads : d.thr[t] \in {"none", "lost"})
  /\ UNCHANGED vars

Step ==
  \/ BeginTransfer \/ EventsEnable \/ BeginLocked \/ BeginAbort
  \/ ConnectCallback \/ ConnectedEvent
  \/ \E err \in BOOLEAN : FinishedTransfer(err)
  \/ EndRead \/ WriteEof \/ SendEof
  \/ EndTransfer \/ Disconnected \/ Reply \/ EndLast
  \/ \E t \in Threads : FreeHandle(t)
  \/ DestroyComplete \/ DestroyPost
  \/ AbortKickout \/ AbortDsi \/ ChannelClosed
  \/ TrevKickout \/ TrevDone \/ Complete \/ DestroyObject \/ HandleDestroy

Next ==
  \/ Step
  \/ Request \/ ChannelLost \/ Marker \/ ClientDestroys \/ Rest
  \/ \E terminate \in BOOLEAN : ControlAbort(terminate)

Spec == Init /\ [][Next]_vars

\* Every registered callback runs, the connection attempt and the channel's close
\* end, and the storage interface finishes what it was asked for: the callback
\* queue serves its callback too, however many markers go before it.
FairSpec == Spec /\ WF_vars(Step) /\ SF_vars(\E err \in BOOLEAN : FinishedTransfer(err))

-----------------------------------------------------------------------------

\* Type correctness of the data node, its control connection and the DSI.
TypeOK ==
  /\ d.state \in OpStates /\ d.handle \in HandleStates
  /\ d.conn \in {"ready", "connecting", "up", "closing", "closed"}
  /\ d.ref \in 0 .. 7 /\ d.ends \in Nat /\ d.replies \in Nat
  /\ d.thr \in [Threads -> Waiting \union Middle]
  /\ ctl.obj \in {"READY", "INUSE", "DESTROY_WAIT", "DESTROYING"}
  /\ dsi \in {"none", "called", "begun", "finished", "unknown"}
  /\ told \subseteq {"ABORT", "COMPLETE"}

One(b) == IF b THEN 1 ELSE 0

\* The reference count of the operation: one for the transfer until the last
\* section of its end, one for the control connection's events until COMPLETE
\* is taken in, one for every function that will come back to it.  A failed
\* connection's callback never gives its reference back.
RefsAccounted ==
  d.failed \/ d.ref =
      One(dsi # "none" /\ (d.replies = 0 \/ d.thr["end"] = "last"))
    + One(d.thr["begin"] = "event" \/ ctl.events \/ d.thr["done"] = "kick"
          \/ d.thr["complete"] = "fc")
    + One(d.thr["begin"] # "none") + One(d.thr["connect"] # "none") + One(d.connect_failed)
    + One(d.thr["abort"] \in {"fc", "kick", "run"}) + One(d.thr["trev"] # "none")

\* Type correctness and the reference count together.
TransferInvariant == TypeOK /\ RefsAccounted

\* With one thread, no order of connection, finish, abort, markers and closed
\* channels reaches a state the code asserts to be impossible, or an operation
\* or handle that was freed, but a request for a module that nobody provides,
\* which the code finishes twice.
AssertionsHold == pthreads \/ dsi = "unknown" \/ ~d.failed

\* The transfer is ended once and answered once, and TRANSFER_COMPLETE is the
\* barrier the storage interface is promised: it comes after its finish and
\* the answer, when no function that could pass another event is left.
CompleteIsLast ==
  /\ d.ends <= 1 /\ d.replies <= 1
  /\ "COMPLETE" \in told =>
       /\ dsi = "finished" /\ d.replies = 1
       /\ \A t \in {"begin", "connect", "trev"} : d.thr[t] = "none"
       /\ d.thr["abort"] = "none" \/ pthreads

\* Every transfer is answered, and its operation destroyed unless its
\* connection failed, whatever is aborted, lost or refused on the way.
TransferEnds ==
  dsi # "none" ~> (d.failed \/ (d.replies = 1 /\ (d.state = "FREED" \/ d.connect_failed)))

=============================================================================
