--------------------------- MODULE XioHandle_proof ---------------------------
(***************************************************************************)
(* Proofs about XioHandle for any finite set of reads and writes, any      *)
(* choice of timeouts and refusals and any thread the application blocks.  *)
(*                                                                         *)
(* CloseBarrier and CalledBackOnce hold without further assumption, also   *)
(* after a failed assertion.  HandleInvariant and AskedBeforeCallback hold *)
(* when no operation has a timeout and is refused (Apart): the error path  *)
(* of a registration leaves such an operation to its timer.                *)
(* AssertionsHold holds for a careful application (Careful).               *)
(***************************************************************************)
EXTENDS XioHandle, Integers, FiniteSetTheorems, TLAPS

-----------------------------------------------------------------------------
(* The invariant                                                            *)

\* no operation with a timeout can be refused by its driver
Apart == \A s \in Setups : s.timed \cap s.refused = {}

\* a callback that has returned; an operation before and after its finish
Over == {"closing", "timerClosing", "done", "timerDone"}
Begun == {"OPERATING", "TIMEOUT_PENDING"}
Ended == {"FINISH_WAITING", "FINISHED"}

\* who holds a reference to the operation o when it is r
HoldersOf(o, r) ==
  B(r.state # "NONE" /\ r.reg # "failed" /\ r.kick \in {"no", "user", "timerUser"})
  + B(r.timer # "no")
  + B(r.reg \in {"pass", "calling", "passed", "err"}) + B(o # "close" /\ r.reg = "calling")
  + B(r.start = "calling")
  + B(o # "close" /\ r.drv # "no" /\ ~r.returned)

\* What an operation's record says whatever its kind: its reference count, one
\* call of the application at most, the timer's question before that call.
Common(o, r) ==
  /\ r.ref = HoldersOf(o, r)
  /\ r.calls = B(r.kick # "no")
  /\ r.state = "NONE" => /\ r.reg = "no" /\ r.start = "no" /\ r.drv = "no" /\ r.kick = "no"
                         /\ r.timer = "no" /\ ~r.canceled /\ ~r.down
                         /\ ~r.delivered /\ ~r.returned
  /\ r.timer = "asking" => r.state \in {"TIMEOUT_PENDING", "FINISH_WAITING"} /\ r.kick = "no"
  /\ r.state = "TIMEOUT_PENDING" => r.timer = "asking"
  /\ r.state \in Begun => r.kick = "no" /\ r.drv # "called"
  /\ r.drv \in {"asked", "finished"} => r.state \in Begun
  /\ r.reg \in {"err", "failed"} => r.drv = "no" /\ r.kick = "no" /\ r.state \in Begun
  /\ r.reg = "pass" => ~r.down /\ r.drv = "no" /\ r.state \in Begun /\ (r.canceled => r.timer = "no")

\* An open, a read or a write: the driver has it from the pass on.
Passed(o, r) ==
  o # "close" =>
    /\ r.state = "NONE" <=> r.reg = "no"
    /\ r.drv # "no" <=> r.reg \in {"calling", "done"}
    /\ r.reg \in {"no", "pass", "calling", "err", "failed", "done"}
    /\ r.state \in Ended => r.drv = "called"
    /\ r.delivered \/ r.returned => r.drv = "called"
    /\ r.start = "no"

\* A timeout belongs to an operation that has one, and is over when the
\* registration ends in an error.
Timed(o, r) ==
  /\ r.timer # "no" => o \in setup.timed
  /\ r.reg \in {"err", "failed"} /\ Apart => r.timer = "no"

\* what holds of each operation by itself
OpOK(o, r) == r \in OpRecords /\ Common(o, r) /\ Passed(o, r) /\ Timed(o, r)

\* the application was told of a close that the driver never saw
Pretended(r) == r.state \in Ended /\ r.drv = "no"

\* the close has reached the context of the driver
ClosePassed(c) == c.state \in {"CLOSING", "OPENING_AND_CLOSING"} \/ c.close_op \/ c.close_started

\* The close: it waits for the open, is passed, starts and ends in this order.
CloseOK(r, c) ==
  /\ r.reg \in {"no", "start", "pass"} =>
       r.start = "no" /\ r.drv = "no" /\ (r.reg # "pass" => r.timer = "no") /\ ~ClosePassed(c)
  /\ r.reg \in {"no", "start"} => r.state \in {"NONE", "OPERATING"} /\ ~r.down /\ ~r.canceled
  /\ r.start = "go" => r.drv = "no" /\ r.state \in Begun
  /\ r.drv = "asked" => r.start \in {"calling", "done"}
  /\ r.reg \in {"err", "failed"} => c.state = "CLOSED" /\ r.start \in {"no", "done"}
  /\ Pretended(r) => r.reg = "done" /\ r.timer = "no" /\ r.start = "no" /\ ~ClosePassed(c)

\* operations the driver has and has not delivered
Outstanding == {o \in Ops \ {"close"} : op[o].drv # "no" /\ ~op[o].delivered}

\* the close is on its way through the context, the driver or the callback
CloseGoing ==
  \/ ClosePassed(ctx)
  \/ op["close"].start # "no" \/ op["close"].drv # "no" \/ op["close"].reg \notin {"no", "done"}

\* The context: what is outstanding is counted, and nothing is once the close
\* of the driver is due.
CtxOK ==
  /\ ctx.out = Cardinality(Outstanding)
  /\ CloseGoing => op["open"].drv = "called"
  /\ op["close"].start # "no" \/ op["close"].drv # "no" \/ ctx.close_started =>
       Outstanding = {} /\ ctx.state \in {"CLOSING", "OPENING_AND_CLOSING", "CLOSED"}
  /\ ctx.close_op => ctx.state \in {"CLOSING", "OPENING_AND_CLOSING", "CLOSED"}

\* the open will not call the application any more
OpenOver == op["open"].reg \in {"no", "failed"} \/ op["open"].kick \in Over

\* The handle's state against its open and its close; an operation it can reach
\* through open_op or close_op has not had its callback.
HandleOK ==
  /\ handle.state = "CLIENT" => op["open"].reg = "no"
  /\ op["open"].reg \notin {"no", "failed"} /\ op["open"].drv # "called" =>
       handle.state \in {"OPENING", "OPENING_AND_CLOSING"}
  /\ handle.state \in {"CLIENT", "OPENING", "OPENING_FAILED", "OPEN"} => op["close"].state = "NONE"
  /\ handle.state = "OPEN_FAILED" => OpenOver
  /\ handle.state \in {"OPEN", "OPENING_FAILED"} => op["open"].drv = "called"
  /\ handle.state = "OPENING_AND_CLOSING" =>
       (op["close"].state = "OPERATING" /\ op["close"].reg = "no") \/ OpenOver
  /\ Pretended(op["close"]) => op["open"].reg \in {"no", "failed"} \/ op["open"].drv = "called"
  /\ handle.state = "CLOSED" => op["close"].kick \in Over \/ op["close"].reg = "failed"
  /\ handle.open_op => op["open"].kick \notin Over
  /\ handle.close_op => op["close"].drv # "called"

\* operations that hold the handle
LiveOps == {o \in Ops : op[o].ref > 0 /\ ~(o = "close" /\ op[o].reg \in {"no", "start"})}

\* The handle's references, when no operation with a timeout is refused.
HandleRefs == Apart => handle.ref = B(handle.state # "CLOSED") + Cardinality(LiveOps)

\* the types of the records
HandleTypes ==
  /\ handle \in [state : HandleStates, ref : Int, open_op : BOOLEAN, close_op : BOOLEAN,
                 cancel : BOOLEAN]
  /\ ctx \in [state : CtxStates, out : Nat, close_started : BOOLEAN, close_op : BOOLEAN]
  /\ op \in [Ops -> OpRecords]
  /\ setup \in Setups
  /\ running \in BOOLEAN /\ failed \in BOOLEAN

\* The handle afterwards is h, up to the reference of an operation.
SameHandle(h) ==
  handle'.state = h.state /\ handle'.open_op = h.open_op /\ handle'.close_op = h.close_op

USE DEF SameHandle

\* the inductive invariant
XioCore ==
  /\ HandleTypes /\ (\A o \in Ops : OpOK(o, op[o])) /\ CloseOK(op["close"], ctx)
  /\ CtxOK /\ HandleOK /\ HandleRefs

-----------------------------------------------------------------------------
(* Counting                                                                 *)

\* A set of operations is finite, and empty exactly when it counts 0.
LEMMA OpsCounted ==
    ASSUME NEW S \in SUBSET Ops
    PROVE  /\ IsFiniteSet(S) /\ Cardinality(S) \in Nat
           /\ Cardinality(S) = 0 <=> S = {}
  <1>1. IsFiniteSet({"open", "close"})
    <2>1. IsFiniteSet({"open"}) /\ IsFiniteSet({"close"})
      BY FS_Singleton
    <2>2. {"open", "close"} = {"open"} \cup {"close"}
      OBVIOUS
    <2> QED
      BY <2>1, <2>2, FS_Union
  <1>2. IsFiniteSet(Ops)
    BY <1>1, FS_Union, XioAssumption DEF Ops
  <1> QED
    BY <1>2, FS_Subset, FS_CardinalityType, FS_EmptySet

\* One operation more.
LEMMA OneMore ==
    ASSUME NEW S \in SUBSET Ops, NEW o \in Ops, o \notin S
    PROVE  Cardinality(S \cup {o}) = Cardinality(S) + 1
  BY OpsCounted, FS_AddElement

\* One operation less.
LEMMA OneLess ==
    ASSUME NEW S \in SUBSET Ops, NEW o \in S
    PROVE  Cardinality(S \ {o}) = Cardinality(S) - 1
  BY OpsCounted, FS_RemoveElement

\* The open and the close are operations of their own.
LEMMA OpNames ==
    /\ "open" \in Ops /\ "close" \in Ops /\ Data \subseteq Ops
    /\ \A d \in Data : d # "open" /\ d # "close"
    /\ "open" # "close"
  BY XioAssumption DEF Ops

-----------------------------------------------------------------------------
(* Steps that change one or two operations                                  *)

\* Changing one operation to a record that is right for it leaves all right.
LEMMA OneOp ==
    ASSUME XioCore, NEW o \in Ops, NEW r, OpOK(o, r), op' = [op EXCEPT ![o] = r],
           setup' = setup
    PROVE  /\ op' \in [Ops -> OpRecords]
           /\ \A p \in Ops : OpOK(p, op[p])'
           /\ op'[o] = r
           /\ \A p \in Ops \ {o} : op'[p] = op[p]
  <1>1. /\ op \in [Ops -> OpRecords] /\ \A p \in Ops : OpOK(p, op[p])
        /\ r \in OpRecords
    BY DEF XioCore, HandleTypes, OpOK
  <1>2. /\ op' \in [Ops -> OpRecords] /\ op'[o] = r
        /\ \A p \in Ops \ {o} : op'[p] = op[p]
    BY <1>1
  <1>3. \A p \in Ops : OpOK(p, op'[p])
    BY <1>1, <1>2
  <1>4. \A p \in Ops : OpOK(p, op[p])'
    BY <1>2, <1>3 DEF OpOK, Timed
  <1> QED
    BY <1>2, <1>4

\* The same for an operation and the close.
LEMMA TwoOps ==
    ASSUME XioCore, NEW o \in Ops \ {"close"}, NEW r, NEW q, OpOK(o, r), OpOK("close", q),
           op' = [op EXCEPT ![o] = r, !["close"] = q], setup' = setup
    PROVE  /\ op' \in [Ops -> OpRecords]
           /\ \A p \in Ops : OpOK(p, op[p])'
           /\ op'[o] = r /\ op'["close"] = q
           /\ \A p \in Ops \ {o, "close"} : op'[p] = op[p]
  <1>1. /\ op \in [Ops -> OpRecords] /\ \A p \in Ops : OpOK(p, op[p])
        /\ r \in OpRecords /\ q \in OpRecords
    BY DEF XioCore, HandleTypes, OpOK
  <1>2. /\ op' \in [Ops -> OpRecords] /\ op'[o] = r /\ op'["close"] = q
        /\ \A p \in Ops \ {o, "close"} : op'[p] = op[p]
    BY <1>1, OpNames
  <1>3. \A p \in Ops : OpOK(p, op'[p])
    BY <1>1, <1>2
  <1>4. \A p \in Ops : OpOK(p, op[p])'
    BY <1>2, <1>3 DEF OpOK, Timed
  <1> QED
    BY <1>2, <1>4

\* Nothing is outstanding that was not before.
LEMMA SameOutstanding ==
    ASSUME \A p \in Ops \ {"close"} :
             (op[p].drv # "no" /\ ~op[p].delivered)' <=> (op[p].drv # "no" /\ ~op[p].delivered)
    PROVE  Outstanding' = Outstanding
  BY DEF Outstanding

\* The same operations hold the handle.
LEMMA SameLive ==
    ASSUME \A p \in Ops :
             (op[p].ref > 0 /\ ~(p = "close" /\ op[p].reg \in {"no", "start"}))'
               <=> (op[p].ref > 0 /\ ~(p = "close" /\ op[p].reg \in {"no", "start"}))
    PROVE  LiveOps' = LiveOps
  BY DEF LiveOps

\* An operation that loses references leaves the handle when it has none left.
LEMMA PutLive ==
    ASSUME XioCore, NEW o \in Ops, NEW r, NEW h, OpOK(o, r),
           Put(o, r, h), setup' = setup,
           op[o].ref > 0, o = "close" => op[o].reg \notin {"no", "start"} /\ r.reg \notin {"no", "start"},
           h.ref \in Int, h \in [state : HandleStates, ref : Int, open_op : BOOLEAN,
                                 close_op : BOOLEAN, cancel : BOOLEAN],
           Apart => h.ref = B(h.state # "CLOSED") + Cardinality(LiveOps)
    PROVE  /\ op' \in [Ops -> OpRecords]
           /\ \A p \in Ops : OpOK(p, op[p])'
           /\ op'[o] = r
           /\ \A p \in Ops \ {o} : op'[p] = op[p]
           /\ handle' \in [state : HandleStates, ref : Int, open_op : BOOLEAN,
                           close_op : BOOLEAN, cancel : BOOLEAN]
           /\ SameHandle(h)
           /\ HandleRefs'
  <1>1. op' = [op EXCEPT ![o] = r] /\ handle' = IF r.ref = 0 THEN HandleDec(h) ELSE h
    BY DEF Put
  <1>2. /\ op' \in [Ops -> OpRecords]
        /\ \A p \in Ops : OpOK(p, op[p])'
        /\ op'[o] = r
        /\ \A p \in Ops \ {o} : op'[p] = op[p]
    BY <1>1, OneOp
  <1>3. /\ handle' \in [state : HandleStates, ref : Int, open_op : BOOLEAN,
                        close_op : BOOLEAN, cancel : BOOLEAN]
        /\ SameHandle(h) /\ handle'.ref = IF r.ref = 0 THEN h.ref - 1 ELSE h.ref
    BY <1>1 DEF HandleDec
  <1>4. r.ref \in Nat
    BY DEF OpOK, OpRecords
  <1>5. LiveOps \in SUBSET Ops /\ o \in LiveOps
    BY DEF LiveOps
  <1>6. LiveOps' = IF r.ref = 0 THEN LiveOps \ {o} ELSE LiveOps
    BY <1>2, <1>4, <1>5 DEF LiveOps
  <1>7. Cardinality(LiveOps)' = IF r.ref = 0 THEN Cardinality(LiveOps) - 1 ELSE Cardinality(LiveOps)
    BY <1>5, <1>6, OneLess
  <1>8. Cardinality(LiveOps) \in Nat
    BY <1>5, OpsCounted
  <1>9. HandleRefs'
    BY <1>3, <1>7, <1>8 DEF HandleRefs, B
  <1> QED
    BY <1>2, <1>3, <1>9

-----------------------------------------------------------------------------
(* What the steps do to an operation's record                               *)

\* An operation is registered.
LEMMA RecRegister ==
    ASSUME NEW o \in Ops, NEW q, OpOK(o, q),
           o # "close", q.reg = "no"
    PROVE  OpOK(o, [q EXCEPT !.state = "OPERATING", !.ref = 2, !.reg = "pass"])
  <1> DEFINE n == 2
  <1> DEFINE r == [q EXCEPT !.state = "OPERATING", !.ref = n, !.reg = "pass"]
  <1>1. q \in OpRecords /\ Common(o, q) /\ Passed(o, q) /\ Timed(o, q)
    BY DEF OpOK
  <1>2. n \in Nat
    BY <1>1 DEF OpRecords, Common, Passed, HoldersOf, B, Begun, Ended, Over
  <1> HIDE DEF n
  <1>3. r \in OpRecords
    BY <1>1, <1>2 DEF OpRecords, OpStates, Over
  <1>4. /\ r.state = "OPERATING" /\ r.ref = n /\ r.canceled = q.canceled
        /\ r.down = q.down /\ r.reg = "pass" /\ r.start = q.start /\ r.drv = q.drv
        /\ r.kick = q.kick /\ r.delivered = q.delivered /\ r.returned = q.returned
        /\ r.timer = q.timer /\ r.calls = q.calls
    BY <1>1 DEF OpRecords
  <1> HIDE DEF r
  <1>5. Common(o, r)
    BY <1>1, <1>4 DEF OpRecords, OpStates, Common, Passed, HoldersOf, B, Begun, Ended, Over, n
  <1>6. Passed(o, r)
    BY <1>1, <1>4 DEF Common, Passed, Begun, Ended
  <1>7. Timed(o, r)
    BY <1>1, <1>4 DEF Common, Passed, Timed, OpRecords, n
  <1> QED
    BY <1>3, <1>5, <1>6, <1>7 DEF OpOK, r, n

\* Its timeout is put on the timer's list.
LEMMA RecAddTimeout ==
    ASSUME NEW o \in Ops, NEW q, OpOK(o, q),
           o \in setup.timed, q.reg = "pass", q.state = "OPERATING", q.timer = "no", ~q.canceled
    PROVE  OpOK(o, [q EXCEPT !.ref = @ + 1, !.timer = "listed", !.progress = TRUE])
  <1> DEFINE n == q.ref + 1
  <1> DEFINE r == [q EXCEPT !.ref = n, !.timer = "listed", !.progress = TRUE]
  <1>1. q \in OpRecords /\ Common(o, q) /\ Passed(o, q) /\ Timed(o, q)
    BY DEF OpOK
  <1>2. n \in Nat
    BY <1>1 DEF OpRecords, Common, Passed, HoldersOf, B, Begun, Ended, Over
  <1> HIDE DEF n
  <1>3. r \in OpRecords
    BY <1>1, <1>2 DEF OpRecords, OpStates, Over
  <1>4. /\ r.state = q.state /\ r.ref = n /\ r.canceled = q.canceled /\ r.down = q.down
        /\ r.reg = q.reg /\ r.start = q.start /\ r.drv = q.drv /\ r.kick = q.kick
        /\ r.delivered = q.delivered /\ r.returned = q.returned
        /\ r.timer = "listed" /\ r.calls = q.calls
    BY <1>1 DEF OpRecords
  <1> HIDE DEF r
  <1>5. Common(o, r)
    BY <1>1, <1>4 DEF OpRecords, OpStates, Common, Passed, HoldersOf, B, Begun, Ended, Over, n
  <1>6. Passed(o, r)
    BY <1>1, <1>4 DEF Common, Passed, Begun, Ended
  <1>7. Timed(o, r)
    BY <1>1, <1>4 DEF Common, Passed, Timed, OpRecords, n
  <1> QED
    BY <1>3, <1>5, <1>6, <1>7 DEF OpOK, r, n

\* A timeout is taken off the list.
LEMMA RecUnlist ==
    ASSUME NEW o \in Ops, NEW q, OpOK(o, q),
           q.timer = "listed"
    PROVE  OpOK(o, [q EXCEPT !.timer = "no", !.ref = @ - 1])
  <1> DEFINE n == q.ref - 1
  <1> DEFINE r == [q EXCEPT !.timer = "no", !.ref = n]
  <1>1. q \in OpRecords /\ Common(o, q) /\ Passed(o, q) /\ Timed(o, q)
    BY DEF OpOK
  <1>2. n \in Nat
    BY <1>1 DEF OpRecords, Common, Passed, HoldersOf, B, Begun, Ended, Over
  <1> HIDE DEF n
  <1>3. r \in OpRecords
    BY <1>1, <1>2 DEF OpRecords, OpStates, Over
  <1>4. /\ r.state = q.state /\ r.ref = n /\ r.canceled = q.canceled /\ r.down = q.down
        /\ r.reg = q.reg /\ r.start = q.start /\ r.drv = q.drv /\ r.kick = q.kick
        /\ r.delivered = q.delivered /\ r.returned = q.returned /\ r.timer = "no"
        /\ r.calls = q.calls
    BY <1>1 DEF OpRecords
  <1> HIDE DEF r
  <1>5. Common(o, r)
    BY <1>1, <1>4 DEF OpRecords, OpStates, Common, Passed, HoldersOf, B, Begun, Ended, Over, n
  <1>6. Passed(o, r)
    BY <1>1, <1>4 DEF Common, Passed, Begun, Ended
  <1>7. Timed(o, r)
    BY <1>1, <1>4 DEF Common, Passed, Timed, OpRecords, n
  <1> QED
    BY <1>3, <1>5, <1>6, <1>7 DEF OpOK, r, n

\* The driver accepted the operation.
LEMMA RecReturn ==
    ASSUME NEW o \in Ops, NEW q, OpOK(o, q),
           o # "close", q.reg = "calling"
    PROVE  OpOK(o, [q EXCEPT !.reg = "done", !.ref = @ - 2])
  <1> DEFINE n == q.ref - 2
  <1> DEFINE r == [q EXCEPT !.reg = "done", !.ref = n]
  <1>1. q \in OpRecords /\ Common(o, q) /\ Passed(o, q) /\ Timed(o, q)
    BY DEF OpOK
  <1>2. n \in Nat
    BY <1>1 DEF OpRecords, Common, Passed, HoldersOf, B, Begun, Ended, Over
  <1> HIDE DEF n
  <1>3. r \in OpRecords
    BY <1>1, <1>2 DEF OpRecords, OpStates, Over
  <1>4. /\ r.state = q.state /\ r.ref = n /\ r.canceled = q.canceled /\ r.down = q.down
        /\ r.reg = "done" /\ r.start = q.start /\ r.drv = q.drv /\ r.kick = q.kick
        /\ r.delivered = q.delivered /\ r.returned = q.returned /\ r.timer = q.timer
        /\ r.calls = q.calls
    BY <1>1 DEF OpRecords
  <1> HIDE DEF r
  <1>5. Common(o, r)
    BY <1>1, <1>4 DEF OpRecords, OpStates, Common, Passed, HoldersOf, B, Begun, Ended, Over, n
  <1>6. Passed(o, r)
    BY <1>1, <1>4 DEF Common, Passed, Begun, Ended
  <1>7. Timed(o, r)
    BY <1>1, <1>4 DEF Common, Passed, Timed, OpRecords, n
  <1> QED
    BY <1>3, <1>5, <1>6, <1>7 DEF OpOK, r, n

\* A canceled operation is not passed.
LEMMA RecPassErr ==
    ASSUME NEW o \in Ops, NEW q, OpOK(o, q),
           q.reg = "pass", q.canceled
    PROVE  OpOK(o, [q EXCEPT !.reg = "err", !.progress = TRUE])
  <1> DEFINE r == [q EXCEPT !.reg = "err", !.progress = TRUE]
  <1>1. q \in OpRecords /\ Common(o, q) /\ Passed(o, q) /\ Timed(o, q)
    BY DEF OpOK
  <1>2. r \in OpRecords
    BY <1>1 DEF OpRecords, OpStates, Over
  <1>3. /\ r.state = q.state /\ r.ref = q.ref /\ r.canceled = q.canceled
        /\ r.down = q.down /\ r.reg = "err" /\ r.start = q.start /\ r.drv = q.drv
        /\ r.kick = q.kick /\ r.delivered = q.delivered /\ r.returned = q.returned
        /\ r.timer = q.timer /\ r.calls = q.calls
    BY <1>1 DEF OpRecords
  <1> HIDE DEF r
  <1>4. Common(o, r)
    BY <1>1, <1>3 DEF OpRecords, OpStates, Common, Passed, HoldersOf, B, Begun, Ended, Over
  <1>5. Passed(o, r)
    BY <1>1, <1>3 DEF Common, Passed, Begun, Ended
  <1>6. Timed(o, r)
    BY <1>1, <1>3 DEF Common, Passed, Timed, OpRecords
  <1> QED
    BY <1>2, <1>4, <1>5, <1>6 DEF OpOK, r

\* An operation is passed to the driver.
LEMMA RecPassDown ==
    ASSUME NEW o \in Ops, NEW q, OpOK(o, q),
           o # "close", q.reg = "pass"
    PROVE  OpOK(o, [q EXCEPT !.reg = "calling", !.drv = "asked", !.down = TRUE,
                             !.ref = @ + 2, !.progress = TRUE])
  <1> DEFINE n == q.ref + 2
  <1> DEFINE r == [q EXCEPT !.reg = "calling", !.drv = "asked", !.down = TRUE, !.ref = n,
                            !.progress = TRUE]
  <1>1. q \in OpRecords /\ Common(o, q) /\ Passed(o, q) /\ Timed(o, q)
    BY DEF OpOK
  <1>2. n \in Nat
    BY <1>1 DEF OpRecords, Common, Passed, HoldersOf, B, Begun, Ended, Over
  <1> HIDE DEF n
  <1>3. r \in OpRecords
    BY <1>1, <1>2 DEF OpRecords, OpStates, Over
  <1>4. /\ r.state = q.state /\ r.ref = n /\ r.canceled = q.canceled /\ r.down = TRUE
        /\ r.reg = "calling" /\ r.start = q.start /\ r.drv = "asked"
        /\ r.kick = q.kick /\ r.delivered = q.delivered /\ r.returned = q.returned
        /\ r.timer = q.timer /\ r.calls = q.calls
    BY <1>1 DEF OpRecords
  <1> HIDE DEF r
  <1>5. Common(o, r)
    BY <1>1, <1>4 DEF OpRecords, OpStates, Common, Passed, HoldersOf, B, Begun, Ended, Over, n
  <1>6. Passed(o, r)
    BY <1>1, <1>4 DEF Common, Passed, Begun, Ended
  <1>7. Timed(o, r)
    BY <1>1, <1>4 DEF Common, Passed, Timed, OpRecords, n
  <1> QED
    BY <1>3, <1>5, <1>6, <1>7 DEF OpOK, r, n

\* The driver refuses an operation.
LEMMA RecRefused ==
    ASSUME NEW o \in Ops, NEW q, OpOK(o, q),
           o # "close", o \in setup.refused, setup \in Setups,
           q.reg = "calling", q.drv = "asked"
    PROVE  OpOK(o, [q EXCEPT !.reg = "err", !.drv = "no", !.down = FALSE, !.ref = @ - 2])
  <1> DEFINE n == q.ref - 2
  <1> DEFINE r == [q EXCEPT !.reg = "err", !.drv = "no", !.down = FALSE, !.ref = n]
  <1>1. q \in OpRecords /\ Common(o, q) /\ Passed(o, q) /\ Timed(o, q)
    BY DEF OpOK
  <1>2. n \in Nat
    BY <1>1 DEF OpRecords, Common, Passed, HoldersOf, B, Begun, Ended, Over
  <1> HIDE DEF n
  <1>3. r \in OpRecords
    BY <1>1, <1>2 DEF OpRecords, OpStates, Over
  <1>4. /\ r.state = q.state /\ r.ref = n /\ r.canceled = q.canceled /\ r.down = FALSE
        /\ r.reg = "err" /\ r.start = q.start /\ r.drv = "no" /\ r.kick = q.kick
        /\ r.delivered = q.delivered /\ r.returned = q.returned /\ r.timer = q.timer
        /\ r.calls = q.calls
    BY <1>1 DEF OpRecords
  <1> HIDE DEF r
  <1>5. Common(o, r)
    BY <1>1, <1>4 DEF OpRecords, OpStates, Common, Passed, HoldersOf, B, Begun, Ended, Over, n
  <1>6. Passed(o, r)
    BY <1>1, <1>4 DEF Common, Passed, Begun, Ended
  <1>7. Timed(o, r)
    BY <1>1, <1>4 DEF Common, Passed, Timed, Apart, OpRecords, n
  <1> QED
    BY <1>3, <1>5, <1>6, <1>7 DEF OpOK, r, n

\* An operation is given up.
LEMMA RecGiveUp ==
    ASSUME NEW o \in Ops, NEW q, OpOK(o, q),
           q.reg = "err"
    PROVE  OpOK(o, [q EXCEPT !.reg = "failed", !.ref = @ - 2])
  <1> DEFINE n == q.ref - 2
  <1> DEFINE r == [q EXCEPT !.reg = "failed", !.ref = n]
  <1>1. q \in OpRecords /\ Common(o, q) /\ Passed(o, q) /\ Timed(o, q)
    BY DEF OpOK
  <1>2. n \in Nat
    BY <1>1 DEF OpRecords, Common, Passed, HoldersOf, B, Begun, Ended, Over
  <1> HIDE DEF n
  <1>3. r \in OpRecords
    BY <1>1, <1>2 DEF OpRecords, OpStates, Over
  <1>4. /\ r.state = q.state /\ r.ref = n /\ r.canceled = q.canceled /\ r.down = q.down
        /\ r.reg = "failed" /\ r.start = q.start /\ r.drv = q.drv /\ r.kick = q.kick
        /\ r.delivered = q.delivered /\ r.returned = q.returned /\ r.timer = q.timer
        /\ r.calls = q.calls
    BY <1>1 DEF OpRecords
  <1> HIDE DEF r
  <1>5. Common(o, r)
    BY <1>1, <1>4 DEF OpRecords, OpStates, Common, Passed, HoldersOf, B, Begun, Ended, Over, n
  <1>6. Passed(o, r)
    BY <1>1, <1>4 DEF Common, Passed, Begun, Ended
  <1>7. Timed(o, r)
    BY <1>1, <1>4 DEF Common, Passed, Timed, OpRecords, n
  <1> QED
    BY <1>3, <1>5, <1>6, <1>7 DEF OpOK, r, n

\* An operation is canceled.
LEMMA RecCancel ==
    ASSUME NEW o \in Ops, NEW q, OpOK(o, q)
    PROVE  OpOK(o, [q EXCEPT !.canceled = q.down])
  <1> DEFINE r == [q EXCEPT !.canceled = q.down]
  <1>1. q \in OpRecords /\ Common(o, q) /\ Passed(o, q) /\ Timed(o, q)
    BY DEF OpOK
  <1>2. r \in OpRecords
    BY <1>1 DEF OpRecords, OpStates, Over
  <1>3. /\ r.state = q.state /\ r.ref = q.ref /\ r.canceled = q.down /\ r.down = q.down
        /\ r.reg = q.reg /\ r.start = q.start /\ r.drv = q.drv /\ r.kick = q.kick
        /\ r.delivered = q.delivered /\ r.returned = q.returned /\ r.timer = q.timer
        /\ r.calls = q.calls
    BY <1>1 DEF OpRecords
  <1> HIDE DEF r
  <1>4. Common(o, r)
    BY <1>1, <1>3 DEF OpRecords, OpStates, Common, Passed, HoldersOf, B, Begun, Ended, Over
  <1>5. Passed(o, r)
    BY <1>1, <1>3 DEF Common, Passed, Begun, Ended
  <1>6. Timed(o, r)
    BY <1>1, <1>3 DEF Common, Passed, Timed, OpRecords
  <1> QED
    BY <1>2, <1>4, <1>5, <1>6 DEF OpOK, r

\* The close of a handle that is opening waits for the open.
LEMMA RecCloseOp ==
    ASSUME NEW o \in Ops, NEW q, OpOK(o, q),
           o = "close", q.state = "NONE"
    PROVE  OpOK(o, [q EXCEPT !.state = "OPERATING", !.ref = 1])
  <1> DEFINE n == 1
  <1> DEFINE r == [q EXCEPT !.state = "OPERATING", !.ref = n]
  <1>1. q \in OpRecords /\ Common(o, q) /\ Passed(o, q) /\ Timed(o, q)
    BY DEF OpOK
  <1>2. n \in Nat
    BY <1>1 DEF OpRecords, Common, Passed, HoldersOf, B, Begun, Ended, Over
  <1> HIDE DEF n
  <1>3. r \in OpRecords
    BY <1>1, <1>2 DEF OpRecords, OpStates, Over
  <1>4. /\ r.state = "OPERATING" /\ r.ref = n /\ r.canceled = q.canceled
        /\ r.down = q.down /\ r.reg = q.reg /\ r.start = q.start /\ r.drv = q.drv
        /\ r.kick = q.kick /\ r.delivered = q.delivered /\ r.returned = q.returned
        /\ r.timer = q.timer /\ r.calls = q.calls
    BY <1>1 DEF OpRecords
  <1> HIDE DEF r
  <1>5. Common(o, r)
    BY <1>1, <1>4 DEF OpRecords, OpStates, Common, Passed, HoldersOf, B, Begun, Ended, Over, n
  <1>6. Passed(o, r)
    BY <1>1, <1>4 DEF Common, Passed, Begun, Ended
  <1>7. Timed(o, r)
    BY <1>1, <1>4 DEF Common, Passed, Timed, OpRecords, n
  <1> QED
    BY <1>3, <1>5, <1>6, <1>7 DEF OpOK, r, n

\* A close waits to be passed.
LEMMA RecCloseAsked ==
    ASSUME NEW o \in Ops, NEW q, OpOK(o, q),
           o = "close", q.state = "OPERATING", q.reg = "no"
    PROVE  OpOK(o, [q EXCEPT !.reg = "start"])
  <1> DEFINE r == [q EXCEPT !.reg = "start"]
  <1>1. q \in OpRecords /\ Common(o, q) /\ Passed(o, q) /\ Timed(o, q)
    BY DEF OpOK
  <1>2. r \in OpRecords
    BY <1>1 DEF OpRecords, OpStates, Over
  <1>3. /\ r.state = q.state /\ r.ref = q.ref /\ r.canceled = q.canceled
        /\ r.down = q.down /\ r.reg = "start" /\ r.start = q.start /\ r.drv = q.drv
        /\ r.kick = q.kick /\ r.delivered = q.delivered /\ r.returned = q.returned
        /\ r.timer = q.timer /\ r.calls = q.calls
    BY <1>1 DEF OpRecords
  <1> HIDE DEF r
  <1>4. Common(o, r)
    BY <1>1, <1>3 DEF OpRecords, OpStates, Common, Passed, HoldersOf, B, Begun, Ended, Over
  <1>5. Passed(o, r)
    BY <1>1, <1>3 DEF Common, Passed, Begun, Ended
  <1>6. Timed(o, r)
    BY <1>1, <1>3 DEF Common, Passed, Timed, OpRecords
  <1> QED
    BY <1>2, <1>4, <1>5, <1>6 DEF OpOK, r

\* A close is pretended.
LEMMA RecPretend ==
    ASSUME NEW o \in Ops, NEW q, OpOK(o, q),
           o = "close", q.state = "OPERATING", q.reg = "no", q.timer = "no", q.drv = "no"
    PROVE  OpOK(o, [q EXCEPT !.state = "FINISH_WAITING", !.reg = "done", !.ok = TRUE])
  <1> DEFINE r == [q EXCEPT !.state = "FINISH_WAITING", !.reg = "done", !.ok = TRUE]
  <1>1. q \in OpRecords /\ Common(o, q) /\ Passed(o, q) /\ Timed(o, q)
    BY DEF OpOK
  <1>2. r \in OpRecords
    BY <1>1 DEF OpRecords, OpStates, Over
  <1>3. /\ r.state = "FINISH_WAITING" /\ r.ref = q.ref /\ r.canceled = q.canceled
        /\ r.down = q.down /\ r.reg = "done" /\ r.start = q.start /\ r.drv = q.drv
        /\ r.kick = q.kick /\ r.delivered = q.delivered /\ r.returned = q.returned
        /\ r.timer = q.timer /\ r.calls = q.calls
    BY <1>1 DEF OpRecords
  <1> HIDE DEF r
  <1>4. Common(o, r)
    BY <1>1, <1>3 DEF OpRecords, OpStates, Common, Passed, HoldersOf, B, Begun, Ended, Over
  <1>5. Passed(o, r)
    BY <1>1, <1>3 DEF Common, Passed, Begun, Ended
  <1>6. Timed(o, r)
    BY <1>1, <1>3 DEF Common, Passed, Timed, OpRecords
  <1> QED
    BY <1>2, <1>4, <1>5, <1>6 DEF OpOK, r

\* The application is called for a pretended close.
LEMMA RecUnopened ==
    ASSUME NEW o \in Ops, NEW q, OpOK(o, q),
           o = "close", q.state = "FINISH_WAITING", q.kick = "no", q.timer = "no"
    PROVE  OpOK(o, [q EXCEPT !.kick = "user", !.calls = @ + 1])
  <1> DEFINE c == q.calls + 1
  <1> DEFINE r == [q EXCEPT !.kick = "user", !.calls = c]
  <1>1. q \in OpRecords /\ Common(o, q) /\ Passed(o, q) /\ Timed(o, q)
    BY DEF OpOK
  <1>2. c \in Nat
    BY <1>1 DEF OpRecords, Common, Passed, HoldersOf, B, Begun, Ended, Over
  <1> HIDE DEF c
  <1>3. r \in OpRecords
    BY <1>1, <1>2 DEF OpRecords, OpStates, Over
  <1>4. /\ r.state = q.state /\ r.ref = q.ref /\ r.canceled = q.canceled
        /\ r.down = q.down /\ r.reg = q.reg /\ r.start = q.start /\ r.drv = q.drv
        /\ r.kick = "user" /\ r.delivered = q.delivered /\ r.returned = q.returned
        /\ r.timer = q.timer /\ r.calls = c
    BY <1>1 DEF OpRecords
  <1> HIDE DEF r
  <1>5. Common(o, r)
    BY <1>1, <1>4 DEF OpRecords, OpStates, Common, Passed, HoldersOf, B, Begun, Ended, Over, c
  <1>6. Passed(o, r)
    BY <1>1, <1>4 DEF Common, Passed, Begun, Ended
  <1>7. Timed(o, r)
    BY <1>1, <1>4 DEF Common, Passed, Timed, OpRecords, c
  <1> QED
    BY <1>3, <1>5, <1>6, <1>7 DEF OpOK, r, c

\* The registration of a close takes its reference.
LEMMA RecCloseStart ==
    ASSUME NEW o \in Ops, NEW q, OpOK(o, q),
           o = "close", q.reg = "start", q.state = "OPERATING", q.timer = "no", q.drv = "no", ~q.down
    PROVE  OpOK(o, [q EXCEPT !.ref = @ + 1, !.reg = "pass"])
  <1> DEFINE n == q.ref + 1
  <1> DEFINE r == [q EXCEPT !.ref = n, !.reg = "pass"]
  <1>1. q \in OpRecords /\ Common(o, q) /\ Passed(o, q) /\ Timed(o, q)
    BY DEF OpOK
  <1>2. n \in Nat
    BY <1>1 DEF OpRecords, Common, Passed, HoldersOf, B, Begun, Ended, Over
  <1> HIDE DEF n
  <1>3. r \in OpRecords
    BY <1>1, <1>2 DEF OpRecords, OpStates, Over
  <1>4. /\ r.state = q.state /\ r.ref = n /\ r.canceled = q.canceled /\ r.down = q.down
        /\ r.reg = "pass" /\ r.start = q.start /\ r.drv = q.drv /\ r.kick = q.kick
        /\ r.delivered = q.delivered /\ r.returned = q.returned /\ r.timer = q.timer
        /\ r.calls = q.calls
    BY <1>1 DEF OpRecords
  <1> HIDE DEF r
  <1>5. Common(o, r)
    BY <1>1, <1>4 DEF OpRecords, OpStates, Common, Passed, HoldersOf, B, Begun, Ended, Over, n
  <1>6. Passed(o, r)
    BY <1>1, <1>4 DEF Common, Passed, Begun, Ended
  <1>7. Timed(o, r)
    BY <1>1, <1>4 DEF Common, Passed, Timed, OpRecords, n
  <1> QED
    BY <1>3, <1>5, <1>6, <1>7 DEF OpOK, r, n

\* A close is passed, or waits in the context.
LEMMA RecPassClose ==
    ASSUME NEW o \in Ops, NEW q, OpOK(o, q),
           o = "close", q.reg = "pass", q.start = "no",
           NEW s \in {"go", "no"}, NEW g \in {"calling", "passed"}
    PROVE  OpOK(o, [q EXCEPT !.down = TRUE, !.progress = TRUE, !.start = s, !.reg = g])
  <1> DEFINE r == [q EXCEPT !.down = TRUE, !.progress = TRUE, !.start = s, !.reg = g]
  <1>1. q \in OpRecords /\ Common(o, q) /\ Passed(o, q) /\ Timed(o, q)
    BY DEF OpOK
  <1>2. r \in OpRecords
    BY <1>1 DEF OpRecords, OpStates, Over
  <1>3. /\ r.state = q.state /\ r.ref = q.ref /\ r.canceled = q.canceled
        /\ r.down = TRUE /\ r.reg = g /\ r.start = s /\ r.drv = q.drv
        /\ r.kick = q.kick /\ r.delivered = q.delivered /\ r.returned = q.returned
        /\ r.timer = q.timer /\ r.calls = q.calls
    BY <1>1 DEF OpRecords
  <1> HIDE DEF r
  <1>4. Common(o, r)
    BY <1>1, <1>3 DEF OpRecords, OpStates, Common, Passed, HoldersOf, B, Begun, Ended, Over
  <1>5. Passed(o, r)
    BY <1>1, <1>3 DEF Common, Passed, Begun, Ended
  <1>6. Timed(o, r)
    BY <1>1, <1>3 DEF Common, Passed, Timed, OpRecords
  <1> QED
    BY <1>2, <1>4, <1>5, <1>6 DEF OpOK, r

\* The driver is asked to close.
LEMMA RecStartClose ==
    ASSUME NEW o \in Ops, NEW q, OpOK(o, q),
           o = "close", q.start = "go", q.drv = "no", q.state \in Begun,
           q.reg \notin {"pass", "err", "failed"}
    PROVE  OpOK(o, [q EXCEPT !.start = "calling", !.drv = "asked", !.ref = @ + 1,
                             !.progress = TRUE])
  <1> DEFINE n == q.ref + 1
  <1> DEFINE r == [q EXCEPT !.start = "calling", !.drv = "asked", !.ref = n,
                            !.progress = TRUE]
  <1>1. q \in OpRecords /\ Common(o, q) /\ Passed(o, q) /\ Timed(o, q)
    BY DEF OpOK
  <1>2. n \in Nat
    BY <1>1 DEF OpRecords, Common, Passed, HoldersOf, B, Begun, Ended, Over
  <1> HIDE DEF n
  <1>3. r \in OpRecords
    BY <1>1, <1>2 DEF OpRecords, OpStates, Over
  <1>4. /\ r.state = q.state /\ r.ref = n /\ r.canceled = q.canceled /\ r.down = q.down
        /\ r.reg = q.reg /\ r.start = "calling" /\ r.drv = "asked"
        /\ r.kick = q.kick /\ r.delivered = q.delivered /\ r.returned = q.returned
        /\ r.timer = q.timer /\ r.calls = q.calls
    BY <1>1 DEF OpRecords
  <1> HIDE DEF r
  <1>5. Common(o, r)
    BY <1>1, <1>4 DEF OpRecords, OpStates, Common, Passed, HoldersOf, B, Begun, Ended, Over, n
  <1>6. Passed(o, r)
    BY <1>1, <1>4 DEF Common, Passed, Begun, Ended
  <1>7. Timed(o, r)
    BY <1>1, <1>4 DEF Common, Passed, Timed, OpRecords, n
  <1> QED
    BY <1>3, <1>5, <1>6, <1>7 DEF OpOK, r, n

\* The driver accepted to close.
LEMMA RecCloseReturn ==
    ASSUME NEW o \in Ops, NEW q, OpOK(o, q),
           o = "close", q.start = "calling", NEW g, g = IF q.reg = "calling" THEN "passed" ELSE q.reg
    PROVE  OpOK(o, [q EXCEPT !.start = "done", !.ref = @ - 1, !.reg = g])
  <1> DEFINE n == q.ref - 1
  <1> DEFINE r == [q EXCEPT !.start = "done", !.ref = n, !.reg = g]
  <1>1. q \in OpRecords /\ Common(o, q) /\ Passed(o, q) /\ Timed(o, q)
    BY DEF OpOK
  <1>2. n \in Nat
    BY <1>1 DEF OpRecords, Common, Passed, HoldersOf, B, Begun, Ended, Over
  <1> HIDE DEF n
  <1>3. r \in OpRecords
    BY <1>1, <1>2 DEF OpRecords, OpStates, Over
  <1>4. /\ r.state = q.state /\ r.ref = n /\ r.canceled = q.canceled /\ r.down = q.down
        /\ r.reg = g /\ r.start = "done" /\ r.drv = q.drv /\ r.kick = q.kick
        /\ r.delivered = q.delivered /\ r.returned = q.returned /\ r.timer = q.timer
        /\ r.calls = q.calls
    BY <1>1 DEF OpRecords
  <1> HIDE DEF r
  <1>5. Common(o, r)
    BY <1>1, <1>4 DEF OpRecords, OpStates, Common, Passed, HoldersOf, B, Begun, Ended, Over, n
  <1>6. Passed(o, r)
    BY <1>1, <1>4 DEF Common, Passed, Begun, Ended
  <1>7. Timed(o, r)
    BY <1>1, <1>4 DEF Common, Passed, Timed, OpRecords, n
  <1> QED
    BY <1>3, <1>5, <1>6, <1>7 DEF OpOK, r, n

\* The driver refuses to close and the registration fails.
LEMMA RecCloseCanFail ==
    ASSUME NEW o \in Ops, NEW q, OpOK(o, q),
           o = "close", o \in setup.refused, setup \in Setups,
           q.start = "calling", q.drv = "asked", q.reg = "calling"
    PROVE  OpOK(o, [q EXCEPT !.start = "done", !.ref = @ - 1, !.ok = FALSE, !.drv = "no",
                             !.reg = "err"])
  <1> DEFINE n == q.ref - 1
  <1> DEFINE r == [q EXCEPT !.start = "done", !.ref = n, !.ok = FALSE, !.drv = "no",
                            !.reg = "err"]
  <1>1. q \in OpRecords /\ Common(o, q) /\ Passed(o, q) /\ Timed(o, q)
    BY DEF OpOK
  <1>2. n \in Nat
    BY <1>1 DEF OpRecords, Common, Passed, HoldersOf, B, Begun, Ended, Over
  <1> HIDE DEF n
  <1>3. r \in OpRecords
    BY <1>1, <1>2 DEF OpRecords, OpStates, Over
  <1>4. /\ r.state = q.state /\ r.ref = n /\ r.canceled = q.canceled /\ r.down = q.down
        /\ r.reg = "err" /\ r.start = "done" /\ r.drv = "no" /\ r.kick = q.kick
        /\ r.delivered = q.delivered /\ r.returned = q.returned /\ r.timer = q.timer
        /\ r.calls = q.calls
    BY <1>1 DEF OpRecords
  <1> HIDE DEF r
  <1>5. Common(o, r)
    BY <1>1, <1>4 DEF OpRecords, OpStates, Common, Passed, HoldersOf, B, Begun, Ended, Over, n
  <1>6. Passed(o, r)
    BY <1>1, <1>4 DEF Common, Passed, Begun, Ended
  <1>7. Timed(o, r)
    BY <1>1, <1>4 DEF Common, Passed, Timed, Apart, OpRecords, n
  <1> QED
    BY <1>3, <1>5, <1>6, <1>7 DEF OpOK, r, n

\* The driver refuses to close and the close ends in an error.
LEMMA RecCloseError ==
    ASSUME NEW o \in Ops, NEW q, OpOK(o, q),
           o = "close", q.start = "calling", q.drv = "asked"
    PROVE  OpOK(o, [q EXCEPT !.start = "done", !.ref = @ - 1, !.ok = FALSE,
                             !.drv = "finished"])
  <1> DEFINE n == q.ref - 1
  <1> DEFINE r == [q EXCEPT !.start = "done", !.ref = n, !.ok = FALSE,
                            !.drv = "finished"]
  <1>1. q \in OpRecords /\ Common(o, q) /\ Passed(o, q) /\ Timed(o, q)
    BY DEF OpOK
  <1>2. n \in Nat
    BY <1>1 DEF OpRecords, Common, Passed, HoldersOf, B, Begun, Ended, Over
  <1> HIDE DEF n
  <1>3. r \in OpRecords
    BY <1>1, <1>2 DEF OpRecords, OpStates, Over
  <1>4. /\ r.state = q.state /\ r.ref = n /\ r.canceled = q.canceled /\ r.down = q.down
        /\ r.reg = q.reg /\ r.start = "done" /\ r.drv = "finished"
        /\ r.kick = q.kick /\ r.delivered = q.delivered /\ r.returned = q.returned
        /\ r.timer = q.timer /\ r.calls = q.calls
    BY <1>1 DEF OpRecords
  <1> HIDE DEF r
  <1>5. Common(o, r)
    BY <1>1, <1>4 DEF OpRecords, OpStates, Common, Passed, HoldersOf, B, Begun, Ended, Over, n
  <1>6. Passed(o, r)
    BY <1>1, <1>4 DEF Common, Passed, Begun, Ended
  <1>7. Timed(o, r)
    BY <1>1, <1>4 DEF Common, Passed, Timed, OpRecords, n
  <1> QED
    BY <1>3, <1>5, <1>6, <1>7 DEF OpOK, r, n

\* The registration of a close returns.
LEMMA RecCloseRegistered ==
    ASSUME NEW o \in Ops, NEW q, OpOK(o, q),
           o = "close", q.reg = "passed"
    PROVE  OpOK(o, [q EXCEPT !.reg = "done", !.ref = @ - 1])
  <1> DEFINE n == q.ref - 1
  <1> DEFINE r == [q EXCEPT !.reg = "done", !.ref = n]
  <1>1. q \in OpRecords /\ Common(o, q) /\ Passed(o, q) /\ Timed(o, q)
    BY DEF OpOK
  <1>2. n \in Nat
    BY <1>1 DEF OpRecords, Common, Passed, HoldersOf, B, Begun, Ended, Over
  <1> HIDE DEF n
  <1>3. r \in OpRecords
    BY <1>1, <1>2 DEF OpRecords, OpStates, Over
  <1>4. /\ r.state = q.state /\ r.ref = n /\ r.canceled = q.canceled /\ r.down = q.down
        /\ r.reg = "done" /\ r.start = q.start /\ r.drv = q.drv /\ r.kick = q.kick
        /\ r.delivered = q.delivered /\ r.returned = q.returned /\ r.timer = q.timer
        /\ r.calls = q.calls
    BY <1>1 DEF OpRecords
  <1> HIDE DEF r
  <1>5. Common(o, r)
    BY <1>1, <1>4 DEF OpRecords, OpStates, Common, Passed, HoldersOf, B, Begun, Ended, Over, n
  <1>6. Passed(o, r)
    BY <1>1, <1>4 DEF Common, Passed, Begun, Ended
  <1>7. Timed(o, r)
    BY <1>1, <1>4 DEF Common, Passed, Timed, OpRecords, n
  <1> QED
    BY <1>3, <1>5, <1>6, <1>7 DEF OpOK, r, n

\* The driver finishes.
LEMMA RecFinish ==
    ASSUME NEW o \in Ops, NEW q, OpOK(o, q),
           q.drv = "asked", NEW ok \in BOOLEAN
    PROVE  OpOK(o, [q EXCEPT !.drv = "finished", !.ok = ok, !.progress = TRUE])
  <1> DEFINE r == [q EXCEPT !.drv = "finished", !.ok = ok, !.progress = TRUE]
  <1>1. q \in OpRecords /\ Common(o, q) /\ Passed(o, q) /\ Timed(o, q)
    BY DEF OpOK
  <1>2. r \in OpRecords
    BY <1>1 DEF OpRecords, OpStates, Over
  <1>3. /\ r.state = q.state /\ r.ref = q.ref /\ r.canceled = q.canceled
        /\ r.down = q.down /\ r.reg = q.reg /\ r.start = q.start
        /\ r.drv = "finished" /\ r.kick = q.kick /\ r.delivered = q.delivered
        /\ r.returned = q.returned /\ r.timer = q.timer /\ r.calls = q.calls
    BY <1>1 DEF OpRecords
  <1> HIDE DEF r
  <1>4. Common(o, r)
    BY <1>1, <1>3 DEF OpRecords, OpStates, Common, Passed, HoldersOf, B, Begun, Ended, Over
  <1>5. Passed(o, r)
    BY <1>1, <1>3 DEF Common, Passed, Begun, Ended
  <1>6. Timed(o, r)
    BY <1>1, <1>3 DEF Common, Passed, Timed, OpRecords
  <1> QED
    BY <1>2, <1>4, <1>5, <1>6 DEF OpOK, r

\* The application is called back.
LEMMA RecCalled ==
    ASSUME NEW o \in Ops, NEW q, OpOK(o, q),
           q.drv = "finished", q.timer \notin {"asking", "listed"}
    PROVE  OpOK(o, [q EXCEPT !.state = "FINISH_WAITING", !.drv = "called",
                             !.down = FALSE, !.canceled = FALSE, !.kick = "user",
                             !.calls = @ + 1])
  <1> DEFINE c == q.calls + 1
  <1> DEFINE r == [q EXCEPT !.state = "FINISH_WAITING", !.drv = "called", !.down = FALSE,
                            !.canceled = FALSE, !.kick = "user", !.calls = c]
  <1>1. q \in OpRecords /\ Common(o, q) /\ Passed(o, q) /\ Timed(o, q)
    BY DEF OpOK
  <1>2. c \in Nat
    BY <1>1 DEF OpRecords, Common, Passed, HoldersOf, B, Begun, Ended, Over
  <1> HIDE DEF c
  <1>3. r \in OpRecords
    BY <1>1, <1>2 DEF OpRecords, OpStates, Over
  <1>4. /\ r.state = "FINISH_WAITING" /\ r.ref = q.ref /\ r.canceled = FALSE
        /\ r.down = FALSE /\ r.reg = q.reg /\ r.start = q.start /\ r.drv = "called"
        /\ r.kick = "user" /\ r.delivered = q.delivered /\ r.returned = q.returned
        /\ r.timer = q.timer /\ r.calls = c
    BY <1>1 DEF OpRecords
  <1> HIDE DEF r
  <1>5. Common(o, r)
    BY <1>1, <1>4 DEF OpRecords, OpStates, Common, Passed, HoldersOf, B, Begun, Ended, Over, c
  <1>6. Passed(o, r)
    BY <1>1, <1>4 DEF Common, Passed, Begun, Ended
  <1>7. Timed(o, r)
    BY <1>1, <1>4 DEF Common, Passed, Timed, OpRecords, c
  <1> QED
    BY <1>3, <1>5, <1>6, <1>7 DEF OpOK, r, c

\* The callback is held back, for the timer is asking.
LEMMA RecHeldBack ==
    ASSUME NEW o \in Ops, NEW q, OpOK(o, q),
           q.drv = "finished", q.state = "TIMEOUT_PENDING"
    PROVE  OpOK(o, [q EXCEPT !.state = "FINISH_WAITING", !.drv = "called",
                             !.down = FALSE, !.canceled = FALSE])
  <1> DEFINE r == [q EXCEPT !.state = "FINISH_WAITING", !.drv = "called", !.down = FALSE,
                            !.canceled = FALSE]
  <1>1. q \in OpRecords /\ Common(o, q) /\ Passed(o, q) /\ Timed(o, q)
    BY DEF OpOK
  <1>2. r \in OpRecords
    BY <1>1 DEF OpRecords, OpStates, Over
  <1>3. /\ r.state = "FINISH_WAITING" /\ r.ref = q.ref /\ r.canceled = FALSE
        /\ r.down = FALSE /\ r.reg = q.reg /\ r.start = q.start /\ r.drv = "called"
        /\ r.kick = q.kick /\ r.delivered = q.delivered /\ r.returned = q.returned
        /\ r.timer = q.timer /\ r.calls = q.calls
    BY <1>1 DEF OpRecords
  <1> HIDE DEF r
  <1>4. Common(o, r)
    BY <1>1, <1>3 DEF OpRecords, OpStates, Common, Passed, HoldersOf, B, Begun, Ended, Over
  <1>5. Passed(o, r)
    BY <1>1, <1>3 DEF Common, Passed, Begun, Ended
  <1>6. Timed(o, r)
    BY <1>1, <1>3 DEF Common, Passed, Timed, OpRecords
  <1> QED
    BY <1>2, <1>4, <1>5, <1>6 DEF OpOK, r

\* The callback of an open or a close is over.
LEMMA RecKickout ==
    ASSUME NEW o \in Ops, NEW q, OpOK(o, q),
           q.kick \in {"user", "timerUser"}, NEW k \in Over
    PROVE  OpOK(o, [q EXCEPT !.state = "FINISHED", !.ref = @ - 1, !.kick = k])
  <1> DEFINE n == q.ref - 1
  <1> DEFINE r == [q EXCEPT !.state = "FINISHED", !.ref = n, !.kick = k]
  <1>1. q \in OpRecords /\ Common(o, q) /\ Passed(o, q) /\ Timed(o, q)
    BY DEF OpOK
  <1>2. n \in Nat
    BY <1>1 DEF OpRecords, Common, Passed, HoldersOf, B, Begun, Ended, Over
  <1> HIDE DEF n
  <1>3. r \in OpRecords
    BY <1>1, <1>2 DEF OpRecords, OpStates, Over
  <1>4. /\ r.state = "FINISHED" /\ r.ref = n /\ r.canceled = q.canceled
        /\ r.down = q.down /\ r.reg = q.reg /\ r.start = q.start /\ r.drv = q.drv
        /\ r.kick = k /\ r.delivered = q.delivered /\ r.returned = q.returned
        /\ r.timer = q.timer /\ r.calls = q.calls
    BY <1>1 DEF OpRecords
  <1> HIDE DEF r
  <1>5. q.state \in Ended /\ q.reg \notin {"pass", "err", "failed"} /\ q.drv \notin {"asked", "finished"}
         /\ q.timer # "asking"
    BY <1>1 DEF OpRecords, OpStates, Common, Passed, Begun, Ended
  <1>6. Common(o, r)
    BY <1>1, <1>4, <1>5 DEF OpRecords, OpStates, Common, Passed, HoldersOf, B, Begun, Ended, Over, n
  <1>7. Passed(o, r)
    BY <1>1, <1>4, <1>5 DEF Common, Passed, Begun, Ended
  <1>8. Timed(o, r)
    BY <1>1, <1>4, <1>5 DEF Common, Passed, Timed, OpRecords, n
  <1> QED
    BY <1>3, <1>6, <1>7, <1>8 DEF OpOK, r, n

\* The callback of a read or a write is over.
LEMMA RecKickoutData ==
    ASSUME NEW o \in Ops, NEW q, OpOK(o, q),
           q.kick \in {"user", "timerUser"}, NEW k \in Over
    PROVE  OpOK(o, [q EXCEPT !.ref = @ - 1, !.kick = k])
  <1> DEFINE n == q.ref - 1
  <1> DEFINE r == [q EXCEPT !.ref = n, !.kick = k]
  <1>1. q \in OpRecords /\ Common(o, q) /\ Passed(o, q) /\ Timed(o, q)
    BY DEF OpOK
  <1>2. n \in Nat
    BY <1>1 DEF OpRecords, Common, Passed, HoldersOf, B, Begun, Ended, Over
  <1> HIDE DEF n
  <1>3. r \in OpRecords
    BY <1>1, <1>2 DEF OpRecords, OpStates, Over
  <1>4. /\ r.state = q.state /\ r.ref = n /\ r.canceled = q.canceled /\ r.down = q.down
        /\ r.reg = q.reg /\ r.start = q.start /\ r.drv = q.drv /\ r.kick = k
        /\ r.delivered = q.delivered /\ r.returned = q.returned /\ r.timer = q.timer
        /\ r.calls = q.calls
    BY <1>1 DEF OpRecords
  <1> HIDE DEF r
  <1>5. Common(o, r)
    BY <1>1, <1>4 DEF OpRecords, OpStates, Common, Passed, HoldersOf, B, Begun, Ended, Over, n
  <1>6. Passed(o, r)
    BY <1>1, <1>4 DEF Common, Passed, Begun, Ended
  <1>7. Timed(o, r)
    BY <1>1, <1>4 DEF Common, Passed, Timed, OpRecords, n
  <1> QED
    BY <1>3, <1>5, <1>6, <1>7 DEF OpOK, r, n

\* The kickout goes on after the close was registered.
LEMMA RecKick ==
    ASSUME NEW o \in Ops, NEW q, OpOK(o, q),
           q.kick \in Over, NEW k \in Over
    PROVE  OpOK(o, [q EXCEPT !.kick = k])
  <1> DEFINE r == [q EXCEPT !.kick = k]
  <1>1. q \in OpRecords /\ Common(o, q) /\ Passed(o, q) /\ Timed(o, q)
    BY DEF OpOK
  <1>2. r \in OpRecords
    BY <1>1 DEF OpRecords, OpStates, Over
  <1>3. /\ r.state = q.state /\ r.ref = q.ref /\ r.canceled = q.canceled
        /\ r.down = q.down /\ r.reg = q.reg /\ r.start = q.start /\ r.drv = q.drv
        /\ r.kick = k /\ r.delivered = q.delivered /\ r.returned = q.returned
        /\ r.timer = q.timer /\ r.calls = q.calls
    BY <1>1 DEF OpRecords
  <1> HIDE DEF r
  <1>4. Common(o, r)
    BY <1>1, <1>3 DEF OpRecords, OpStates, Common, Passed, HoldersOf, B, Begun, Ended, Over
  <1>5. Passed(o, r)
    BY <1>1, <1>3 DEF Common, Passed, Begun, Ended
  <1>6. Timed(o, r)
    BY <1>1, <1>3 DEF Common, Passed, Timed, OpRecords
  <1> QED
    BY <1>2, <1>4, <1>5, <1>6 DEF OpOK, r

\* An operation is delivered though its callback is not over.
LEMMA RecBlocked ==
    ASSUME NEW o \in Ops, NEW q, OpOK(o, q),
           q.drv = "called"
    PROVE  OpOK(o, [q EXCEPT !.delivered = TRUE])
  <1> DEFINE r == [q EXCEPT !.delivered = TRUE]
  <1>1. q \in OpRecords /\ Common(o, q) /\ Passed(o, q) /\ Timed(o, q)
    BY DEF OpOK
  <1>2. r \in OpRecords
    BY <1>1 DEF OpRecords, OpStates, Over
  <1>3. /\ r.state = q.state /\ r.ref = q.ref /\ r.canceled = q.canceled
        /\ r.down = q.down /\ r.reg = q.reg /\ r.start = q.start /\ r.drv = q.drv
        /\ r.kick = q.kick /\ r.delivered = TRUE /\ r.returned = q.returned
        /\ r.timer = q.timer /\ r.calls = q.calls
    BY <1>1 DEF OpRecords
  <1> HIDE DEF r
  <1>4. Common(o, r)
    BY <1>1, <1>3 DEF OpRecords, OpStates, Common, Passed, HoldersOf, B, Begun, Ended, Over
  <1>5. Passed(o, r)
    BY <1>1, <1>3 DEF Common, Passed, Begun, Ended
  <1>6. Timed(o, r)
    BY <1>1, <1>3 DEF Common, Passed, Timed, OpRecords
  <1> QED
    BY <1>2, <1>4, <1>5, <1>6 DEF OpOK, r

\* An operation is delivered.
LEMMA RecDelivered ==
    ASSUME NEW o \in Ops, NEW q, OpOK(o, q),
           o # "close", q.drv = "called", ~q.returned
    PROVE  OpOK(o, [q EXCEPT !.delivered = TRUE, !.returned = TRUE, !.ref = @ - 1])
  <1> DEFINE n == q.ref - 1
  <1> DEFINE r == [q EXCEPT !.delivered = TRUE, !.returned = TRUE, !.ref = n]
  <1>1. q \in OpRecords /\ Common(o, q) /\ Passed(o, q) /\ Timed(o, q)
    BY DEF OpOK
  <1>2. n \in Nat
    BY <1>1 DEF OpRecords, Common, Passed, HoldersOf, B, Begun, Ended, Over
  <1> HIDE DEF n
  <1>3. r \in OpRecords
    BY <1>1, <1>2 DEF OpRecords, OpStates, Over
  <1>4. /\ r.state = q.state /\ r.ref = n /\ r.canceled = q.canceled /\ r.down = q.down
        /\ r.reg = q.reg /\ r.start = q.start /\ r.drv = q.drv /\ r.kick = q.kick
        /\ r.delivered = TRUE /\ r.returned = TRUE /\ r.timer = q.timer
        /\ r.calls = q.calls
    BY <1>1 DEF OpRecords
  <1> HIDE DEF r
  <1>5. Common(o, r)
    BY <1>1, <1>4 DEF OpRecords, OpStates, Common, Passed, HoldersOf, B, Begun, Ended, Over, n
  <1>6. Passed(o, r)
    BY <1>1, <1>4 DEF Common, Passed, Begun, Ended
  <1>7. Timed(o, r)
    BY <1>1, <1>4 DEF Common, Passed, Timed, OpRecords, n
  <1> QED
    BY <1>3, <1>5, <1>6, <1>7 DEF OpOK, r, n

\* A close may start.
LEMMA RecGo ==
    ASSUME NEW o \in Ops, NEW q, OpOK(o, q),
           o = "close", q.state # "NONE", NEW s, s = q.start \/ (q.start = "no" /\ s = "go")
    PROVE  OpOK(o, [q EXCEPT !.start = s])
  <1> DEFINE r == [q EXCEPT !.start = s]
  <1>1. q \in OpRecords /\ Common(o, q) /\ Passed(o, q) /\ Timed(o, q)
    BY DEF OpOK
  <1>2. r \in OpRecords
    BY <1>1 DEF OpRecords, OpStates, Over
  <1>3. /\ r.state = q.state /\ r.ref = q.ref /\ r.canceled = q.canceled
        /\ r.down = q.down /\ r.reg = q.reg /\ r.start = s /\ r.drv = q.drv
        /\ r.kick = q.kick /\ r.delivered = q.delivered /\ r.returned = q.returned
        /\ r.timer = q.timer /\ r.calls = q.calls
    BY <1>1 DEF OpRecords
  <1> HIDE DEF r
  <1>4. Common(o, r)
    BY <1>1, <1>3 DEF OpRecords, OpStates, Common, Passed, HoldersOf, B, Begun, Ended, Over
  <1>5. Passed(o, r)
    BY <1>1, <1>3 DEF Common, Passed, Begun, Ended
  <1>6. Timed(o, r)
    BY <1>1, <1>3 DEF Common, Passed, Timed, OpRecords
  <1> QED
    BY <1>2, <1>4, <1>5, <1>6 DEF OpOK, r

\* The close after a failed open is finished without the driver.
LEMMA RecCloseFinished ==
    ASSUME NEW o \in Ops, NEW q, OpOK(o, q),
           o = "close", q.state \in Begun, q.reg \notin {"pass", "err", "failed"}
    PROVE  OpOK(o, [q EXCEPT !.drv = "finished", !.ok = TRUE])
  <1> DEFINE r == [q EXCEPT !.drv = "finished", !.ok = TRUE]
  <1>1. q \in OpRecords /\ Common(o, q) /\ Passed(o, q) /\ Timed(o, q)
    BY DEF OpOK
  <1>2. r \in OpRecords
    BY <1>1 DEF OpRecords, OpStates, Over
  <1>3. /\ r.state = q.state /\ r.ref = q.ref /\ r.canceled = q.canceled
        /\ r.down = q.down /\ r.reg = q.reg /\ r.start = q.start
        /\ r.drv = "finished" /\ r.kick = q.kick /\ r.delivered = q.delivered
        /\ r.returned = q.returned /\ r.timer = q.timer /\ r.calls = q.calls
    BY <1>1 DEF OpRecords
  <1> HIDE DEF r
  <1>4. Common(o, r)
    BY <1>1, <1>3 DEF OpRecords, OpStates, Common, Passed, HoldersOf, B, Begun, Ended, Over
  <1>5. Passed(o, r)
    BY <1>1, <1>3 DEF Common, Passed, Begun, Ended
  <1>6. Timed(o, r)
    BY <1>1, <1>3 DEF Common, Passed, Timed, OpRecords
  <1> QED
    BY <1>2, <1>4, <1>5, <1>6 DEF OpOK, r

\* The timer looks for progress.
LEMMA RecNoProgress ==
    ASSUME NEW o \in Ops, NEW q, OpOK(o, q)
    PROVE  OpOK(o, [q EXCEPT !.progress = FALSE])
  <1> DEFINE r == [q EXCEPT !.progress = FALSE]
  <1>1. q \in OpRecords /\ Common(o, q) /\ Passed(o, q) /\ Timed(o, q)
    BY DEF OpOK
  <1>2. r \in OpRecords
    BY <1>1 DEF OpRecords, OpStates, Over
  <1>3. /\ r.state = q.state /\ r.ref = q.ref /\ r.canceled = q.canceled
        /\ r.down = q.down /\ r.reg = q.reg /\ r.start = q.start /\ r.drv = q.drv
        /\ r.kick = q.kick /\ r.delivered = q.delivered /\ r.returned = q.returned
        /\ r.timer = q.timer /\ r.calls = q.calls
    BY <1>1 DEF OpRecords
  <1> HIDE DEF r
  <1>4. Common(o, r)
    BY <1>1, <1>3 DEF OpRecords, OpStates, Common, Passed, HoldersOf, B, Begun, Ended, Over
  <1>5. Passed(o, r)
    BY <1>1, <1>3 DEF Common, Passed, Begun, Ended
  <1>6. Timed(o, r)
    BY <1>1, <1>3 DEF Common, Passed, Timed, OpRecords
  <1> QED
    BY <1>2, <1>4, <1>5, <1>6 DEF OpOK, r

\* A timeout has expired.
LEMMA RecDue ==
    ASSUME NEW o \in Ops, NEW q, OpOK(o, q),
           q.timer = "listed"
    PROVE  OpOK(o, [q EXCEPT !.timer = "due"])
  <1> DEFINE r == [q EXCEPT !.timer = "due"]
  <1>1. q \in OpRecords /\ Common(o, q) /\ Passed(o, q) /\ Timed(o, q)
    BY DEF OpOK
  <1>2. r \in OpRecords
    BY <1>1 DEF OpRecords, OpStates, Over
  <1>3. /\ r.state = q.state /\ r.ref = q.ref /\ r.canceled = q.canceled
        /\ r.down = q.down /\ r.reg = q.reg /\ r.start = q.start /\ r.drv = q.drv
        /\ r.kick = q.kick /\ r.delivered = q.delivered /\ r.returned = q.returned
        /\ r.timer = "due" /\ r.calls = q.calls
    BY <1>1 DEF OpRecords
  <1> HIDE DEF r
  <1>4. Common(o, r)
    BY <1>1, <1>3 DEF OpRecords, OpStates, Common, Passed, HoldersOf, B, Begun, Ended, Over
  <1>5. Passed(o, r)
    BY <1>1, <1>3 DEF Common, Passed, Begun, Ended
  <1>6. Timed(o, r)
    BY <1>1, <1>3 DEF Common, Passed, Timed, OpRecords
  <1> QED
    BY <1>2, <1>4, <1>5, <1>6 DEF OpOK, r

\* An expired timeout finds its operation finished.
LEMMA RecLate ==
    ASSUME NEW o \in Ops, NEW q, OpOK(o, q),
           q.timer = "due", q.state \in Ended
    PROVE  OpOK(o, [q EXCEPT !.timer = "no", !.ref = @ - 1])
  <1> DEFINE n == q.ref - 1
  <1> DEFINE r == [q EXCEPT !.timer = "no", !.ref = n]
  <1>1. q \in OpRecords /\ Common(o, q) /\ Passed(o, q) /\ Timed(o, q)
    BY DEF OpOK
  <1>2. n \in Nat
    BY <1>1 DEF OpRecords, Common, Passed, HoldersOf, B, Begun, Ended, Over
  <1> HIDE DEF n
  <1>3. r \in OpRecords
    BY <1>1, <1>2 DEF OpRecords, OpStates, Over
  <1>4. /\ r.state = q.state /\ r.ref = n /\ r.canceled = q.canceled /\ r.down = q.down
        /\ r.reg = q.reg /\ r.start = q.start /\ r.drv = q.drv /\ r.kick = q.kick
        /\ r.delivered = q.delivered /\ r.returned = q.returned /\ r.timer = "no"
        /\ r.calls = q.calls
    BY <1>1 DEF OpRecords
  <1> HIDE DEF r
  <1>5. Common(o, r)
    BY <1>1, <1>4 DEF OpRecords, OpStates, Common, Passed, HoldersOf, B, Begun, Ended, Over, n
  <1>6. Passed(o, r)
    BY <1>1, <1>4 DEF Common, Passed, Begun, Ended
  <1>7. Timed(o, r)
    BY <1>1, <1>4 DEF Common, Passed, Timed, OpRecords, n
  <1> QED
    BY <1>3, <1>5, <1>6, <1>7 DEF OpOK, r, n

\* An entry the timer holds is to be listed again, or is.
LEMMA RecRelist ==
    ASSUME NEW o \in Ops, NEW q, OpOK(o, q),
           q.timer \in {"due", "relist"}, NEW t \in {"relist", "listed"}
    PROVE  OpOK(o, [q EXCEPT !.timer = t])
  <1> DEFINE r == [q EXCEPT !.timer = t]
  <1>1. q \in OpRecords /\ Common(o, q) /\ Passed(o, q) /\ Timed(o, q)
    BY DEF OpOK
  <1>2. r \in OpRecords
    BY <1>1 DEF OpRecords, OpStates, Over
  <1>3. /\ r.state = q.state /\ r.ref = q.ref /\ r.canceled = q.canceled
        /\ r.down = q.down /\ r.reg = q.reg /\ r.start = q.start /\ r.drv = q.drv
        /\ r.kick = q.kick /\ r.delivered = q.delivered /\ r.returned = q.returned
        /\ r.timer = t /\ r.calls = q.calls
    BY <1>1 DEF OpRecords
  <1> HIDE DEF r
  <1>4. Common(o, r)
    BY <1>1, <1>3 DEF OpRecords, OpStates, Common, Passed, HoldersOf, B, Begun, Ended, Over
  <1>5. Passed(o, r)
    BY <1>1, <1>3 DEF Common, Passed, Begun, Ended
  <1>6. Timed(o, r)
    BY <1>1, <1>3 DEF Common, Passed, Timed, OpRecords
  <1> QED
    BY <1>2, <1>4, <1>5, <1>6 DEF OpOK, r

\* The application is asked about a timeout.
LEMMA RecAsk ==
    ASSUME NEW o \in Ops, NEW q, OpOK(o, q),
           q.timer = "due", q.state = "OPERATING"
    PROVE  OpOK(o, [q EXCEPT !.timer = "asking", !.state = "TIMEOUT_PENDING"])
  <1> DEFINE r == [q EXCEPT !.timer = "asking", !.state = "TIMEOUT_PENDING"]
  <1>1. q \in OpRecords /\ Common(o, q) /\ Passed(o, q) /\ Timed(o, q)
    BY DEF OpOK
  <1>2. r \in OpRecords
    BY <1>1 DEF OpRecords, OpStates, Over
  <1>3. /\ r.state = "TIMEOUT_PENDING" /\ r.ref = q.ref /\ r.canceled = q.canceled
        /\ r.down = q.down /\ r.reg = q.reg /\ r.start = q.start /\ r.drv = q.drv
        /\ r.kick = q.kick /\ r.delivered = q.delivered /\ r.returned = q.returned
        /\ r.timer = "asking" /\ r.calls = q.calls
    BY <1>1 DEF OpRecords
  <1> HIDE DEF r
  <1>4. Common(o, r)
    BY <1>1, <1>3 DEF OpRecords, OpStates, Common, Passed, HoldersOf, B, Begun, Ended, Over
  <1>5. Passed(o, r)
    BY <1>1, <1>3 DEF Common, Passed, Begun, Ended
  <1>6. Timed(o, r)
    BY <1>1, <1>3 DEF Common, Passed, Timed, OpRecords
  <1> QED
    BY <1>2, <1>4, <1>5, <1>6 DEF OpOK, r

\* The operation finished while the application was asked: the timer makes its callback.
LEMMA RecFire ==
    ASSUME NEW o \in Ops, NEW q, OpOK(o, q),
           q.timer = "asking", q.state = "FINISH_WAITING", NEW cancel \in BOOLEAN
    PROVE  OpOK(o, [q EXCEPT !.canceled = @ \/ cancel, !.timer = "no", !.ref = @ - 1,
                             !.kick = "timerUser", !.calls = @ + 1])
  <1> DEFINE n == q.ref - 1
  <1> DEFINE c == q.calls + 1
  <1> DEFINE b == q.canceled \/ cancel
  <1> DEFINE r == [q EXCEPT !.canceled = b, !.timer = "no", !.ref = n,
                            !.kick = "timerUser", !.calls = c]
  <1>1. q \in OpRecords /\ Common(o, q) /\ Passed(o, q) /\ Timed(o, q)
    BY DEF OpOK
  <1>2. n \in Nat /\ c \in Nat /\ b \in BOOLEAN
    BY <1>1 DEF OpRecords, Common, Passed, HoldersOf, B, Begun, Ended, Over
  <1> HIDE DEF n, c, b
  <1>3. r \in OpRecords
    BY <1>1, <1>2 DEF OpRecords, OpStates, Over
  <1>4. /\ r.state = q.state /\ r.ref = n /\ r.canceled = b /\ r.down = q.down
        /\ r.reg = q.reg /\ r.start = q.start /\ r.drv = q.drv
        /\ r.kick = "timerUser" /\ r.delivered = q.delivered
        /\ r.returned = q.returned /\ r.timer = "no" /\ r.calls = c
    BY <1>1 DEF OpRecords
  <1> HIDE DEF r
  <1>5. Common(o, r)
    BY <1>1, <1>4 DEF OpRecords, OpStates, Common, Passed, HoldersOf, B, Begun, Ended, Over, n, c, b
  <1>6. Passed(o, r)
    BY <1>1, <1>4 DEF Common, Passed, Begun, Ended
  <1>7. Timed(o, r)
    BY <1>1, <1>4 DEF Common, Passed, Timed, OpRecords, n, c, b
  <1> QED
    BY <1>3, <1>5, <1>6, <1>7 DEF OpOK, r, n, c, b

\* The application gives the operation up.
LEMMA RecDrop ==
    ASSUME NEW o \in Ops, NEW q, OpOK(o, q),
           q.timer = "asking", q.state = "TIMEOUT_PENDING"
    PROVE  OpOK(o, [q EXCEPT !.state = "OPERATING", !.canceled = TRUE, !.timer = "no",
                             !.ref = @ - 1])
  <1> DEFINE n == q.ref - 1
  <1> DEFINE r == [q EXCEPT !.state = "OPERATING", !.canceled = TRUE, !.timer = "no",
                            !.ref = n]
  <1>1. q \in OpRecords /\ Common(o, q) /\ Passed(o, q) /\ Timed(o, q)
    BY DEF OpOK
  <1>2. n \in Nat
    BY <1>1 DEF OpRecords, Common, Passed, HoldersOf, B, Begun, Ended, Over
  <1> HIDE DEF n
  <1>3. r \in OpRecords
    BY <1>1, <1>2 DEF OpRecords, OpStates, Over
  <1>4. /\ r.state = "OPERATING" /\ r.ref = n /\ r.canceled = TRUE /\ r.down = q.down
        /\ r.reg = q.reg /\ r.start = q.start /\ r.drv = q.drv /\ r.kick = q.kick
        /\ r.delivered = q.delivered /\ r.returned = q.returned /\ r.timer = "no"
        /\ r.calls = q.calls
    BY <1>1 DEF OpRecords
  <1> HIDE DEF r
  <1>5. Common(o, r)
    BY <1>1, <1>4 DEF OpRecords, OpStates, Common, Passed, HoldersOf, B, Begun, Ended, Over, n
  <1>6. Passed(o, r)
    BY <1>1, <1>4 DEF Common, Passed, Begun, Ended
  <1>7. Timed(o, r)
    BY <1>1, <1>4 DEF Common, Passed, Timed, OpRecords, n
  <1> QED
    BY <1>3, <1>5, <1>6, <1>7 DEF OpOK, r, n

\* The application goes on waiting.
LEMMA RecWait ==
    ASSUME NEW o \in Ops, NEW q, OpOK(o, q),
           q.timer = "asking", q.state = "TIMEOUT_PENDING"
    PROVE  OpOK(o, [q EXCEPT !.state = "OPERATING", !.timer = "relist"])
  <1> DEFINE r == [q EXCEPT !.state = "OPERATING", !.timer = "relist"]
  <1>1. q \in OpRecords /\ Common(o, q) /\ Passed(o, q) /\ Timed(o, q)
    BY DEF OpOK
  <1>2. r \in OpRecords
    BY <1>1 DEF OpRecords, OpStates, Over
  <1>3. /\ r.state = "OPERATING" /\ r.ref = q.ref /\ r.canceled = q.canceled
        /\ r.down = q.down /\ r.reg = q.reg /\ r.start = q.start /\ r.drv = q.drv
        /\ r.kick = q.kick /\ r.delivered = q.delivered /\ r.returned = q.returned
        /\ r.timer = "relist" /\ r.calls = q.calls
    BY <1>1 DEF OpRecords
  <1> HIDE DEF r
  <1>4. Common(o, r)
    BY <1>1, <1>3 DEF OpRecords, OpStates, Common, Passed, HoldersOf, B, Begun, Ended, Over
  <1>5. Passed(o, r)
    BY <1>1, <1>3 DEF Common, Passed, Begun, Ended
  <1>6. Timed(o, r)
    BY <1>1, <1>3 DEF Common, Passed, Timed, OpRecords
  <1> QED
    BY <1>2, <1>4, <1>5, <1>6 DEF OpOK, r

-----------------------------------------------------------------------------
(* Steps that neither the context nor the state of the handle notices       *)

\* the records of a handle
HandleRecords == [state : HandleStates, ref : Int, open_op : BOOLEAN, close_op : BOOLEAN,
                  cancel : BOOLEAN]

\* What the context and the handle's state depend on stays as it is.
Quiet ==
  /\ \A p \in Ops \ {"close"} : /\ op'[p].drv # "no" <=> op[p].drv # "no"
                                /\ op'[p].delivered = op[p].delivered
  /\ op'["open"].drv = "called" <=> op["open"].drv = "called"
  /\ op'["open"].kick \in Over <=> op["open"].kick \in Over
  /\ op'["open"].reg \in {"no", "failed"} <=> op["open"].reg \in {"no", "failed"}
  /\ op'["open"].reg = "no" <=> op["open"].reg = "no"
  /\ op'["close"].start # "no" \/ op'["close"].drv # "no" =>
       op["close"].start # "no" \/ op["close"].drv # "no"
  /\ op'["close"].reg \notin {"no", "done"} => op["close"].reg \notin {"no", "done"}
  /\ op["close"].state = "NONE" => op'["close"].state = "NONE"
  /\ op["close"].state = "OPERATING" /\ op["close"].reg = "no" =>
       op'["close"].state = "OPERATING" /\ op'["close"].reg = "no"
  /\ Pretended(op'["close"]) => Pretended(op["close"])
  /\ op["close"].kick \in Over => op'["close"].kick \in Over
  /\ op["close"].reg = "failed" => op'["close"].reg = "failed"

\* The rest of a step, taken care of once.
QuietStep ==
  /\ op' \in [Ops -> OpRecords] /\ (\A p \in Ops : OpOK(p, op[p])')
  /\ CloseOK(op'["close"], ctx') /\ HandleRefs' /\ Quiet
  /\ handle' \in HandleRecords /\ handle'.state = handle.state
  /\ handle'.open_op => handle.open_op
  /\ handle'.close_op => handle.close_op /\ (op'["close"].drv = "called" => op["close"].drv = "called")
  /\ ctx' = ctx /\ setup' = setup /\ running' \in BOOLEAN /\ failed' \in BOOLEAN

\* A quiet step keeps the invariant.
LEMMA QuietKeeps ==
    ASSUME XioCore, QuietStep
    PROVE  XioCore'
  <1>1. HandleTypes'
    BY DEF XioCore, QuietStep, HandleTypes, HandleRecords
  <1>2. Outstanding' = Outstanding
    BY SameOutstanding DEF QuietStep, Quiet
  <1>3. CtxOK'
    BY <1>2 DEF XioCore, QuietStep, Quiet, CtxOK, CloseGoing
  <1>4. HandleOK'
    BY DEF XioCore, QuietStep, Quiet, HandleOK, OpenOver
  <1>5. CloseOK(op["close"], ctx)'
    BY DEF QuietStep
  <1> QED
    BY <1>1, <1>3, <1>4, <1>5 DEF XioCore, QuietStep

\* A failed assertion leaves the rest alone.
LEMMA AbortKeeps ==
    ASSUME XioCore, setup' = setup, Abort
    PROVE  XioCore'
  <1>1. /\ handle' = handle /\ ctx' = ctx /\ op' = op /\ running' = running /\ failed' = TRUE
    BY DEF Abort
  <1>2. \A p \in Ops : OpOK(p, op[p])'
    BY <1>1 DEF XioCore, OpOK, Timed
  <1>3. HandleTypes' /\ CloseOK(op["close"], ctx)'
    BY <1>1 DEF XioCore, HandleTypes
  <1>4. Outstanding' = Outstanding /\ LiveOps' = LiveOps
    BY <1>1 DEF Outstanding, LiveOps
  <1>5. CtxOK' /\ HandleOK' /\ HandleRefs'
    BY <1>1, <1>4 DEF XioCore, CtxOK, CloseGoing, HandleOK, OpenOver, HandleRefs
  <1> QED
    BY <1>2, <1>3, <1>5 DEF XioCore

\* An operation loses references, with the handle it holds; an operation left to
\* its timer may lose the last one without it.
Puts(o, r) ==
  \/ Put(o, r, handle)
  \/ op' = [op EXCEPT ![o] = r] /\ handle' = handle /\ ~Apart

\* What becomes of the operations and the handle then.
LEMMA PutsKeep ==
    ASSUME XioCore, NEW o \in Ops, NEW r, OpOK(o, r), Puts(o, r), setup' = setup,
           op[o].ref > 0, o = "close" => op[o].reg \notin {"no", "start"} /\ r.reg \notin {"no", "start"}
    PROVE  /\ op' \in [Ops -> OpRecords]
           /\ \A p \in Ops : OpOK(p, op[p])'
           /\ op'[o] = r
           /\ \A p \in Ops \ {o} : op'[p] = op[p]
           /\ handle' \in HandleRecords
           /\ SameHandle(handle)
           /\ HandleRefs'
  <1>1. handle \in HandleRecords /\ handle.ref \in Int
    BY DEF XioCore, HandleTypes, HandleRecords
  <1>2. Apart => handle.ref = B(handle.state # "CLOSED") + Cardinality(LiveOps)
    BY DEF XioCore, HandleRefs
  <1>3. CASE Put(o, r, handle)
    BY <1>1, <1>2, <1>3, PutLive DEF HandleRecords
  <1>4. CASE op' = [op EXCEPT ![o] = r] /\ handle' = handle /\ ~Apart
    <2>1. /\ op' \in [Ops -> OpRecords]
          /\ \A p \in Ops : OpOK(p, op[p])'
          /\ op'[o] = r
          /\ \A p \in Ops \ {o} : op'[p] = op[p]
      BY <1>4, OneOp
    <2>2. HandleRefs'
      BY <1>4 DEF HandleRefs
    <2> QED
      BY <1>1, <1>4, <2>1, <2>2
  <1> QED
    BY <1>3, <1>4 DEF Puts

\* One operation other than the close changes quietly, with the handle it holds.
LEMMA TaskQuiet ==
    ASSUME XioCore, setup' = setup, NEW o \in Ops \ {"close"}, NEW r, OpOK(o, r),
           op[o].ref > 0, Puts(o, r),
           ctx' = ctx, running' \in BOOLEAN, failed' \in BOOLEAN,
           r.drv # "no" <=> op[o].drv # "no", r.delivered = op[o].delivered,
           o = "open" => /\ r.drv = "called" <=> op[o].drv = "called"
                         /\ r.kick \in Over <=> op[o].kick \in Over
                         /\ r.reg \in {"no", "failed"} <=> op[o].reg \in {"no", "failed"}
                         /\ r.reg = "no" <=> op[o].reg = "no"
    PROVE  XioCore'
  <1>1. CloseOK(op["close"], ctx)
    BY DEF XioCore
  <1>3. /\ op' \in [Ops -> OpRecords]
        /\ \A p \in Ops : OpOK(p, op[p])'
        /\ op'[o] = r
        /\ \A p \in Ops \ {o} : op'[p] = op[p]
        /\ handle' \in HandleRecords
        /\ SameHandle(handle)
        /\ HandleRefs'
    BY PutsKeep
  <1>4. op'["close"] = op["close"] /\ (o # "open" => op'["open"] = op["open"])
    BY <1>3, OpNames
  <1>5. Quiet
    BY <1>3, <1>4 DEF Quiet
  <1> QED
    BY <1>1, <1>3, <1>4, <1>5, QuietKeeps DEF QuietStep

\* An operation with a registration under way, a driver or a timer is held.
LEMMA Held ==
    ASSUME NEW o \in Ops, NEW r, OpOK(o, r),
           \/ r.reg \in {"pass", "calling", "passed", "err"} \/ r.timer # "no"
           \/ r.start = "calling"
           \/ o # "close" /\ r.drv # "no" /\ ~r.returned
           \/ r.kick \in {"user", "timerUser"}
    PROVE  r.ref > 0
  BY DEF OpOK, OpRecords, Common, HoldersOf, B

\* The driver accepted.
LEMMA RegisterReturnKeeps ==
    ASSUME XioCore, setup' = setup, NEW o \in Ops, RegisterReturn(o)
    PROVE  XioCore'
  <1> DEFINE r == [op[o] EXCEPT !.reg = "done", !.ref = @ - 2]
  <1>1. /\ o # "close" /\ op[o].reg = "calling" /\ Put(o, r, handle)
        /\ ctx' = ctx /\ running' = running /\ failed' = failed
    BY DEF RegisterReturn
  <1>2. OpOK(o, op[o]) /\ running \in BOOLEAN /\ failed \in BOOLEAN
    BY DEF XioCore, HandleTypes
  <1>3. OpOK(o, r) /\ op[o].ref > 0
    BY <1>1, <1>2, RecReturn, Held
  <1>4. r.drv = op[o].drv /\ r.delivered = op[o].delivered /\ r.reg = "done" /\ r.kick = op[o].kick
    BY <1>2 DEF OpOK, OpRecords
  <1> QED
    BY <1>1, <1>2, <1>3, <1>4, TaskQuiet DEF Puts

\* A new operation holds the handle.
LEMMA NewLive ==
    ASSUME XioCore, NEW o \in Ops, NEW r, r.ref \in Nat, r.ref > 0, o \notin LiveOps,
           op'[o] = r, \A p \in Ops \ {o} : op'[p] = op[p],
           o = "close" => r.reg \notin {"no", "start"},
           handle'.ref = handle.ref + 1,
           handle'.state = "CLOSED" <=> handle.state = "CLOSED"
    PROVE  HandleRefs'
  <1>1. LiveOps \in SUBSET Ops /\ LiveOps' = LiveOps \cup {o}
    BY DEF LiveOps
  <1>2. Cardinality(LiveOps)' = Cardinality(LiveOps) + 1 /\ Cardinality(LiveOps) \in Nat
    BY <1>1, OneMore, OpsCounted
  <1> QED
    BY <1>2 DEF XioCore, HandleRefs, B

\* The record of an operation that is registered, with its timeout.
LEMMA Registered ==
    ASSUME NEW o \in Ops \ {"close"}, NEW q, OpOK(o, q), q.reg = "no"
    PROVE  LET r == WithTimeout(o, [q EXCEPT !.state = "OPERATING", !.ref = 2, !.reg = "pass"])
           IN  OpOK(o, r) /\ r.ref > 0 /\ r.drv = "no" /\ r.delivered = q.delivered /\ r.reg = "pass"
               /\ r.kick = "no" /\ q.ref = 0 /\ q.drv = "no" /\ r.start = "no"
  <1> DEFINE s == [q EXCEPT !.state = "OPERATING", !.ref = 2, !.reg = "pass"]
  <1> DEFINE r == WithTimeout(o, s)
  <1>1. q \in OpRecords /\ q.drv = "no" /\ q.kick = "no" /\ q.timer = "no" /\ ~q.canceled
        /\ q.ref = 0 /\ q.start = "no"
    BY DEF OpOK, Common, Passed, HoldersOf, B, OpRecords
  <1>2. OpOK(o, s)
    BY RecRegister
  <1>3. s.reg = "pass" /\ s.state = "OPERATING" /\ s.timer = "no" /\ ~s.canceled /\ s.ref = 2
        /\ s.drv = "no" /\ s.kick = "no" /\ s.delivered = q.delivered /\ s \in OpRecords /\ s.start = "no"
    BY <1>1, <1>2 DEF OpRecords, OpOK
  <1> HIDE DEF s
  <1>4. CASE o \in setup.timed
    <2>1. r = [s EXCEPT !.ref = @ + 1, !.timer = "listed", !.progress = TRUE]
      BY <1>4 DEF WithTimeout, s
    <2>2. OpOK(o, [s EXCEPT !.ref = @ + 1, !.timer = "listed", !.progress = TRUE])
      BY <1>2, <1>3, <1>4, RecAddTimeout
    <2> HIDE DEF r
    <2>3. r.ref = 3 /\ r.drv = s.drv /\ r.delivered = s.delivered /\ r.reg = s.reg
          /\ r.kick = s.kick /\ r.start = s.start
      BY <1>3, <2>1 DEF OpRecords
    <2> QED
      BY <1>1, <1>3, <2>1, <2>2, <2>3 DEF s, r
  <1>5. CASE o \notin setup.timed
    BY <1>1, <1>2, <1>3, <1>5 DEF WithTimeout, s
  <1> QED
    BY <1>4, <1>5

\* A read or a write is registered.
LEMMA RegisterDataKeeps ==
    ASSUME XioCore, setup' = setup, NEW d \in Data, RegisterData(d)
    PROVE  XioCore'
  <1> DEFINE r == WithTimeout(d, [op[d] EXCEPT !.state = "OPERATING", !.ref = 2, !.reg = "pass"])
  <1>1. /\ op[d].reg = "no" /\ handle' = [handle EXCEPT !.ref = @ + 1]
        /\ op' = [op EXCEPT ![d] = r] /\ running' = (running \/ d \in setup.timed)
        /\ ctx' = ctx /\ failed' = failed
    BY DEF RegisterData, StartTimer
  <1>2. d \in Ops \ {"close"} /\ d # "open"
    BY OpNames
  <1>3. OpOK(d, op[d]) /\ handle \in HandleRecords /\ failed \in BOOLEAN
    BY <1>2 DEF XioCore, HandleTypes, HandleRecords
  <1>4. OpOK(d, r) /\ r.ref > 0 /\ r.drv = "no" /\ r.delivered = op[d].delivered /\ op[d].ref = 0
        /\ op[d].drv = "no"
    BY <1>1, <1>2, <1>3, Registered DEF r
  <1> HIDE DEF r
  <1>5. /\ op' \in [Ops -> OpRecords] /\ \A p \in Ops : OpOK(p, op[p])'
        /\ op'[d] = r /\ \A p \in Ops \ {d} : op'[p] = op[p]
    BY <1>1, <1>2, <1>4, OneOp
  <1>6. handle' \in HandleRecords /\ handle'.ref = handle.ref + 1 /\ SameHandle(handle)
    BY <1>1, <1>3 DEF HandleRecords
  <1>7. r.ref \in Nat /\ d \notin LiveOps
    BY <1>4 DEF OpOK, OpRecords, LiveOps
  <1>8. HandleRefs'
    BY <1>2, <1>4, <1>5, <1>6, <1>7, NewLive
  <1>9. op'["close"] = op["close"] /\ op'["open"] = op["open"]
    BY <1>2, <1>5, OpNames
  <1>10. Quiet
    BY <1>4, <1>5, <1>9 DEF Quiet
  <1>11. CloseOK(op'["close"], ctx')
    BY <1>1, <1>9 DEF XioCore
  <1> QED
    BY <1>1, <1>3, <1>5, <1>6, <1>8, <1>9, <1>10, <1>11, QuietKeeps DEF QuietStep

\* The close changes quietly, with the handle it holds.
LEMMA CloseQuiet ==
    ASSUME XioCore, setup' = setup, NEW r, OpOK("close", r), CloseOK(r, ctx),
           op["close"].ref > 0, Puts("close", r),
           op["close"].reg \notin {"no", "start"}, r.reg \notin {"no", "start"},
           ctx' = ctx, running' \in BOOLEAN, failed' \in BOOLEAN,
           r.start # "no" \/ r.drv # "no" => op["close"].start # "no" \/ op["close"].drv # "no",
           r.reg # "done" => op["close"].reg # "done",
           Pretended(r) => Pretended(op["close"]),
           op["close"].kick \in Over => r.kick \in Over,
           op["close"].reg = "failed" => r.reg = "failed",
           r.drv = "called" => op["close"].drv = "called"
    PROVE  XioCore'
  <1>1. OpOK("close", op["close"])
    BY OpNames DEF XioCore
  <1>3. /\ op' \in [Ops -> OpRecords]
        /\ \A p \in Ops : OpOK(p, op[p])'
        /\ op'["close"] = r
        /\ \A p \in Ops \ {"close"} : op'[p] = op[p]
        /\ handle' \in HandleRecords
        /\ SameHandle(handle)
        /\ HandleRefs'
    BY PutsKeep, OpNames
  <1>4. op'["open"] = op["open"]
    BY <1>3, OpNames
  <1>5. op["close"].state # "NONE"
    BY <1>1 DEF OpOK, Common
  <1>6. Quiet
    BY <1>3, <1>4, <1>5 DEF Quiet
  <1> QED
    BY <1>1, <1>3, <1>6, QuietKeeps DEF QuietStep

-----------------------------------------------------------------------------
(* Timeouts and cancels                                                     *)

\* Only the timeout, the progress or the cancel of an operation changes.
Slight(q, r) ==
  /\ r.state = q.state /\ r.reg = q.reg /\ r.start = q.start /\ r.drv = q.drv
  /\ r.kick = q.kick /\ r.delivered = q.delivered /\ r.down = q.down
  /\ q.timer = "no" => r.timer = "no"
  /\ r.canceled => q.canceled \/ q.down
  /\ Apart => (r.ref > 0 <=> q.ref > 0)

\* Slight changes of any number of operations are quiet.
LEMMA ManySlight ==
    ASSUME XioCore, setup' = setup, op' \in [Ops -> OpRecords],
           \A p \in Ops : OpOK(p, op'[p]) /\ Slight(op[p], op'[p]),
           handle' = handle, ctx' = ctx, running' \in BOOLEAN, failed' \in BOOLEAN
    PROVE  XioCore'
  <1>1. \A p \in Ops : OpOK(p, op[p])'
    BY DEF OpOK, Timed
  <1>2. Apart => LiveOps' = LiveOps
    <2>1. SUFFICES ASSUME Apart PROVE LiveOps' = LiveOps
      OBVIOUS
    <2>2. \A p \in Ops : op'[p].reg = op[p].reg /\ (op'[p].ref > 0 <=> op[p].ref > 0)
      BY <2>1 DEF Slight
    <2> QED
      BY <2>2, SameLive
  <1>3. HandleRefs'
    BY <1>2 DEF XioCore, HandleRefs
  <1>4. Quiet
    BY OpNames DEF Slight, Quiet, Pretended
  <1>5. CloseOK(op'["close"], ctx')
    <2>1. CloseOK(op["close"], ctx) /\ Slight(op["close"], op'["close"])
      BY OpNames DEF XioCore
    <2> QED
      BY <2>1 DEF CloseOK, Slight, Pretended
  <1>6. handle' \in HandleRecords
    BY DEF XioCore, HandleTypes, HandleRecords
  <1>7. op'["close"].drv = op["close"].drv
    BY OpNames DEF Slight
  <1> QED
    BY <1>1, <1>3, <1>4, <1>5, <1>6, <1>7, QuietKeeps DEF QuietStep

\* globus_i_xio_timer_unregister_timeout leaves an operation with its reference
\* when its callback is not over.
LEMMA Unlisted ==
    ASSUME NEW o \in Ops, NEW q, OpOK(o, q), q.kick \notin Over \/ q.timer # "listed"
    PROVE  /\ OpOK(o, Unlist(q)) /\ Slight(q, Unlist(q))
           /\ Unlist(q).timer # "listed" /\ Unlist(q).canceled = q.canceled
           /\ Unlist(q).calls = q.calls /\ Unlist(q).returned = q.returned
           /\ q.timer = "asking" <=> Unlist(q).timer = "asking"
  <1>1. q \in OpRecords /\ Common(o, q) /\ Timed(o, q)
    BY DEF OpOK
  <1>2. CASE q.timer = "listed"
    <2> DEFINE r == [q EXCEPT !.timer = "no", !.ref = @ - 1]
    <2>1. Unlist(q) = r
      BY <1>2 DEF Unlist
    <2>2. OpOK(o, r)
      BY <1>2, RecUnlist
    <2>3. /\ r.state = q.state /\ r.reg = q.reg /\ r.start = q.start /\ r.drv = q.drv
          /\ r.kick = q.kick /\ r.delivered = q.delivered /\ r.down = q.down
          /\ r.timer = "no" /\ r.canceled = q.canceled /\ r.ref = q.ref - 1
          /\ r.calls = q.calls /\ r.returned = q.returned
      BY <1>1 DEF OpRecords
    <2>4. Apart => q.ref \in Nat /\ q.ref >= 2
      BY <1>1, <1>2 DEF OpRecords, Common, Timed, HoldersOf, B, Begun, Over
    <2> HIDE DEF r
    <2>5. Slight(q, r)
      BY <1>1, <1>2, <2>3, <2>4 DEF Slight, OpRecords
    <2> QED
      BY <1>2, <2>1, <2>2, <2>3, <2>5
  <1>3. CASE q.timer # "listed"
    BY <1>3 DEF Unlist, Slight
  <1> QED
    BY <1>2, <1>3

\* globus_i_xio_operation_cancel changes an operation slightly.
LEMMA Canceled ==
    ASSUME NEW o \in Ops, NEW q, OpOK(o, q), q.kick \notin Over \/ q.timer # "listed"
    PROVE  OpOK(o, OperationCancel(q)) /\ Slight(q, OperationCancel(q))
  <1>1. CASE q.canceled
    BY <1>1 DEF OperationCancel, Slight
  <1>2. CASE ~q.canceled
    <2> DEFINE u == Unlist(q)
    <2>1. OpOK(o, u) /\ Slight(q, u)
      BY Unlisted
    <2> HIDE DEF u
    <2>2. u \in OpRecords /\ u.down = q.down
      BY <2>1 DEF OpOK, Slight
    <2> DEFINE r == [u EXCEPT !.canceled = u.down]
    <2>3. OpOK(o, r)
      BY <2>1, RecCancel
    <2>4. /\ r.state = u.state /\ r.reg = u.reg /\ r.start = u.start /\ r.drv = u.drv
          /\ r.kick = u.kick /\ r.delivered = u.delivered /\ r.down = u.down
          /\ r.timer = u.timer /\ r.canceled = u.down /\ r.ref = u.ref
      BY <2>2 DEF OpRecords
    <2>5. OperationCancel(q) = r
      BY <1>2, <2>2 DEF OperationCancel, u
    <2> HIDE DEF r
    <2>6. Slight(q, r)
      BY <2>1, <2>4 DEF Slight
    <2> QED
      BY <2>3, <2>5, <2>6
  <1> QED
    BY <1>1, <1>2

\* An operation the handle can reach has not had its callback, or never had a
\* timeout.
LEMMA ReachableHeld ==
    ASSUME XioCore, NEW p \in Reachable
    PROVE  p \in Ops /\ (op[p].kick \notin Over \/ op[p].timer # "listed")
  <1>1. CASE p \in Data /\ op[p].state \in Begun
    <2>1. p \in Ops
      BY <1>1, OpNames
    <2>2. Common(p, op[p])
      BY <2>1 DEF XioCore, OpOK
    <2> QED
      BY <1>1, <2>1, <2>2 DEF Common, Over
  <1>2. CASE p = "open" /\ handle.open_op
    BY <1>2, OpNames DEF XioCore, HandleOK
  <1>3. CASE p = "close" /\ handle.close_op
    <2> DEFINE q == op["close"]
    <2>1. Common("close", q) /\ q \in OpRecords /\ CloseOK(q, ctx) /\ q.drv # "called"
      BY <1>3, OpNames DEF XioCore, OpOK, HandleOK
    <2> HIDE DEF q
    <2>2. q.state \in Begun \cup {"NONE"} => q.kick = "no"
      BY <2>1 DEF Common
    <2>3. q.state \in Ended => q.timer = "no"
      <3>1. q.state \in Ended => q.drv \notin {"asked", "finished"}
        BY <2>1 DEF Common, Begun, Ended
      <3>2. q.drv \in {"no", "asked", "finished"}
        BY <2>1 DEF OpRecords
      <3> QED
        BY <2>1, <3>1, <3>2 DEF CloseOK, Pretended
    <2>4. q.state \in Begun \cup {"NONE"} \/ q.state \in Ended
      BY <2>1 DEF OpRecords, OpStates, Begun, Ended
    <2>5. q.kick \notin Over \/ q.timer # "listed"
      BY <2>2, <2>3, <2>4 DEF Over
    <2> QED
      BY <1>3, <2>5, OpNames DEF q
  <1> QED
    BY <1>1, <1>2, <1>3 DEF Reachable, Begun

\* Canceling some operations, pointwise.
LEMMA CanceledAll ==
    ASSUME XioCore, NEW S \in SUBSET Reachable
    PROVE  /\ CancelAll(S, op) \in [Ops -> OpRecords]
           /\ \A p \in Ops : OpOK(p, CancelAll(S, op)[p]) /\ Slight(op[p], CancelAll(S, op)[p])
  <1>1. \A p \in Ops : OpOK(p, op[p])
    BY DEF XioCore
  <1>2. \A p \in S : OpOK(p, OperationCancel(op[p])) /\ Slight(op[p], OperationCancel(op[p]))
    BY <1>1, ReachableHeld, Canceled
  <1>3. \A p \in Ops : Slight(op[p], op[p])
    BY DEF Slight
  <1>4. \A p \in Ops : CancelAll(S, op)[p] = IF p \in S THEN OperationCancel(op[p]) ELSE op[p]
    BY DEF CancelAll
  <1>5. \A p \in Ops : OpOK(p, CancelAll(S, op)[p]) /\ Slight(op[p], CancelAll(S, op)[p])
    BY <1>1, <1>2, <1>3, <1>4
  <1>6. \A p \in Ops : CancelAll(S, op)[p] \in OpRecords
    BY <1>5 DEF OpOK
  <1>7. CancelAll(S, op) \in [Ops -> OpRecords]
    BY <1>6 DEF CancelAll
  <1> QED
    BY <1>5, <1>7

\* The periodic callback of the timer is scheduled or it is not.
LEMMA PauseTyped ==
    ASSUME NEW S, PauseTimer(S)
    PROVE  running' \in BOOLEAN
  BY DEF PauseTimer

\* globus_xio_handle_cancel_operations.
LEMMA HandleCancelKeeps ==
    ASSUME XioCore, setup' = setup, NEW mask, HandleCancel(mask)
    PROVE  XioCore'
  <1> DEFINE S == Reachable \cap mask
  <1>1. /\ op' = CancelAll(S, op) /\ CancelUnlists(S)
        /\ handle' = handle /\ ctx' = ctx /\ failed' = failed
    BY DEF HandleCancel
  <1>2. S \in SUBSET Reachable
    OBVIOUS
  <1>3. running' \in BOOLEAN
    BY <1>1, PauseTyped DEF CancelUnlists
  <1> HIDE DEF S
  <1>4. op' \in [Ops -> OpRecords] /\ \A p \in Ops : OpOK(p, op'[p]) /\ Slight(op[p], op'[p])
    BY <1>1, <1>2, CanceledAll
  <1>5. failed \in BOOLEAN
    BY DEF XioCore, HandleTypes
  <1> QED
    BY <1>1, <1>3, <1>4, <1>5, ManySlight

\* globus_i_xio_timer_poller_callback.
LEMMA PollKeeps ==
    ASSUME XioCore, setup' = setup, NEW S \in SUBSET Ops, Poll(S)
    PROVE  XioCore'
  <1>1. /\ op' = [o \in Ops |->
                   IF o \notin S THEN op[o]
                   ELSE IF op[o].progress THEN [op[o] EXCEPT !.progress = FALSE]
                   ELSE [op[o] EXCEPT !.timer = "due"]]
        /\ handle' = handle /\ ctx' = ctx /\ running' = running /\ failed' = failed
        /\ S \subseteq Listed
    BY DEF Poll
  <1>2. ASSUME NEW p \in Ops PROVE OpOK(p, op'[p]) /\ Slight(op[p], op'[p])
    <2> DEFINE q == op[p]
    <2>1. OpOK(p, q) /\ q \in OpRecords
      BY DEF XioCore, OpOK
    <2>2. op'[p] = IF p \notin S THEN q
                   ELSE IF q.progress THEN [q EXCEPT !.progress = FALSE]
                   ELSE [q EXCEPT !.timer = "due"]
      BY <1>1
    <2>3. p \in S => q.timer = "listed"
      BY <1>1 DEF Listed
    <2> HIDE DEF q
    <2>4. CASE p \notin S
      BY <2>1, <2>2, <2>4 DEF Slight, q
    <2>5. CASE p \in S /\ q.progress
      <3> DEFINE r == [q EXCEPT !.progress = FALSE]
      <3>1. OpOK(p, r)
        BY <2>1, RecNoProgress
      <3>2. Slight(q, r)
        BY <2>1 DEF Slight, OpRecords
      <3> QED
        BY <2>2, <2>5, <3>1, <3>2 DEF q
    <2>6. CASE p \in S /\ ~q.progress
      <3> DEFINE r == [q EXCEPT !.timer = "due"]
      <3>1. OpOK(p, r)
        BY <2>1, <2>3, <2>6, RecDue
      <3>2. Slight(q, r)
        BY <2>1, <2>3, <2>6 DEF Slight, OpRecords
      <3> QED
        BY <2>2, <2>6, <3>1, <3>2 DEF q
    <2> QED
      BY <2>4, <2>5, <2>6
  <1>3. \A p \in Ops : op'[p] \in OpRecords
    BY <1>2 DEF OpOK
  <1>4. op' \in [Ops -> OpRecords]
    BY <1>1, <1>3
  <1>5. running \in BOOLEAN /\ failed \in BOOLEAN
    BY DEF XioCore, HandleTypes
  <1> QED
    BY <1>1, <1>2, <1>4, <1>5, ManySlight

\* The timer changes an operation whose timeout is not over.
LEMMA TimerQuiet ==
    ASSUME XioCore, setup' = setup, NEW o \in Ops, op[o].timer # "no", NEW r, OpOK(o, r),
           Puts(o, r),
           ctx' = ctx, running' \in BOOLEAN, failed' \in BOOLEAN,
           r.reg = op[o].reg, r.start = op[o].start, r.drv = op[o].drv,
           r.delivered = op[o].delivered,
           r.kick \in Over <=> op[o].kick \in Over,
           r.state \in Begun <=> op[o].state \in Begun,
           r.state \in Ended <=> op[o].state \in Ended
    PROVE  XioCore'
  <1>1. OpOK(o, op[o]) /\ CloseOK(op["close"], ctx)
    BY DEF XioCore
  <1>2. op[o].ref > 0
    BY <1>1, Held
  <1>3. CASE o # "close"
    BY <1>2, <1>3, TaskQuiet
  <1>4. CASE o = "close"
    <2>1. op["close"].reg \notin {"no", "start"} /\ ~Pretended(op["close"]) /\ ~Pretended(r)
      BY <1>1, <1>4 DEF CloseOK, Pretended
    <2>2. CloseOK(r, ctx)
      BY <1>1, <1>4, <2>1 DEF CloseOK
    <2> QED
      BY <1>2, <1>4, <2>1, <2>2, CloseQuiet
  <1> QED
    BY <1>3, <1>4

\* globus_l_xio_timeout_callback.
LEMMA TimeoutCallbackKeeps ==
    ASSUME XioCore, setup' = setup, NEW o \in Ops, TimeoutCallback(o)
    PROVE  XioCore'
  <1> DEFINE q == op[o]
  <1>1. /\ q.timer = "due" /\ ctx' = ctx /\ running' = running /\ failed' = failed
        /\ \/ /\ q.state \in {"FINISHED", "FINISH_WAITING"}
              /\ Put(o, [q EXCEPT !.timer = "no", !.ref = @ - 1], handle)
           \/ /\ q.state = "OPERATING"
              /\ op' = [op EXCEPT ![o].timer = "relist"]
              /\ UNCHANGED handle
           \/ /\ q.state = "OPERATING"
              /\ op' = [op EXCEPT ![o].timer = "asking", ![o].state = "TIMEOUT_PENDING"]
              /\ UNCHANGED handle
    BY DEF TimeoutCallback
  <1>2. /\ OpOK(o, q) /\ q \in OpRecords /\ q.ref \in Nat /\ q.ref > 0
        /\ running \in BOOLEAN /\ failed \in BOOLEAN /\ op \in [Ops -> OpRecords]
    <2>1. OpOK(o, q) /\ q \in OpRecords
      BY DEF XioCore, OpOK
    <2>2. q.ref > 0
      BY <1>1, <2>1, Held
    <2> QED
      BY <2>1, <2>2 DEF XioCore, HandleTypes, OpRecords
  <1>3. CASE q.state \in Ended /\ Put(o, [q EXCEPT !.timer = "no", !.ref = @ - 1], handle)
    <2> DEFINE r == [q EXCEPT !.timer = "no", !.ref = @ - 1]
    <2>1. OpOK(o, r)
      BY <1>1, <1>2, <1>3, RecLate
    <2>2. /\ r.reg = q.reg /\ r.start = q.start /\ r.drv = q.drv /\ r.delivered = q.delivered
          /\ r.kick = q.kick /\ r.state = q.state
      BY <1>2 DEF OpRecords
    <2> HIDE DEF r
    <2> QED
      BY <1>1, <1>2, <1>3, <2>1, <2>2, TimerQuiet DEF r, Puts
  <1>4. CASE q.state = "OPERATING" /\ op' = [op EXCEPT ![o].timer = "relist"] /\ handle' = handle
    <2> DEFINE r == [q EXCEPT !.timer = "relist"]
    <2>1. OpOK(o, r)
      BY <1>1, <1>2, <1>4, RecRelist
    <2>2. /\ r.reg = q.reg /\ r.start = q.start /\ r.drv = q.drv /\ r.delivered = q.delivered
          /\ r.kick = q.kick /\ r.state = q.state /\ r.ref = q.ref
      BY <1>2 DEF OpRecords
    <2>3. op' = [op EXCEPT ![o] = r]
      BY <1>2, <1>4
    <2> HIDE DEF r
    <2>4. Puts(o, r)
      <3>1. r.ref # 0
        BY <1>2, <2>2
      <3> QED
        BY <1>4, <2>3, <3>1 DEF Puts, Put
    <2> QED
      BY <1>1, <1>2, <2>1, <2>2, <2>4, TimerQuiet
  <1>5. CASE /\ q.state = "OPERATING" /\ handle' = handle
             /\ op' = [op EXCEPT ![o].timer = "asking", ![o].state = "TIMEOUT_PENDING"]
    <2> DEFINE r == [q EXCEPT !.timer = "asking", !.state = "TIMEOUT_PENDING"]
    <2>1. OpOK(o, r)
      BY <1>1, <1>2, <1>5, RecAsk
    <2>2. /\ r.reg = q.reg /\ r.start = q.start /\ r.drv = q.drv /\ r.delivered = q.delivered
          /\ r.kick = q.kick /\ r.state = "TIMEOUT_PENDING" /\ r.ref = q.ref
      BY <1>2 DEF OpRecords
    <2>3. op' = [op EXCEPT ![o] = r]
      BY <1>2, <1>5
    <2> HIDE DEF r
    <2>4. Puts(o, r)
      <3>1. r.ref # 0
        BY <1>2, <2>2
      <3> QED
        BY <1>5, <2>3, <3>1 DEF Puts, Put
    <2> QED
      BY <1>1, <1>2, <1>5, <2>1, <2>2, <2>4, TimerQuiet DEF Begun, Ended
  <1> QED
    BY <1>1, <1>3, <1>4, <1>5 DEF Ended

\* The entry goes back on the list.
LEMMA RelistKeeps ==
    ASSUME XioCore, setup' = setup, NEW o \in Ops, Relist(o)
    PROVE  XioCore'
  <1> DEFINE q == op[o]
             r == [q EXCEPT !.timer = "listed"]
  <1>1. /\ q.timer = "relist" /\ op' = [op EXCEPT ![o].timer = "listed"] /\ handle' = handle
        /\ ctx' = ctx /\ running' = running /\ failed' = failed
    BY DEF Relist
  <1>2. /\ OpOK(o, q) /\ q \in OpRecords /\ running \in BOOLEAN /\ failed \in BOOLEAN
        /\ op \in [Ops -> OpRecords]
    BY DEF XioCore, OpOK, HandleTypes
  <1>3. q.ref > 0
    BY <1>1, <1>2, Held
  <1>4. OpOK(o, r)
    BY <1>1, <1>2, RecRelist
  <1>5. /\ r.reg = q.reg /\ r.start = q.start /\ r.drv = q.drv /\ r.delivered = q.delivered
        /\ r.kick = q.kick /\ r.state = q.state /\ r.ref = q.ref
    BY <1>2 DEF OpRecords
  <1>6. op' = [op EXCEPT ![o] = r]
    BY <1>1, <1>2
  <1> HIDE DEF r
  <1>7. Puts(o, r)
    <2>1. r.ref # 0
      BY <1>2, <1>3, <1>5 DEF OpRecords
    <2> QED
      BY <1>1, <1>6, <2>1 DEF Puts, Put
  <1> QED
    BY <1>1, <1>2, <1>4, <1>5, <1>7, TimerQuiet

\* The application answers the timer's question.
LEMMA TimeoutAnswerKeeps ==
    ASSUME XioCore, setup' = setup, NEW o \in Ops, NEW cancel \in BOOLEAN,
           TimeoutAnswer(o, cancel)
    PROVE  XioCore'
  <1> DEFINE q == op[o]
             fire == q.state = "FINISH_WAITING"
             drop == cancel \/ fire
             r == [q EXCEPT !.state = IF fire THEN @ ELSE "OPERATING",
                            !.canceled = @ \/ cancel,
                            !.timer = IF drop THEN "no" ELSE "relist",
                            !.ref = IF drop THEN @ - 1 ELSE @,
                            !.kick = IF fire THEN "timerUser" ELSE @,
                            !.calls = IF fire THEN @ + 1 ELSE @]
  <1>1. /\ q.timer = "asking" /\ op' = [op EXCEPT ![o] = r] /\ failed' = ~(drop => q.ref > 1)
        /\ ctx' = ctx /\ running' = running /\ handle' = handle
    BY DEF TimeoutAnswer, Assert
  <1>2. OpOK(o, q) /\ q \in OpRecords /\ running \in BOOLEAN /\ q.canceled \in BOOLEAN
    BY DEF XioCore, OpOK, HandleTypes, OpRecords
  <1>3. q.state \in {"TIMEOUT_PENDING", "FINISH_WAITING"} /\ q.kick = "no"
    BY <1>1, <1>2 DEF OpOK, Common
  <1>4. OpOK(o, r)
    <2>1. CASE fire
      <3>1. OpOK(o, [q EXCEPT !.canceled = @ \/ cancel, !.timer = "no", !.ref = @ - 1,
                              !.kick = "timerUser", !.calls = @ + 1])
        BY <1>1, <1>2, <2>1, RecFire
      <3>2. r = [q EXCEPT !.canceled = @ \/ cancel, !.timer = "no", !.ref = @ - 1,
                          !.kick = "timerUser", !.calls = @ + 1]
        BY <1>2, <2>1 DEF OpRecords
      <3> QED
        BY <3>1, <3>2
    <2>2. CASE ~fire /\ cancel
      <3>1. OpOK(o, [q EXCEPT !.state = "OPERATING", !.canceled = TRUE, !.timer = "no",
                              !.ref = @ - 1])
        BY <1>1, <1>2, <1>3, <2>2, RecDrop
      <3>2. r = [q EXCEPT !.state = "OPERATING", !.canceled = TRUE, !.timer = "no", !.ref = @ - 1]
        BY <1>2, <2>2 DEF OpRecords
      <3> QED
        BY <3>1, <3>2
    <2>3. CASE ~fire /\ ~cancel
      <3>1. OpOK(o, [q EXCEPT !.state = "OPERATING", !.timer = "relist"])
        BY <1>1, <1>2, <1>3, <2>3, RecWait
      <3>2. r = [q EXCEPT !.state = "OPERATING", !.timer = "relist"]
        BY <1>2, <2>3 DEF OpRecords
      <3> QED
        BY <3>1, <3>2
    <2> QED
      BY <2>1, <2>2, <2>3
  <1>5. /\ r.reg = q.reg /\ r.start = q.start /\ r.drv = q.drv /\ r.delivered = q.delivered
        /\ r.kick \in {"no", "timerUser"}
        /\ r.state \in Begun <=> q.state \in Begun
        /\ r.state \in Ended <=> q.state \in Ended
    BY <1>2, <1>3 DEF OpRecords, Begun, Ended
  <1>6. Apart => r.ref # 0
    <2>1. r.ref = (IF drop THEN q.ref - 1 ELSE q.ref) /\ q.ref \in Nat
      BY <1>2 DEF OpRecords
    <2>2. Apart => q.ref >= 2
      BY <1>1, <1>2, <1>3 DEF OpOK, Common, Timed, OpRecords, HoldersOf, B
    <2> QED
      BY <2>1, <2>2
  <1> HIDE DEF r
  <1>7. Puts(o, r)
    BY <1>1, <1>6 DEF Puts, Put
  <1>8. failed' \in BOOLEAN /\ running' \in BOOLEAN
    BY <1>1, <1>2
  <1>9. q.timer # "no" /\ ctx' = ctx
    BY <1>1
  <1>10. r.kick \in Over <=> q.kick \in Over
    BY <1>3, <1>5 DEF Over
  <1> HIDE DEF fire, drop
  <1> QED
    BY <1>4, <1>5, <1>7, <1>8, <1>9, <1>10, TimerQuiet

-----------------------------------------------------------------------------
(* The other quiet steps                                                    *)

\* An operation canceled before it is passed.
LEMMA PassErrKeeps ==
    ASSUME XioCore, setup' = setup, NEW o \in Ops \ {"close"}, op[o].reg = "pass", op[o].canceled,
           op' = [op EXCEPT ![o].reg = "err", ![o].progress = TRUE],
           ctx' = ctx, handle' = handle, running' = running, failed' = failed
    PROVE  XioCore'
  <1> DEFINE q == op[o]
             r == [q EXCEPT !.reg = "err", !.progress = TRUE]
  <1>1. OpOK(o, q) /\ q \in OpRecords /\ op \in [Ops -> OpRecords] /\ running \in BOOLEAN /\ failed \in BOOLEAN
    BY DEF XioCore, HandleTypes, OpOK
  <1>2. q.ref > 0 /\ q.ref \in Nat
    BY <1>1, Held DEF OpRecords
  <1>3. OpOK(o, r)
    BY <1>1, RecPassErr
  <1>4. r.ref = q.ref /\ r.reg = "err" /\ r.drv = q.drv /\ r.delivered = q.delivered /\ r.kick = q.kick
    BY <1>1 DEF OpRecords
  <1>5. op' = [op EXCEPT ![o] = r]
    BY <1>1
  <1> HIDE DEF r
  <1>6. Puts(o, r)
    <2>1. r.ref # 0
      BY <1>2, <1>4
    <2> QED
      BY <1>5, <2>1 DEF Puts, Put
  <1> QED
    BY <1>1, <1>2, <1>3, <1>4, <1>6, TaskQuiet

\* globus_i_xio_driver_start_close.
LEMMA StartCloseKeeps ==
    ASSUME XioCore, setup' = setup, StartClose
    PROVE  XioCore'
  <1> DEFINE q == op["close"]
             r == [q EXCEPT !.start = "calling", !.drv = "asked", !.ref = @ + 1, !.progress = TRUE]
  <1>1. /\ q.start = "go" /\ op' = [op EXCEPT !["close"] = r]
        /\ ctx' = ctx /\ handle' = handle /\ running' = running /\ failed' = failed
    BY DEF StartClose
  <1>2. /\ OpOK("close", q) /\ q \in OpRecords /\ running \in BOOLEAN /\ failed \in BOOLEAN
        /\ CloseOK(q, ctx)
    BY OpNames DEF XioCore, HandleTypes, OpOK
  <1>3. q.drv = "no" /\ q.state \in Begun /\ q.reg \notin {"no", "start", "pass", "err", "failed"}
    BY <1>1, <1>2 DEF CloseOK
  <1>4. OpOK("close", r)
    BY <1>1, <1>2, <1>3, OpNames, RecStartClose
  <1>5. /\ r.ref = q.ref + 1 /\ r.reg = q.reg /\ r.drv = "asked" /\ r.kick = q.kick
        /\ r.start = "calling" /\ r.state = q.state /\ r.timer = q.timer
    BY <1>2 DEF OpRecords
  <1>6. q.ref \in Nat /\ q.ref > 0
    <2>1. q.kick = "no"
      BY <1>2, <1>3 DEF OpOK, Common
    <2> QED
      BY <1>2, <1>3, <2>1 DEF OpOK, Common, HoldersOf, B, OpRecords, Begun
  <1> HIDE DEF r
  <1>7. Puts("close", r)
    <2>1. r.ref # 0
      BY <1>5, <1>6
    <2> QED
      BY <1>1, <2>1 DEF Puts, Put
  <1>8. CloseOK(r, ctx)
    BY <1>2, <1>3, <1>5 DEF CloseOK, Pretended
  <1> QED
    BY <1>1, <1>2, <1>3, <1>4, <1>5, <1>6, <1>7, <1>8, CloseQuiet DEF Pretended

\* The driver accepted to close.
LEMMA StartCloseReturnKeeps ==
    ASSUME XioCore, setup' = setup, StartCloseReturn
    PROVE  XioCore'
  <1> DEFINE q == op["close"]
             g == IF q.reg = "calling" THEN "passed" ELSE q.reg
             r == [q EXCEPT !.start = "done", !.ref = @ - 1, !.reg = g]
  <1>1. /\ q.start = "calling" /\ Put("close", r, handle)
        /\ ctx' = ctx /\ running' = running /\ failed' = failed
    BY DEF StartCloseReturn
  <1>2. /\ OpOK("close", q) /\ q \in OpRecords /\ running \in BOOLEAN /\ failed \in BOOLEAN
        /\ CloseOK(q, ctx)
    BY OpNames DEF XioCore, HandleTypes, OpOK
  <1>3. q.reg \notin {"no", "start", "pass", "err", "failed"}
    BY <1>1, <1>2 DEF CloseOK
  <1> HIDE DEF g
  <1>4. OpOK("close", r)
    BY <1>1, <1>2, OpNames, RecCloseReturn DEF g
  <1>5. /\ r.reg = g /\ r.drv = q.drv /\ r.kick = q.kick
        /\ r.start = "done" /\ r.state = q.state /\ r.timer = q.timer
    BY <1>2 DEF OpRecords
  <1>6. q.ref > 0
    BY <1>1, <1>2, OpNames, Held
  <1> HIDE DEF r
  <1>7. CloseOK(r, ctx)
    BY <1>1, <1>2, <1>3, <1>5 DEF CloseOK, Pretended, g
  <1>8. g # "done" => q.reg # "done"
    BY DEF g
  <1>9. g \notin {"no", "start"} /\ (q.reg = "failed" => g = "failed")
    BY <1>3 DEF g
  <1> QED
    BY <1>1, <1>2, <1>3, <1>4, <1>5, <1>6, <1>7, <1>8, <1>9, CloseQuiet DEF Pretended, Puts

\* The registration of a close returns.
LEMMA RegisterCloseReturnKeeps ==
    ASSUME XioCore, setup' = setup, RegisterCloseReturn
    PROVE  XioCore'
  <1> DEFINE q == op["close"]
             r == [q EXCEPT !.reg = "done", !.ref = @ - 1]
  <1>1. /\ q.reg = "passed" /\ Put("close", r, handle)
        /\ ctx' = ctx /\ running' = running /\ failed' = failed
    BY DEF RegisterCloseReturn
  <1>2. /\ OpOK("close", q) /\ q \in OpRecords /\ running \in BOOLEAN /\ failed \in BOOLEAN
        /\ CloseOK(q, ctx)
    BY OpNames DEF XioCore, HandleTypes, OpOK
  <1>3. OpOK("close", r)
    BY <1>1, <1>2, OpNames, RecCloseRegistered
  <1>4. /\ r.reg = "done" /\ r.drv = q.drv /\ r.kick = q.kick
        /\ r.start = q.start /\ r.state = q.state /\ r.timer = q.timer
    BY <1>2 DEF OpRecords
  <1>5. q.ref > 0
    BY <1>1, <1>2, OpNames, Held
  <1> HIDE DEF r
  <1>6. CloseOK(r, ctx)
    BY <1>1, <1>2, <1>4 DEF CloseOK, Pretended
  <1> QED
    BY <1>1, <1>2, <1>3, <1>4, <1>5, <1>6, CloseQuiet DEF Pretended, Puts

\* The operation is called back, or its callback is held back.
LEMMA FinishedOK ==
    ASSUME XioCore, NEW o \in Ops, op[o].drv = "finished"
    PROVE  LET r == Finished(o) IN
           /\ OpOK(o, r) /\ r.ref # 0
           /\ Apart => op[o].ref > 0
           /\ r.reg = op[o].reg /\ r.drv = "called" /\ r.delivered = op[o].delivered
           /\ r.start = op[o].start /\ r.kick \in {"no", "user"} /\ r.state = "FINISH_WAITING"
           /\ op[o].kick = "no" /\ op[o].state \in Begun
  <1> DEFINE q == op[o]
             u == Unlist(q)
  <1>1. OpOK(o, q) /\ q \in OpRecords
    BY DEF XioCore, OpOK
  <1>2. q.state \in Begun /\ q.kick = "no" /\ q.reg # "failed"
    BY <1>1 DEF OpOK, Common
  <1>3. q.ref \in Nat /\ q.ref > 0
    BY <1>1, <1>2 DEF OpOK, Common, HoldersOf, B, OpRecords, Begun
  <1>4. CASE q.state = "TIMEOUT_PENDING"
    <2> DEFINE r == [q EXCEPT !.state = "FINISH_WAITING", !.drv = "called", !.down = FALSE,
                              !.canceled = FALSE]
    <2>1. OpOK(o, r)
      BY <1>1, <1>4, RecHeldBack
    <2>2. /\ r.ref = q.ref /\ r.reg = q.reg /\ r.drv = "called" /\ r.delivered = q.delivered
          /\ r.start = q.start /\ r.kick = q.kick /\ r.state = "FINISH_WAITING"
      BY <1>1 DEF OpRecords
    <2>3. Finished(o) = r
      BY <1>1, <1>4 DEF Finished, OpRecords
    <2> HIDE DEF r
    <2> QED
      BY <1>2, <1>3, <2>1, <2>2, <2>3
  <1>5. CASE q.state # "TIMEOUT_PENDING"
    <2>1. OpOK(o, u) /\ Slight(q, u) /\ u.timer # "listed" /\ (q.timer = "asking" <=> u.timer = "asking")
      <3>1. q.kick \notin Over
        BY <1>2 DEF Over
      <3> QED
        BY <1>1, <3>1, Unlisted
    <2>2. q.timer # "asking"
      BY <1>1, <1>2, <1>5 DEF OpOK, Common, Begun
    <2> HIDE DEF u
    <2>3. u \in OpRecords /\ u.drv = "finished" /\ u.timer \notin {"asking", "listed"}
      BY <2>1, <2>2 DEF OpOK, Slight
    <2> DEFINE r == [u EXCEPT !.state = "FINISH_WAITING", !.drv = "called", !.down = FALSE,
                              !.canceled = FALSE, !.kick = "user", !.calls = @ + 1]
    <2>4. OpOK(o, r)
      BY <2>1, <2>3, RecCalled
    <2>5. /\ r.ref = u.ref /\ r.reg = u.reg /\ r.drv = "called" /\ r.delivered = u.delivered
          /\ r.start = u.start /\ r.kick = "user" /\ r.state = "FINISH_WAITING"
      BY <2>3 DEF OpRecords
    <2>6. Finished(o) = r
      BY <1>5 DEF Finished, u
    <2> HIDE DEF r
    <2>7. u.reg = q.reg /\ u.delivered = q.delivered /\ u.start = q.start
      BY <2>1 DEF Slight
    <2>8. r.ref # 0
      <3>1. r.ref > 0
        BY <2>4, <2>5, Held
      <3> QED
        BY <2>4, <3>1 DEF OpOK, OpRecords
    <2> QED
      BY <1>2, <1>3, <2>4, <2>5, <2>6, <2>7, <2>8
  <1> QED
    BY <1>4, <1>5

\* The timer may be paused when the operation finishes.
LEMMA FinishTyped ==
    ASSUME XioCore, NEW o, FinishUnlists(o)
    PROVE  running' \in BOOLEAN
  BY PauseTyped DEF FinishUnlists, XioCore, HandleTypes

\* globus_i_xio_read_write_callback.
LEMMA ReadWriteCallbackKeeps ==
    ASSUME XioCore, setup' = setup, NEW d \in Data, ReadWriteCallback(d)
    PROVE  XioCore'
  <1>1. CASE Abort
    BY <1>1, AbortKeeps
  <1>2. CASE /\ op' = [op EXCEPT ![d] = Finished(d)] /\ FinishUnlists(d)
             /\ handle' = handle /\ ctx' = ctx /\ failed' = failed
    <2> DEFINE r == Finished(d)
    <2>1. d \in Ops \ {"close"} /\ d # "open" /\ op[d].drv = "finished"
      BY OpNames DEF ReadWriteCallback
    <2>2. OpOK(d, r) /\ r.ref # 0 /\ r.drv = "called" /\ r.delivered = op[d].delivered
      BY <2>1, FinishedOK
    <2> HIDE DEF r
    <2>3. OpOK(d, op[d]) /\ failed \in BOOLEAN /\ running' \in BOOLEAN
      BY <1>2, <2>1, FinishTyped DEF XioCore, HandleTypes
    <2>4. op[d].ref > 0
      <3>1. ~op[d].returned
        BY <2>1, <2>3 DEF OpOK, Passed
      <3> QED
        BY <2>1, <2>3, <3>1, Held
    <2>5. Puts(d, r)
      BY <1>2, <2>2 DEF Puts, Put, r
    <2> QED
      BY <1>2, <2>1, <2>2, <2>3, <2>4, <2>5, TaskQuiet
  <1> QED
    BY <1>1, <1>2 DEF ReadWriteCallback

\* After the application's callback: "closing" or "done", in the caller's colour.
LEMMA AfterOver ==
    ASSUME NEW o, NEW next \in {"closing", "done"}
    PROVE  After(o, next) \in Over
  BY DEF After, Over

\* globus_l_xio_read_write_callback_kickout.
LEMMA ReadWriteKickoutKeeps ==
    ASSUME XioCore, setup' = setup, NEW d \in Data, ReadWriteKickout(d)
    PROVE  XioCore'
  <1>1. CASE Abort
    BY <1>1, AbortKeeps
  <1>2. CASE /\ Put(d, [op[d] EXCEPT !.ref = @ - 1, !.kick = After(d, "done")], handle)
             /\ ctx' = ctx /\ running' = running /\ failed' = failed
    <2> DEFINE k == After(d, "done")
               r == [op[d] EXCEPT !.ref = @ - 1, !.kick = k]
    <2>1. d \in Ops \ {"close"} /\ d # "open" /\ op[d].kick \in {"user", "timerUser"}
      BY OpNames DEF ReadWriteKickout, InUser
    <2>2. OpOK(d, op[d]) /\ op[d] \in OpRecords /\ running \in BOOLEAN /\ failed \in BOOLEAN
      BY <2>1 DEF XioCore, HandleTypes, OpOK
    <2>3. k \in Over
      BY AfterOver
    <2> HIDE DEF k
    <2>4. OpOK(d, r)
      BY <2>1, <2>2, <2>3, RecKickoutData
    <2>5. r.drv = op[d].drv /\ r.delivered = op[d].delivered
      BY <2>2 DEF OpRecords
    <2>6. op[d].ref > 0
      BY <2>1, <2>2, Held
    <2>7. Puts(d, r)
      BY <1>2 DEF Puts, k
    <2> HIDE DEF r
    <2> QED
      BY <1>2, <2>1, <2>2, <2>4, <2>5, <2>6, <2>7, TaskQuiet
  <1> QED
    BY <1>1, <1>2 DEF ReadWriteKickout

\* The kickout of an open that started the close goes on.
LEMMA StartedCloseKeeps ==
    ASSUME XioCore, setup' = setup, StartedClose
    PROVE  XioCore'
  <1>1. CASE failed' = TRUE /\ UNCHANGED <<op, handle, ctx, running>>
    BY <1>1, AbortKeeps DEF Abort
  <1>2. CASE /\ op' = [op EXCEPT !["open"].kick = IF @ = "closing" THEN "done" ELSE "timerDone"]
             /\ UNCHANGED <<failed, handle, ctx, running>>
    <2> DEFINE q == op["open"]
               k == IF q.kick = "closing" THEN "done" ELSE "timerDone"
               r == [q EXCEPT !.kick = k]
    <2>1. q.kick \in {"closing", "timerClosing"}
      BY DEF StartedClose
    <2>2. OpOK("open", q) /\ q \in OpRecords /\ op \in [Ops -> OpRecords]
          /\ running \in BOOLEAN /\ failed \in BOOLEAN
      BY OpNames DEF XioCore, HandleTypes, OpOK
    <2>3. k \in Over /\ q.kick \in Over
      BY <2>1 DEF Over
    <2>4. op' = [op EXCEPT !["open"] = r]
      BY <1>2, <2>2, OpNames
    <2> HIDE DEF k
    <2>5. OpOK("open", r)
      BY <2>2, <2>3, OpNames, RecKick
    <2>6. /\ r.ref = q.ref /\ r.reg = q.reg /\ r.start = q.start /\ r.drv = q.drv /\ r.kick = k
          /\ r.delivered = q.delivered
      BY <2>2 DEF OpRecords
    <2> HIDE DEF r
    <2>7. /\ op' \in [Ops -> OpRecords] /\ \A p \in Ops : OpOK(p, op[p])'
          /\ op'["open"] = r /\ \A p \in Ops \ {"open"} : op'[p] = op[p]
      BY <2>4, <2>5, OpNames, OneOp
    <2>8. op'["close"] = op["close"]
      BY <2>7, OpNames
    <2>9. LiveOps' = LiveOps
      <3>1. \A p \in Ops : op'[p].ref = op[p].ref /\ op'[p].reg = op[p].reg
        BY <2>6, <2>7
      <3> QED
        BY <3>1, SameLive
    <2>10. HandleRefs' /\ handle \in HandleRecords
      BY <1>2, <2>9 DEF XioCore, HandleRefs, HandleTypes, HandleRecords
    <2>11. Quiet
      BY <2>3, <2>6, <2>7, <2>8 DEF Quiet
    <2>12. CloseOK(op'["close"], ctx')
      BY <1>2, <2>8 DEF XioCore
    <2> QED
      BY <1>2, <2>2, <2>7, <2>10, <2>11, <2>12, QuietKeeps DEF QuietStep
  <1> QED
    BY <1>1, <1>2 DEF StartedClose

-----------------------------------------------------------------------------
(* Registering, passing and refusing                                        *)

\* globus_xio_register_open.
LEMMA RegisterOpenKeeps ==
    ASSUME XioCore, setup' = setup, RegisterOpen
    PROVE  XioCore'
  <1> DEFINE q == op["open"]
             r == WithTimeout("open", [q EXCEPT !.state = "OPERATING", !.ref = 2, !.reg = "pass"])
  <1>1. /\ handle.state = "CLIENT"
        /\ handle' = [handle EXCEPT !.state = "OPENING", !.ref = @ + 1, !.open_op = TRUE]
        /\ op' = [op EXCEPT !["open"] = r] /\ running' = (running \/ "open" \in setup.timed)
        /\ ctx' = ctx /\ failed' = failed
    BY DEF RegisterOpen, StartTimer
  <1>2. OpOK("open", q) /\ handle \in HandleRecords /\ failed \in BOOLEAN /\ ctx.out \in Nat
        /\ HandleTypes /\ CtxOK /\ HandleOK
    BY OpNames DEF XioCore, HandleTypes, HandleRecords
  <1>3. q.reg = "no" /\ op["close"].state = "NONE"
    BY <1>1, <1>2 DEF HandleOK
  <1>4. OpOK("open", r) /\ r.ref > 0 /\ r.drv = "no" /\ r.delivered = q.delivered /\ q.ref = 0
        /\ q.drv = "no" /\ r.reg = "pass" /\ r.kick = "no"
    <2>1. "open" \in Ops \ {"close"}
      BY OpNames
    <2> HIDE DEF q
    <2> QED
      BY <1>2, <1>3, <2>1, Registered DEF r
  <1> HIDE DEF r
  <1>5. /\ op' \in [Ops -> OpRecords] /\ \A p \in Ops : OpOK(p, op[p])'
        /\ op'["open"] = r /\ \A p \in Ops \ {"open"} : op'[p] = op[p]
    BY <1>1, <1>4, OpNames, OneOp
  <1>6. /\ handle' \in HandleRecords /\ handle'.ref = handle.ref + 1 /\ handle'.state = "OPENING"
        /\ handle'.close_op = handle.close_op
    <2> DEFINE n == handle.ref + 1
    <2>1. n \in Int /\ handle' = [handle EXCEPT !.state = "OPENING", !.ref = n, !.open_op = TRUE]
      BY <1>1, <1>2 DEF HandleRecords
    <2> HIDE DEF n
    <2>2. handle' \in HandleRecords /\ handle'.ref = n /\ handle'.state = "OPENING"
          /\ handle'.close_op = handle.close_op
      BY <1>2, <2>1 DEF HandleRecords, HandleStates
    <2> QED
      BY <2>2 DEF n
  <1>7. r.ref \in Nat /\ "open" \notin LiveOps
    BY <1>4 DEF OpOK, OpRecords, LiveOps
  <1>8. HandleRefs'
    BY <1>1, <1>4, <1>5, <1>6, <1>7, OpNames, NewLive
  <1>9. op'["close"] = op["close"]
    BY <1>5, OpNames
  <1>10. Outstanding' = Outstanding
    BY <1>4, <1>5, SameOutstanding
  <1>11. HandleTypes'
    BY <1>1, <1>2, <1>5, <1>6 DEF HandleTypes, HandleRecords
  <1>12. CloseOK(op["close"], ctx)'
    BY <1>1, <1>9 DEF XioCore
  <1>13. CtxOK'
    BY <1>1, <1>2, <1>4, <1>9, <1>10 DEF CtxOK, CloseGoing
  <1>14. HandleOK'
    BY <1>2, <1>3, <1>4, <1>5, <1>6, <1>9 DEF HandleOK, OpenOver, Over, Pretended, Ended
  <1> QED
    BY <1>5, <1>8, <1>11, <1>12, <1>13, <1>14 DEF XioCore

\* An operation is passed to the driver: it is outstanding from now on.
LEMMA PassDownKeeps ==
    ASSUME XioCore, setup' = setup, NEW o \in Ops \ {"close"}, op[o].reg = "pass",
           op' = [op EXCEPT ![o] = [op[o] EXCEPT !.reg = "calling", !.drv = "asked",
                                     !.down = TRUE, !.ref = @ + 2, !.progress = TRUE]],
           NEW s \in {"OPEN", "OPENING"}, ctx' = [ctx EXCEPT !.state = s, !.out = @ + 1],
           s = "OPENING" => o = "open", s = "OPEN" => ctx.state = "OPEN",
           handle' = handle, running' = running, failed' = failed
    PROVE  XioCore'
  <1> DEFINE q == op[o]
             r == [q EXCEPT !.reg = "calling", !.drv = "asked",
                            !.down = TRUE, !.ref = @ + 2, !.progress = TRUE]
  <1>1. OpOK(o, q) /\ q \in OpRecords /\ HandleTypes /\ CtxOK /\ HandleOK /\ CloseOK(op["close"], ctx)
    BY DEF XioCore, OpOK
  <1>2. OpOK(o, r)
    BY <1>1, RecPassDown
  <1>3. r.ref = q.ref + 2 /\ r.reg = "calling" /\ r.drv = "asked" /\ r.delivered = q.delivered /\ r.kick = q.kick
    BY <1>1 DEF OpRecords
  <1>4. q.drv = "no" /\ ~q.delivered /\ q.ref \in Nat /\ q.ref > 0
    BY <1>1, Held DEF OpOK, Common, Passed, OpRecords
  <1> HIDE DEF r
  <1>5. Puts(o, r)
    <2>1. r.ref # 0
      BY <1>3, <1>4
    <2> QED
      BY <2>1 DEF Puts, Put, r
  <1>6. /\ op' \in [Ops -> OpRecords] /\ \A p \in Ops : OpOK(p, op[p])'
        /\ op'[o] = r /\ \A p \in Ops \ {o} : op'[p] = op[p]
        /\ handle' \in HandleRecords /\ SameHandle(handle) /\ HandleRefs'
    BY <1>2, <1>4, <1>5, PutsKeep
  <1>7. op'["close"] = op["close"] /\ (o # "open" => op'["open"] = op["open"])
    BY <1>6, OpNames
  <1>8. ctx' \in [state : CtxStates, out : Nat, close_started : BOOLEAN, close_op : BOOLEAN]
        /\ ctx'.state = s /\ ctx'.out = ctx.out + 1 /\ ctx'.close_started = ctx.close_started
        /\ ctx'.close_op = ctx.close_op /\ ctx.out \in Nat
    <2> DEFINE n == ctx.out + 1
    <2>1. n \in Nat /\ ctx' = [ctx EXCEPT !.state = s, !.out = n]
      BY <1>1 DEF HandleTypes
    <2>2. ctx.out \in Nat /\ n = ctx.out + 1
      BY <1>1 DEF HandleTypes
    <2> HIDE DEF n
    <2> QED
      BY <1>1, <2>1, <2>2 DEF HandleTypes, CtxStates
  <1>9. Outstanding \in SUBSET Ops /\ o \notin Outstanding /\ Outstanding' = Outstanding \cup {o}
    BY <1>3, <1>4, <1>6 DEF Outstanding
  <1>10. Cardinality(Outstanding)' = Cardinality(Outstanding) + 1
    BY <1>9, OneMore
  <1>11. /\ ~ClosePassed(ctx) /\ op["close"].start = "no" /\ op["close"].drv = "no"
         /\ op["close"].reg \notin {"err", "failed"}
    <2>1. CASE s = "OPENING"
      BY <1>1, <1>4, <2>1 DEF CtxOK, CloseGoing
    <2>2. CASE s = "OPEN"
      <3>1. ctx.state = "OPEN" /\ op["close"].start = "no" /\ op["close"].drv = "no" /\ ~ctx.close_started
            /\ ~ctx.close_op
        BY <1>1, <2>2 DEF CtxOK
      <3>2. op["close"].reg \notin {"err", "failed"}
        BY <1>1, <3>1 DEF CloseOK
      <3> QED
        BY <3>1, <3>2 DEF ClosePassed
    <2> QED
      BY <2>1, <2>2
  <1>12. HandleTypes'
    BY <1>1, <1>6, <1>8 DEF HandleTypes, HandleRecords
  <1>13. CloseOK(op["close"], ctx)'
    BY <1>1, <1>7, <1>8, <1>11 DEF CloseOK, ClosePassed
  <1>14. CtxOK'
    BY <1>1, <1>4, <1>7, <1>8, <1>10, <1>11 DEF CtxOK, CloseGoing, ClosePassed
  <1>15. HandleOK'
    BY <1>1, <1>3, <1>4, <1>6, <1>7 DEF HandleOK, OpenOver
  <1> QED
    BY <1>6, <1>12, <1>13, <1>14, <1>15 DEF XioCore

\* globus_xio_driver_pass_open.
LEMMA PassOpenKeeps ==
    ASSUME XioCore, setup' = setup, PassOpen
    PROVE  XioCore'
  <1> DEFINE q == op["open"]
  <1>1. /\ q.reg = "pass" /\ handle' = handle /\ running' = running /\ failed' = failed
        /\ \/ /\ q.canceled
              /\ op' = [op EXCEPT !["open"].reg = "err", !["open"].progress = TRUE]
              /\ ctx' = ctx
           \/ /\ op' = [op EXCEPT !["open"] = [q EXCEPT !.reg = "calling", !.drv = "asked",
                          !.down = TRUE, !.ref = @ + 2, !.progress = TRUE]]
              /\ ctx' = [ctx EXCEPT !.state = "OPENING", !.out = @ + 1]
    BY DEF PassOpen
  <1>2. "open" \in Ops \ {"close"}
    BY OpNames
  <1>3. CASE /\ q.canceled /\ ctx' = ctx
             /\ op' = [op EXCEPT !["open"].reg = "err", !["open"].progress = TRUE]
    BY <1>1, <1>2, <1>3, PassErrKeeps
  <1>4. CASE /\ op' = [op EXCEPT !["open"] = [q EXCEPT !.reg = "calling", !.drv = "asked",
                         !.down = TRUE, !.ref = @ + 2, !.progress = TRUE]]
             /\ ctx' = [ctx EXCEPT !.state = "OPENING", !.out = @ + 1]
    BY <1>1, <1>2, <1>4, PassDownKeeps
  <1> QED
    BY <1>1, <1>3, <1>4

\* globus_xio_driver_pass_write (read).
LEMMA PassDataKeeps ==
    ASSUME XioCore, setup' = setup, NEW d \in Data, PassData(d)
    PROVE  XioCore'
  <1> DEFINE q == op[d]
  <1>1. /\ q.reg = "pass"
        /\ \/ Abort
           \/ /\ ctx.state = "OPEN" /\ handle' = handle /\ running' = running /\ failed' = failed
              /\ \/ /\ q.canceled
                    /\ op' = [op EXCEPT ![d].reg = "err", ![d].progress = TRUE]
                    /\ ctx' = ctx
                 \/ /\ op' = [op EXCEPT ![d] = [q EXCEPT !.reg = "calling", !.drv = "asked",
                                !.down = TRUE, !.ref = @ + 2, !.progress = TRUE]]
                    /\ ctx' = [ctx EXCEPT !.out = @ + 1]
    BY DEF PassData
  <1>2. d \in Ops \ {"close"}
    BY OpNames
  <1>3. CASE Abort
    BY <1>3, AbortKeeps
  <1>4. CASE /\ q.canceled /\ ctx' = ctx /\ handle' = handle /\ running' = running /\ failed' = failed
             /\ op' = [op EXCEPT ![d].reg = "err", ![d].progress = TRUE]
    BY <1>1, <1>2, <1>4, PassErrKeeps
  <1>5. CASE /\ op' = [op EXCEPT ![d] = [q EXCEPT !.reg = "calling", !.drv = "asked",
                         !.down = TRUE, !.ref = @ + 2, !.progress = TRUE]]
             /\ ctx' = [ctx EXCEPT !.out = @ + 1] /\ ctx.state = "OPEN"
             /\ handle' = handle /\ running' = running /\ failed' = failed
    <2>1. ctx' = [ctx EXCEPT !.state = "OPEN", !.out = @ + 1]
      BY <1>5 DEF XioCore, HandleTypes
    <2> QED
      BY <1>1, <1>2, <1>5, <2>1, PassDownKeeps
  <1> QED
    BY <1>1, <1>3, <1>4, <1>5

\* A close that waits in the context can start when the last operation has gone.
LEMMA CloseCanStart ==
    ASSUME XioCore, ClosePassed(ctx), Outstanding # {}, ctx.state # "CLOSED"
    PROVE  LET q == op["close"] IN
           /\ q.start = "no" /\ q.drv = "no" /\ q.state \in Begun
           /\ q.reg \notin {"no", "start", "pass", "err", "failed"} /\ op["open"].drv = "called"
           /\ ~ctx.close_started
  <1> DEFINE q == op["close"]
  <1>1. CloseOK(q, ctx) /\ CtxOK /\ OpOK("close", q)
    BY OpNames DEF XioCore
  <1>2. q.start = "no" /\ q.drv = "no" /\ op["open"].drv = "called" /\ ~ctx.close_started
    BY <1>1 DEF CtxOK, CloseGoing
  <1>3. q.reg \notin {"no", "start", "pass", "err", "failed"} /\ ~Pretended(q)
    BY <1>1 DEF CloseOK
  <1>4. q.state \in Begun
    BY <1>1, <1>2, <1>3 DEF OpOK, OpRecords, OpStates, Common, Pretended, Begun, Ended
  <1> QED
    BY <1>2, <1>3, <1>4

\* One operation has gone.
LEMMA OneGone ==
    ASSUME XioCore, NEW o \in Outstanding, Outstanding' = Outstanding \ {o},
           ctx'.out = ctx.out - 1
    PROVE  /\ ctx.out \in Nat /\ ctx.out > 0 /\ ctx.out - 1 \in Nat
           /\ ctx'.out = Cardinality(Outstanding)'
           /\ ctx.out = 1 => Outstanding' = {}
  <1>1. Outstanding \in SUBSET Ops
    BY DEF Outstanding
  <1>2. Outstanding' \in SUBSET Ops
    BY <1>1
  <1>3. /\ ctx.out = Cardinality(Outstanding) /\ Cardinality(Outstanding) \in Nat
        /\ Cardinality(Outstanding) # 0
    BY <1>1, OpsCounted DEF XioCore, CtxOK
  <1>4. Cardinality(Outstanding') = Cardinality(Outstanding) - 1
    BY <1>1, OneLess
  <1>5. Cardinality(Outstanding') = 0 => Outstanding' = {}
    BY <1>2, OpsCounted
  <1> QED
    BY <1>3, <1>4, <1>5

\* globus_i_xio_pass_failed.
LEMMA PassFailedKeeps ==
    ASSUME XioCore, setup' = setup, NEW o \in Ops, PassFailed(o)
    PROVE  XioCore'
  <1> DEFINE q == op[o]
             c == op["close"]
             go == ctx.state = "CLOSING" /\ ctx.out = 1 /\ ~ctx.close_started
             s == IF go THEN "go" ELSE c.start
             r == [q EXCEPT !.reg = "err", !.drv = "no", !.down = FALSE, !.ref = @ - 2]
             k == [c EXCEPT !.start = s]
  <1>0. o # "close" /\ o \in Ops \ {"close"}
    BY DEF PassFailed
  <1>1. /\ o \in setup.refused /\ q.reg = "calling" /\ q.drv = "asked"
        /\ ctx' = [ctx EXCEPT !.out = @ - 1]
        /\ handle' = handle /\ running' = running /\ failed' = failed
    BY DEF PassFailed
  <1>2. op' = [op EXCEPT ![o] = r, !["close"].start = s]
    BY <1>0, OpNames DEF PassFailed, XioCore, HandleTypes
  <1>3. /\ OpOK(o, q) /\ q \in OpRecords /\ OpOK("close", c) /\ c \in OpRecords
        /\ HandleTypes /\ CtxOK /\ HandleOK /\ CloseOK(c, ctx) /\ HandleRefs
    BY OpNames DEF XioCore, OpOK
  <1>4. op' = [op EXCEPT ![o] = r, !["close"] = k]
    BY <1>0, <1>2, <1>3, OpNames DEF HandleTypes
  <1>5. ~q.delivered /\ ~q.returned /\ o \in Outstanding
    BY <1>0, <1>1, <1>3 DEF OpOK, Passed, Outstanding
  <1>6. go => /\ c.start = "no" /\ c.drv = "no" /\ c.state \in Begun
              /\ c.reg \notin {"no", "start", "pass", "err", "failed"} /\ op["open"].drv = "called"
    BY <1>5, CloseCanStart DEF ClosePassed
  <1>7. OpOK(o, r)
    BY <1>0, <1>1, <1>3, RecRefused DEF HandleTypes
  <1>8. OpOK("close", k)
    <2>1. CASE go
      BY <1>3, <1>6, <2>1, OpNames, RecGo DEF Begun
    <2>2. CASE ~go /\ c.state # "NONE"
      BY <1>3, <2>2, OpNames, RecGo
    <2>3. CASE ~go /\ c.state = "NONE"
      <3>1. k = c
        BY <1>3, <2>3 DEF OpRecords
      <3> QED
        BY <1>3, <3>1
    <2> QED
      BY <2>1, <2>2, <2>3
  <1>9. /\ r.reg = "err" /\ r.drv = "no" /\ r.kick = q.kick /\ r.delivered = q.delivered /\ r.ref = q.ref - 2
    BY <1>3 DEF OpRecords
  <1>10. /\ k.start = s /\ k.drv = c.drv /\ k.reg = c.reg /\ k.state = c.state /\ k.kick = c.kick
         /\ k.timer = c.timer /\ k.down = c.down /\ k.canceled = c.canceled /\ k.ref = c.ref
    BY <1>3 DEF OpRecords
  <1>11. q.ref > 0 /\ r.ref > 0
    BY <1>1, <1>3, <1>7, <1>9, Held
  <1> HIDE DEF r, k, s, go
  <1>12. /\ op' \in [Ops -> OpRecords] /\ \A p \in Ops : OpOK(p, op[p])'
         /\ op'[o] = r /\ op'["close"] = k /\ \A p \in Ops \ {o, "close"} : op'[p] = op[p]
    BY <1>0, <1>4, <1>7, <1>8, TwoOps
  <1>13. HandleRefs'
    <2>1. LiveOps' = LiveOps
      BY <1>0, <1>10, <1>11, <1>12, SameLive
    <2> QED
      BY <1>1, <1>3, <2>1 DEF HandleRefs
  <1>14. Outstanding' = Outstanding \ {o}
    BY <1>0, <1>9, <1>12 DEF Outstanding
  <1>15. ctx'.out = ctx.out - 1 /\ ctx'.state = ctx.state /\ ctx'.close_started = ctx.close_started
         /\ ctx'.close_op = ctx.close_op
    BY <1>1, <1>3 DEF HandleTypes
  <1>16. /\ ctx.out \in Nat /\ ctx.out > 0 /\ ctx.out - 1 \in Nat
         /\ ctx'.out = Cardinality(Outstanding)'
         /\ ctx.out = 1 => Outstanding' = {}
    BY <1>5, <1>14, <1>15, OneGone
  <1>17. HandleTypes'
    BY <1>1, <1>3, <1>12, <1>16 DEF HandleTypes
  <1>18. CloseOK(op["close"], ctx)'
    <2>1. ClosePassed(ctx') <=> ClosePassed(ctx)
      BY <1>15 DEF ClosePassed
    <2>2. CASE go
      BY <1>3, <1>6, <1>10, <1>12, <1>15, <2>1, <2>2 DEF CloseOK, Pretended, Begun, Ended, s
    <2>3. CASE ~go
      BY <1>3, <1>10, <1>12, <1>15, <2>1, <2>3 DEF CloseOK, Pretended, s
    <2> QED
      BY <2>2, <2>3
  <1>19. op["open"].drv = "called" => op'["open"] = op["open"]
    BY <1>1, <1>12, OpNames
  <1>20. CtxOK'
    <2>1. CloseGoing' => CloseGoing
      BY <1>6, <1>10, <1>12, <1>15 DEF CloseGoing, ClosePassed, s, go
    <2>2. CloseGoing' => op'["open"].drv = "called"
      BY <1>3, <1>19, <2>1 DEF CtxOK
    <2>3. op'["close"].start # "no" \/ op'["close"].drv # "no" \/ ctx'.close_started =>
            Outstanding' = {} /\ ctx'.state \in {"CLOSING", "OPENING_AND_CLOSING", "CLOSED"}
      <3>1. CASE go
        BY <1>14, <1>15, <1>16, <3>1 DEF go
      <3>2. CASE ~go
        BY <1>3, <1>5, <1>10, <1>12, <1>15, <3>2 DEF CtxOK, s
      <3> QED
        BY <3>1, <3>2
    <2> QED
      BY <1>3, <1>15, <1>16, <2>2, <2>3 DEF CtxOK
  <1>21. HandleOK'
    <2>1. Pretended(op'["close"]) => Pretended(op["close"])
      BY <1>10, <1>12 DEF Pretended
    <2>2. CASE o = "open"
      BY <1>1, <1>3, <1>9, <1>10, <1>12, <2>1, <2>2 DEF HandleOK, OpenOver
    <2>3. CASE o # "open"
      <3>1. op'["open"] = op["open"]
        BY <1>12, <2>3, OpNames
      <3> QED
        BY <1>1, <1>3, <1>10, <1>12, <2>1, <3>1 DEF HandleOK, OpenOver
    <2> QED
      BY <2>2, <2>3
  <1> QED
    BY <1>12, <1>13, <1>17, <1>18, <1>20, <1>21 DEF XioCore

\* The error path of a registration, for an open, a read or a write.
LEMMA RegisterErrKeeps ==
    ASSUME XioCore, setup' = setup, NEW o \in Ops, RegisterErr(o)
    PROVE  XioCore'
  <1> DEFINE q == op[o]
             u == Unlist(q)
             r == [u EXCEPT !.reg = "failed", !.ref = @ - 2]
             h == IF o = "open" THEN [handle EXCEPT !.state = "OPEN_FAILED"] ELSE handle
  <1>1. /\ o # "close" /\ q.reg = "err" /\ Put(o, r, h) /\ PauseTimer({o})
        /\ ctx' = ctx /\ failed' = failed
    BY DEF RegisterErr
  <1>2. /\ OpOK(o, q) /\ q \in OpRecords /\ handle \in HandleRecords /\ failed \in BOOLEAN
        /\ HandleTypes /\ CtxOK /\ HandleOK /\ CloseOK(op["close"], ctx) /\ HandleRefs
    BY DEF XioCore, OpOK, HandleTypes, HandleRecords
  <1>3. OpOK(o, u) /\ Slight(q, u)
    <2>1. q.kick \notin Over
      BY <1>1, <1>2 DEF OpOK, Common, Over
    <2> QED
      BY <1>2, <2>1, Unlisted
  <1> HIDE DEF u
  <1>4. u.reg = "err" /\ u \in OpRecords
    BY <1>1, <1>3 DEF Slight, OpOK
  <1>5. OpOK(o, r)
    BY <1>3, <1>4, RecGiveUp
  <1>6. r.reg = "failed" /\ r.drv = u.drv /\ r.delivered = u.delivered /\ r.kick = u.kick
    BY <1>4 DEF OpRecords
  <1> HIDE DEF r
  <1>7. r.drv = q.drv /\ r.delivered = q.delivered /\ r.kick = q.kick
    BY <1>3, <1>6 DEF Slight
  <1>8. q.drv = "no" /\ q.ref > 0
    BY <1>1, <1>2, Held DEF OpOK, Common
  <1>9. o = "open" => handle.state \in {"OPENING", "OPENING_AND_CLOSING"}
    BY <1>1, <1>2, <1>8 DEF HandleOK
  <1>10. /\ h \in HandleRecords /\ h.ref = handle.ref /\ h.ref \in Int
         /\ h.open_op = handle.open_op /\ h.close_op = handle.close_op
         /\ h.state = IF o = "open" THEN "OPEN_FAILED" ELSE handle.state
    BY <1>2 DEF HandleRecords, HandleStates
  <1> HIDE DEF h
  <1>11. Apart => h.ref = B(h.state # "CLOSED") + Cardinality(LiveOps)
    BY <1>2, <1>9, <1>10 DEF HandleRefs, B
  <1>12. /\ op' \in [Ops -> OpRecords] /\ \A p \in Ops : OpOK(p, op[p])'
         /\ op'[o] = r /\ \A p \in Ops \ {o} : op'[p] = op[p]
         /\ handle' \in HandleRecords /\ SameHandle(h) /\ HandleRefs'
    BY <1>1, <1>5, <1>8, <1>10, <1>11, PutLive DEF HandleRecords
  <1>13. op'["close"] = op["close"] /\ (o # "open" => op'["open"] = op["open"])
    BY <1>1, <1>12, OpNames
  <1>14. Outstanding' = Outstanding
    BY <1>7, <1>12, SameOutstanding
  <1>15. running' \in BOOLEAN
    BY <1>1, PauseTyped
  <1>16. HandleTypes'
    BY <1>1, <1>2, <1>12, <1>15 DEF HandleTypes, HandleRecords
  <1>17. CtxOK'
    BY <1>1, <1>2, <1>7, <1>12, <1>13, <1>14 DEF CtxOK, CloseGoing
  <1>18. HandleOK'
    <2>1. CASE o = "open"
      BY <1>1, <1>2, <1>6, <1>7, <1>10, <1>12, <1>13, <2>1 DEF HandleOK, OpenOver
    <2>2. CASE o # "open"
      BY <1>2, <1>10, <1>12, <1>13, <2>2 DEF HandleOK, OpenOver
    <2> QED
      BY <2>1, <2>2
  <1>19. CloseOK(op["close"], ctx)'
    BY <1>1, <1>2, <1>13
  <1> QED
    BY <1>12, <1>16, <1>17, <1>18, <1>19 DEF XioCore

-----------------------------------------------------------------------------
(* Closing                                                                  *)

\* The close of an operation that was not registered yet.
LEMMA CloseFresh ==
    ASSUME XioCore, op["close"].state = "NONE"
    PROVE  LET c == op["close"] IN
           /\ OpOK("close", c) /\ c \in OpRecords /\ c.reg = "no" /\ c.start = "no" /\ c.drv = "no"
           /\ c.kick = "no" /\ c.timer = "no" /\ ~c.canceled /\ ~c.down /\ c.ref = 0
           /\ ~ClosePassed(ctx) /\ ~CloseGoing
           /\ OpOK("close", CloseOp) /\ CloseOp \in OpRecords
           /\ CloseOp.state = "OPERATING" /\ CloseOp.ref = 1 /\ CloseOp.reg = "no"
           /\ CloseOp.start = "no" /\ CloseOp.drv = "no" /\ CloseOp.kick = "no"
           /\ CloseOp.timer = "no" /\ ~CloseOp.canceled /\ ~CloseOp.down
  <1> DEFINE c == op["close"]
  <1>1. OpOK("close", c) /\ c \in OpRecords /\ CloseOK(c, ctx)
    BY OpNames DEF XioCore, OpOK
  <1>2. /\ c.reg = "no" /\ c.start = "no" /\ c.drv = "no" /\ c.kick = "no" /\ c.timer = "no"
        /\ ~c.canceled /\ ~c.down /\ c.ref = 0
    BY <1>1 DEF OpOK, Common, HoldersOf, B
  <1>3. ~ClosePassed(ctx) /\ ~CloseGoing
    BY <1>1, <1>2 DEF CloseOK, CloseGoing
  <1>4. OpOK("close", CloseOp)
    BY <1>1, OpNames, RecCloseOp DEF CloseOp
  <1>5. /\ CloseOp \in OpRecords
        /\ CloseOp.state = "OPERATING" /\ CloseOp.ref = 1 /\ CloseOp.reg = c.reg
        /\ CloseOp.start = c.start /\ CloseOp.drv = c.drv /\ CloseOp.kick = c.kick
        /\ CloseOp.timer = c.timer /\ CloseOp.canceled = c.canceled /\ CloseOp.down = c.down
    BY <1>1, <1>4 DEF CloseOp, OpRecords, OpOK
  <1> QED
    BY <1>1, <1>2, <1>3, <1>4, <1>5

\* The close of a handle that is opening or open: it has a reference of its own,
\* and other operations may be canceled.
LEMMA CloseRegistered ==
    ASSUME XioCore, setup' = setup, op["close"].state = "NONE",
           op' \in [Ops -> OpRecords],
           \A p \in Ops \ {"close"} : OpOK(p, op'[p]) /\ Slight(op[p], op'[p]),
           NEW r, op'["close"] = r, OpOK("close", r), r.state = "OPERATING", r.start = "no",
           r.drv = "no", r.kick = "no", r.timer = "no", ~r.canceled, ~r.down,
           ctx' = ctx, running' \in BOOLEAN, failed' = failed,
           handle' \in HandleRecords, handle'.ref = handle.ref, handle'.open_op = handle.open_op,
           \/ /\ r.reg = "no" /\ handle.state \in {"OPENING", "OPENING_FAILED"}
              /\ handle'.state = "OPENING_AND_CLOSING"
           \/ r.reg = "start" /\ handle.state = "OPEN" /\ handle'.state = "CLOSING"
    PROVE  XioCore'
  <1> DEFINE c == op["close"]
  <1>1. /\ c.reg = "no" /\ c.start = "no" /\ c.drv = "no" /\ c.ref = 0
        /\ ~ClosePassed(ctx) /\ ~CloseGoing
    BY CloseFresh
  <1>2. HandleTypes /\ CtxOK /\ HandleOK /\ HandleRefs
    BY DEF XioCore
  <1>3. \A p \in Ops : OpOK(p, op[p])'
    <2>1. \A p \in Ops : OpOK(p, op'[p])
      BY OpNames
    <2> QED
      BY <2>1 DEF OpOK, Timed
  <1>4. HandleRefs'
    <2>1. SUFFICES ASSUME Apart PROVE HandleRefs'
      BY DEF HandleRefs
    <2>2. \A p \in Ops \ {"close"} : op'[p].ref > 0 <=> op[p].ref > 0
      BY <2>1 DEF Slight
    <2>3. LiveOps' = LiveOps
      BY <1>1, <2>2 DEF LiveOps
    <2> QED
      BY <1>2, <2>3 DEF HandleRefs, B
  <1>5. Outstanding' = Outstanding
    <2>1. \A p \in Ops \ {"close"} : op'[p].drv = op[p].drv /\ op'[p].delivered = op[p].delivered
      BY DEF Slight
    <2> QED
      BY <2>1, SameOutstanding
  <1>6. HandleTypes'
    BY <1>2 DEF HandleTypes, HandleRecords
  <1>7. CloseOK(op["close"], ctx)'
    BY <1>1 DEF CloseOK, Pretended, Ended
  <1>8. op'["open"].drv = op["open"].drv /\ op'["open"].reg = op["open"].reg /\ op'["open"].kick = op["open"].kick
    BY OpNames DEF Slight
  <1>9. CtxOK'
    BY <1>1, <1>2, <1>5, <1>8 DEF CtxOK, CloseGoing, HandleOK
  <1>10. HandleOK'
    BY <1>2, <1>8 DEF HandleOK, Pretended, Ended
  <1> QED
    BY <1>3, <1>4, <1>6, <1>7, <1>9, <1>10 DEF XioCore

\* A close that is pretended.
LEMMA PretendKeeps ==
    ASSUME XioCore, setup' = setup, NEW cancel \in BOOLEAN, op["close"].state = "NONE",
           handle.state \in {"CLIENT", "OPEN_FAILED"},
           handle' = [handle EXCEPT !.state = "OPENING_AND_CLOSING", !.ref = @ + 1,
                                    !.close_op = TRUE, !.cancel = cancel],
           op' = [op EXCEPT !["close"] = [CloseOp EXCEPT !.state = "FINISH_WAITING",
                                                         !.reg = "done", !.ok = TRUE]],
           running' = running, ctx' = ctx, failed' = failed
    PROVE  XioCore'
  <1> DEFINE c == op["close"]
             r == [CloseOp EXCEPT !.state = "FINISH_WAITING", !.reg = "done", !.ok = TRUE]
  <1>1. /\ c.reg = "no" /\ c.ref = 0 /\ ~ClosePassed(ctx)
        /\ OpOK("close", CloseOp) /\ CloseOp \in OpRecords
        /\ CloseOp.state = "OPERATING" /\ CloseOp.ref = 1 /\ CloseOp.reg = "no"
        /\ CloseOp.start = "no" /\ CloseOp.drv = "no" /\ CloseOp.kick = "no"
        /\ CloseOp.timer = "no"
    BY CloseFresh
  <1>2. HandleTypes /\ CtxOK /\ HandleOK /\ HandleRefs /\ handle \in HandleRecords /\ OpOK("open", op["open"])
    BY OpNames DEF XioCore, HandleTypes, HandleRecords
  <1>3. OpOK("close", r)
    BY <1>1, OpNames, RecPretend
  <1>4. /\ r.state = "FINISH_WAITING" /\ r.ref = 1 /\ r.reg = "done" /\ r.start = "no"
        /\ r.drv = "no" /\ r.kick = "no" /\ r.timer = "no"
    BY <1>1 DEF OpRecords
  <1> HIDE DEF r
  <1>5. /\ op' \in [Ops -> OpRecords] /\ \A p \in Ops : OpOK(p, op[p])'
        /\ op'["close"] = r /\ \A p \in Ops \ {"close"} : op'[p] = op[p]
    BY <1>3, OpNames, OneOp DEF r
  <1>6. /\ handle' \in HandleRecords /\ handle'.ref = handle.ref + 1
        /\ handle'.state = "OPENING_AND_CLOSING" /\ handle'.open_op = handle.open_op
    <2> DEFINE n == handle.ref + 1
    <2>1. n \in Int /\ handle' = [handle EXCEPT !.state = "OPENING_AND_CLOSING", !.ref = n,
                                                !.close_op = TRUE, !.cancel = cancel]
      BY <1>2 DEF HandleRecords
    <2> HIDE DEF n
    <2>2. /\ handle' \in HandleRecords /\ handle'.ref = n
          /\ handle'.state = "OPENING_AND_CLOSING" /\ handle'.open_op = handle.open_op
      BY <1>2, <2>1 DEF HandleRecords, HandleStates
    <2> QED
      BY <2>2 DEF n
  <1>7. "close" \notin LiveOps
    BY <1>1 DEF LiveOps
  <1>8. HandleRefs'
    <2>1. r.ref \in Nat /\ r.ref > 0 /\ r.reg \notin {"no", "start"}
      BY <1>4
    <2>2. handle'.state = "CLOSED" <=> handle.state = "CLOSED"
      BY <1>6
    <2> QED
      BY <1>5, <1>6, <1>7, <2>1, <2>2, OpNames, NewLive
  <1>9. Outstanding' = Outstanding
    BY <1>5, SameOutstanding
  <1>10. op'["open"] = op["open"]
    BY <1>5, OpNames
  <1>11. HandleTypes'
    BY <1>2, <1>5, <1>6 DEF HandleTypes, HandleRecords
  <1>12. CloseOK(op["close"], ctx)'
    BY <1>1, <1>4, <1>5 DEF CloseOK, Pretended
  <1>13. CtxOK'
    BY <1>1, <1>2, <1>4, <1>5, <1>9, <1>10 DEF CtxOK, CloseGoing
  <1>14. OpenOver /\ (op["open"].reg \in {"no", "failed"} \/ op["open"].drv = "called")
    <2>1. OpenOver
      BY <1>2 DEF HandleOK, OpenOver
    <2>2. op["open"].kick \in Over => op["open"].drv = "called"
      BY <1>2, OpNames DEF OpOK, OpRecords, OpStates, Common, Passed, Over, Begun, Ended
    <2> QED
      BY <2>1, <2>2 DEF OpenOver
  <1>15. HandleOK'
    BY <1>2, <1>4, <1>5, <1>6, <1>10, <1>14 DEF HandleOK, OpenOver
  <1> QED
    BY <1>5, <1>8, <1>11, <1>12, <1>13, <1>15 DEF XioCore

\* The other operations may be canceled when the close is registered.
LEMMA CloseWith ==
    ASSUME XioCore, NEW S \in SUBSET Reachable, NEW r, OpOK("close", r),
           op' = [CancelAll(S, op) EXCEPT !["close"] = r]
    PROVE  /\ op' \in [Ops -> OpRecords] /\ op'["close"] = r
           /\ \A p \in Ops \ {"close"} : OpOK(p, op'[p]) /\ Slight(op[p], op'[p])
  <1> DEFINE f == CancelAll(S, op)
  <1>1. f \in [Ops -> OpRecords] /\ \A p \in Ops : OpOK(p, f[p]) /\ Slight(op[p], f[p])
    BY CanceledAll
  <1>2. r \in OpRecords
    BY DEF OpOK
  <1> HIDE DEF f
  <1>3. /\ op' \in [Ops -> OpRecords] /\ op'["close"] = r
        /\ \A p \in Ops \ {"close"} : op'[p] = f[p]
    BY <1>1, <1>2, OpNames DEF f
  <1> QED
    BY <1>1, <1>3

\* globus_xio_register_close.
LEMMA RegisterCloseKeeps ==
    ASSUME XioCore, setup' = setup, NEW cancel \in BOOLEAN, RegisterClose(cancel)
    PROVE  XioCore'
  <1> DEFINE Going(s) == [handle EXCEPT !.state = s, !.close_op = TRUE, !.cancel = cancel]
             Canceling(S, r) == op' = [CancelAll(S, op) EXCEPT !["close"] = r] /\ CancelUnlists(S)
             S1 == IF cancel THEN Reachable ELSE {}
             S2 == IF cancel THEN Reachable \cap Data ELSE {}
             asked == [CloseOp EXCEPT !.reg = "start"]
  <1>1. op["close"].state = "NONE" /\ ctx' = ctx /\ failed' = failed
    BY DEF RegisterClose
  <1>2. /\ OpOK("close", CloseOp) /\ CloseOp \in OpRecords
        /\ CloseOp.state = "OPERATING" /\ CloseOp.reg = "no"
        /\ CloseOp.start = "no" /\ CloseOp.drv = "no" /\ CloseOp.kick = "no"
        /\ CloseOp.timer = "no" /\ ~CloseOp.canceled /\ ~CloseOp.down
    BY <1>1, CloseFresh
  <1>3. handle \in HandleRecords /\ running \in BOOLEAN /\ op \in [Ops -> OpRecords]
    BY DEF XioCore, HandleTypes, HandleRecords
  <1>4. \A s \in {"OPENING_AND_CLOSING", "CLOSING"} :
          /\ Going(s) \in HandleRecords /\ Going(s).ref = handle.ref /\ Going(s).state = s
          /\ Going(s).open_op = handle.open_op
    BY <1>3 DEF HandleRecords, HandleStates
  <1>5. S1 \in SUBSET Reachable /\ S2 \in SUBSET Reachable
    OBVIOUS
  <1>6. OpOK("close", asked)
    BY <1>2, OpNames, RecCloseAsked
  <1>7. /\ asked.state = "OPERATING" /\ asked.reg = "start" /\ asked.start = "no"
        /\ asked.drv = "no" /\ asked.kick = "no" /\ asked.timer = "no"
        /\ ~asked.canceled /\ ~asked.down
    BY <1>2 DEF OpRecords
  <1>8. \/ /\ handle.state \in {"CLIENT", "OPEN_FAILED"}
           /\ handle' = [handle EXCEPT !.state = "OPENING_AND_CLOSING", !.ref = @ + 1,
                                       !.close_op = TRUE, !.cancel = cancel]
           /\ op' = [op EXCEPT !["close"] = [CloseOp EXCEPT !.state = "FINISH_WAITING",
                                                            !.reg = "done", !.ok = TRUE]]
           /\ running' = running
        \/ /\ handle.state = "OPENING" /\ handle' = Going("OPENING_AND_CLOSING")
           /\ Canceling(S1, CloseOp)
        \/ /\ handle.state = "OPENING_FAILED" /\ handle' = Going("OPENING_AND_CLOSING")
           /\ op' = [op EXCEPT !["close"] = CloseOp] /\ running' = running
        \/ /\ handle.state = "OPEN" /\ handle' = Going("CLOSING")
           /\ Canceling(S2, asked)
    BY DEF RegisterClose
  <1> HIDE DEF Going, S1, S2, asked
  <1>9. CASE /\ handle.state \in {"CLIENT", "OPEN_FAILED"}
             /\ handle' = [handle EXCEPT !.state = "OPENING_AND_CLOSING", !.ref = @ + 1,
                                         !.close_op = TRUE, !.cancel = cancel]
             /\ op' = [op EXCEPT !["close"] = [CloseOp EXCEPT !.state = "FINISH_WAITING",
                                                              !.reg = "done", !.ok = TRUE]]
             /\ running' = running
    BY <1>1, <1>9, PretendKeeps
  <1>10. CASE /\ handle.state = "OPENING" /\ handle' = Going("OPENING_AND_CLOSING")
              /\ Canceling(S1, CloseOp)
    <2>1. /\ op' \in [Ops -> OpRecords] /\ op'["close"] = CloseOp
          /\ \A p \in Ops \ {"close"} : OpOK(p, op'[p]) /\ Slight(op[p], op'[p])
      BY <1>2, <1>5, <1>10, CloseWith
    <2>2. running' \in BOOLEAN
      BY <1>10, PauseTyped DEF CancelUnlists
    <2> QED
      BY <1>1, <1>2, <1>4, <1>10, <2>1, <2>2, CloseRegistered
  <1>11. CASE /\ handle.state = "OPENING_FAILED" /\ handle' = Going("OPENING_AND_CLOSING")
              /\ op' = [op EXCEPT !["close"] = CloseOp] /\ running' = running
    <2>1. /\ op' \in [Ops -> OpRecords] /\ op'["close"] = CloseOp
          /\ \A p \in Ops \ {"close"} : op'[p] = op[p]
      BY <1>2, <1>3, <1>11, OpNames
    <2>2. \A p \in Ops \ {"close"} : OpOK(p, op'[p]) /\ Slight(op[p], op'[p])
      BY <2>1 DEF XioCore, Slight
    <2> QED
      BY <1>1, <1>2, <1>3, <1>4, <1>11, <2>1, <2>2, CloseRegistered
  <1>12. CASE /\ handle.state = "OPEN" /\ handle' = Going("CLOSING")
              /\ Canceling(S2, asked)
    <2>1. /\ op' \in [Ops -> OpRecords] /\ op'["close"] = asked
          /\ \A p \in Ops \ {"close"} : OpOK(p, op'[p]) /\ Slight(op[p], op'[p])
      BY <1>5, <1>6, <1>12, CloseWith
    <2>2. running' \in BOOLEAN
      BY <1>12, PauseTyped DEF CancelUnlists
    <2> QED
      BY <1>1, <1>4, <1>6, <1>7, <1>12, <2>1, <2>2, CloseRegistered
  <1> QED
    BY <1>8, <1>9, <1>10, <1>11, <1>12

\* What a step that changes only the close leaves alone.
LEMMA OnlyClose ==
    ASSUME XioCore, \A p \in Ops \ {"close"} : op'[p] = op[p]
    PROVE  Outstanding' = Outstanding /\ op'["open"] = op["open"]
  <1>1. op'["open"] = op["open"]
    BY OpNames
  <1> QED
    BY <1>1, SameOutstanding

\* globus_l_xio_handle_unopened_close_callback.
LEMMA UnopenedCloseKeeps ==
    ASSUME XioCore, setup' = setup, UnopenedClose
    PROVE  XioCore'
  <1> DEFINE q == op["close"]
             r == [q EXCEPT !.kick = "user", !.calls = @ + 1]
  <1>1. /\ q.state = "FINISH_WAITING" /\ q.drv = "no" /\ q.kick = "no"
        /\ handle' = [handle EXCEPT !.state = "CLOSING"]
        /\ op' = [op EXCEPT !["close"].kick = "user", !["close"].calls = @ + 1]
        /\ ctx' = ctx /\ running' = running /\ failed' = failed
    BY DEF UnopenedClose
  <1>2. /\ OpOK("close", q) /\ q \in OpRecords /\ CloseOK(q, ctx) /\ op \in [Ops -> OpRecords]
        /\ HandleTypes /\ CtxOK /\ HandleOK /\ HandleRefs /\ handle \in HandleRecords
    BY OpNames DEF XioCore, OpOK, HandleTypes, HandleRecords
  <1>3. Pretended(q) /\ q.reg = "done" /\ q.timer = "no"
    BY <1>1, <1>2 DEF CloseOK, Pretended, Ended
  <1>4. OpOK("close", r)
    BY <1>1, <1>2, <1>3, OpNames, RecUnopened
  <1>5. /\ r.state = q.state /\ r.ref = q.ref /\ r.reg = q.reg /\ r.start = q.start
        /\ r.drv = q.drv /\ r.kick = "user" /\ r.timer = q.timer
    BY <1>2 DEF OpRecords
  <1>6. op' = [op EXCEPT !["close"] = r]
    BY <1>1, <1>2
  <1> HIDE DEF r
  <1>7. /\ op' \in [Ops -> OpRecords] /\ \A p \in Ops : OpOK(p, op[p])'
        /\ op'["close"] = r /\ \A p \in Ops \ {"close"} : op'[p] = op[p]
    BY <1>4, <1>6, OpNames, OneOp
  <1>8. Outstanding' = Outstanding /\ op'["open"] = op["open"]
    BY <1>7, OnlyClose
  <1>9. handle' \in HandleRecords /\ handle'.state = "CLOSING" /\ handle'.ref = handle.ref
        /\ handle'.open_op = handle.open_op
    BY <1>1, <1>2 DEF HandleRecords, HandleStates
  <1>10. handle.state # "CLOSED"
    BY <1>1, <1>2, <1>3 DEF HandleOK, Over
  <1>11. LiveOps' = LiveOps
    BY <1>5, <1>7, SameLive
  <1>12. HandleRefs'
    BY <1>2, <1>9, <1>10, <1>11 DEF HandleRefs, B
  <1>13. HandleTypes'
    BY <1>1, <1>2, <1>7, <1>9 DEF HandleTypes, HandleRecords
  <1>14. CloseOK(op["close"], ctx)'
    BY <1>1, <1>2, <1>3, <1>5, <1>7 DEF CloseOK, Pretended
  <1>15. CtxOK'
    BY <1>1, <1>2, <1>5, <1>7, <1>8 DEF CtxOK, CloseGoing
  <1>16. HandleOK'
    BY <1>1, <1>2, <1>3, <1>5, <1>7, <1>8, <1>9 DEF HandleOK
  <1> QED
    BY <1>7, <1>12, <1>13, <1>14, <1>15, <1>16 DEF XioCore

\* globus_l_xio_register_close, up to the pass.
LEMMA RegisterCloseStartKeeps ==
    ASSUME XioCore, setup' = setup, RegisterCloseStart
    PROVE  XioCore'
  <1> DEFINE q == op["close"]
             s == [q EXCEPT !.ref = @ + 1, !.reg = "pass"]
             r == WithTimeout("close", s)
  <1>1. /\ q.reg = "start" /\ handle' = [handle EXCEPT !.ref = @ + 1]
        /\ op' = [op EXCEPT !["close"] = r] /\ running' = (running \/ "close" \in setup.timed)
        /\ ctx' = ctx /\ failed' = failed
    BY DEF RegisterCloseStart, StartTimer
  <1>2. /\ OpOK("close", q) /\ q \in OpRecords /\ CloseOK(q, ctx) /\ failed \in BOOLEAN
        /\ handle \in HandleRecords
    BY OpNames DEF XioCore, OpOK, HandleTypes, HandleRecords
  <1>3. /\ q.state = "OPERATING" /\ q.timer = "no" /\ q.drv = "no" /\ q.start = "no"
        /\ ~q.down /\ ~q.canceled /\ q.ref \in Nat /\ ~ClosePassed(ctx) /\ q.kick = "no"
    BY <1>1, <1>2 DEF CloseOK, OpOK, Common, OpRecords, Begun
  <1>4. OpOK("close", s)
    BY <1>1, <1>2, <1>3, OpNames, RecCloseStart
  <1>5. /\ s.state = q.state /\ s.ref = q.ref + 1 /\ s.reg = "pass" /\ s.start = q.start
        /\ s.drv = q.drv /\ s.kick = q.kick /\ s.timer = q.timer /\ s.canceled = q.canceled
        /\ s \in OpRecords
    BY <1>2, <1>4 DEF OpRecords, OpOK
  <1> HIDE DEF s
  <1>6. /\ OpOK("close", r) /\ r.state = "OPERATING" /\ r.ref \in Nat /\ r.ref > 0 /\ r.reg = "pass"
        /\ r.start = "no" /\ r.drv = "no" /\ r.kick = "no"
    <2>1. CASE "close" \in setup.timed
      <3>1. r = [s EXCEPT !.ref = @ + 1, !.timer = "listed", !.progress = TRUE]
        BY <2>1 DEF WithTimeout
      <3>2. OpOK("close", [s EXCEPT !.ref = @ + 1, !.timer = "listed", !.progress = TRUE])
        BY <1>3, <1>4, <1>5, <2>1, OpNames, RecAddTimeout
      <3> HIDE DEF r
      <3>3. /\ r.state = s.state /\ r.ref = s.ref + 1 /\ r.reg = s.reg /\ r.start = s.start
            /\ r.drv = s.drv /\ r.kick = s.kick
        BY <1>5, <3>1 DEF OpRecords
      <3> QED
        BY <1>3, <1>5, <3>1, <3>2, <3>3
    <2>2. CASE "close" \notin setup.timed
      BY <1>3, <1>4, <1>5, <2>2 DEF WithTimeout
    <2> QED
      BY <2>1, <2>2
  <1> HIDE DEF r
  <1>7. /\ op' \in [Ops -> OpRecords] /\ \A p \in Ops : OpOK(p, op[p])'
        /\ op'["close"] = r /\ \A p \in Ops \ {"close"} : op'[p] = op[p]
    BY <1>1, <1>6, OpNames, OneOp
  <1>8. handle' \in HandleRecords /\ handle'.ref = handle.ref + 1 /\ SameHandle(handle)
    BY <1>1, <1>2 DEF HandleRecords
  <1>9. HandleRefs'
    <2>1. "close" \notin LiveOps /\ r.reg \notin {"no", "start"}
      BY <1>1, <1>6 DEF LiveOps
    <2> QED
      BY <1>6, <1>7, <1>8, <2>1, OpNames, NewLive
  <1>10. op'["open"] = op["open"]
    BY <1>7, OnlyClose
  <1>11. Quiet
    BY <1>1, <1>3, <1>6, <1>7, <1>10 DEF Quiet, Pretended, Ended, Over
  <1>12. CloseOK(op'["close"], ctx')
    BY <1>1, <1>3, <1>6, <1>7 DEF CloseOK, Pretended, Ended
  <1> QED
    BY <1>1, <1>2, <1>6, <1>7, <1>8, <1>9, <1>11, <1>12, QuietKeeps DEF QuietStep

\* the records of a context
CtxRecords == [state : CtxStates, out : Nat, close_started : BOOLEAN, close_op : BOOLEAN]

\* A step of the close that the context notices.
LEMMA CloseMoves ==
    ASSUME XioCore, setup' = setup, NEW r, OpOK("close", r), Puts("close", r),
           op["close"].ref > 0, op["close"].reg \notin {"no", "start", "failed"},
           r.reg \notin {"no", "start"}, ~Pretended(r), r.kick = op["close"].kick,
           r.drv = "called" => op["close"].drv = "called",
           running' = running, failed' = failed, CloseGoing,
           ctx' \in CtxRecords, ctx'.out = ctx.out, CloseOK(r, ctx'),
           r.start # "no" \/ r.drv # "no" \/ ctx'.close_started =>
             Outstanding = {} /\ ctx'.state \in {"CLOSING", "OPENING_AND_CLOSING", "CLOSED"},
           ctx'.close_op => ctx'.state \in {"CLOSING", "OPENING_AND_CLOSING", "CLOSED"}
    PROVE  XioCore'
  <1>1. /\ OpOK("close", op["close"]) /\ HandleTypes /\ CtxOK /\ HandleOK
    BY OpNames DEF XioCore
  <1>2. /\ op' \in [Ops -> OpRecords] /\ \A p \in Ops : OpOK(p, op[p])'
        /\ op'["close"] = r /\ \A p \in Ops \ {"close"} : op'[p] = op[p]
        /\ handle' \in HandleRecords /\ SameHandle(handle) /\ HandleRefs'
    BY OpNames, PutsKeep
  <1>3. Outstanding' = Outstanding /\ op'["open"] = op["open"]
    BY <1>2, OnlyClose
  <1>4. HandleTypes'
    BY <1>1, <1>2 DEF HandleTypes, HandleRecords, CtxRecords
  <1>5. CloseOK(op["close"], ctx)'
    BY <1>2
  <1>6. CtxOK'
    BY <1>1, <1>2, <1>3 DEF CtxOK
  <1>7. op["close"].state # "NONE"
    BY <1>1 DEF OpOK, Common
  <1>8. HandleOK'
    BY <1>1, <1>2, <1>3, <1>7 DEF HandleOK, OpenOver
  <1> QED
    BY <1>2, <1>4, <1>5, <1>6, <1>8 DEF XioCore

\* globus_xio_driver_pass_close.
LEMMA PassCloseKeeps ==
    ASSUME XioCore, setup' = setup, PassClose
    PROVE  XioCore'
  <1> DEFINE q == op["close"]
             pass == ctx.out = 0
             s == IF pass THEN "go" ELSE "no"
             g == IF pass THEN "calling" ELSE "passed"
             t == IF ctx.state = "OPEN" THEN "CLOSING" ELSE "OPENING_AND_CLOSING"
             np == ~pass
  <1>1. /\ q.reg = "pass"
        /\ \/ Abort
           \/ /\ handle' = handle /\ running' = running /\ failed' = failed /\ q.canceled
              /\ op' = [op EXCEPT !["close"].reg = "err", !["close"].progress = TRUE]
              /\ ctx' = [ctx EXCEPT !.state = "CLOSED"]
           \/ /\ handle' = handle /\ running' = running /\ failed' = failed
              /\ ctx' = [ctx EXCEPT !.state = t, !.close_started = pass, !.close_op = np]
              /\ op' = [op EXCEPT !["close"] = [@ EXCEPT !.down = TRUE, !.progress = TRUE,
                                                         !.start = s, !.reg = g]]
    BY DEF PassClose
  <1>2. /\ OpOK("close", q) /\ q \in OpRecords /\ CloseOK(q, ctx) /\ op \in [Ops -> OpRecords]
        /\ ctx \in CtxRecords /\ CtxOK
    BY OpNames DEF XioCore, OpOK, HandleTypes, CtxRecords
  <1>3. /\ q.start = "no" /\ q.drv = "no" /\ ~ClosePassed(ctx) /\ q.state \in Begun
        /\ q.ref > 0 /\ q.ref \in Nat /\ CloseGoing
    BY <1>1, <1>2, OpNames, Held DEF CloseOK, OpOK, Common, OpRecords, CloseGoing
  <1>4. CASE Abort
    BY <1>4, AbortKeeps
  <1>5. CASE /\ handle' = handle /\ running' = running /\ failed' = failed /\ q.canceled
             /\ op' = [op EXCEPT !["close"].reg = "err", !["close"].progress = TRUE]
             /\ ctx' = [ctx EXCEPT !.state = "CLOSED"]
    <2> DEFINE r == [q EXCEPT !.reg = "err", !.progress = TRUE]
    <2>1. OpOK("close", r)
      BY <1>1, <1>2, <1>5, OpNames, RecPassErr
    <2>2. /\ r.ref = q.ref /\ r.reg = "err" /\ r.drv = q.drv /\ r.kick = q.kick
          /\ r.start = q.start /\ r.state = q.state
      BY <1>2 DEF OpRecords
    <2>3. op' = [op EXCEPT !["close"] = r]
      BY <1>2, <1>5
    <2> HIDE DEF r
    <2>4. Puts("close", r)
      <3>1. r.ref # 0
        BY <1>3, <2>2
      <3> QED
        BY <1>5, <2>3, <3>1 DEF Puts, Put
    <2>5. /\ ctx' \in CtxRecords /\ ctx'.out = ctx.out /\ ctx'.state = "CLOSED"
          /\ ctx'.close_started = ctx.close_started /\ ctx'.close_op = ctx.close_op
      BY <1>2, <1>5 DEF CtxRecords, CtxStates
    <2>6. ~Pretended(r) /\ ~ctx'.close_started
      BY <1>3, <2>2, <2>5 DEF Pretended, Begun, Ended, ClosePassed
    <2>7. CloseOK(r, ctx')
      BY <1>3, <2>2, <2>5, <2>6 DEF CloseOK
    <2>8. r.start = "no" /\ r.drv = "no"
      BY <1>3, <2>2
    <2> QED
      BY <1>1, <1>3, <1>5, <2>1, <2>2, <2>4, <2>5, <2>6, <2>7, <2>8, CloseMoves
  <1>6. CASE /\ handle' = handle /\ running' = running /\ failed' = failed
             /\ ctx' = [ctx EXCEPT !.state = t, !.close_started = pass, !.close_op = np]
             /\ op' = [op EXCEPT !["close"] = [@ EXCEPT !.down = TRUE, !.progress = TRUE,
                                                        !.start = s, !.reg = g]]
    <2> DEFINE r == [q EXCEPT !.down = TRUE, !.progress = TRUE, !.start = s, !.reg = g]
    <2>1. /\ s \in {"go", "no"} /\ g \in {"calling", "passed"} /\ pass \in BOOLEAN /\ np \in BOOLEAN
          /\ t \in {"CLOSING", "OPENING_AND_CLOSING"} /\ (s # "no" => pass)
      OBVIOUS
    <2>2. pass => Outstanding = {}
      <3>1. Outstanding \in SUBSET Ops
        BY DEF Outstanding
      <3> QED
        BY <1>2, <3>1, OpsCounted DEF CtxOK
    <2> HIDE DEF pass, s, g, t, np
    <2>3. OpOK("close", r)
      BY <1>1, <1>2, <1>3, <2>1, OpNames, RecPassClose
    <2>4. /\ r.ref = q.ref /\ r.reg = g /\ r.drv = q.drv /\ r.kick = q.kick
          /\ r.start = s /\ r.state = q.state
      BY <1>2 DEF OpRecords
    <2>5. op' = [op EXCEPT !["close"] = r]
      BY <1>2, <1>6
    <2> HIDE DEF r
    <2>6. Puts("close", r)
      <3>1. r.ref # 0
        BY <1>3, <2>4
      <3> QED
        BY <1>6, <2>5, <3>1 DEF Puts, Put
    <2>7. /\ ctx' \in CtxRecords /\ ctx'.out = ctx.out /\ ctx'.state = t
          /\ ctx'.close_started = pass /\ ctx'.close_op = np
      BY <1>2, <1>6, <2>1 DEF CtxRecords, CtxStates
    <2>8. ~Pretended(r)
      BY <1>3, <2>4 DEF Pretended, Begun, Ended
    <2>9. CloseOK(r, ctx')
      BY <1>3, <2>1, <2>4, <2>8 DEF CloseOK
    <2>10. r.drv = "no" /\ r.reg \notin {"no", "start"}
      BY <1>3, <2>1, <2>4
    <2> QED
      BY <1>1, <1>3, <1>6, <2>1, <2>2, <2>3, <2>4, <2>6, <2>7, <2>8, <2>9, <2>10, CloseMoves
  <1> QED
    BY <1>1, <1>4, <1>5, <1>6

\* The driver refuses to close.
LEMMA StartCloseRefusedKeeps ==
    ASSUME XioCore, setup' = setup, StartCloseRefused
    PROVE  XioCore'
  <1> DEFINE q == op["close"]
             d == IF q.reg = "calling" THEN "no" ELSE "finished"
             g == IF q.reg = "calling" THEN "err" ELSE q.reg
             r == [q EXCEPT !.start = "done", !.ref = @ - 1, !.ok = FALSE, !.drv = d, !.reg = g]
  <1>1. /\ "close" \in setup.refused /\ q.start = "calling" /\ q.drv = "asked"
        /\ ctx' = [ctx EXCEPT !.state = "CLOSED"] /\ Put("close", r, handle)
        /\ running' = running /\ failed' = failed
    BY DEF StartCloseRefused
  <1>2. /\ OpOK("close", q) /\ q \in OpRecords /\ CloseOK(q, ctx) /\ setup \in Setups
        /\ ctx \in CtxRecords /\ CtxOK
    BY OpNames DEF XioCore, OpOK, HandleTypes, CtxRecords
  <1>3. /\ q.reg \notin {"no", "start", "pass", "err", "failed"} /\ q.state \in Begun
        /\ q.ref > 0 /\ CloseGoing /\ Outstanding = {}
    BY <1>1, <1>2, OpNames, Held DEF CloseOK, OpOK, Common, CloseGoing, CtxOK
  <1>4. OpOK("close", r)
    <2>1. CASE q.reg = "calling"
      <3>1. r = [q EXCEPT !.start = "done", !.ref = @ - 1, !.ok = FALSE, !.drv = "no", !.reg = "err"]
        BY <2>1
      <3>2. OpOK("close", [q EXCEPT !.start = "done", !.ref = @ - 1, !.ok = FALSE, !.drv = "no",
                                    !.reg = "err"])
        BY <1>1, <1>2, <2>1, OpNames, RecCloseCanFail
      <3> QED
        BY <3>1, <3>2
    <2>2. CASE q.reg # "calling"
      <3>1. r = [q EXCEPT !.start = "done", !.ref = @ - 1, !.ok = FALSE, !.drv = "finished"]
        BY <1>2, <2>2 DEF OpRecords
      <3>2. OpOK("close", [q EXCEPT !.start = "done", !.ref = @ - 1, !.ok = FALSE, !.drv = "finished"])
        BY <1>1, <1>2, OpNames, RecCloseError
      <3> QED
        BY <3>1, <3>2
    <2> QED
      BY <2>1, <2>2
  <1>5. /\ r.reg = g /\ r.drv = d /\ r.kick = q.kick /\ r.start = "done" /\ r.state = q.state
    BY <1>2 DEF OpRecords
  <1> HIDE DEF r
  <1>6. /\ ctx' \in CtxRecords /\ ctx'.out = ctx.out /\ ctx'.state = "CLOSED"
    BY <1>1, <1>2 DEF CtxRecords, CtxStates
  <1>7. ~Pretended(r) /\ r.reg \notin {"no", "start"}
    BY <1>3, <1>5 DEF Pretended, Begun, Ended
  <1>8. CloseOK(r, ctx')
    BY <1>3, <1>5, <1>6, <1>7 DEF CloseOK
  <1> QED
    BY <1>1, <1>3, <1>4, <1>5, <1>6, <1>7, <1>8, CloseMoves DEF Puts

\* The handle is closed, and gives up its own reference.
LEMMA ClosedHandle ==
    ASSUME NEW k \in HandleRecords
    PROVE  LET h == HandleDec([k EXCEPT !.state = "CLOSED"]) IN
           /\ h \in HandleRecords /\ h.ref = k.ref - 1 /\ h.ref \in Int /\ h.state = "CLOSED"
           /\ h.open_op = k.open_op /\ h.close_op = k.close_op
  <1> DEFINE j == [k EXCEPT !.state = "CLOSED"]
             n == k.ref - 1
             h == [j EXCEPT !.ref = n]
  <1>1. /\ j \in HandleRecords /\ j.ref = k.ref /\ j.state = "CLOSED" /\ n \in Int
        /\ j.open_op = k.open_op /\ j.close_op = k.close_op
    BY DEF HandleRecords, HandleStates
  <1>2. HandleDec(j) = h
    BY <1>1 DEF HandleDec, HandleRecords
  <1> HIDE DEF j, n
  <1>3. /\ h \in HandleRecords /\ h.ref = n /\ h.state = "CLOSED"
        /\ h.open_op = j.open_op /\ h.close_op = j.close_op
    BY <1>1 DEF HandleRecords
  <1> QED
    BY <1>1, <1>2, <1>3 DEF n, j

\* The error path of globus_l_xio_register_close.
LEMMA RegisterCloseErrKeeps ==
    ASSUME XioCore, setup' = setup, RegisterCloseErr
    PROVE  XioCore'
  <1> DEFINE q == op["close"]
             u == Unlist(q)
             r == [u EXCEPT !.reg = "failed", !.ref = @ - 2]
             h == HandleDec([handle EXCEPT !.state = "CLOSED"])
  <1>1. /\ q.reg = "err" /\ Put("close", r, h) /\ PauseTimer({"close"})
        /\ ctx' = ctx /\ failed' = failed
    BY DEF RegisterCloseErr
  <1>2. /\ OpOK("close", q) /\ q \in OpRecords /\ handle \in HandleRecords /\ failed \in BOOLEAN
        /\ HandleTypes /\ CtxOK /\ HandleOK /\ CloseOK(q, ctx) /\ HandleRefs
    BY OpNames DEF XioCore, OpOK, HandleTypes, HandleRecords
  <1>3. OpOK("close", u) /\ Slight(q, u)
    <2>1. q.kick \notin Over
      BY <1>1, <1>2 DEF OpOK, Common, Over
    <2> QED
      BY <1>2, <2>1, OpNames, Unlisted
  <1> HIDE DEF u
  <1>4. u.reg = "err" /\ u \in OpRecords
    BY <1>1, <1>3 DEF Slight, OpOK
  <1>5. OpOK("close", r)
    BY <1>3, <1>4, OpNames, RecGiveUp
  <1>6. r.reg = "failed" /\ r.drv = u.drv /\ r.start = u.start /\ r.state = u.state
    BY <1>4 DEF OpRecords
  <1> HIDE DEF r
  <1>7. r.drv = q.drv /\ r.start = q.start /\ r.state = q.state
    BY <1>3, <1>6 DEF Slight
  <1>8. q.drv = "no" /\ q.ref > 0 /\ q.kick = "no" /\ q.state \in Begun /\ CloseGoing
    BY <1>1, <1>2, OpNames, Held DEF OpOK, Common, CloseGoing
  <1>9. handle.state # "CLOSED" /\ op["open"].drv = "called"
    BY <1>1, <1>2, <1>8 DEF HandleOK, CtxOK, Over
  <1>10. h \in HandleRecords /\ h.ref = handle.ref - 1 /\ h.ref \in Int /\ h.state = "CLOSED"
         /\ h.open_op = handle.open_op
    BY <1>2, ClosedHandle
  <1> HIDE DEF h
  <1>11. Apart => h.ref = B(h.state # "CLOSED") + Cardinality(LiveOps)
    <2>1. LiveOps \in SUBSET Ops
      BY DEF LiveOps
    <2>2. Cardinality(LiveOps) \in Nat
      BY <2>1, OpsCounted
    <2> QED
      BY <1>2, <1>9, <1>10, <2>2 DEF HandleRefs, B
  <1>12. /\ op' \in [Ops -> OpRecords] /\ \A p \in Ops : OpOK(p, op[p])'
         /\ op'["close"] = r /\ \A p \in Ops \ {"close"} : op'[p] = op[p]
         /\ handle' \in HandleRecords /\ SameHandle(h) /\ HandleRefs'
    BY <1>1, <1>5, <1>6, <1>8, <1>10, <1>11, OpNames, PutLive DEF HandleRecords
  <1>13. Outstanding' = Outstanding /\ op'["open"] = op["open"]
    BY <1>12, OnlyClose
  <1>14. HandleTypes'
    <2>1. running' \in BOOLEAN
      BY <1>1, PauseTyped
    <2> QED
      BY <1>1, <1>2, <1>12, <2>1 DEF HandleTypes, HandleRecords
  <1>15. ~Pretended(r)
    BY <1>7, <1>8 DEF Pretended, Begun, Ended
  <1>16. CloseOK(op["close"], ctx)'
    BY <1>1, <1>2, <1>6, <1>7, <1>8, <1>12, <1>15 DEF CloseOK
  <1>17. CtxOK'
    BY <1>1, <1>2, <1>7, <1>9, <1>12, <1>13 DEF CtxOK
  <1>18. HandleOK'
    BY <1>2, <1>6, <1>7, <1>8, <1>9, <1>10, <1>12, <1>13, <1>15 DEF HandleOK
  <1> QED
    BY <1>12, <1>14, <1>16, <1>17, <1>18 DEF XioCore

-----------------------------------------------------------------------------
(* Finishing, calling back, delivering                                      *)

\* globus_xio_driver_finished_open, _write and _close.
LEMMA DriverFinishKeeps ==
    ASSUME XioCore, setup' = setup, NEW o \in Ops, NEW ok \in BOOLEAN, DriverFinish(o, ok)
    PROVE  XioCore'
  <1> DEFINE q == op[o]
             r == [q EXCEPT !.drv = "finished", !.ok = ok, !.progress = TRUE]
  <1>1. CASE Abort
    BY <1>1, AbortKeeps
  <1>2. CASE ~Abort
    <2>1. /\ q.drv = "asked"
          /\ op' = [op EXCEPT ![o].drv = "finished", ![o].ok = ok, ![o].progress = TRUE]
          /\ ctx' = CASE o = "open" -> [ctx EXCEPT !.state = IF ok THEN "OPEN" ELSE "OPEN_FAILED"]
                      [] o = "close" -> [ctx EXCEPT !.state = "CLOSED"]
                      [] OTHER -> ctx
          /\ handle' = handle /\ running' = running /\ failed' = failed
          /\ o = "open" => ctx.state = "OPENING"
      BY <1>2 DEF DriverFinish
    <2>2. /\ OpOK(o, q) /\ q \in OpRecords /\ op \in [Ops -> OpRecords] /\ HandleTypes
          /\ ctx \in CtxRecords /\ CtxOK /\ HandleOK /\ CloseOK(op["close"], ctx)
          /\ running \in BOOLEAN /\ failed \in BOOLEAN
      BY DEF XioCore, OpOK, HandleTypes, CtxRecords
    <2>3. OpOK(o, r)
      BY <2>1, <2>2, RecFinish
    <2>4. /\ r.ref = q.ref /\ r.reg = q.reg /\ r.drv = "finished" /\ r.kick = q.kick
          /\ r.start = q.start /\ r.state = q.state /\ r.delivered = q.delivered /\ r.timer = q.timer
      BY <2>2 DEF OpRecords
    <2>5. q.ref > 0 /\ q.ref \in Nat /\ q.state \in Begun
      <3>1. q.state \in Begun /\ q.kick = "no" /\ q.reg # "failed"
        BY <2>1, <2>2 DEF OpOK, Common
      <3> QED
        BY <2>2, <3>1 DEF OpOK, Common, HoldersOf, B, OpRecords, Begun
    <2>6. op' = [op EXCEPT ![o] = r]
      BY <2>1, <2>2
    <2> HIDE DEF r
    <2>7. Puts(o, r)
      <3>1. r.ref # 0
        BY <2>4, <2>5
      <3> QED
        BY <2>1, <2>6, <3>1 DEF Puts, Put
    <2>8. CASE o \notin {"open", "close"}
      <3>1. ctx' = ctx /\ o \in Ops \ {"close"} /\ o # "open"
        BY <2>1, <2>8
      <3> QED
        BY <2>1, <2>2, <2>3, <2>4, <2>5, <2>7, <3>1, TaskQuiet
    <2>9. CASE o = "close"
      <3>1. ctx' = [ctx EXCEPT !.state = "CLOSED"]
        BY <2>1, <2>9, OpNames
      <3>2. ctx' \in CtxRecords /\ ctx'.out = ctx.out /\ ctx'.state = "CLOSED"
        BY <2>2, <3>1 DEF CtxRecords, CtxStates
      <3>3. q.reg \notin {"no", "start", "pass", "err", "failed"} /\ Outstanding = {} /\ CloseGoing
        BY <2>1, <2>2, <2>9 DEF CloseOK, OpOK, Common, CtxOK, CloseGoing
      <3>4. ~Pretended(r)
        BY <2>4 DEF Pretended
      <3>5. CloseOK(r, ctx')
        BY <2>1, <2>2, <2>4, <2>9, <3>2, <3>3, <3>4 DEF CloseOK
      <3> QED
        BY <2>1, <2>3, <2>4, <2>5, <2>7, <2>9, <3>2, <3>3, <3>4, <3>5, CloseMoves
    <2>10. CASE o = "open"
      <3> DEFINE t == IF ok THEN "OPEN" ELSE "OPEN_FAILED"
      <3>1. ctx' = [ctx EXCEPT !.state = t] /\ ctx.state = "OPENING"
        BY <2>1, <2>10
      <3>2. t \in {"OPEN", "OPEN_FAILED"}
        OBVIOUS
      <3> HIDE DEF t
      <3>3. /\ ctx' \in CtxRecords /\ ctx'.out = ctx.out /\ ctx'.state = t
            /\ ctx'.close_started = ctx.close_started /\ ctx'.close_op = ctx.close_op
        BY <2>2, <3>1, <3>2 DEF CtxRecords, CtxStates
      <3>4. ~CloseGoing
        BY <2>1, <2>2, <2>10 DEF CtxOK
      <3>5. /\ op' \in [Ops -> OpRecords] /\ \A p \in Ops : OpOK(p, op[p])'
            /\ op'["open"] = r /\ \A p \in Ops \ {"open"} : op'[p] = op[p]
            /\ handle' \in HandleRecords /\ SameHandle(handle) /\ HandleRefs'
        BY <2>3, <2>5, <2>7, <2>10, OpNames, PutsKeep
      <3>6. op'["close"] = op["close"]
        BY <3>5, OpNames
      <3>7. Outstanding' = Outstanding
        BY <2>1, <2>4, <2>10, <3>5, SameOutstanding
      <3>8. ~ClosePassed(ctx') /\ ~ClosePassed(ctx)
        BY <3>2, <3>3, <3>4 DEF CloseGoing, ClosePassed
      <3>9. CloseOK(op["close"], ctx)'
        BY <2>2, <3>4, <3>6, <3>8 DEF CloseOK, CloseGoing
      <3>10. CtxOK'
        BY <2>2, <3>3, <3>4, <3>6, <3>7, <3>8 DEF CtxOK, CloseGoing, ClosePassed
      <3>11. HandleOK'
        <4>1. /\ op["open"].drv = "asked" /\ op'["open"].drv = "finished"
              /\ op'["open"].reg = op["open"].reg /\ op'["open"].kick = op["open"].kick
          BY <2>1, <2>4, <2>10, <3>5
        <4> QED
          BY <2>2, <3>5, <3>6, <4>1 DEF HandleOK, OpenOver
      <3>12. HandleTypes'
        BY <2>1, <2>2, <3>3, <3>5 DEF HandleTypes, HandleRecords, CtxRecords
      <3> QED
        BY <3>5, <3>9, <3>10, <3>11, <3>12 DEF XioCore
    <2> QED
      BY <2>8, <2>9, <2>10
  <1> QED
    BY <1>1, <1>2

\* globus_l_xio_open_close_callback.
LEMMA OpenCloseCallbackKeeps ==
    ASSUME XioCore, setup' = setup, NEW o \in Ops, OpenCloseCallback(o)
    PROVE  XioCore'
  <1> DEFINE q == op[o]
             r == Finished(o)
             h == CASE handle.state = "CLOSING" -> [handle EXCEPT !.close_op = FALSE]
                    [] handle.state = "OPENING" ->
                         [handle EXCEPT !.state = IF op[o].ok THEN "OPEN" ELSE "OPENING_FAILED"]
                    [] OTHER -> handle
  <1>1. CASE Abort
    BY <1>1, AbortKeeps
  <1>2. CASE ~Abort
    <2>1. /\ o \in {"open", "close"} /\ q.drv = "finished" /\ handle' = h
          /\ op' = [op EXCEPT ![o] = r] /\ FinishUnlists(o) /\ ctx' = ctx /\ failed' = failed
          /\ o = "open" => handle.state \in {"OPENING", "OPENING_AND_CLOSING"}
          /\ o = "close" => handle.state = "CLOSING"
      BY <1>2 DEF OpenCloseCallback
    <2>2. /\ OpOK(o, r) /\ r.ref # 0
          /\ Apart => op[o].ref > 0
          /\ r.reg = q.reg /\ r.drv = "called" /\ r.delivered = q.delivered
          /\ r.start = q.start /\ r.kick \in {"no", "user"} /\ r.state = "FINISH_WAITING"
          /\ q.kick = "no" /\ q.state \in Begun
      BY <2>1, FinishedOK
    <2>3. /\ OpOK(o, q) /\ q \in OpRecords /\ HandleTypes /\ handle \in HandleRecords /\ HandleRefs
          /\ CtxOK /\ HandleOK /\ CloseOK(op["close"], ctx) /\ failed \in BOOLEAN
      BY DEF XioCore, OpOK, HandleTypes, HandleRecords
    <2> HIDE DEF r
    <2>4. /\ op' \in [Ops -> OpRecords] /\ \A p \in Ops : OpOK(p, op[p])'
          /\ op'[o] = r /\ \A p \in Ops \ {o} : op'[p] = op[p]
      BY <2>1, <2>2, OneOp
    <2>5. running' \in BOOLEAN
      BY <2>1, FinishTyped
    <2>6. /\ handle' \in HandleRecords /\ handle'.ref = handle.ref
          /\ o = "close" => handle'.state = handle.state
          /\ handle'.open_op = handle.open_op
          /\ o = "open" => handle'.close_op = handle.close_op
          /\ o = "open" /\ handle.state = "OPENING" => handle'.state \in {"OPEN", "OPENING_FAILED"}
          /\ o = "open" /\ handle.state = "OPENING_AND_CLOSING" => handle'.state = handle.state
      <3>1. CASE o = "close"
        <4>1. handle' = [handle EXCEPT !.close_op = FALSE]
          BY <2>1, <3>1
        <4> QED
          BY <2>3, <3>1, <4>1, OpNames DEF HandleRecords
      <3>2. CASE o = "open" /\ handle.state = "OPENING"
        <4> DEFINE t == IF op[o].ok THEN "OPEN" ELSE "OPENING_FAILED"
        <4>1. handle' = [handle EXCEPT !.state = t]
          BY <2>1, <3>2
        <4>2. t \in {"OPEN", "OPENING_FAILED"}
          OBVIOUS
        <4> HIDE DEF t
        <4> QED
          BY <2>3, <3>2, <4>1, <4>2, OpNames DEF HandleRecords, HandleStates
      <3>3. CASE o = "open" /\ handle.state = "OPENING_AND_CLOSING"
        BY <2>1, <2>3, <3>3, OpNames
      <3> QED
        BY <2>1, <3>1, <3>2, <3>3
    <2>7. HandleRefs'
      <3>1. SUFFICES ASSUME Apart PROVE HandleRefs'
        BY DEF HandleRefs
      <3>2. r.ref > 0 /\ q.ref > 0
        BY <2>2, <3>1 DEF OpOK, OpRecords
      <3>3. LiveOps' = LiveOps
        BY <2>2, <2>4, <3>2, SameLive
      <3>4. handle'.state # "CLOSED" /\ handle.state # "CLOSED"
        BY <2>1, <2>6
      <3> QED
        BY <2>3, <2>6, <3>3, <3>4 DEF HandleRefs, B
    <2>8. Outstanding' = Outstanding
      BY <2>1, <2>2, <2>4, SameOutstanding
    <2>9. CASE o = "close"
      <3>1. q.reg \notin {"no", "start", "pass", "err", "failed"} /\ q.start # "go"
        BY <2>1, <2>3, <2>9 DEF CloseOK, OpOK, Common
      <3>2. ~Pretended(r)
        BY <2>2 DEF Pretended
      <3>3. CloseOK(op'["close"], ctx')
        BY <2>1, <2>2, <2>4, <2>9, <3>1, <3>2 DEF CloseOK
      <3>4. op'["open"] = op["open"]
        BY <2>4, <2>9, OpNames
      <3>5. Quiet
        BY <2>1, <2>2, <2>3, <2>4, <2>9, <3>1, <3>2, <3>4 DEF Quiet, Begun, Over
      <3> QED
        BY <2>1, <2>3, <2>4, <2>5, <2>6, <2>7, <2>9, <3>3, <3>5, QuietKeeps DEF QuietStep
    <2>10. CASE o = "open"
      <3>1. op'["close"] = op["close"]
        BY <2>4, <2>10, OpNames
      <3>2. CloseOK(op["close"], ctx)'
        BY <2>1, <2>3, <3>1
      <3>3. CtxOK'
        BY <2>1, <2>2, <2>3, <2>4, <2>8, <2>10, <3>1 DEF CtxOK, CloseGoing
      <3>4. q.reg \notin {"no", "failed"} /\ q.kick \notin Over
        BY <2>1, <2>2, <2>3, <2>10, OpNames DEF OpOK, Passed, Over
      <3>5. HandleOK'
        BY <2>1, <2>2, <2>3, <2>4, <2>6, <2>10, <3>1, <3>4 DEF HandleOK, OpenOver, Over
      <3>6. HandleTypes'
        BY <2>1, <2>3, <2>4, <2>5, <2>6 DEF HandleTypes, HandleRecords
      <3> QED
        BY <2>4, <2>7, <3>2, <3>3, <3>5, <3>6 DEF XioCore
    <2> QED
      BY <2>1, <2>9, <2>10
  <1> QED
    BY <1>1, <1>2

\* An operation that loses references, whatever the others do: it leaves the
\* handle when it has none left.
LEMMA LiveLess ==
    ASSUME XioCore, NEW o \in Ops, op[o].ref > 0, op'[o].ref \in Nat,
           o = "close" => op[o].reg \notin {"no", "start"} /\ op'[o].reg \notin {"no", "start"},
           \A p \in Ops \ {o} : p \in LiveOps' <=> p \in LiveOps
    PROVE  /\ Cardinality(LiveOps) \in Nat
           /\ Cardinality(LiveOps)' = IF op'[o].ref = 0 THEN Cardinality(LiveOps) - 1
                                      ELSE Cardinality(LiveOps)
  <1>1. LiveOps \in SUBSET Ops /\ LiveOps' \in SUBSET Ops /\ o \in LiveOps
    BY DEF LiveOps
  <1>2. o \in LiveOps' <=> op'[o].ref # 0
    BY DEF LiveOps
  <1>3. LiveOps' = IF op'[o].ref = 0 THEN LiveOps \ {o} ELSE LiveOps
    BY <1>1, <1>2
  <1> QED
    BY <1>1, <1>3, OneLess, OpsCounted

\* The callback of the operation q is over.
Kicked(q, r) ==
  /\ r.state = "FINISHED" /\ r.kick \in Over /\ r.drv = q.drv /\ r.reg = q.reg
  /\ r.start = q.start /\ r.timer = q.timer /\ r.delivered = q.delivered

\* The kickout of an open, after a close was registered while it was opening: it
\* starts the close.
LEMMA KickoutStarts ==
    ASSUME XioCore, setup' = setup, op["open"].kick \in {"user", "timerUser"},
           handle.state = "OPENING_AND_CLOSING", NEW r, OpOK("open", r), Kicked(op["open"], r),
           op' = [op EXCEPT !["open"] = r, !["close"].reg = "start"],
           handle' \in HandleRecords, handle'.state = "CLOSING", ~handle'.open_op,
           handle'.ref = IF r.ref = 0 THEN handle.ref - 1 ELSE handle.ref,
           ctx' = ctx, running' = running, failed' = failed
    PROVE  XioCore'
  <1> DEFINE q == op["open"]
             c == op["close"]
             s == [c EXCEPT !.reg = "start"]
  <1>1. /\ OpOK("open", q) /\ q \in OpRecords /\ OpOK("close", c) /\ c \in OpRecords
        /\ HandleTypes /\ handle \in HandleRecords /\ HandleRefs
        /\ CtxOK /\ HandleOK /\ CloseOK(c, ctx)
    BY OpNames DEF XioCore, OpOK, HandleTypes, HandleRecords
  <1>2. q.drv = "called" /\ q.reg \notin {"no", "failed"} /\ q.kick \notin Over /\ q.ref > 0
    BY <1>1, OpNames, Held DEF OpOK, Common, Passed, OpRecords, OpStates, Begun, Ended, Over
  <1>3. c.state = "OPERATING" /\ c.reg = "no" /\ c.kick = "no"
    BY <1>1, <1>2 DEF HandleOK, OpenOver, OpOK, Common, Begun
  <1>4. c.start = "no" /\ c.drv = "no" /\ c.timer = "no" /\ ~ClosePassed(ctx) /\ ~c.down /\ ~c.canceled
    BY <1>1, <1>3 DEF CloseOK
  <1>5. r.drv = q.drv /\ r.reg = q.reg /\ r.kick \in Over /\ r.delivered = q.delivered
    BY DEF Kicked
  <1>6. OpOK("close", s)
    BY <1>1, <1>3, OpNames, RecCloseAsked
  <1>8. /\ s.state = c.state /\ s.reg = "start" /\ s.start = c.start /\ s.drv = c.drv
        /\ s.kick = c.kick /\ s.timer = c.timer /\ s.canceled = c.canceled /\ s.down = c.down
    BY <1>1 DEF OpRecords
  <1>9. op' = [op EXCEPT !["open"] = r, !["close"] = s]
    BY <1>1, OpNames DEF HandleTypes
  <1> HIDE DEF s
  <1>10. /\ op' \in [Ops -> OpRecords] /\ \A p \in Ops : OpOK(p, op[p])'
         /\ op'["open"] = r /\ op'["close"] = s /\ \A p \in Ops \ {"open", "close"} : op'[p] = op[p]
    <2>1. r \in OpRecords /\ s \in OpRecords /\ \A p \in Ops : OpOK(p, op[p])
      BY <1>6 DEF OpOK, XioCore
    <2>2. /\ op' \in [Ops -> OpRecords] /\ op'["open"] = r /\ op'["close"] = s
          /\ \A p \in Ops \ {"open", "close"} : op'[p] = op[p]
      BY <1>1, <1>9, <2>1, OpNames DEF HandleTypes
    <2>3. \A p \in Ops : OpOK(p, op'[p])
      BY <1>6, <2>1, <2>2
    <2>4. \A p \in Ops : OpOK(p, op[p])'
      BY <2>3 DEF OpOK, Timed
    <2> QED
      BY <2>2, <2>4
  <1>12. HandleRefs'
    <2>1. r.ref \in Nat
      BY DEF OpOK, OpRecords
    <2>2. \A p \in Ops \ {"open"} : p \in LiveOps' <=> p \in LiveOps
      BY <1>3, <1>8, <1>10 DEF LiveOps
    <2>3. /\ Cardinality(LiveOps) \in Nat
          /\ Cardinality(LiveOps)' = IF r.ref = 0 THEN Cardinality(LiveOps) - 1
                                     ELSE Cardinality(LiveOps)
      BY <1>2, <1>10, <2>1, <2>2, OpNames, LiveLess
    <2> QED
      BY <1>1, <2>3 DEF HandleRefs, B, HandleRecords
  <1>13. Outstanding' = Outstanding
    BY <1>5, <1>10, SameOutstanding
  <1>14. HandleTypes'
    BY <1>1, <1>10 DEF HandleTypes, HandleRecords
  <1>15. CloseOK(op["close"], ctx)'
    BY <1>3, <1>4, <1>8, <1>10 DEF CloseOK, Pretended, Ended
  <1>16. CtxOK'
    BY <1>1, <1>2, <1>4, <1>5, <1>8, <1>10, <1>13 DEF CtxOK, CloseGoing
  <1>17. HandleOK'
    BY <1>2, <1>3, <1>4, <1>5, <1>8, <1>10 DEF HandleOK, Pretended, Ended
  <1> QED
    BY <1>10, <1>12, <1>14, <1>15, <1>16, <1>17 DEF XioCore

\* The kickout of an open otherwise: a failed open leaves the handle failed.
LEMMA KickoutOpen ==
    ASSUME XioCore, setup' = setup, op["open"].kick \in {"user", "timerUser"},
           NEW r, NEW h, OpOK("open", r), Kicked(op["open"], r),
           Put("open", r, h), h \in HandleRecords, h.ref = handle.ref, ~h.open_op, h.close_op = handle.close_op,
           \/ handle.state = "OPENING_FAILED" /\ h.state = "OPEN_FAILED"
           \/ handle.state \in {"OPEN", "CLOSING", "CLOSED"} /\ h.state = handle.state,
           ctx' = ctx, running' = running, failed' = failed
    PROVE  XioCore'
  <1> DEFINE q == op["open"]
  <1>1. /\ OpOK("open", q) /\ q \in OpRecords /\ HandleTypes /\ HandleRefs
        /\ CtxOK /\ HandleOK /\ CloseOK(op["close"], ctx)
    BY OpNames DEF XioCore, OpOK
  <1>2. q.drv = "called" /\ q.ref > 0
    BY <1>1, OpNames, Held DEF OpOK, Common, Passed, OpRecords, OpStates, Begun, Ended
  <1>4. r.drv = q.drv /\ r.reg = q.reg /\ r.kick \in Over /\ r.delivered = q.delivered
    BY DEF Kicked
  <1>5. Apart => h.ref = B(h.state # "CLOSED") + Cardinality(LiveOps)
    BY <1>1 DEF HandleRefs, B
  <1>6. h.ref \in Int
    BY DEF HandleRecords
  <1>7. /\ op' \in [Ops -> OpRecords] /\ \A p \in Ops : OpOK(p, op[p])'
        /\ op'["open"] = r /\ \A p \in Ops \ {"open"} : op'[p] = op[p]
        /\ handle' \in HandleRecords /\ SameHandle(h) /\ HandleRefs'
    BY <1>2, <1>5, <1>6, OpNames, PutLive DEF HandleRecords
  <1>8. op'["close"] = op["close"]
    BY <1>7, OpNames
  <1>9. Outstanding' = Outstanding
    BY <1>4, <1>7, SameOutstanding
  <1>10. HandleTypes'
    BY <1>1, <1>7 DEF HandleTypes, HandleRecords
  <1>11. CloseOK(op["close"], ctx)'
    BY <1>1, <1>8
  <1>12. CtxOK'
    BY <1>1, <1>2, <1>4, <1>7, <1>8, <1>9 DEF CtxOK, CloseGoing
  <1>13. HandleOK'
    BY <1>1, <1>2, <1>4, <1>7, <1>8 DEF HandleOK, OpenOver
  <1> QED
    BY <1>7, <1>10, <1>11, <1>12, <1>13 DEF XioCore

\* The kickout of a close: the handle is closed.
LEMMA KickoutClose ==
    ASSUME XioCore, setup' = setup, op["close"].kick \in {"user", "timerUser"},
           op["close"].state = "FINISH_WAITING", NEW r, NEW h, OpOK("close", r), Kicked(op["close"], r),
           Put("close", r, h), h \in HandleRecords, h.state = "CLOSED",
           ~h.open_op, h.close_op = handle.close_op,
           \/ handle.state = "CLOSING" /\ h.ref = handle.ref - 1
           \/ handle.state = "CLOSED" /\ h.ref = handle.ref,
           ctx' = ctx, running' = running, failed' = failed
    PROVE  XioCore'
  <1> DEFINE q == op["close"]
  <1>1. /\ OpOK("close", q) /\ q \in OpRecords /\ HandleTypes /\ HandleRefs /\ handle \in HandleRecords
        /\ CtxOK /\ HandleOK /\ CloseOK(q, ctx)
    BY OpNames DEF XioCore, OpOK, HandleTypes, HandleRecords
  <1>2. q.reg \notin {"no", "start", "pass", "err", "failed"} /\ q.ref > 0 /\ q.start # "go"
        /\ q.drv \notin {"asked", "finished"}
    BY <1>1, OpNames, Held DEF CloseOK, OpOK, Common, Begun
  <1>4. /\ r.drv = q.drv /\ r.reg = q.reg /\ r.kick \in Over /\ r.start = q.start
        /\ r.timer = q.timer /\ r.state = "FINISHED"
    BY DEF Kicked
  <1>5. Apart => h.ref = B(h.state # "CLOSED") + Cardinality(LiveOps)
    <2>1. LiveOps \in SUBSET Ops
      BY DEF LiveOps
    <2>2. Cardinality(LiveOps) \in Nat
      BY <2>1, OpsCounted
    <2> QED
      BY <1>1, <2>2 DEF HandleRefs, B
  <1>6. h.ref \in Int
    BY DEF HandleRecords
  <1>7. /\ op' \in [Ops -> OpRecords] /\ \A p \in Ops : OpOK(p, op[p])'
        /\ op'["close"] = r /\ \A p \in Ops \ {"close"} : op'[p] = op[p]
        /\ handle' \in HandleRecords /\ SameHandle(h) /\ HandleRefs'
    BY <1>2, <1>4, <1>5, <1>6, OpNames, PutLive DEF HandleRecords
  <1>8. Outstanding' = Outstanding /\ op'["open"] = op["open"]
    BY <1>7, OnlyClose
  <1>9. HandleTypes'
    BY <1>1, <1>7 DEF HandleTypes, HandleRecords
  <1>10. Pretended(r) <=> Pretended(q)
    BY <1>4 DEF Pretended, Ended
  <1>11. CloseOK(op["close"], ctx)'
    BY <1>1, <1>2, <1>4, <1>7, <1>10 DEF CloseOK
  <1>12. CtxOK'
    BY <1>1, <1>4, <1>7, <1>8 DEF CtxOK, CloseGoing
  <1>13. op["open"].reg \in {"no", "failed"} \/ op["open"].drv = "called"
    BY <1>1 DEF HandleOK, CtxOK, CloseGoing, Pretended, Ended
  <1>14. HandleOK'
    BY <1>1, <1>4, <1>7, <1>8, <1>10, <1>13 DEF HandleOK
  <1> QED
    BY <1>7, <1>9, <1>11, <1>12, <1>14 DEF XioCore

\* globus_l_xio_open_close_callback_kickout.
LEMMA OpenCloseKickoutKeeps ==
    ASSUME XioCore, setup' = setup, NEW o \in Ops, OpenCloseKickout(o)
    PROVE  XioCore'
  <1> DEFINE q == op[o]
             starts == handle.state = "OPENING_AND_CLOSING"
             k == After(o, IF starts THEN "closing" ELSE "done")
             r == [q EXCEPT !.state = "FINISHED", !.ref = @ - 1, !.kick = k]
             h == [handle EXCEPT !.open_op = FALSE]
             h2 == CASE handle.state = "OPENING_FAILED" -> [h EXCEPT !.state = "OPEN_FAILED"]
                     [] starts -> [h EXCEPT !.state = "CLOSING"]
                     [] handle.state = "CLOSING" /\ o = "close" ->
                          HandleDec([h EXCEPT !.state = "CLOSED"])
                     [] OTHER -> h
  <1>1. CASE Abort
    BY <1>1, AbortKeeps
  <1>2. CASE ~Abort
    <2>1. /\ o \in {"open", "close"} /\ q.kick \in {"user", "timerUser"} /\ q.state = "FINISH_WAITING"
          /\ o = "open" => handle.state \notin {"CLIENT", "OPENING", "OPEN_FAILED"}
          /\ o = "close" => handle.state \in {"CLOSING", "CLOSED"}
          /\ op' = IF starts THEN [op EXCEPT ![o] = r, !["close"].reg = "start"]
                   ELSE [op EXCEPT ![o] = r]
          /\ handle' = IF r.ref = 0 THEN HandleDec(h2) ELSE h2
          /\ ctx' = ctx /\ running' = running /\ failed' = failed
      BY <1>2 DEF OpenCloseKickout, InUser
    <2>2. OpOK(o, q) /\ q \in OpRecords /\ handle \in HandleRecords
      BY DEF XioCore, OpOK, HandleTypes, HandleRecords
    <2>3. k \in Over
      <3>1. (IF starts THEN "closing" ELSE "done") \in {"closing", "done"}
        OBVIOUS
      <3> QED
        BY <3>1, AfterOver
    <2> HIDE DEF k
    <2>4. OpOK(o, r)
      BY <2>1, <2>2, <2>3, RecKickout
    <2>5. Kicked(q, r)
      BY <2>2, <2>3 DEF OpRecords, Kicked
    <2> HIDE DEF r
    <2>6. /\ h \in HandleRecords /\ h.state = handle.state /\ h.ref = handle.ref
          /\ ~h.open_op /\ h.close_op = handle.close_op
      BY <2>2 DEF HandleRecords
    <2> HIDE DEF h
    <2>7. CASE starts
      <3>1. /\ o = "open" /\ op' = [op EXCEPT !["open"] = r, !["close"].reg = "start"]
            /\ h2 = [h EXCEPT !.state = "CLOSING"]
        BY <2>1, <2>7
      <3>2. h2 \in HandleRecords /\ h2.state = "CLOSING" /\ h2.ref = handle.ref /\ ~h2.open_op
        BY <2>6, <3>1 DEF HandleRecords, HandleStates
      <3> HIDE DEF h2
      <3>3. /\ handle' \in HandleRecords /\ handle'.state = "CLOSING" /\ ~handle'.open_op
            /\ handle'.ref = IF r.ref = 0 THEN handle.ref - 1 ELSE handle.ref
        BY <2>1, <2>2, <3>2 DEF HandleRecords, HandleDec
      <3> QED
        BY <2>1, <2>4, <2>5, <2>7, <3>1, <3>3, KickoutStarts
    <2>8. CASE ~starts /\ o = "open"
      <3>1. h2 = IF handle.state = "OPENING_FAILED" THEN [h EXCEPT !.state = "OPEN_FAILED"] ELSE h
        BY <2>8, OpNames
      <3>2. handle.state \in {"OPENING_FAILED", "OPEN", "CLOSING", "CLOSED"}
        BY <2>1, <2>2, <2>8 DEF HandleRecords, HandleStates
      <3>3. /\ h2 \in HandleRecords /\ h2.ref = handle.ref
            /\ ~h2.open_op /\ h2.close_op = handle.close_op
            /\ \/ handle.state = "OPENING_FAILED" /\ h2.state = "OPEN_FAILED"
               \/ handle.state \in {"OPEN", "CLOSING", "CLOSED"} /\ h2.state = handle.state
        BY <2>6, <3>1, <3>2 DEF HandleRecords, HandleStates
      <3> HIDE DEF h2
      <3>4. Put("open", r, h2)
        BY <2>1, <2>8 DEF Put
      <3> QED
        BY <2>1, <2>4, <2>5, <2>8, <3>3, <3>4, KickoutOpen
    <2>9. CASE ~starts /\ o = "close"
      <3>1. /\ h2 \in HandleRecords /\ h2.state = "CLOSED"
            /\ ~h2.open_op /\ h2.close_op = handle.close_op
            /\ \/ handle.state = "CLOSING" /\ h2.ref = handle.ref - 1
               \/ handle.state = "CLOSED" /\ h2.ref = handle.ref
        <4>1. CASE handle.state = "CLOSING"
          <5>1. h2 = HandleDec([h EXCEPT !.state = "CLOSED"])
            BY <2>9, <4>1
          <5> QED
            BY <2>6, <4>1, <5>1, ClosedHandle
        <4>2. CASE handle.state = "CLOSED"
          <5>1. h2 = h
            BY <2>9, <4>2
          <5> QED
            BY <2>6, <4>2, <5>1
        <4> QED
          BY <2>1, <2>9, <4>1, <4>2
      <3> HIDE DEF h2
      <3>2. Put("close", r, h2)
        BY <2>1, <2>9 DEF Put
      <3> QED
        BY <2>1, <2>4, <2>5, <2>9, <3>1, <3>2, KickoutClose
    <2> QED
      BY <2>1, <2>7, <2>8, <2>9
  <1> QED
    BY <1>1, <1>2

\* What a delivery does to the context and the close: the last operation lets a
\* close go that waits for it.
LEMMA DeliverDoes ==
    ASSUME XioCore, NEW o \in Outstanding
    PROVE  LET c2 == Deliver(o).ctx
               how == Deliver(o).close
               last == ctx.out = 1 /\ ~ctx.close_started /\ ctx.close_op
           IN
           /\ c2 \in CtxRecords /\ c2.out = ctx.out - 1 /\ c2.close_op = ctx.close_op
           /\ c2.state = CASE ctx.state = "OPEN_FAILED" -> "CLOSED"
                           [] ctx.state = "OPENING_AND_CLOSING" -> "CLOSING"
                           [] OTHER -> ctx.state
           /\ c2.close_started = (ctx.close_started \/ how # "no")
           /\ how \in {"no", "go", "finish"}
           /\ how = "go" => last /\ ctx.state = "CLOSING"
           /\ how = "finish" => last /\ ctx.state = "OPENING_AND_CLOSING"
  <1> DEFINE last == ctx.out = 1 /\ ~ctx.close_started /\ ctx.close_op
             closing == CASE ctx.state = "OPENING_AND_CLOSING" -> "finish"
                          [] ctx.state = "CLOSING" -> "go"
                          [] OTHER -> "no"
             t == CASE ctx.state = "OPEN_FAILED" -> "CLOSED"
                    [] ctx.state = "OPENING_AND_CLOSING" -> "CLOSING"
                    [] OTHER -> ctx.state
             n == ctx.out - 1
             b == ctx.close_started \/ (last /\ closing # "no")
             how == IF last THEN closing ELSE "no"
             c2 == [ctx EXCEPT !.out = n, !.state = t, !.close_started = b]
  <1>1. ctx \in CtxRecords /\ ctx.out \in Nat /\ ctx.out = Cardinality(Outstanding)
    BY DEF XioCore, HandleTypes, CtxRecords, CtxOK
  <1>2. ctx.out # 0
    <2>1. Outstanding \in SUBSET Ops
      BY DEF Outstanding
    <2> QED
      BY <1>1, <2>1, OpsCounted
  <1>3. n \in Nat /\ t \in CtxStates /\ b \in BOOLEAN /\ closing \in {"no", "go", "finish"}
    BY <1>1, <1>2 DEF CtxRecords, CtxStates
  <1>4. Deliver(o).ctx = c2 /\ Deliver(o).close = how
    BY <1>1 DEF Deliver, CtxRecords
  <1>5. b = (ctx.close_started \/ how # "no")
    BY <1>1 DEF CtxRecords
  <1>6. /\ how \in {"no", "go", "finish"}
        /\ how = "go" => last /\ ctx.state = "CLOSING"
        /\ how = "finish" => last /\ ctx.state = "OPENING_AND_CLOSING"
    <2>1. CASE ctx.state = "OPENING_AND_CLOSING"
      BY <2>1
    <2>2. CASE ctx.state = "CLOSING"
      BY <2>2
    <2>3. CASE ctx.state \notin {"CLOSING", "OPENING_AND_CLOSING"}
      BY <2>3
    <2> QED
      BY <2>1, <2>2, <2>3
  <1> HIDE DEF n, t, b, how
  <1>7. /\ c2 \in CtxRecords /\ c2.out = n /\ c2.close_op = ctx.close_op /\ c2.state = t
        /\ c2.close_started = b
    BY <1>1, <1>3 DEF CtxRecords
  <1> QED
    BY <1>4, <1>5, <1>6, <1>7 DEF n, t

\* The close after a delivery.
LEMMA CloseAfterOK ==
    ASSUME XioCore, NEW o \in Outstanding
    PROVE  LET c == op["close"]
               how == Deliver(o).close
               k == CloseAfter(c, how)
           IN
           /\ OpOK("close", k) /\ k.state = c.state /\ k.reg = c.reg /\ k.kick = c.kick
           /\ k.timer = c.timer /\ k.ref = c.ref /\ k.down = c.down /\ k.canceled = c.canceled
           /\ how = "no" => k.start = c.start /\ k.drv = c.drv
           /\ how = "go" => k.start = "go" /\ k.drv = "no"
           /\ how = "finish" => k.start = "no" /\ k.drv = "finished"
           /\ how # "no" => /\ c.start = "no" /\ c.drv = "no" /\ c.state \in Begun
                            /\ c.reg \notin {"no", "start", "pass", "err", "failed"}
                            /\ op["open"].drv = "called"
  <1> DEFINE c == op["close"]
             how == Deliver(o).close
             k == CloseAfter(c, how)
  <1>1. OpOK("close", c) /\ c \in OpRecords
    BY OpNames DEF XioCore, OpOK
  <1>2. /\ how \in {"no", "go", "finish"}
        /\ how # "no" => ctx.close_op /\ ctx.state \in {"CLOSING", "OPENING_AND_CLOSING"}
    BY DeliverDoes
  <1>3. how # "no" => /\ c.start = "no" /\ c.drv = "no" /\ c.state \in Begun
                      /\ c.reg \notin {"no", "start", "pass", "err", "failed"}
                      /\ op["open"].drv = "called"
    <2>1. how # "no" => ClosePassed(ctx) /\ ctx.state # "CLOSED" /\ Outstanding # {}
      BY <1>2 DEF ClosePassed
    <2> QED
      BY <2>1, CloseCanStart
  <1> HIDE DEF how
  <1>4. CASE how = "no"
    BY <1>1, <1>4 DEF CloseAfter, how
  <1>5. CASE how = "go"
    <2> DEFINE s == "go"
               r == [c EXCEPT !.start = s]
    <2>1. k = r
      BY <1>5 DEF CloseAfter
    <2>2. c.state # "NONE" /\ (s = c.start \/ (c.start = "no" /\ s = "go"))
      BY <1>3, <1>5 DEF Begun
    <2> HIDE DEF s, k
    <2>3. OpOK("close", r)
      BY <1>1, <2>2, OpNames, RecGo
    <2>4. /\ r.state = c.state /\ r.reg = c.reg /\ r.kick = c.kick /\ r.timer = c.timer
          /\ r.ref = c.ref /\ r.down = c.down /\ r.canceled = c.canceled /\ r.start = s
          /\ r.drv = c.drv
      BY <1>1 DEF OpRecords
    <2> QED
      BY <1>3, <1>5, <2>1, <2>3, <2>4 DEF k, how, s
  <1>6. CASE how = "finish"
    <2> DEFINE r == [c EXCEPT !.drv = "finished", !.ok = TRUE]
    <2>1. k = r
      BY <1>6 DEF CloseAfter
    <2> HIDE DEF k
    <2>2. OpOK("close", r)
      BY <1>1, <1>3, <1>6, OpNames, RecCloseFinished
    <2>3. /\ r.state = c.state /\ r.reg = c.reg /\ r.kick = c.kick /\ r.timer = c.timer
          /\ r.ref = c.ref /\ r.down = c.down /\ r.canceled = c.canceled /\ r.start = c.start
          /\ r.drv = "finished"
      BY <1>1 DEF OpRecords
    <2> QED
      BY <1>3, <1>6, <2>1, <2>2, <2>3 DEF k, how
  <1> QED
    BY <1>2, <1>4, <1>5, <1>6 DEF how

\* An operation is delivered: it is no longer outstanding.
LEMMA DeliverKeeps ==
    ASSUME XioCore, setup' = setup, NEW o \in Outstanding, NEW r, OpOK(o, r), op[o].ref > 0,
           op[o].drv = "called", r.drv = "called", r.delivered, r.kick = op[o].kick,
           r.reg = op[o].reg,
           op' = [op EXCEPT ![o] = r, !["close"] = CloseAfter(op["close"], Deliver(o).close)],
           handle' = IF r.ref = 0 THEN HandleDec(handle) ELSE handle,
           ctx' = Deliver(o).ctx, running' = running, failed' = failed
    PROVE  XioCore'
  <1> DEFINE q == op[o]
             c == op["close"]
             how == Deliver(o).close
             k == CloseAfter(c, how)
             last == ctx.out = 1 /\ ~ctx.close_started /\ ctx.close_op
  <1>1. /\ HandleTypes /\ HandleRefs /\ handle \in HandleRecords /\ CtxOK /\ HandleOK /\ CloseOK(c, ctx)
        /\ o \in Ops \ {"close"}
    BY DEF XioCore, HandleTypes, HandleRecords, Outstanding
  <1>2. /\ ctx' \in CtxRecords /\ ctx'.out = ctx.out - 1 /\ ctx'.close_op = ctx.close_op
        /\ ctx'.state = CASE ctx.state = "OPEN_FAILED" -> "CLOSED"
                          [] ctx.state = "OPENING_AND_CLOSING" -> "CLOSING"
                          [] OTHER -> ctx.state
        /\ ctx'.close_started = (ctx.close_started \/ how # "no")
        /\ how \in {"no", "go", "finish"}
        /\ how = "go" => last /\ ctx.state = "CLOSING"
        /\ how = "finish" => last /\ ctx.state = "OPENING_AND_CLOSING"
    BY DeliverDoes
  <1>3. /\ OpOK("close", k) /\ k.state = c.state /\ k.reg = c.reg /\ k.kick = c.kick
        /\ k.timer = c.timer /\ k.ref = c.ref /\ k.down = c.down /\ k.canceled = c.canceled
        /\ how = "no" => k.start = c.start /\ k.drv = c.drv
        /\ how = "go" => k.start = "go" /\ k.drv = "no"
        /\ how = "finish" => k.start = "no" /\ k.drv = "finished"
        /\ how # "no" => /\ c.start = "no" /\ c.drv = "no" /\ c.state \in Begun
                         /\ c.reg \notin {"no", "start", "pass", "err", "failed"}
                         /\ op["open"].drv = "called"
    BY CloseAfterOK
  <1>0. op' = [op EXCEPT ![o] = r, !["close"] = k]
    OBVIOUS
  <1> HIDE DEF how, k
  <1>4. /\ op' \in [Ops -> OpRecords] /\ \A p \in Ops : OpOK(p, op[p])'
        /\ op'[o] = r /\ op'["close"] = k /\ \A p \in Ops \ {o, "close"} : op'[p] = op[p]
    <2>1. r \in OpRecords /\ k \in OpRecords /\ \A p \in Ops : OpOK(p, op[p])
      BY <1>3 DEF OpOK, XioCore
    <2>2. /\ op' \in [Ops -> OpRecords] /\ op'[o] = r /\ op'["close"] = k
          /\ \A p \in Ops \ {o, "close"} : op'[p] = op[p]
      BY <1>0, <1>1, <2>1, OpNames DEF HandleTypes
    <2>3. \A p \in Ops : OpOK(p, op'[p])
      BY <1>3, <2>1, <2>2
    <2>4. \A p \in Ops : OpOK(p, op[p])'
      BY <2>3 DEF OpOK, Timed
    <2> QED
      BY <2>2, <2>4
  <1>5. /\ handle' \in HandleRecords /\ SameHandle(handle)
        /\ handle'.ref = IF r.ref = 0 THEN handle.ref - 1 ELSE handle.ref
    BY <1>1 DEF HandleRecords, HandleDec
  <1>6. HandleRefs'
    <2>1. r.ref \in Nat
      BY DEF OpOK, OpRecords
    <2>2. \A p \in Ops \ {o} : p \in LiveOps' <=> p \in LiveOps
      BY <1>1, <1>3, <1>4 DEF LiveOps
    <2>3. /\ Cardinality(LiveOps) \in Nat
          /\ Cardinality(LiveOps)' = IF r.ref = 0 THEN Cardinality(LiveOps) - 1
                                     ELSE Cardinality(LiveOps)
      BY <1>1, <1>4, <2>1, <2>2, LiveLess
    <2> QED
      BY <1>1, <1>5, <2>3 DEF HandleRefs, B, HandleRecords
  <1>7. Outstanding' = Outstanding \ {o}
    BY <1>1, <1>4 DEF Outstanding
  <1>8. /\ ctx.out \in Nat /\ ctx.out > 0 /\ ctx'.out = Cardinality(Outstanding)'
        /\ ctx.out = 1 => Outstanding' = {}
    BY <1>2, <1>7, OneGone
  <1>9. HandleTypes'
    BY <1>1, <1>2, <1>4, <1>5 DEF HandleTypes, HandleRecords, CtxRecords
  <1>10. /\ ctx.state \in {"CLOSING", "OPENING_AND_CLOSING"} <=> ctx'.state = "CLOSING"
         /\ ctx'.state # "OPENING_AND_CLOSING"
         /\ ctx.state = "CLOSED" => ctx'.state = "CLOSED"
         /\ how # "no" => ctx'.state = "CLOSING" /\ ctx.out = 1 /\ ctx.close_op
    BY <1>2
  <1>11. ClosePassed(ctx') => ClosePassed(ctx)
    BY <1>2, <1>10 DEF ClosePassed
  <1>12. Pretended(k) => Pretended(c) /\ how = "no"
    BY <1>2, <1>3 DEF Pretended, Begun, Ended
  <1>13. CloseOK(op["close"], ctx)'
    <2>1. CASE how = "no"
      BY <1>1, <1>3, <1>4, <1>10, <1>11, <1>12, <2>1 DEF CloseOK
    <2>2. CASE how # "no"
      BY <1>2, <1>3, <1>4, <1>12, <2>2 DEF CloseOK
    <2> QED
      BY <2>1, <2>2
  <1>14. op["open"].drv = "called" => op'["open"].drv = "called"
    BY <1>1, <1>4, OpNames
  <1>15. CtxOK'
    <2>1. CloseGoing' => op'["open"].drv = "called"
      <3>1. CloseGoing' => CloseGoing
        BY <1>2, <1>3, <1>4, <1>10, <1>11 DEF CloseGoing, ClosePassed
      <3> QED
        BY <1>1, <1>14, <3>1 DEF CtxOK
    <2>2. op'["close"].start # "no" \/ op'["close"].drv # "no" \/ ctx'.close_started =>
            Outstanding' = {} /\ ctx'.state \in {"CLOSING", "OPENING_AND_CLOSING", "CLOSED"}
      <3>1. CASE how = "no"
        BY <1>1, <1>2, <1>3, <1>4, <3>1 DEF CtxOK
      <3>2. CASE how # "no"
        BY <1>8, <1>10, <3>2
      <3> QED
        BY <3>1, <3>2
    <2>3. ctx'.close_op => ctx'.state \in {"CLOSING", "OPENING_AND_CLOSING", "CLOSED"}
      BY <1>1, <1>2, <1>10 DEF CtxOK
    <2> QED
      BY <1>8, <2>1, <2>2, <2>3 DEF CtxOK
  <1>16. HandleOK'
    <2>1. /\ op'["open"].reg = op["open"].reg /\ op'["open"].kick = op["open"].kick
          /\ op'["open"].drv = op["open"].drv
      BY <1>1, <1>4, OpNames
    <2>2. k.drv = "called" => c.drv = "called"
      BY <1>2, <1>3
    <2> QED
      BY <1>1, <1>3, <1>4, <1>5, <1>12, <2>1, <2>2 DEF HandleOK, OpenOver
  <1> QED
    BY <1>4, <1>6, <1>9, <1>13, <1>15, <1>16 DEF XioCore

\* globus_i_xio_will_block_cb.
LEMMA WillBlockKeeps ==
    ASSUME XioCore, setup' = setup, NEW o \in Ops, WillBlock(o)
    PROVE  XioCore'
  <1> DEFINE q == op[o]
             r == [q EXCEPT !.delivered = TRUE]
  <1>1. CASE Abort
    BY <1>1, AbortKeeps
  <1>2. CASE ~Abort
    <2>1. /\ o # "close" /\ q.kick = "user" /\ ~q.delivered /\ ctx' = Deliver(o).ctx
          /\ op' = [op EXCEPT ![o].delivered = TRUE,
                              !["close"] = CloseAfter(@, Deliver(o).close)]
          /\ handle' = handle /\ running' = running /\ failed' = failed
      BY <1>2 DEF WillBlock
    <2>2. OpOK(o, q) /\ q \in OpRecords /\ op \in [Ops -> OpRecords]
      BY DEF XioCore, OpOK, HandleTypes
    <2>3. q.drv = "called" /\ q.ref > 0 /\ q.ref \in Nat
      BY <2>1, <2>2, Held DEF OpOK, Common, Passed, OpRecords, OpStates, Begun, Ended
    <2>4. o \in Outstanding
      BY <2>1, <2>3 DEF Outstanding
    <2>5. OpOK(o, r)
      BY <2>2, <2>3, RecBlocked
    <2>6. r.ref = q.ref /\ r.drv = q.drv /\ r.kick = q.kick /\ r.reg = q.reg /\ r.delivered
      BY <2>2 DEF OpRecords
    <2>7. op' = [op EXCEPT ![o] = r, !["close"] = CloseAfter(op["close"], Deliver(o).close)]
      BY <2>1, <2>2, OpNames
    <2> HIDE DEF r
    <2>8. handle' = IF r.ref = 0 THEN HandleDec(handle) ELSE handle
      BY <2>1, <2>3, <2>6
    <2> QED
      BY <2>1, <2>3, <2>4, <2>5, <2>6, <2>7, <2>8, DeliverKeeps
  <1> QED
    BY <1>1, <1>2

\* globus_xio_driver_open_delivered, _write_delivered and _read_delivered.
LEMMA DeliveredKeeps ==
    ASSUME XioCore, setup' = setup, NEW o \in Ops, Delivered(o)
    PROVE  XioCore'
  <1> DEFINE q == op[o]
             r == [q EXCEPT !.delivered = TRUE, !.returned = TRUE, !.ref = @ - 1]
             k == CloseAfter(op["close"], Deliver(o).close)
  <1>1. CASE Abort
    BY <1>1, AbortKeeps
  <1>2. CASE ~Abort
    <2>1. /\ o # "close" /\ q.drv = "called" /\ ~q.returned
          /\ ctx' = IF q.delivered THEN ctx ELSE Deliver(o).ctx
          /\ op' = [op EXCEPT ![o] = r,
                       !["close"] = IF q.delivered THEN @ ELSE CloseAfter(@, Deliver(o).close)]
          /\ handle' = IF r.ref = 0 THEN HandleDec(handle) ELSE handle
          /\ running' = running /\ failed' = failed
      BY <1>2 DEF Delivered
    <2>2. /\ OpOK(o, q) /\ q \in OpRecords /\ op \in [Ops -> OpRecords]
          /\ running \in BOOLEAN /\ failed \in BOOLEAN
      BY DEF XioCore, OpOK, HandleTypes
    <2>3. q.ref > 0 /\ o \in Ops \ {"close"}
      BY <2>1, <2>2, Held
    <2>4. OpOK(o, r)
      BY <2>1, <2>2, RecDelivered
    <2>5. r.drv = q.drv /\ r.kick = q.kick /\ r.reg = q.reg /\ r.delivered = TRUE
      BY <2>2 DEF OpRecords
    <2>6. op' = [op EXCEPT ![o] = r, !["close"] = IF q.delivered THEN op["close"] ELSE k]
      BY <2>1, <2>2, OpNames
    <2> HIDE DEF r, k
    <2>7. CASE q.delivered
      <3>1. op' = [op EXCEPT ![o] = r]
        BY <2>1, <2>2, <2>6, <2>7, OpNames
      <3>2. Puts(o, r) /\ ctx' = ctx
        BY <2>1, <2>7, <3>1 DEF Puts, Put
      <3>3. r.delivered = q.delivered
        BY <2>2, <2>5, <2>7 DEF OpRecords
      <3> QED
        BY <2>1, <2>2, <2>3, <2>4, <2>5, <3>2, <3>3, TaskQuiet
    <2>8. CASE ~q.delivered
      <3>1. o \in Outstanding
        BY <2>1, <2>3, <2>8 DEF Outstanding
      <3>2. /\ op' = [op EXCEPT ![o] = r, !["close"] = CloseAfter(op["close"], Deliver(o).close)]
            /\ ctx' = Deliver(o).ctx
        BY <2>1, <2>6, <2>8 DEF k
      <3> QED
        BY <2>1, <2>3, <2>4, <2>5, <3>1, <3>2, DeliverKeeps
    <2> QED
      BY <2>7, <2>8
  <1> QED
    BY <1>1, <1>2

-----------------------------------------------------------------------------
(* The theorems                                                             *)

\* The invariant holds initially: nothing is registered.
LEMMA XioInit ==
    ASSUME Init PROVE XioCore
  <1>1. NoOp \in OpRecords
    BY DEF NoOp, OpRecords, OpStates
  <1>2. op \in [Ops -> OpRecords] /\ \A o \in Ops : op[o] = NoOp
    BY <1>1 DEF Init
  <1>3. \A o \in Ops : OpOK(o, op[o])
    <2>1. \A o \in Ops : Common(o, NoOp) /\ Passed(o, NoOp) /\ Timed(o, NoOp)
      BY DEF NoOp, Common, Passed, Timed, HoldersOf, B, Begun, Ended
    <2> QED
      BY <1>1, <1>2, <2>1 DEF OpOK
  <1>4. HandleTypes
    <2>1. handle \in HandleRecords
      BY DEF Init, HandleRecords, HandleStates
    <2>2. ctx \in CtxRecords
      BY DEF Init, CtxRecords, CtxStates
    <2>3. setup \in Setups /\ running \in BOOLEAN /\ failed \in BOOLEAN
      BY DEF Init
    <2> QED
      BY <1>2, <2>1, <2>2, <2>3 DEF HandleTypes, HandleRecords, CtxRecords
  <1>5. op["close"] = NoOp /\ op["open"] = NoOp
    BY <1>2, OpNames
  <1>6. CloseOK(op["close"], ctx)
    BY <1>5 DEF Init, NoOp, CloseOK, ClosePassed, Pretended, Ended
  <1>7. Outstanding = {} /\ LiveOps = {}
    BY <1>2 DEF Outstanding, LiveOps, NoOp
  <1>8. Cardinality(Outstanding) = 0 /\ Cardinality(LiveOps) = 0
    BY <1>7, FS_EmptySet
  <1>9. CtxOK
    BY <1>5, <1>7, <1>8 DEF Init, NoOp, CtxOK, CloseGoing, ClosePassed
  <1>10. HandleOK
    BY <1>5 DEF Init, NoOp, HandleOK, Pretended, Ended
  <1>11. HandleRefs
    BY <1>8 DEF Init, HandleRefs, B
  <1> QED
    BY <1>3, <1>4, <1>6, <1>9, <1>10, <1>11 DEF XioCore

\* Every step keeps the invariant.
LEMMA XioNext ==
    ASSUME XioCore, Next PROVE XioCore'
  <1>1. setup' = setup
    BY DEF Next
  <1>2. CASE Application
    BY <1>1, <1>2, RegisterOpenKeeps, RegisterDataKeeps, HandleCancelKeeps, RegisterCloseKeeps
       DEF Application
  <1>3. CASE Registration
    <2>1. CASE PassOpen \/ \E d \in Data : PassData(d)
      BY <1>1, <2>1, PassOpenKeeps, PassDataKeeps
    <2>2. CASE \E o \in Ops : RegisterReturn(o) \/ PassFailed(o) \/ RegisterErr(o)
      BY <1>1, <2>2, RegisterReturnKeeps, PassFailedKeeps, RegisterErrKeeps
    <2>3. CASE RegisterCloseStart \/ PassClose \/ StartClose \/ StartCloseReturn
      BY <1>1, <2>3, RegisterCloseStartKeeps, PassCloseKeeps, StartCloseKeeps, StartCloseReturnKeeps
    <2>4. CASE StartCloseRefused \/ RegisterCloseReturn \/ RegisterCloseErr
      BY <1>1, <2>4, StartCloseRefusedKeeps, RegisterCloseReturnKeeps, RegisterCloseErrKeeps
    <2> QED
      BY <1>3, <2>1, <2>2, <2>3, <2>4 DEF Registration
  <1>4. CASE \E o \in Ops, ok \in BOOLEAN : DriverFinish(o, ok)
    BY <1>1, <1>4, DriverFinishKeeps
  <1>5. CASE Callbacks
    <2>1. CASE UnopenedClose \/ StartedClose
      BY <1>1, <2>1, UnopenedCloseKeeps, StartedCloseKeeps
    <2>2. CASE \E o \in Ops : OpenCloseCallback(o) \/ OpenCloseKickout(o)
      BY <1>1, <2>2, OpenCloseCallbackKeeps, OpenCloseKickoutKeeps
    <2>3. CASE \E d \in Data : ReadWriteCallback(d) \/ ReadWriteKickout(d)
      BY <1>1, <2>3, ReadWriteCallbackKeeps, ReadWriteKickoutKeeps
    <2>4. CASE \E o \in Ops : Delivered(o)
      BY <1>1, <2>4, DeliveredKeeps
    <2> QED
      BY <1>5, <2>1, <2>2, <2>3, <2>4 DEF Callbacks
  <1>6. CASE \E o \in Ops : WillBlock(o)
    BY <1>1, <1>6, WillBlockKeeps
  <1>7. CASE \E S \in SUBSET Ops : Poll(S)
    BY <1>1, <1>7, PollKeeps
  <1>8. CASE Timer
    BY <1>1, <1>8, TimeoutCallbackKeeps, RelistKeeps, TimeoutAnswerKeeps DEF Timer
  <1> QED
    BY <1>2, <1>3, <1>4, <1>5, <1>6, <1>7, <1>8 DEF Next

\* A step that changes nothing keeps the invariant.
LEMMA XioStutter ==
    ASSUME XioCore, UNCHANGED vars PROVE XioCore'
  <1>1. /\ handle' = handle /\ ctx' = ctx /\ op' = op /\ setup' = setup /\ running' = running
        /\ failed' = failed
    BY DEF vars
  <1>2. \A p \in Ops : OpOK(p, op[p])'
    BY <1>1 DEF XioCore, OpOK, Timed
  <1>3. HandleTypes' /\ CloseOK(op["close"], ctx)'
    BY <1>1 DEF XioCore, HandleTypes
  <1>4. Outstanding' = Outstanding /\ LiveOps' = LiveOps
    BY <1>1 DEF Outstanding, LiveOps
  <1>5. CtxOK' /\ HandleOK' /\ HandleRefs'
    BY <1>1, <1>4 DEF XioCore, CtxOK, CloseGoing, HandleOK, OpenOver, HandleRefs
  <1> QED
    BY <1>2, <1>3, <1>5 DEF XioCore

\* The invariant of the handle, its context and its operations: references,
\* outstanding operations and the place of the open and the close agree.
THEOREM XioCoreHolds == Spec => []XioCore
  <1>1. Init => XioCore
    BY XioInit
  <1>2. XioCore /\ [Next]_vars => XioCore'
    BY XioNext, XioStutter
  <1> QED
    BY <1>1, <1>2, PTL DEF Spec

\* The driver's close function is called only when every other operation passed
\* to the driver was delivered, and none is passed to it afterwards, whatever is
\* canceled, refused, timed out or delivered early by a blocking application
\* (outstanding_operations and close_op in globus_xio_pass.c).
THEOREM CloseIsLast == Spec => []CloseBarrier
  <1>1. XioCore => CloseBarrier
    <2>1. SUFFICES ASSUME XioCore, op["close"].start \in {"calling", "done"} \/ op["close"].drv # "no"
                   PROVE  \A o \in Ops \ {"close"} : op[o].drv # "no" => op[o].delivered
      BY DEF CloseBarrier
    <2>2. Outstanding = {}
      BY <2>1 DEF XioCore, CtxOK
    <2> QED
      BY <2>2 DEF Outstanding
  <1> QED
    BY <1>1, XioCoreHolds, PTL

\* The application is called back once for every operation whose registration
\* succeeded, before it is freed, and never for one whose registration failed,
\* though the driver, the timer and the kickout of an open may each make the call.
THEOREM CallbackOnce == Spec => []CalledBackOnce
  <1>1. XioCore => CalledBackOnce
    <2>1. SUFFICES ASSUME XioCore, NEW o \in Ops
                   PROVE  /\ op[o].calls <= 1
                          /\ op[o].reg = "failed" => op[o].calls = 0
                          /\ op[o].state # "NONE" /\ op[o].ref = 0 /\ op[o].reg # "failed" =>
                               op[o].calls = 1
      BY DEF CalledBackOnce
    <2>2. op[o] \in OpRecords /\ Common(o, op[o])
      BY <2>1 DEF XioCore, OpOK
    <2> QED
      BY <2>2 DEF OpRecords, Common, HoldersOf, B
  <1> QED
    BY <1>1, XioCoreHolds, PTL

\* When no operation has a timeout and is refused, an operation has exactly the
\* references of those who still use it, and the handle those of its operations
\* and its own until it is closed: neither is freed early or leaked.
THEOREM ReferencesAccounted == ASSUME Apart PROVE Spec => []HandleInvariant
  <1>1. XioCore => HandleInvariant
    <2>1. SUFFICES ASSUME XioCore PROVE HandleInvariant
      OBVIOUS
    <2>2. \A o \in Ops : op[o].ref = Holders(o)
      BY <2>1 DEF XioCore, OpOK, Common, Holders, HoldersOf
    <2>3. handle.ref = B(handle.state # "CLOSED") + Cardinality(LiveOps)
      BY <2>1 DEF XioCore, HandleRefs
    <2>4. LiveOps \in SUBSET Ops
      BY DEF LiveOps
    <2>5. handle.ref \in Nat
      BY <2>3, <2>4, OpsCounted DEF B
    <2>6. TypeOK
      BY <2>1, <2>5, XioAssumption DEF XioCore, HandleTypes, TypeOK
    <2> QED
      BY <2>2, <2>3, <2>6 DEF HandleInvariant, RefsAccounted, LiveOps
  <1> QED
    BY <1>1, XioCoreHolds, PTL

\* While the timer asks the application about a timeout, the operation's callback
\* has not been made and the operation is not freed under the timer.
THEOREM AskedFirst == ASSUME Apart PROVE Spec => []AskedBeforeCallback
  <1>1. XioCore => AskedBeforeCallback
    <2>1. SUFFICES ASSUME XioCore, NEW o \in Ops, op[o].timer = "asking"
                   PROVE  op[o].calls = 0 /\ op[o].state \in {"TIMEOUT_PENDING", "FINISH_WAITING"}
                          /\ op[o].ref > 1
      BY DEF AskedBeforeCallback
    <2>2. op[o] \in OpRecords /\ Common(o, op[o]) /\ Timed(o, op[o])
      BY <2>1 DEF XioCore, OpOK
    <2> QED
      BY <2>1, <2>2 DEF OpRecords, Common, Timed, HoldersOf, B
  <1> QED
    BY <1>1, XioCoreHolds, PTL

-----------------------------------------------------------------------------
(* Assertions                                                               *)

\* The application and the driver for which no assertion is reached: no operation
\* has a timeout and is refused, no call of the application overlaps with a
\* registration, it does not block in the callback of a failed open, the open has
\* no timeout, and when it blocks in the callback of an open that succeeded the
\* driver does not refuse the close.
Careful ==
  /\ Apart /\ ~Overlap /\ "openFailed" \notin BlockIn
  /\ \A s \in Setups : "open" \notin s.timed /\ ("open" \in BlockIn => "close" \notin s.refused)

\* An operation is not canceled or timed out before it is passed, and waits for
\* its callback to end.
SteadyOp(r) ==
  /\ r.reg = "pass" => ~r.canceled /\ r.timer \in {"no", "listed"}
  /\ r.kick \in {"user", "timerUser"} => r.state = "FINISH_WAITING"

\* The open p against the states of the handle and of the context: it is
\* delivered before its callback is over only by an application that blocks.
SteadyOpen(h, c, p) ==
  /\ p.drv = "asked" => c = "OPENING"
  /\ c \in {"NONE", "OPENING"} => p.drv \in {"no", "asked"}
  /\ c = "OPEN_FAILED" => ~p.ok
  /\ h = "OPENING" => p.drv # "called"
  /\ h = "OPEN" => p.ok
  /\ p.ok => p.drv \in {"finished", "called"}
  /\ p.drv = "called" => p.kick # "no"
  /\ p.kick \in {"no", "user", "closing", "done"}
  /\ p.kick \in {"no", "user", "closing"} /\ p.delivered => p.ok /\ "open" \in BlockIn

\* The close q against them and the open: the context waits for it, and a close
\* that the open's kickout started is not given up.
SteadyClose(h, c, p, q) ==
  /\ q.state \in Begun /\ q.reg \notin {"no", "failed"} => h = "CLOSING"
  /\ q.drv = "called" \/ q.kick # "no" => h \in {"CLOSING", "CLOSED"}
  /\ p.ok /\ q.reg \in {"no", "start", "pass"} => c # "CLOSED"
  /\ ~p.ok /\ q.reg \in {"start", "pass"} => p.kick = "closing" /\ ~p.delivered
  /\ p.kick = "closing" => q.reg \notin {"err", "failed"}
  /\ p.kick = "closing" /\ q.reg = "calling" => "close" \notin setup.refused

\* no read and no write was registered
NoData == \A d \in Data : op[d].state = "NONE"

\* Reads and writes exist on a handle that was opened, and are over before the
\* handle is closed.
SteadyData ==
  /\ \A d \in Data : op[d].reg = "pass" => handle.state = "OPEN"
  /\ handle.state \notin {"OPEN", "CLOSING", "CLOSED"} => NoData
  /\ ~op["open"].ok \/ Pretended(op["close"]) => NoData
  /\ handle.state = "CLOSED" => Outstanding \cap Data = {}
  /\ ctx.state = "CLOSED" => Outstanding = {}

\* What keeps the assertions, inductive together with XioCore.
Steady ==
  /\ ~failed
  /\ \A o \in Ops : SteadyOp(op[o])
  /\ SteadyOpen(handle.state, ctx.state, op["open"])
  /\ SteadyClose(handle.state, ctx.state, op["open"], op["close"])
  /\ SteadyData

\* A change of an operation from q to r that none of it minds.
Calm(o, q, r) ==
  /\ SteadyOp(r)
  /\ o = "open" => /\ r.drv = q.drv \/ (r.drv = "no" /\ ~q.ok)
                   /\ r.ok = q.ok /\ r.kick = q.kick /\ r.delivered = q.delivered
  /\ o = "close" => /\ r.state \in Begun => q.state \in Begun
                    /\ r.reg \notin {"no", "failed"} => q.reg \notin {"no", "failed"}
                    /\ r.drv = "called" \/ r.kick # "no" =>
                         q.drv = "called" \/ q.kick # "no" \/ handle.state = "CLOSING"
                    /\ r.reg = "no" => q.reg = "no"
                    /\ r.reg \in {"start", "pass"} => q.reg \in {"start", "pass"}
                    /\ r.reg \in {"err", "failed"} => q.reg \in {"err", "failed"}
                    /\ r.reg = "calling" => q.reg = "calling"
                    /\ Pretended(r) => Pretended(q)
  /\ o \in Data => \/ handle.state = "OPEN"
                   \/ /\ r.reg = "pass" => q.reg = "pass"
                      /\ r.state # "NONE" => q.state # "NONE"
                      /\ r.drv # "no" /\ ~r.delivered => q.drv # "no" /\ ~q.delivered

\* Facts of the invariant about the open and the close.
LEMMA CoreFacts ==
    ASSUME XioCore
    PROVE  /\ op["open"] \in OpRecords /\ op["close"] \in OpRecords
           /\ Common("open", op["open"]) /\ Passed("open", op["open"]) /\ Timed("open", op["open"])
           /\ Common("close", op["close"]) /\ Timed("close", op["close"])
           /\ CloseOK(op["close"], ctx) /\ CtxOK /\ HandleOK
           /\ op \in [Ops -> OpRecords] /\ handle \in HandleRecords /\ ctx \in CtxRecords
           /\ setup \in Setups
  BY OpNames DEF XioCore, OpOK, HandleTypes, HandleRecords, CtxRecords

\* The context of an open handle is open.
LEMMA OpenHandle ==
    ASSUME XioCore, Steady, handle.state = "OPEN"
    PROVE  ctx.state = "OPEN" /\ op["open"].ok /\ ~Pretended(op["close"])
  <1>1. op["open"].ok /\ op["open"].drv = "called" /\ op["close"].state = "NONE"
    BY CoreFacts DEF Steady, SteadyOpen, HandleOK
  <1>2. op["close"].reg = "no"
    BY <1>1, CoreFacts DEF Common
  <1>3. ctx.state \notin {"NONE", "OPENING", "OPEN_FAILED"}
    BY <1>1 DEF Steady, SteadyOpen
  <1>4. ctx.state # "CLOSED"
    BY <1>1, <1>2 DEF Steady, SteadyClose
  <1>5. ctx.state \notin {"CLOSING", "OPENING_AND_CLOSING"}
    BY <1>2, CoreFacts DEF CloseOK, ClosePassed
  <1>6. ctx.state \in CtxStates
    BY CoreFacts DEF CtxRecords
  <1> QED
    BY <1>1, <1>3, <1>4, <1>5, <1>6 DEF CtxStates, Pretended, Ended

\* Calm changes keep the invariant.
LEMMA AllCalm ==
    ASSUME XioCore, Steady, setup' = setup, ~failed',
           handle'.state = handle.state, ctx'.state = ctx.state,
           \A o \in Ops : Calm(o, op[o], op'[o])
    PROVE  Steady'
  <1> DEFINE p == op["open"]
             q == op["close"]
             p2 == op'["open"]
             q2 == op'["close"]
  <1>1. Calm("open", p, p2) /\ Calm("close", q, q2)
    BY OpNames
  <1>2. \A o \in Ops : SteadyOp(op'[o])
    BY DEF Calm
  <1>3. /\ SteadyOpen(handle.state, ctx.state, p) /\ SteadyClose(handle.state, ctx.state, p, q)
        /\ SteadyData
    BY DEF Steady
  <1>4. /\ p2.drv = p.drv \/ (p2.drv = "no" /\ ~p.ok)
        /\ p2.ok = p.ok /\ p2.kick = p.kick /\ p2.delivered = p.delivered
    BY <1>1 DEF Calm
  <1>5. SteadyOpen(handle'.state, ctx'.state, p2)
    BY <1>3, <1>4 DEF SteadyOpen
  <1>6. SteadyClose(handle'.state, ctx'.state, p2, q2)
    BY <1>1, <1>3, <1>4, OpNames DEF SteadyClose, Calm
  <1>7. handle.state = "OPEN" => ctx.state = "OPEN" /\ p.ok /\ ~Pretended(q)
    BY OpenHandle
  <1>8. Pretended(q2) => Pretended(q)
    BY <1>1, OpNames DEF Calm
  <1>9. CASE handle.state = "OPEN"
    <2>1. SteadyData'
      BY <1>4, <1>7, <1>8, <1>9 DEF SteadyData
    <2> QED
      BY <1>2, <1>5, <1>6, <2>1 DEF Steady, SteadyClose
  <1>10. CASE handle.state # "OPEN"
    <2>1. ASSUME NEW d \in Data
          PROVE  /\ op'[d].reg = "pass" => op[d].reg = "pass"
                 /\ op'[d].state # "NONE" => op[d].state # "NONE"
                 /\ op'[d].drv # "no" /\ ~op'[d].delivered => op[d].drv # "no" /\ ~op[d].delivered
      <3>1. d \in Ops
        BY OpNames
      <3>2. Calm(d, op[d], op'[d])
        BY <3>1
      <3> QED
        BY <1>10, <3>2 DEF Calm
    <2>2. NoData => NoData'
      BY <2>1 DEF NoData
    <2>3. Outstanding' \subseteq Outstanding
      <3>1. ASSUME NEW o \in Outstanding' PROVE o \in Outstanding
        <4>1. o \in Ops \ {"close"} /\ op'[o].drv # "no" /\ ~op'[o].delivered
          BY <3>1 DEF Outstanding
        <4>2. CASE o \in Data
          BY <2>1, <4>1, <4>2 DEF Outstanding
        <4>3. CASE o = "open"
          BY <1>4, <4>1, <4>3 DEF Outstanding
        <4> QED
          BY <4>1, <4>2, <4>3 DEF Ops
      <3> QED
        BY <3>1
    <2>4. \A d \in Data : op'[d].reg # "pass"
      BY <1>3, <1>10, <2>1 DEF SteadyData
    <2>5. SteadyData'
      BY <1>3, <1>4, <1>8, <2>2, <2>3, <2>4 DEF SteadyData
    <2> QED
      BY <1>2, <1>5, <1>6, <2>5 DEF Steady, SteadyClose
  <1> QED
    BY <1>9, <1>10

\* So does a calm change of one operation.
LEMMA OneCalm ==
    ASSUME XioCore, Steady, setup' = setup, ~failed',
           handle'.state = handle.state, ctx'.state = ctx.state,
           NEW o \in Ops, NEW r, op' = [op EXCEPT ![o] = r], Calm(o, op[o], r)
    PROVE  Steady'
  <1>1. op \in [Ops -> OpRecords]
    BY CoreFacts
  <1>2. ASSUME NEW p \in Ops PROVE Calm(p, op[p], op[p])
    <2>1. SteadyOp(op[p])
      BY DEF Steady
    <2> DEFINE q == op[p]
    <2> HIDE DEF q
    <2>2. SteadyOp(q) => Calm(p, q, q)
      BY DEF Calm
    <2> QED
      BY <2>1, <2>2 DEF q
  <1>3. \A p \in Ops : Calm(p, op[p], op'[p])
    BY <1>1, <1>2
  <1> QED
    BY <1>3, AllCalm

\* Giving up references does not change the state of the handle.
LEMMA PutState ==
    ASSUME NEW o, NEW r, NEW h \in HandleRecords, Put(o, r, h)
    PROVE  handle'.state = h.state /\ op' = [op EXCEPT ![o] = r]
  BY DEF Put, HandleDec, HandleRecords

-----------------------------------------------------------------------------
(* Steps that are calm                                                      *)

\* A read or write is registered on an open handle.
LEMMA RegisterDataSteady ==
    ASSUME XioCore, Steady, setup' = setup, NEW d \in Data, RegisterData(d)
    PROVE  Steady'
  <1> DEFINE q == op[d]
             s == [q EXCEPT !.state = "OPERATING", !.ref = 2, !.reg = "pass"]
             r == WithTimeout(d, s)
  <1>1. /\ q.reg = "no" /\ handle.state = "OPEN" /\ op' = [op EXCEPT ![d] = r]
        /\ handle' = [handle EXCEPT !.ref = @ + 1] /\ ctx' = ctx /\ failed' = failed
    <2>1. /\ q.reg = "no" /\ handle.state = "OPEN" /\ ctx' = ctx /\ failed' = failed
          /\ handle' = [handle EXCEPT !.ref = @ + 1]
          /\ op' = [op EXCEPT ![d] = WithTimeout(d,
                     [@ EXCEPT !.state = "OPERATING", !.ref = 2, !.reg = "pass"])]
      BY DEF RegisterData
    <2> QED
      BY <2>1
  <1>2. d \in Ops /\ d # "open" /\ d # "close" /\ OpOK(d, q) /\ q \in OpRecords
    BY OpNames DEF XioCore, OpOK
  <1>3. ~q.canceled /\ q.timer = "no" /\ q.kick = "no"
    BY <1>1, <1>2 DEF OpOK, Passed, Common
  <1>4. s \in OpRecords /\ ~s.canceled /\ s.timer = "no" /\ s.kick = "no"
    BY <1>2, <1>3 DEF OpRecords, OpStates
  <1> HIDE DEF s
  <1>5. ~r.canceled /\ r.timer \in {"no", "listed"} /\ r.kick = "no"
    BY <1>4 DEF WithTimeout, OpRecords
  <1> HIDE DEF r
  <1>6. handle'.state = handle.state
    BY <1>1, CoreFacts DEF HandleRecords
  <1>7. Calm(d, q, r)
    BY <1>1, <1>2, <1>5 DEF Calm, SteadyOp
  <1>8. ~failed' /\ ctx'.state = ctx.state
    BY <1>1 DEF Steady
  <1> QED
    BY <1>1, <1>2, <1>6, <1>7, <1>8, OneCalm

\* The pass of a read or write meets an open context.
LEMMA PassDataSteady ==
    ASSUME XioCore, Steady, setup' = setup, NEW d \in Data, PassData(d)
    PROVE  Steady'
  <1> DEFINE q == op[d]
             r == [q EXCEPT !.reg = "calling", !.drv = "asked", !.down = TRUE, !.ref = @ + 2,
                            !.progress = TRUE]
  <1>1. q.reg = "pass" /\ ~failed
    BY DEF PassData
  <1>2. d \in Ops /\ d # "open" /\ d # "close" /\ q \in OpRecords /\ SteadyOp(q) /\ OpOK(d, q)
    BY OpNames DEF XioCore, OpOK, Steady
  <1>3. handle.state = "OPEN" /\ ctx.state = "OPEN" /\ ~q.canceled
    BY <1>1, <1>2, OpenHandle DEF Steady, SteadyData, SteadyOp
  <1>4. /\ op' = [op EXCEPT ![d] = r] /\ ctx' = [ctx EXCEPT !.out = @ + 1]
        /\ handle' = handle /\ failed' = failed
    BY <1>3 DEF PassData
  <1>5. r.reg = "calling" /\ r.kick = q.kick
    BY <1>2 DEF OpRecords
  <1>6. q.kick = "no"
    BY <1>1, <1>2 DEF OpOK, Common
  <1>7. ctx'.state = ctx.state
    BY <1>4, CoreFacts DEF CtxRecords
  <1> HIDE DEF r
  <1>8. Calm(d, q, r)
    BY <1>2, <1>3, <1>5, <1>6 DEF Calm, SteadyOp
  <1> QED
    BY <1>1, <1>2, <1>4, <1>7, <1>8, OneCalm

\* The registration returns.
LEMMA RegisterReturnSteady ==
    ASSUME XioCore, Steady, setup' = setup, NEW o \in Ops, RegisterReturn(o)
    PROVE  Steady'
  <1> DEFINE q == op[o]
             r == [q EXCEPT !.reg = "done", !.ref = @ - 2]
  <1>1. ~failed /\ o # "close" /\ q.reg = "calling" /\ Put(o, r, handle) /\ ctx' = ctx /\ failed' = failed
    BY DEF RegisterReturn
  <1>2. q \in OpRecords /\ SteadyOp(q)
    BY DEF XioCore, OpOK, Steady
  <1>3. /\ r.reg = "done" /\ r.kick = q.kick /\ r.state = q.state /\ r.drv = q.drv
        /\ r.ok = q.ok /\ r.delivered = q.delivered
    BY <1>2 DEF OpRecords
  <1> HIDE DEF r
  <1>4. Calm(o, q, r)
    BY <1>1, <1>2, <1>3 DEF Calm, SteadyOp
  <1>5. handle'.state = handle.state /\ op' = [op EXCEPT ![o] = r]
    BY <1>1, CoreFacts, PutState
  <1> QED
    BY <1>1, <1>4, <1>5, OneCalm

\* A slight change that keeps the result is calm unless it touches the timeout of
\* an operation not passed yet.
LEMMA SlightCalm ==
    ASSUME NEW o \in Ops, NEW q, NEW r, OpOK(o, q), SteadyOp(q), Slight(q, r), r.ok = q.ok,
           q.reg = "pass" => r.timer \in {"no", "listed"}
    PROVE  Calm(o, q, r)
  <1>1. /\ r.state = q.state /\ r.reg = q.reg /\ r.drv = q.drv /\ r.kick = q.kick
        /\ r.delivered = q.delivered /\ (r.canceled => q.canceled \/ q.down)
    BY DEF Slight
  <1>2. q.reg = "pass" => ~q.down
    BY DEF OpOK, Common
  <1>3. SteadyOp(r)
    BY <1>1, <1>2 DEF SteadyOp
  <1> QED
    BY <1>1, <1>3 DEF Calm, Pretended

\* A cancel keeps the result and at most takes the timeout away.
LEMMA CancelCalm ==
    ASSUME NEW o \in Ops, NEW q, OpOK(o, q), SteadyOp(q), q.kick \notin Over \/ q.timer # "listed"
    PROVE  Calm(o, q, OperationCancel(q))
  <1>1. q \in OpRecords
    BY DEF OpOK
  <1>2. Unlist(q) \in OpRecords /\ Unlist(q).ok = q.ok /\ Unlist(q).timer \in {"no", q.timer}
    <2>1. CASE q.timer = "listed"
      <3> DEFINE u == [q EXCEPT !.timer = "no", !.ref = @ - 1]
      <3>1. Unlist(q) = u
        BY <2>1 DEF Unlist
      <3>2. u.ok = q.ok /\ u.timer = "no"
        BY <1>1 DEF OpRecords
      <3>3. OpOK(o, Unlist(q))
        BY Unlisted
      <3> HIDE DEF u
      <3> QED
        BY <3>1, <3>2, <3>3 DEF OpOK
    <2>2. CASE q.timer # "listed"
      BY <1>1, <2>2 DEF Unlist
    <2> QED
      BY <2>1, <2>2
  <1> DEFINE u == Unlist(q)
             r == OperationCancel(q)
  <1>3. r.ok = q.ok /\ r.timer \in {"no", q.timer}
    <2>1. CASE q.canceled
      BY <2>1 DEF OperationCancel
    <2>2. CASE ~q.canceled
      <3>1. r = [u EXCEPT !.canceled = q.down]
        BY <2>2 DEF OperationCancel
      <3>2. u \in OpRecords /\ u.ok = q.ok /\ u.timer \in {"no", q.timer}
        BY <1>2
      <3> HIDE DEF u, r
      <3> QED
        BY <3>1, <3>2 DEF OpRecords
    <2> QED
      BY <2>1, <2>2
  <1>4. Slight(q, r)
    BY Canceled
  <1> HIDE DEF r
  <1>5. q.reg = "pass" => r.timer \in {"no", "listed"}
    BY <1>3 DEF SteadyOp
  <1> QED
    BY <1>3, <1>4, <1>5, SlightCalm DEF r

\* globus_xio_handle_cancel_operations is calm.
LEMMA CancelAllCalm ==
    ASSUME XioCore, Steady, NEW S \in SUBSET Reachable
    PROVE  \A p \in Ops : Calm(p, op[p], CancelAll(S, op)[p])
  <1> SUFFICES ASSUME NEW p \in Ops PROVE Calm(p, op[p], CancelAll(S, op)[p])
    OBVIOUS
  <1> DEFINE q == op[p]
  <1>1. OpOK(p, q) /\ SteadyOp(q)
    BY DEF XioCore, Steady
  <1>2. CancelAll(S, op)[p] = IF p \in S THEN OperationCancel(q) ELSE q
    BY DEF CancelAll
  <1>3. p \in S => Calm(p, q, OperationCancel(q))
    <2>1. SUFFICES ASSUME p \in S PROVE Calm(p, q, OperationCancel(q))
      OBVIOUS
    <2>2. q.kick \notin Over \/ q.timer # "listed"
      BY <2>1, ReachableHeld
    <2> HIDE DEF q
    <2> QED
      BY <1>1, <2>2, CancelCalm
  <1> HIDE DEF q
  <1>4. Calm(p, q, q)
    BY <1>1 DEF Calm
  <1> QED
    BY <1>2, <1>3, <1>4 DEF q

\* globus_xio_handle_cancel_operations.
LEMMA HandleCancelSteady ==
    ASSUME XioCore, Steady, setup' = setup, NEW mask, HandleCancel(mask)
    PROVE  Steady'
  <1> DEFINE S == Reachable \cap mask
  <1>1. op' = CancelAll(S, op) /\ handle' = handle /\ ctx' = ctx /\ ~failed'
    BY DEF HandleCancel, Steady
  <1>2. S \in SUBSET Reachable
    OBVIOUS
  <1> HIDE DEF S
  <1>3. \A p \in Ops : Calm(p, op[p], op'[p])
    BY <1>1, <1>2, CancelAllCalm
  <1> QED
    BY <1>1, <1>3, AllCalm

\* The poller, which does not run between a registration and its pass.
LEMMA PollSteady ==
    ASSUME Careful, XioCore, Steady, setup' = setup, NEW S \in SUBSET Ops, Poll(S)
    PROVE  Steady'
  <1>1. /\ op' = [o \in Ops |->
                   IF o \notin S THEN op[o]
                   ELSE IF op[o].progress THEN [op[o] EXCEPT !.progress = FALSE]
                   ELSE [op[o] EXCEPT !.timer = "due"]]
        /\ handle' = handle /\ ctx' = ctx /\ ~failed'
        /\ \A o \in S : op[o].reg # "pass"
    BY DEF Poll, Steady, Careful
  <1>2. ASSUME NEW p \in Ops PROVE Calm(p, op[p], op'[p])
    <2> DEFINE q == op[p]
    <2>1. q \in OpRecords /\ SteadyOp(q)
      BY DEF XioCore, OpOK, Steady
    <2>2. op'[p] = IF p \notin S THEN q
                   ELSE IF q.progress THEN [q EXCEPT !.progress = FALSE]
                   ELSE [q EXCEPT !.timer = "due"]
      BY <1>1
    <2>3. p \in S => q.reg # "pass"
      BY <1>1
    <2> HIDE DEF q
    <2>4. /\ op'[p].state = q.state /\ op'[p].reg = q.reg /\ op'[p].drv = q.drv
          /\ op'[p].kick = q.kick /\ op'[p].delivered = q.delivered /\ op'[p].ok = q.ok
          /\ op'[p].canceled = q.canceled /\ (p \notin S => op'[p].timer = q.timer)
      BY <2>1, <2>2 DEF OpRecords
    <2>5. SteadyOp(op'[p])
      BY <2>1, <2>3, <2>4 DEF SteadyOp
    <2>6. Calm(p, q, op'[p])
      BY <2>4, <2>5 DEF Calm, Pretended
    <2> QED
      BY <2>6 DEF q
  <1> QED
    BY <1>1, <1>2, AllCalm

\* globus_l_xio_register_close, up to the pass.
LEMMA RegisterCloseStartSteady ==
    ASSUME XioCore, Steady, setup' = setup, RegisterCloseStart
    PROVE  Steady'
  <1> DEFINE q == op["close"]
             s == [q EXCEPT !.ref = @ + 1, !.reg = "pass"]
             r == WithTimeout("close", s)
  <1>1. /\ q.reg = "start" /\ op' = [op EXCEPT !["close"] = r]
        /\ handle' = [handle EXCEPT !.ref = @ + 1] /\ ctx' = ctx /\ ~failed'
    BY DEF RegisterCloseStart, Steady
  <1>2. q \in OpRecords /\ SteadyOp(q) /\ ~q.canceled /\ q.timer = "no" /\ q.drv = "no"
    BY <1>1, CoreFacts, OpNames DEF Steady, CloseOK
  <1>3. /\ s \in OpRecords /\ ~s.canceled /\ s.timer = "no" /\ s.kick = q.kick /\ s.drv = q.drv
        /\ s.state = q.state /\ s.reg = "pass"
    <2>1. q.ref + 1 \in Nat
      BY <1>2 DEF OpRecords
    <2> QED
      BY <1>2, <2>1 DEF OpRecords, OpStates
  <1> HIDE DEF s
  <1>4. /\ ~r.canceled /\ r.timer \in {"no", "listed"} /\ r.kick = q.kick /\ r.drv = q.drv
        /\ r.state = q.state /\ r.reg = "pass"
    BY <1>3 DEF WithTimeout, OpRecords
  <1> HIDE DEF r
  <1>5. handle'.state = handle.state
    BY <1>1, CoreFacts DEF HandleRecords
  <1>6. Calm("close", q, r)
    BY <1>1, <1>2, <1>4, OpNames DEF Calm, SteadyOp, Pretended
  <1> QED
    BY <1>1, <1>5, <1>6, OpNames, OneCalm

\* globus_i_xio_driver_start_close.
LEMMA StartCloseSteady ==
    ASSUME XioCore, Steady, setup' = setup, StartClose
    PROVE  Steady'
  <1> DEFINE q == op["close"]
             r == [q EXCEPT !.start = "calling", !.drv = "asked", !.ref = @ + 1, !.progress = TRUE]
  <1>1. op' = [op EXCEPT !["close"] = r] /\ handle' = handle /\ ctx' = ctx /\ ~failed'
    BY DEF StartClose, Steady
  <1>2. q \in OpRecords /\ SteadyOp(q)
    BY CoreFacts, OpNames DEF Steady
  <1>3. /\ r.canceled = q.canceled /\ r.timer = q.timer /\ r.kick = q.kick /\ r.drv = "asked"
        /\ r.state = q.state /\ r.reg = q.reg
    BY <1>2 DEF OpRecords
  <1> HIDE DEF r
  <1>4. Calm("close", q, r)
    BY <1>2, <1>3, OpNames DEF Calm, SteadyOp, Pretended
  <1> QED
    BY <1>1, <1>4, OpNames, OneCalm

\* The driver accepted the close.
LEMMA StartCloseReturnSteady ==
    ASSUME XioCore, Steady, setup' = setup, StartCloseReturn
    PROVE  Steady'
  <1> DEFINE q == op["close"]
             g == IF q.reg = "calling" THEN "passed" ELSE q.reg
             r == [q EXCEPT !.start = "done", !.ref = @ - 1, !.reg = g]
  <1>1. Put("close", r, handle) /\ ctx' = ctx /\ ~failed'
    BY DEF StartCloseReturn, Steady
  <1>2. q \in OpRecords /\ SteadyOp(q) /\ handle \in HandleRecords
    BY CoreFacts, OpNames DEF Steady
  <1> HIDE DEF g
  <1>3. /\ r.canceled = q.canceled /\ r.timer = q.timer /\ r.kick = q.kick /\ r.drv = q.drv
        /\ r.state = q.state /\ r.reg = g
    BY <1>2 DEF OpRecords
  <1> HIDE DEF r
  <1>4. Calm("close", q, r)
    BY <1>2, <1>3, OpNames DEF Calm, SteadyOp, Pretended, g
  <1>5. handle'.state = handle.state /\ op' = [op EXCEPT !["close"] = r]
    BY <1>1, <1>2, PutState
  <1> QED
    BY <1>1, <1>4, <1>5, OpNames, OneCalm

\* The registration of the close returns.
LEMMA RegisterCloseReturnSteady ==
    ASSUME XioCore, Steady, setup' = setup, RegisterCloseReturn
    PROVE  Steady'
  <1> DEFINE q == op["close"]
             r == [q EXCEPT !.reg = "done", !.ref = @ - 1]
  <1>1. q.reg = "passed" /\ Put("close", r, handle) /\ ctx' = ctx /\ ~failed'
    BY DEF RegisterCloseReturn, Steady
  <1>2. q \in OpRecords /\ SteadyOp(q) /\ handle \in HandleRecords
    BY CoreFacts, OpNames DEF Steady
  <1>3. /\ r.canceled = q.canceled /\ r.timer = q.timer /\ r.kick = q.kick /\ r.drv = q.drv
        /\ r.state = q.state /\ r.reg = "done"
    BY <1>2 DEF OpRecords
  <1> HIDE DEF r
  <1>4. Calm("close", q, r)
    BY <1>1, <1>2, <1>3, OpNames DEF Calm, SteadyOp, Pretended
  <1>5. handle'.state = handle.state /\ op' = [op EXCEPT !["close"] = r]
    BY <1>1, <1>2, PutState
  <1> QED
    BY <1>1, <1>4, <1>5, OpNames, OneCalm

\* A read or write that the driver has finished is called back while the handle
\* is open or closing.
LEMMA ReadWriteCallbackSteady ==
    ASSUME XioCore, Steady, setup' = setup, NEW d \in Data, ReadWriteCallback(d)
    PROVE  Steady'
  <1> DEFINE q == op[d]
             r == Finished(d)
  <1>1. q.drv = "finished" /\ ~failed
    BY DEF ReadWriteCallback
  <1>2. d \in Ops /\ d # "open" /\ d # "close" /\ q \in OpRecords /\ SteadyOp(q) /\ OpOK(d, q)
    BY OpNames DEF XioCore, OpOK, Steady
  <1>3. q.state # "NONE" /\ ~q.delivered
    BY <1>1, <1>2 DEF OpOK, Common, Passed
  <1>4. d \in Outstanding \cap Data
    BY <1>1, <1>2, <1>3 DEF Outstanding
  <1>5. handle.state \in {"OPEN", "CLOSING"}
    BY <1>3, <1>4 DEF Steady, SteadyData, NoData
  <1>6. op' = [op EXCEPT ![d] = r] /\ handle' = handle /\ ctx' = ctx /\ ~failed'
    BY <1>1, <1>5 DEF ReadWriteCallback
  <1>7. /\ r.reg = q.reg /\ r.kick \in {"no", "user"} /\ r.state = "FINISH_WAITING"
        /\ r.delivered = q.delivered
    BY <1>1, <1>2, FinishedOK
  <1>8. q.reg # "pass"
    BY <1>1, <1>2 DEF OpOK, Common
  <1> HIDE DEF r
  <1>9. Calm(d, q, r)
    BY <1>1, <1>2, <1>3, <1>7, <1>8 DEF Calm, SteadyOp
  <1> QED
    BY <1>2, <1>6, <1>9, OneCalm

\* The callback of a read or write is over.
LEMMA ReadWriteKickoutSteady ==
    ASSUME XioCore, Steady, setup' = setup, NEW d \in Data, ReadWriteKickout(d)
    PROVE  Steady'
  <1> DEFINE q == op[d]
             k == After(d, "done")
             r == [q EXCEPT !.ref = @ - 1, !.kick = k]
  <1>1. q.kick \in {"user", "timerUser"} /\ ~failed
    BY DEF ReadWriteKickout, InUser
  <1>2. d \in Ops /\ d # "open" /\ d # "close" /\ q \in OpRecords /\ SteadyOp(q) /\ OpOK(d, q)
    BY OpNames DEF XioCore, OpOK, Steady
  <1>3. q.state # "NONE"
    BY <1>1, <1>2 DEF OpOK, Common
  <1>4. handle.state # "OPENING"
    BY <1>3 DEF Steady, SteadyData, NoData
  <1>5. Put(d, r, handle) /\ ctx' = ctx /\ ~failed'
    BY <1>1, <1>4 DEF ReadWriteKickout
  <1>6. k \in Over
    BY AfterOver
  <1> HIDE DEF k
  <1>7. /\ r.reg = q.reg /\ r.kick = k /\ r.state = q.state /\ r.delivered = q.delivered
        /\ r.drv = q.drv /\ r.canceled = q.canceled /\ r.timer = q.timer
    BY <1>2 DEF OpRecords
  <1> HIDE DEF r
  <1>8. Calm(d, q, r)
    BY <1>2, <1>3, <1>6, <1>7 DEF Calm, SteadyOp, Over
  <1>9. handle'.state = handle.state /\ op' = [op EXCEPT ![d] = r]
    BY <1>5, CoreFacts, PutState
  <1> QED
    BY <1>2, <1>5, <1>8, <1>9, OneCalm

\* globus_l_xio_timeout_callback.
LEMMA TimeoutCallbackSteady ==
    ASSUME XioCore, Steady, setup' = setup, NEW o \in Ops, TimeoutCallback(o)
    PROVE  Steady'
  <1> DEFINE q == op[o]
             r1 == [q EXCEPT !.timer = "no", !.ref = @ - 1]
             r2 == [q EXCEPT !.timer = "relist"]
             r3 == [q EXCEPT !.timer = "asking", !.state = "TIMEOUT_PENDING"]
  <1>1. /\ q.timer = "due" /\ ctx' = ctx /\ ~failed'
        /\ \/ Put(o, r1, handle)
           \/ op' = [op EXCEPT ![o].timer = "relist"] /\ handle' = handle
           \/ /\ op' = [op EXCEPT ![o].timer = "asking", ![o].state = "TIMEOUT_PENDING"]
              /\ handle' = handle /\ q.state = "OPERATING"
    BY DEF TimeoutCallback, Steady
  <1>2. q \in OpRecords /\ SteadyOp(q) /\ OpOK(o, q) /\ op \in [Ops -> OpRecords]
    BY CoreFacts DEF XioCore, OpOK, Steady
  <1>3. q.reg # "pass"
    BY <1>1, <1>2 DEF SteadyOp
  <1>4. PICK r \in {r1, r2, r3} : /\ op' = [op EXCEPT ![o] = r] /\ handle'.state = handle.state
                                  /\ r = r3 => q.state = "OPERATING"
    <2>1. CASE Put(o, r1, handle)
      <3>1. r1 # r3
        <4>1. r1.timer = "no" /\ r3.timer = "asking"
          BY <1>2 DEF OpRecords
        <4> HIDE DEF r1, r3
        <4> QED
          BY <4>1
      <3>2. op' = [op EXCEPT ![o] = r1] /\ handle'.state = handle.state
        BY <2>1, CoreFacts, PutState
      <3> QED
        BY <3>1, <3>2
    <2>2. CASE op' = [op EXCEPT ![o].timer = "relist"] /\ handle' = handle
      <3>1. r2 # r3
        BY <1>2 DEF OpRecords
      <3>2. op' = [op EXCEPT ![o] = r2]
        BY <1>2, <2>2
      <3> QED
        BY <2>2, <3>1, <3>2
    <2>3. CASE /\ op' = [op EXCEPT ![o].timer = "asking", ![o].state = "TIMEOUT_PENDING"]
               /\ handle' = handle /\ q.state = "OPERATING"
      <3>1. op' = [op EXCEPT ![o] = r3]
        BY <1>2, <2>3
      <3> QED
        BY <2>3, <3>1
    <2> QED
      BY <1>1, <2>1, <2>2, <2>3
  <1>5. /\ r.reg = q.reg /\ r.drv = q.drv /\ r.kick = q.kick /\ r.delivered = q.delivered
        /\ r.ok = q.ok /\ (r.state = q.state \/ (r.state = "TIMEOUT_PENDING" /\ q.state = "OPERATING"))
    <2>1. CASE r = r1
      BY <1>2, <2>1 DEF OpRecords
    <2>2. CASE r = r2
      BY <1>2, <2>2 DEF OpRecords
    <2>3. CASE r = r3
      BY <1>2, <1>4, <2>3 DEF OpRecords
    <2> QED
      BY <2>1, <2>2, <2>3
  <1>6. q.state = "OPERATING" => q.kick = "no"
    BY <1>2 DEF OpOK, Common, Begun
  <1>7. SteadyOp(r)
    BY <1>2, <1>3, <1>5, <1>6 DEF SteadyOp
  <1>8. Calm(o, q, r)
    BY <1>5, <1>7 DEF Calm, Pretended, Begun, Ended
  <1> QED
    BY <1>1, <1>4, <1>8, OneCalm

\* The entry goes back on the list.
LEMMA RelistSteady ==
    ASSUME XioCore, Steady, setup' = setup, NEW o \in Ops, Relist(o)
    PROVE  Steady'
  <1> DEFINE q == op[o]
             r == [q EXCEPT !.timer = "listed"]
  <1>1. /\ q.timer = "relist" /\ ctx' = ctx /\ ~failed' /\ handle' = handle
        /\ op' = [op EXCEPT ![o].timer = "listed"]
    BY DEF Relist, Steady
  <1>2. q \in OpRecords /\ SteadyOp(q) /\ OpOK(o, q) /\ op \in [Ops -> OpRecords]
    BY CoreFacts DEF XioCore, OpOK, Steady
  <1>3. op' = [op EXCEPT ![o] = r]
    BY <1>1, <1>2
  <1>4. /\ r.reg = q.reg /\ r.drv = q.drv /\ r.kick = q.kick /\ r.delivered = q.delivered
        /\ r.ok = q.ok /\ r.state = q.state /\ q.reg # "pass"
    BY <1>1, <1>2 DEF OpRecords, SteadyOp
  <1> HIDE DEF r
  <1>5. SteadyOp(r)
    BY <1>2, <1>4 DEF SteadyOp
  <1>6. Calm(o, q, r)
    BY <1>4, <1>5 DEF Calm, Pretended, Begun, Ended
  <1> QED
    BY <1>1, <1>3, <1>6, OneCalm

\* The answer to the timer: the reference it gives back is not the last one.
LEMMA TimeoutAnswerSteady ==
    ASSUME Careful, XioCore, Steady, setup' = setup, NEW o \in Ops, NEW cancel \in BOOLEAN,
           TimeoutAnswer(o, cancel)
    PROVE  Steady'
  <1> DEFINE q == op[o]
             fire == q.state = "FINISH_WAITING"
             drop == cancel \/ fire
             s == IF fire THEN q.state ELSE "OPERATING"
             k == IF fire THEN "timerUser" ELSE q.kick
             r == [q EXCEPT !.state = s,
                            !.canceled = @ \/ cancel,
                            !.timer = IF drop THEN "no" ELSE "relist",
                            !.ref = IF drop THEN @ - 1 ELSE @,
                            !.kick = k,
                            !.calls = IF fire THEN @ + 1 ELSE @]
  <1>1. /\ q.timer = "asking" /\ op' = [op EXCEPT ![o] = r] /\ failed' = ~(drop => q.ref > 1)
        /\ ctx' = ctx /\ handle' = handle
    BY DEF TimeoutAnswer, Assert
  <1>2. OpOK(o, q) /\ q \in OpRecords /\ SteadyOp(q) /\ setup \in Setups
    BY CoreFacts DEF XioCore, OpOK, Steady
  <1>3. q.state \in {"TIMEOUT_PENDING", "FINISH_WAITING"} /\ q.kick = "no" /\ q.reg # "pass"
    BY <1>1, <1>2 DEF OpOK, Common, SteadyOp
  <1>4. ~failed'
    <2>1. q.ref > 1
      BY <1>1, <1>2, <1>3 DEF Careful, OpOK, Common, Timed, OpRecords, HoldersOf, B
    <2> QED
      BY <1>1, <2>1
  <1>5. o # "open"
    BY <1>1, <1>2 DEF OpOK, Timed, Careful
  <1> HIDE DEF s, k
  <1>6. /\ r.reg = q.reg /\ r.drv = q.drv /\ r.delivered = q.delivered /\ r.kick = k /\ r.state = s
    BY <1>2 DEF OpRecords
  <1> HIDE DEF r
  <1>7. /\ k = "timerUser" => s = "FINISH_WAITING" /\ q.state = "FINISH_WAITING"
        /\ k \in {"no", "timerUser"} /\ s # "NONE"
        /\ s \in Begun => q.state \in Begun
        /\ s \in Ended => q.state \in Ended
    BY <1>3 DEF s, k, Begun, Ended
  <1>8. o = "close" /\ k # "no" => q.drv = "called"
    <2>1. SUFFICES ASSUME o = "close", k # "no" PROVE q.drv = "called"
      OBVIOUS
    <2>2. q.state \in Ended /\ q.drv # "no"
      BY <1>1, <1>7, <2>1, CoreFacts DEF CloseOK, Pretended, Ended
    <2> QED
      BY <1>2, <2>2 DEF OpOK, OpRecords, Common, Begun, Ended
  <1>9. SteadyOp(r)
    BY <1>3, <1>6, <1>7 DEF SteadyOp
  <1>10. q.state # "NONE"
    BY <1>3
  <1>11. Calm(o, q, r)
    BY <1>5, <1>6, <1>7, <1>8, <1>9, <1>10, <1>3 DEF Calm, Pretended
  <1> QED
    BY <1>1, <1>4, <1>11, OneCalm

-----------------------------------------------------------------------------
(* Steps of the open                                                        *)

\* The open is registered, without a timeout.
LEMMA RegisterOpenSteady ==
    ASSUME Careful, XioCore, Steady, setup' = setup, RegisterOpen
    PROVE  Steady'
  <1> DEFINE p == op["open"]
             q == op["close"]
             r == [p EXCEPT !.state = "OPERATING", !.ref = 2, !.reg = "pass"]
  <1>1. /\ handle.state = "CLIENT" /\ ctx' = ctx /\ ~failed'
        /\ handle' = [handle EXCEPT !.state = "OPENING", !.ref = @ + 1, !.open_op = TRUE]
        /\ op' = [op EXCEPT !["open"] = WithTimeout("open",
                    [@ EXCEPT !.state = "OPERATING", !.ref = 2, !.reg = "pass"])]
    BY DEF RegisterOpen, Steady
  <1>2. /\ p \in OpRecords /\ p.reg = "no" /\ q.state = "NONE" /\ op \in [Ops -> OpRecords]
        /\ handle \in HandleRecords /\ setup \in Setups
    BY <1>1, CoreFacts DEF HandleOK
  <1>3. p.state = "NONE" /\ q.reg = "no" /\ q.drv = "no" /\ q.kick = "no"
    BY <1>2, CoreFacts, OpNames DEF Passed, Common
  <1>4. p.drv = "no" /\ p.kick = "no" /\ ~p.canceled /\ p.timer = "no" /\ ~p.delivered
    BY <1>3, CoreFacts DEF Common
  <1>5. WithTimeout("open", r) = r
    BY <1>2 DEF WithTimeout, Careful
  <1>6. op' = [op EXCEPT !["open"] = r]
    BY <1>1, <1>2, <1>5, OpNames
  <1>7. /\ r.drv = p.drv /\ r.ok = p.ok /\ r.kick = p.kick /\ r.delivered = p.delivered
        /\ r.canceled = p.canceled /\ r.timer = p.timer
    BY <1>2 DEF OpRecords
  <1> HIDE DEF r
  <1>8. op'["open"] = r /\ \A o \in Ops \ {"open"} : op'[o] = op[o]
    BY <1>2, <1>6, OpNames
  <1>9. op'["close"] = q /\ \A d \in Data : op'[d] = op[d]
    BY <1>8, OpNames
  <1>10. handle'.state = "OPENING"
    BY <1>1, <1>2 DEF HandleRecords
  <1>11. \A o \in Ops : SteadyOp(op'[o])
    BY <1>4, <1>7, <1>8 DEF Steady, SteadyOp
  <1>12. SteadyOpen(handle'.state, ctx'.state, r)
    BY <1>1, <1>4, <1>7, <1>10 DEF Steady, SteadyOpen
  <1>13. SteadyClose(handle.state, ctx.state, p, q)
    BY DEF Steady
  <1>14. SteadyClose(handle'.state, ctx'.state, r, q)
    BY <1>1, <1>2, <1>3, <1>7, <1>10, <1>13 DEF SteadyClose, Begun
  <1>15. Outstanding' = Outstanding
    BY <1>7, <1>8, SameOutstanding
  <1>16. SteadyData'
    <2>1. NoData
      BY <1>1 DEF Steady, SteadyData
    <2>2. \A d \in Data : op[d].reg # "pass"
      BY <1>1 DEF Steady, SteadyData
    <2>3. NoData'
      BY <1>9, <2>1 DEF NoData
    <2> QED
      BY <1>1, <1>9, <1>10, <1>15, <2>2, <2>3 DEF Steady, SteadyData
  <1> QED
    BY <1>1, <1>8, <1>9, <1>11, <1>12, <1>14, <1>16 DEF Steady, SteadyClose

\* A step that changes the open, leaves the reads and writes and brings the handle
\* or the context into another state.
LEMMA OpenSteps ==
    ASSUME XioCore, Steady, setup' = setup, ~failed', NEW r, op' = [op EXCEPT !["open"] = r],
           SteadyOp(r), SteadyOpen(handle'.state, ctx'.state, r),
           SteadyClose(handle'.state, ctx'.state, r, op["close"]),
           \A d \in Data : op[d].reg = "pass" => handle'.state = "OPEN",
           \/ NoData
           \/ /\ handle'.state \in {"OPEN", "CLOSING", "CLOSED"} /\ r.ok = op["open"].ok
              /\ handle'.state = "CLOSED" => handle.state = "CLOSED",
           \/ ctx'.state # "CLOSED"
           \/ ctx.state = "CLOSED" /\ r.drv = op["open"].drv /\ r.delivered = op["open"].delivered
    PROVE  Steady'
  <1>1. op \in [Ops -> OpRecords]
    BY CoreFacts
  <1>2. op'["open"] = r /\ \A o \in Ops \ {"open"} : op'[o] = op[o]
    BY <1>1, OpNames
  <1>3. op'["close"] = op["close"] /\ \A d \in Data : op'[d] = op[d]
    BY <1>2, OpNames
  <1>4. \A o \in Ops : SteadyOp(op'[o])
    BY <1>2 DEF Steady
  <1>5. NoData => NoData'
    BY <1>3 DEF NoData
  <1>6. Outstanding' \cap Data = Outstanding \cap Data
    BY <1>3 DEF Outstanding
  <1>7. NoData => Outstanding \cap Data = {}
    <2>1. SUFFICES ASSUME NoData, NEW d \in Data PROVE d \notin Outstanding
      OBVIOUS
    <2>2. OpOK(d, op[d])
      BY OpNames DEF XioCore
    <2> QED
      BY <2>1, <2>2 DEF NoData, OpOK, Common, Outstanding
  <1>8. ctx'.state = "CLOSED" => Outstanding' = {}
    <2>1. SUFFICES ASSUME ctx'.state = "CLOSED" PROVE Outstanding' = {}
      OBVIOUS
    <2>2. Outstanding' = Outstanding
      BY <1>2, <2>1, SameOutstanding
    <2> QED
      BY <2>1, <2>2 DEF Steady, SteadyData
  <1>9. SteadyData'
    BY <1>2, <1>3, <1>5, <1>6, <1>7, <1>8 DEF Steady, SteadyData
  <1> QED
    BY <1>2, <1>3, <1>4, <1>9 DEF Steady, SteadyClose

\* The open is passed: it is not canceled before.
LEMMA PassOpenSteady ==
    ASSUME XioCore, Steady, setup' = setup, PassOpen
    PROVE  Steady'
  <1> DEFINE p == op["open"]
             q == op["close"]
             r == [p EXCEPT !.reg = "calling", !.drv = "asked", !.down = TRUE, !.ref = @ + 2,
                            !.progress = TRUE]
  <1>1. p.reg = "pass" /\ p \in OpRecords /\ SteadyOp(p) /\ ctx \in CtxRecords
    BY CoreFacts, OpNames DEF PassOpen, Steady
  <1>2. ~p.canceled
    BY <1>1 DEF SteadyOp
  <1>3. /\ op' = [op EXCEPT !["open"] = r] /\ ctx' = [ctx EXCEPT !.state = "OPENING", !.out = @ + 1]
        /\ handle' = handle /\ ~failed'
    BY <1>2 DEF PassOpen
  <1>4. ctx'.state = "OPENING"
    BY <1>1, <1>3 DEF CtxRecords
  <1>5. r.reg = "calling" /\ r.drv = "asked" /\ r.kick = p.kick /\ r.ok = p.ok /\ r.delivered = p.delivered
    BY <1>1 DEF OpRecords
  <1> HIDE DEF r
  <1>6. p.drv = "no" /\ p.kick = "no" /\ p.reg \notin {"no", "failed"}
    BY <1>1, CoreFacts DEF Common
  <1>7. handle.state \in {"OPENING", "OPENING_AND_CLOSING"}
    BY <1>6, CoreFacts DEF HandleOK
  <1>8. SteadyOpen(handle.state, ctx.state, p) /\ SteadyClose(handle.state, ctx.state, p, q)
    BY DEF Steady
  <1>9. SteadyOp(r)
    BY <1>5, <1>6 DEF SteadyOp
  <1>10. SteadyOpen(handle'.state, ctx'.state, r)
    BY <1>3, <1>4, <1>5, <1>6, <1>7, <1>8 DEF SteadyOpen
  <1>11. SteadyClose(handle'.state, ctx'.state, r, q)
    BY <1>3, <1>4, <1>5, <1>8 DEF SteadyClose
  <1>12. NoData /\ \A d \in Data : op[d].reg # "pass"
    BY <1>7 DEF Steady, SteadyData
  <1> QED
    BY <1>3, <1>4, <1>9, <1>10, <1>11, <1>12, OpenSteps

\* The driver refuses an open, a read or a write.
LEMMA PassFailedSteady ==
    ASSUME XioCore, Steady, setup' = setup, NEW o \in Ops, PassFailed(o)
    PROVE  Steady'
  <1> DEFINE q == op[o]
             c == op["close"]
             r == [q EXCEPT !.reg = "err", !.drv = "no", !.down = FALSE, !.ref = @ - 2]
             close == ctx.state = "CLOSING" /\ ctx.out = 1 /\ ~ctx.close_started
             g == IF close THEN "go" ELSE c.start
             k == [c EXCEPT !.start = g]
  <1>1. /\ o # "close" /\ q.reg = "calling" /\ q.drv = "asked" /\ ~failed'
        /\ op' = [op EXCEPT ![o] = r, !["close"].start = IF close THEN "go" ELSE @]
        /\ ctx' = [ctx EXCEPT !.out = @ - 1] /\ handle' = handle
    BY DEF PassFailed, Steady
  <1>2. /\ q \in OpRecords /\ SteadyOp(q) /\ OpOK(o, q) /\ c \in OpRecords /\ SteadyOp(c)
        /\ op \in [Ops -> OpRecords] /\ ctx \in CtxRecords
    BY CoreFacts, OpNames DEF XioCore, OpOK, Steady
  <1>3. op' = [op EXCEPT ![o] = r, !["close"] = k]
    BY <1>1, <1>2, OpNames
  <1>4. /\ r.reg = "err" /\ r.drv = "no" /\ r.kick = q.kick /\ r.ok = q.ok
        /\ r.delivered = q.delivered /\ r.state = q.state
    BY <1>2 DEF OpRecords
  <1> HIDE DEF g
  <1>5. /\ k.state = c.state /\ k.reg = c.reg /\ k.drv = c.drv /\ k.kick = c.kick
        /\ k.canceled = c.canceled /\ k.timer = c.timer
    BY <1>2 DEF OpRecords
  <1> HIDE DEF r, k
  <1>6. op'[o] = r /\ op'["close"] = k /\ \A p \in Ops \ {o, "close"} : op'[p] = op[p]
    BY <1>1, <1>2, <1>3, OpNames
  <1>7. SteadyOp(r) /\ SteadyOp(k)
    BY <1>2, <1>4, <1>5 DEF SteadyOp
  <1>8. o = "open" => ~q.ok
    BY <1>1 DEF Steady, SteadyOpen
  <1>9. Calm(o, q, r)
    BY <1>1, <1>4, <1>7, <1>8 DEF Calm
  <1>10. Calm("close", c, k)
    BY <1>5, <1>7, OpNames DEF Calm, Pretended
  <1>11. ASSUME NEW p \in Ops \ {o, "close"} PROVE Calm(p, op[p], op'[p])
    <2>1. SteadyOp(op[p]) /\ op'[p] = op[p]
      BY <1>6 DEF Steady
    <2> QED
      BY <2>1 DEF Calm
  <1>12. \A p \in Ops : Calm(p, op[p], op'[p])
    BY <1>6, <1>9, <1>10, <1>11
  <1>13. ctx'.state = ctx.state
    BY <1>1, <1>2 DEF CtxRecords
  <1> QED
    BY <1>1, <1>12, <1>13, AllCalm

\* An operation is given up.
LEMMA RegisterErrSteady ==
    ASSUME XioCore, Steady, setup' = setup, NEW o \in Ops, RegisterErr(o)
    PROVE  Steady'
  <1> DEFINE q == op[o]
             u == Unlist(q)
             r == [u EXCEPT !.reg = "failed", !.ref = @ - 2]
             h == IF o = "open" THEN [handle EXCEPT !.state = "OPEN_FAILED"] ELSE handle
  <1>1. o # "close" /\ q.reg = "err" /\ Put(o, r, h) /\ ctx' = ctx /\ ~failed'
    BY DEF RegisterErr, Steady
  <1>2. q \in OpRecords /\ SteadyOp(q) /\ OpOK(o, q) /\ handle \in HandleRecords
    BY CoreFacts DEF XioCore, OpOK, Steady
  <1>3. u \in OpRecords /\ u.ok = q.ok /\ Slight(q, u)
    <2>1. OpOK(o, u) /\ Slight(q, u)
      <3>1. q.kick \notin Over
        BY <1>1, <1>2 DEF OpOK, Common, Over
      <3> QED
        BY <1>2, <3>1, Unlisted
    <2>2. u.ok = q.ok
      BY <1>2 DEF Unlist, OpRecords
    <2> QED
      BY <2>1, <2>2 DEF OpOK
  <1> HIDE DEF u
  <1>4. r.reg = "failed" /\ r.drv = u.drv /\ r.kick = u.kick /\ r.ok = u.ok
        /\ r.delivered = u.delivered /\ r.state = u.state
    BY <1>3 DEF OpRecords
  <1> HIDE DEF r
  <1>5. /\ r.drv = q.drv /\ r.kick = q.kick /\ r.ok = q.ok /\ r.delivered = q.delivered
        /\ r.state = q.state
    BY <1>3, <1>4 DEF Slight
  <1>6. h \in HandleRecords /\ h.state = IF o = "open" THEN "OPEN_FAILED" ELSE handle.state
    BY <1>2 DEF HandleRecords, HandleStates
  <1> HIDE DEF h
  <1>7. handle'.state = h.state /\ op' = [op EXCEPT ![o] = r]
    BY <1>1, <1>6, PutState
  <1>8. SteadyOp(r) /\ q.drv = "no" /\ q.kick = "no"
    BY <1>1, <1>2, <1>4, <1>5 DEF SteadyOp, OpOK, Common
  <1>9. CASE o # "open"
    <2>1. Calm(o, q, r)
      BY <1>1, <1>4, <1>5, <1>8, <1>9 DEF Calm
    <2> QED
      BY <1>1, <1>6, <1>7, <1>9, <2>1, OneCalm
  <1>10. CASE o = "open"
    <2> DEFINE c == op["close"]
    <2>1. handle.state \in {"OPENING", "OPENING_AND_CLOSING"}
      BY <1>1, <1>8, <1>10, CoreFacts DEF HandleOK
    <2>2. c.state = "NONE" \/ (c.state = "OPERATING" /\ c.reg = "no")
      <3>1. ~OpenOver
        BY <1>1, <1>8, <1>10 DEF OpenOver, Over
      <3> QED
        BY <2>1, <3>1, CoreFacts DEF HandleOK
    <2>3. c.reg = "no" /\ c.drv = "no" /\ c.kick = "no"
      BY <2>2, CoreFacts DEF Common, CloseOK, Begun
    <2>4. SteadyOpen(handle.state, ctx.state, q) /\ SteadyClose(handle.state, ctx.state, q, c)
      BY <1>10 DEF Steady
    <2>5. handle'.state = "OPEN_FAILED"
      BY <1>6, <1>7, <1>10
    <2>6. SteadyOpen(handle'.state, ctx'.state, r)
      BY <1>1, <1>5, <2>4, <2>5 DEF SteadyOpen
    <2>7. SteadyClose(handle'.state, ctx'.state, r, c)
      BY <1>1, <1>5, <2>3, <2>4 DEF SteadyClose
    <2>8. NoData /\ \A d \in Data : op[d].reg # "pass"
      BY <2>1 DEF Steady, SteadyData
    <2> QED
      BY <1>1, <1>5, <1>7, <1>8, <1>10, <2>6, <2>7, <2>8, OpenSteps
  <1> QED
    BY <1>9, <1>10

\* The kickout of an open that started the close goes on: the close was not
\* given up.
LEMMA StartedCloseSteady ==
    ASSUME XioCore, Steady, setup' = setup, StartedClose
    PROVE  Steady'
  <1> DEFINE p == op["open"]
             q == op["close"]
             r == [p EXCEPT !.kick = "done"]
  <1>1. p.kick = "closing" /\ p \in OpRecords /\ op \in [Ops -> OpRecords]
    BY CoreFacts DEF StartedClose, Steady, SteadyOpen
  <1>2. q.reg \notin {"err", "failed"}
    BY <1>1 DEF Steady, SteadyClose
  <1>3. /\ q.reg = "done" /\ handle' = handle /\ ctx' = ctx /\ ~failed'
        /\ op' = [op EXCEPT !["open"].kick = IF @ = "closing" THEN "done" ELSE "timerDone"]
    BY <1>2 DEF StartedClose, Steady
  <1>4. op' = [op EXCEPT !["open"] = r]
    BY <1>1, <1>3, OpNames
  <1>5. /\ r.kick = "done" /\ r.drv = p.drv /\ r.ok = p.ok /\ r.delivered = p.delivered
        /\ r.reg = p.reg /\ r.canceled = p.canceled /\ r.timer = p.timer
    BY <1>1 DEF OpRecords
  <1> HIDE DEF r
  <1>6. /\ SteadyOpen(handle.state, ctx.state, p) /\ SteadyClose(handle.state, ctx.state, p, q)
        /\ SteadyOp(p) /\ SteadyData
    BY OpNames DEF Steady
  <1>7. SteadyOp(r)
    BY <1>5, <1>6 DEF SteadyOp
  <1>8. SteadyOpen(handle'.state, ctx'.state, r)
    BY <1>3, <1>5, <1>6 DEF SteadyOpen
  <1>9. SteadyClose(handle'.state, ctx'.state, r, q)
    BY <1>3, <1>5, <1>6 DEF SteadyClose
  <1>10. /\ \A d \in Data : op[d].reg = "pass" => handle'.state = "OPEN"
         /\ NoData \/ handle'.state \in {"OPEN", "CLOSING", "CLOSED"}
    BY <1>3, <1>6 DEF SteadyData
  <1> QED
    BY <1>3, <1>4, <1>5, <1>7, <1>8, <1>9, <1>10, OpenSteps

-----------------------------------------------------------------------------
(* Steps of the close                                                       *)

\* A step that changes the close and brings the handle or the context into
\* another state.
LEMMA CloseSteps ==
    ASSUME XioCore, Steady, setup' = setup, ~failed', NEW r, op' = [op EXCEPT !["close"] = r],
           SteadyOp(r), SteadyOpen(handle'.state, ctx'.state, op["open"]),
           SteadyClose(handle'.state, ctx'.state, op["open"], r),
           \A d \in Data : op[d].reg = "pass" => handle'.state = "OPEN",
           \/ NoData
           \/ /\ handle'.state \in {"OPEN", "CLOSING", "CLOSED"}
              /\ Pretended(r) => Pretended(op["close"]),
           handle'.state = "CLOSED" => Outstanding \cap Data = {},
           ctx'.state = "CLOSED" => Outstanding = {}
    PROVE  Steady'
  <1>1. op \in [Ops -> OpRecords]
    BY CoreFacts
  <1>2. op'["close"] = r /\ \A o \in Ops \ {"close"} : op'[o] = op[o]
    BY <1>1, OpNames
  <1>3. op'["open"] = op["open"] /\ \A d \in Data : op'[d] = op[d]
    BY <1>2, OpNames
  <1>4. \A o \in Ops : SteadyOp(op'[o])
    BY <1>2 DEF Steady
  <1>5. NoData => NoData'
    BY <1>3 DEF NoData
  <1>6. Outstanding' = Outstanding
    BY <1>2, SameOutstanding
  <1>7. SteadyData'
    BY <1>2, <1>3, <1>5, <1>6 DEF Steady, SteadyData
  <1> QED
    BY <1>2, <1>3, <1>4, <1>7 DEF Steady, SteadyClose

\* The oneshot of a pretended close.
LEMMA UnopenedCloseSteady ==
    ASSUME XioCore, Steady, setup' = setup, UnopenedClose
    PROVE  Steady'
  <1> DEFINE p == op["open"]
             q == op["close"]
             r == [q EXCEPT !.kick = "user", !.calls = @ + 1]
  <1>1. /\ q.state = "FINISH_WAITING" /\ q.drv = "no" /\ ctx' = ctx /\ ~failed'
        /\ handle' = [handle EXCEPT !.state = "CLOSING"]
        /\ op' = [op EXCEPT !["close"].kick = "user", !["close"].calls = @ + 1]
    BY DEF UnopenedClose, Steady
  <1>2. q \in OpRecords /\ handle \in HandleRecords /\ op \in [Ops -> OpRecords] /\ q.state \in Ended
    BY <1>1, CoreFacts DEF Ended
  <1>3. op' = [op EXCEPT !["close"] = r]
    BY <1>1, <1>2, OpNames
  <1>4. r.state = q.state /\ r.reg = q.reg /\ r.drv = q.drv /\ r.kick = "user"
    BY <1>2 DEF OpRecords
  <1> HIDE DEF r
  <1>5. handle'.state = "CLOSING"
    BY <1>1, <1>2 DEF HandleRecords, HandleStates
  <1>6. Pretended(q) /\ q.reg = "done"
    BY <1>1, <1>2, CoreFacts DEF Pretended, CloseOK
  <1>7. SteadyOpen(handle.state, ctx.state, p) /\ SteadyClose(handle.state, ctx.state, p, q) /\ SteadyData
    BY DEF Steady
  <1>8. SteadyOp(r)
    BY <1>1, <1>4, <1>6 DEF SteadyOp
  <1>9. SteadyOpen(handle'.state, ctx'.state, p)
    BY <1>1, <1>5, <1>7 DEF SteadyOpen
  <1>10. SteadyClose(handle'.state, ctx'.state, p, r)
    BY <1>1, <1>4, <1>5, <1>6, <1>7 DEF SteadyClose
  <1>11. NoData /\ \A d \in Data : op[d].reg # "pass"
    <2>1. NoData
      BY <1>6, <1>7 DEF SteadyData
    <2>2. ASSUME NEW d \in Data PROVE op[d].reg # "pass"
      <3>1. OpOK(d, op[d]) /\ op[d].state = "NONE"
        BY <2>1, OpNames DEF XioCore, NoData
      <3> QED
        BY <3>1 DEF OpOK, Common
    <2> QED
      BY <2>1, <2>2
  <1>12. handle'.state # "CLOSED" /\ (ctx'.state = "CLOSED" => Outstanding = {})
    BY <1>1, <1>5, <1>7 DEF SteadyData
  <1> QED
    BY <1>1, <1>3, <1>8, <1>9, <1>10, <1>11, <1>12, CloseSteps

\* The close is passed: the context has not seen it, and an open that failed is
\* still outstanding.
LEMMA PassCloseSteady ==
    ASSUME Careful, XioCore, Steady, setup' = setup, PassClose
    PROVE  Steady'
  <1> DEFINE p == op["open"]
             q == op["close"]
             pass == ctx.out = 0
             g == IF pass THEN "go" ELSE "no"
             e == IF pass THEN "calling" ELSE "passed"
             s == IF ctx.state = "OPEN" THEN "CLOSING" ELSE "OPENING_AND_CLOSING"
             r == [q EXCEPT !.down = TRUE, !.progress = TRUE, !.start = g, !.reg = e]
  <1>1. q.reg = "pass" /\ ~failed
    BY DEF PassClose
  <1>2. /\ q \in OpRecords /\ p \in OpRecords /\ SteadyOp(q) /\ ctx \in CtxRecords /\ SteadyData
        /\ op \in [Ops -> OpRecords] /\ CtxOK /\ setup \in Setups
        /\ SteadyOpen(handle.state, ctx.state, p) /\ SteadyClose(handle.state, ctx.state, p, q)
    BY CoreFacts, OpNames DEF Steady
  <1>3. ~q.canceled /\ ~ClosePassed(ctx) /\ p.drv = "called"
    BY <1>1, <1>2, CoreFacts DEF SteadyOp, CloseOK, CtxOK, CloseGoing
  <1>4. ctx.state # "CLOSED"
    <2>1. CASE p.ok
      BY <1>1, <1>2, <2>1 DEF SteadyClose
    <2>2. CASE ~p.ok
      <3>1. ~p.delivered
        BY <1>1, <1>2, <2>2 DEF SteadyClose
      <3>2. "open" \in Outstanding
        BY <1>3, <3>1, OpNames DEF Outstanding
      <3> QED
        BY <1>2, <3>2 DEF SteadyData
    <2> QED
      BY <2>1, <2>2
  <1>5. ctx.state \in {"OPEN", "OPEN_FAILED"} /\ ~ctx.close_started
    <2>1. ctx.state \notin {"NONE", "OPENING"}
      BY <1>2, <1>3 DEF SteadyOpen
    <2>2. ctx.state \notin {"CLOSING", "OPENING_AND_CLOSING"} /\ ~ctx.close_started
      BY <1>3 DEF ClosePassed
    <2>3. ctx.state \in CtxStates
      BY <1>2 DEF CtxRecords
    <2> QED
      BY <1>4, <2>1, <2>2, <2>3 DEF CtxStates
  <1>6. /\ ctx' = [ctx EXCEPT !.state = s, !.close_started = pass, !.close_op = ~pass]
        /\ op' = [op EXCEPT !["close"] = [@ EXCEPT !.down = TRUE, !.progress = TRUE,
                    !.start = g, !.reg = e]]
        /\ handle' = handle /\ ~failed'
    BY <1>1, <1>3, <1>5 DEF PassClose
  <1>7. op' = [op EXCEPT !["close"] = r]
    BY <1>2, <1>6, OpNames
  <1>8. s \in {"CLOSING", "OPENING_AND_CLOSING"} /\ e \in {"calling", "passed"} /\ (e = "calling" => pass)
    OBVIOUS
  <1> HIDE DEF s, e, g
  <1>9. ctx'.state = s
    BY <1>2, <1>6 DEF CtxRecords
  <1>10. r.reg = e /\ r.state = q.state /\ r.drv = q.drv /\ r.kick = q.kick
    BY <1>2 DEF OpRecords
  <1> HIDE DEF r
  <1>11. SteadyOp(r)
    BY <1>2, <1>8, <1>10 DEF SteadyOp
  <1>12. SteadyOpen(handle'.state, ctx'.state, p)
    BY <1>2, <1>3, <1>6, <1>8, <1>9 DEF SteadyOpen
  <1>13. p.kick = "closing" /\ e = "calling" => "close" \notin setup.refused
    <2>1. SUFFICES ASSUME p.kick = "closing", e = "calling" PROVE "close" \notin setup.refused
      OBVIOUS
    <2>2. Outstanding = {}
      <3>1. Outstanding \in SUBSET Ops /\ Cardinality(Outstanding) = 0
        BY <1>2, <1>8, <2>1 DEF Outstanding, CtxOK
      <3> QED
        BY <3>1, OpsCounted
    <2>3. p.delivered
      BY <1>3, <2>2, OpNames DEF Outstanding
    <2>4. "open" \in BlockIn
      BY <1>2, <2>1, <2>3 DEF SteadyOpen
    <2> QED
      BY <1>2, <2>4 DEF Careful
  <1>14. SteadyClose(handle'.state, ctx'.state, p, r)
    BY <1>1, <1>2, <1>6, <1>8, <1>9, <1>10, <1>13 DEF SteadyClose
  <1>15. handle.state = "CLOSING"
    <2>1. q.state \in Begun
      BY <1>1, CoreFacts DEF Common
    <2> QED
      BY <1>1, <1>2, <2>1 DEF SteadyClose
  <1>16. Pretended(r) => Pretended(q)
    BY <1>10 DEF Pretended
  <1>17. ctx'.state # "CLOSED"
    BY <1>8, <1>9
  <1>18. \A d \in Data : op[d].reg # "pass"
    BY <1>2, <1>15 DEF SteadyData
  <1> QED
    BY <1>6, <1>7, <1>11, <1>12, <1>14, <1>15, <1>16, <1>17, <1>18, CloseSteps

\* The driver refuses to close.
LEMMA StartCloseRefusedSteady ==
    ASSUME XioCore, Steady, setup' = setup, StartCloseRefused
    PROVE  Steady'
  <1> DEFINE p == op["open"]
             q == op["close"]
             canFail == q.reg = "calling"
             v == IF canFail THEN "no" ELSE "finished"
             e == IF canFail THEN "err" ELSE q.reg
             r == [q EXCEPT !.start = "done", !.ref = @ - 1, !.ok = FALSE, !.drv = v, !.reg = e]
  <1>1. /\ "close" \in setup.refused /\ q.start = "calling" /\ q.drv = "asked"
        /\ ctx' = [ctx EXCEPT !.state = "CLOSED"] /\ Put("close", r, handle) /\ ~failed'
    BY DEF StartCloseRefused, Steady
  <1>2. /\ q \in OpRecords /\ SteadyOp(q) /\ ctx \in CtxRecords /\ SteadyData /\ handle \in HandleRecords
        /\ SteadyOpen(handle.state, ctx.state, p) /\ SteadyClose(handle.state, ctx.state, p, q)
    BY CoreFacts, OpNames DEF Steady
  <1>3. Outstanding = {} /\ p.drv = "called"
    BY <1>1, CoreFacts DEF CtxOK, CloseGoing
  <1>4. q.state \in Begun /\ q.reg \notin {"no", "start", "pass", "err", "failed"}
    BY <1>1, CoreFacts DEF Common, CloseOK
  <1>5. handle.state = "CLOSING"
    BY <1>2, <1>4 DEF SteadyClose
  <1>6. handle'.state = handle.state /\ op' = [op EXCEPT !["close"] = r]
    BY <1>1, <1>2, PutState
  <1>7. ctx'.state = "CLOSED"
    BY <1>1, <1>2 DEF CtxRecords
  <1>8. v # "called" /\ (e = "err" \/ e = q.reg) /\ (e = "err" => canFail) /\ e # "calling"
    BY <1>4
  <1> HIDE DEF v, e
  <1>9. r.state = q.state /\ r.reg = e /\ r.drv = v /\ r.kick = q.kick
    BY <1>2 DEF OpRecords
  <1> HIDE DEF r
  <1>10. SteadyOp(r)
    BY <1>2, <1>4, <1>8, <1>9 DEF SteadyOp
  <1>11. SteadyOpen(handle'.state, ctx'.state, p)
    BY <1>2, <1>3, <1>6, <1>7 DEF SteadyOpen
  <1>12. SteadyClose(handle'.state, ctx'.state, p, r)
    BY <1>1, <1>2, <1>4, <1>5, <1>6, <1>8, <1>9 DEF SteadyClose
  <1>13. ~Pretended(r)
    BY <1>4, <1>9 DEF Pretended, Begun, Ended
  <1>14. \A d \in Data : op[d].reg # "pass"
    BY <1>2, <1>5 DEF SteadyData
  <1> QED
    BY <1>1, <1>3, <1>5, <1>6, <1>10, <1>11, <1>12, <1>13, <1>14, CloseSteps

\* The error path of globus_l_xio_register_close closes the handle.
LEMMA RegisterCloseErrSteady ==
    ASSUME XioCore, Steady, setup' = setup, RegisterCloseErr
    PROVE  Steady'
  <1> DEFINE p == op["open"]
             q == op["close"]
             u == Unlist(q)
             r == [u EXCEPT !.reg = "failed", !.ref = @ - 2]
             h == HandleDec([handle EXCEPT !.state = "CLOSED"])
  <1>1. q.reg = "err" /\ Put("close", r, h) /\ ctx' = ctx /\ ~failed'
    BY DEF RegisterCloseErr, Steady
  <1>2. /\ q \in OpRecords /\ OpOK("close", q) /\ SteadyData /\ handle \in HandleRecords
        /\ SteadyOpen(handle.state, ctx.state, p) /\ SteadyClose(handle.state, ctx.state, p, q)
    BY CoreFacts, OpNames DEF Steady, XioCore
  <1>3. OpOK("close", u) /\ Slight(q, u)
    <2>1. q.kick \notin Over
      BY <1>1, <1>2 DEF OpOK, Common, Over
    <2> QED
      BY <1>2, <2>1, OpNames, Unlisted
  <1> HIDE DEF u
  <1>4. u \in OpRecords
    BY <1>3 DEF OpOK
  <1>5. r.state = u.state /\ r.reg = "failed" /\ r.drv = u.drv /\ r.kick = u.kick
    BY <1>4 DEF OpRecords
  <1> HIDE DEF r
  <1>6. r.state = q.state /\ r.drv = q.drv /\ r.kick = q.kick
    BY <1>3, <1>5 DEF Slight
  <1>7. q.drv = "no" /\ q.kick = "no" /\ q.state \in Begun /\ ctx.state = "CLOSED"
    BY <1>1, CoreFacts DEF Common, CloseOK
  <1>8. Outstanding = {} /\ handle.state = "CLOSING" /\ p.kick # "closing"
    BY <1>1, <1>2, <1>7 DEF SteadyData, SteadyClose
  <1>9. h \in HandleRecords /\ h.state = "CLOSED"
    BY <1>2, ClosedHandle
  <1> HIDE DEF h
  <1>10. handle'.state = "CLOSED" /\ op' = [op EXCEPT !["close"] = r]
    BY <1>1, <1>9, PutState
  <1>11. SteadyOp(r)
    BY <1>5, <1>6, <1>7 DEF SteadyOp
  <1>12. SteadyOpen(handle'.state, ctx'.state, p)
    BY <1>1, <1>2, <1>10 DEF SteadyOpen
  <1>13. SteadyClose(handle'.state, ctx'.state, p, r)
    BY <1>1, <1>2, <1>5, <1>6, <1>7, <1>8, <1>10 DEF SteadyClose
  <1>14. ~Pretended(r) /\ \A d \in Data : op[d].reg # "pass"
    BY <1>2, <1>6, <1>7, <1>8 DEF Pretended, Begun, Ended, SteadyData
  <1> QED
    BY <1>1, <1>8, <1>10, <1>11, <1>12, <1>13, <1>14, CloseSteps

\* A close is registered on a handle that is opening or open, with what it cancels.
LEMMA CloseAndCancel ==
    ASSUME XioCore, Steady, setup' = setup, ~failed', ctx' = ctx, NEW S \in SUBSET Reachable, NEW r,
           op' = [CancelAll(S, op) EXCEPT !["close"] = r], SteadyOp(r), ~Pretended(r),
           SteadyOpen(handle'.state, ctx.state, op["open"]),
           SteadyClose(handle'.state, ctx.state, op["open"], r),
           \A d \in Data : op[d].reg # "pass",
           NoData \/ handle'.state = "CLOSING",
           handle'.state # "CLOSED"
    PROVE  Steady'
  <1> DEFINE f == CancelAll(S, op)
             p == op["open"]
             p2 == op'["open"]
  <1>1. f \in [Ops -> OpRecords] /\ \A o \in Ops : Slight(op[o], f[o])
    BY CanceledAll
  <1>2. \A o \in Ops : Calm(o, op[o], f[o])
    BY CancelAllCalm
  <1> HIDE DEF f
  <1>3. op'["close"] = r /\ \A o \in Ops \ {"close"} : op'[o] = f[o]
    BY <1>1, OpNames DEF f
  <1>4. \A o \in Ops : SteadyOp(op'[o])
    BY <1>2, <1>3 DEF Calm
  <1>5. \A o \in Ops \ {"close"} :
          /\ op'[o].state = op[o].state /\ op'[o].reg = op[o].reg /\ op'[o].drv = op[o].drv
          /\ op'[o].delivered = op[o].delivered /\ op'[o].kick = op[o].kick
    BY <1>1, <1>3 DEF Slight
  <1>6. p2.drv = p.drv /\ p2.delivered = p.delivered /\ p2.kick = p.kick /\ p2.ok = p.ok
    BY <1>2, <1>3, <1>5, OpNames DEF Calm
  <1>7. SteadyOpen(handle'.state, ctx'.state, p2)
    BY <1>6 DEF SteadyOpen
  <1>8. SteadyClose(handle'.state, ctx'.state, p2, r)
    BY <1>6 DEF SteadyClose
  <1>9. \A d \in Data : op'[d].reg # "pass" /\ op'[d].state = op[d].state
    BY <1>5, OpNames
  <1>10. NoData => NoData'
    BY <1>9 DEF NoData
  <1>11. Outstanding' = Outstanding
    BY <1>5, SameOutstanding
  <1>12. SteadyData'
    BY <1>3, <1>6, <1>9, <1>10, <1>11 DEF Steady, SteadyData
  <1> QED
    BY <1>3, <1>4, <1>7, <1>8, <1>12 DEF Steady, SteadyClose

\* globus_xio_register_close, between the application's other calls.
LEMMA RegisterCloseSteady ==
    ASSUME Careful, XioCore, Steady, setup' = setup, NEW cancel \in BOOLEAN, RegisterClose(cancel)
    PROVE  Steady'
  <1> DEFINE p == op["open"]
             q == op["close"]
  <1>1. q.state = "NONE" /\ ctx' = ctx /\ ~failed' /\ \A d \in Data : op[d].reg # "pass"
    BY OpNames DEF RegisterClose, Orderly, Careful, Steady
  <1>2. /\ q.reg = "no" /\ q.drv = "no" /\ q.kick = "no" /\ CloseOp \in OpRecords
        /\ CloseOp.state = "OPERATING" /\ CloseOp.reg = "no" /\ CloseOp.drv = "no"
        /\ CloseOp.kick = "no"
    BY <1>1, CloseFresh
  <1>3. /\ handle \in HandleRecords /\ op \in [Ops -> OpRecords] /\ SteadyData
        /\ SteadyOpen(handle.state, ctx.state, p) /\ SteadyClose(handle.state, ctx.state, p, q)
    BY CoreFacts DEF Steady
  <1>4. CASE /\ handle.state \in {"CLIENT", "OPEN_FAILED"}
             /\ handle' = [handle EXCEPT !.state = "OPENING_AND_CLOSING", !.ref = @ + 1,
                                         !.close_op = TRUE, !.cancel = cancel]
             /\ op' = [op EXCEPT !["close"] = [CloseOp EXCEPT !.state = "FINISH_WAITING",
                                                              !.reg = "done", !.ok = TRUE]]
    <2> DEFINE r == [CloseOp EXCEPT !.state = "FINISH_WAITING", !.reg = "done", !.ok = TRUE]
    <2>1. r.state = "FINISH_WAITING" /\ r.reg = "done" /\ r.drv = "no" /\ r.kick = "no"
      BY <1>2 DEF OpRecords
    <2>2. op' = [op EXCEPT !["close"] = r]
      BY <1>4
    <2> HIDE DEF r
    <2>3. handle'.state = "OPENING_AND_CLOSING"
      BY <1>3, <1>4 DEF HandleRecords
    <2>4. SteadyOp(r)
      BY <2>1 DEF SteadyOp
    <2>5. SteadyOpen(handle'.state, ctx'.state, p)
      BY <1>1, <1>3, <2>3 DEF SteadyOpen
    <2>6. SteadyClose(handle'.state, ctx'.state, p, r)
      BY <2>1 DEF SteadyClose, Begun
    <2>7. NoData /\ (ctx'.state = "CLOSED" => Outstanding = {})
      BY <1>1, <1>3, <1>4 DEF SteadyData
    <2> QED
      BY <1>1, <2>2, <2>3, <2>4, <2>5, <2>6, <2>7, CloseSteps
  <1>5. CASE /\ handle.state = "OPENING"
             /\ handle' = [handle EXCEPT !.state = "OPENING_AND_CLOSING", !.close_op = TRUE,
                                         !.cancel = cancel]
             /\ LET S == IF cancel THEN Reachable ELSE {} IN
                  op' = [CancelAll(S, op) EXCEPT !["close"] = CloseOp]
    <2> DEFINE S == IF cancel THEN Reachable ELSE {}
    <2>1. S \in SUBSET Reachable /\ op' = [CancelAll(S, op) EXCEPT !["close"] = CloseOp]
      BY <1>5
    <2> HIDE DEF S
    <2>2. handle'.state = "OPENING_AND_CLOSING"
      BY <1>3, <1>5 DEF HandleRecords
    <2>3. SteadyOp(CloseOp) /\ ~Pretended(CloseOp)
      BY <1>2 DEF SteadyOp, Pretended, Ended
    <2>4. SteadyOpen(handle'.state, ctx.state, p)
      BY <1>3, <2>2 DEF SteadyOpen
    <2>5. SteadyClose(handle'.state, ctx.state, p, CloseOp)
      BY <1>2, <1>3 DEF SteadyClose
    <2>6. NoData
      BY <1>3, <1>5 DEF SteadyData
    <2> QED
      BY <1>1, <2>1, <2>2, <2>3, <2>4, <2>5, <2>6, CloseAndCancel
  <1>6. CASE /\ handle.state = "OPENING_FAILED"
             /\ handle' = [handle EXCEPT !.state = "OPENING_AND_CLOSING", !.close_op = TRUE,
                                         !.cancel = cancel]
             /\ op' = [op EXCEPT !["close"] = CloseOp]
    <2>1. handle'.state = "OPENING_AND_CLOSING"
      BY <1>3, <1>6 DEF HandleRecords
    <2>2. SteadyOp(CloseOp)
      BY <1>2 DEF SteadyOp
    <2>3. SteadyOpen(handle'.state, ctx'.state, p)
      BY <1>1, <1>3, <2>1 DEF SteadyOpen
    <2>4. SteadyClose(handle'.state, ctx'.state, p, CloseOp)
      BY <1>1, <1>2, <1>3 DEF SteadyClose
    <2>5. NoData /\ (ctx'.state = "CLOSED" => Outstanding = {})
      BY <1>1, <1>3, <1>6 DEF SteadyData
    <2> QED
      BY <1>1, <1>6, <2>1, <2>2, <2>3, <2>4, <2>5, CloseSteps
  <1>7. CASE /\ handle.state = "OPEN"
             /\ handle' = [handle EXCEPT !.state = "CLOSING", !.close_op = TRUE, !.cancel = cancel]
             /\ LET S == IF cancel THEN Reachable \cap Data ELSE {} IN
                  op' = [CancelAll(S, op) EXCEPT !["close"] = [CloseOp EXCEPT !.reg = "start"]]
    <2> DEFINE S == IF cancel THEN Reachable \cap Data ELSE {}
               r == [CloseOp EXCEPT !.reg = "start"]
    <2>1. S \in SUBSET Reachable /\ op' = [CancelAll(S, op) EXCEPT !["close"] = r]
      BY <1>7
    <2>2. r.state = "OPERATING" /\ r.reg = "start" /\ r.drv = "no" /\ r.kick = "no"
      BY <1>2 DEF OpRecords
    <2> HIDE DEF S, r
    <2>3. handle'.state = "CLOSING"
      BY <1>3, <1>7 DEF HandleRecords
    <2>4. SteadyOp(r) /\ ~Pretended(r)
      BY <2>2 DEF SteadyOp, Pretended, Ended
    <2>5. SteadyOpen(handle'.state, ctx.state, p) /\ p.ok
      BY <1>3, <1>7, <2>3 DEF SteadyOpen
    <2>6. SteadyClose(handle'.state, ctx.state, p, r)
      BY <1>2, <1>3, <2>2, <2>3, <2>5 DEF SteadyClose
    <2> QED
      BY <1>1, <2>1, <2>3, <2>4, <2>5, <2>6, CloseAndCancel
  <1> QED
    BY <1>4, <1>5, <1>6, <1>7 DEF RegisterClose

-----------------------------------------------------------------------------
(* The driver finishes, the application is called                           *)

\* The driver finishes an operation in a context that expects it.
LEMMA DriverFinishSteady ==
    ASSUME XioCore, Steady, setup' = setup, NEW o \in Ops, NEW ok \in BOOLEAN, DriverFinish(o, ok)
    PROVE  Steady'
  <1> DEFINE p == op["open"]
             c == op["close"]
             q == op[o]
             r == [q EXCEPT !.drv = "finished", !.ok = ok, !.progress = TRUE]
  <1>1. q.drv = "asked" /\ ~failed
    BY DEF DriverFinish
  <1>2. /\ q \in OpRecords /\ OpOK(o, q) /\ SteadyOp(q) /\ op \in [Ops -> OpRecords]
        /\ ctx \in CtxRecords /\ SteadyData
        /\ SteadyOpen(handle.state, ctx.state, p) /\ SteadyClose(handle.state, ctx.state, p, c)
    BY CoreFacts DEF Steady, XioCore, OpOK
  <1>3. q.state # "NONE" /\ q.reg # "pass" /\ (o # "close" => ~q.delivered)
    BY <1>1, <1>2 DEF OpOK, Common, Passed, Begun
  <1>4. /\ r.drv = "finished" /\ r.ok = ok /\ r.kick = q.kick /\ r.reg = q.reg
        /\ r.state = q.state /\ r.delivered = q.delivered
    BY <1>2 DEF OpRecords
  <1>5. SteadyOp(r)
    BY <1>2, <1>3, <1>4 DEF SteadyOp
  <1>6. CASE o = "open"
    <2> DEFINE s == IF ok THEN "OPEN" ELSE "OPEN_FAILED"
    <2>1. ctx.state = "OPENING"
      BY <1>1, <1>2, <1>6 DEF SteadyOpen
    <2>2. /\ op' = [op EXCEPT ![o].drv = "finished", ![o].ok = ok, ![o].progress = TRUE]
          /\ ctx' = [ctx EXCEPT !.state = s] /\ handle' = handle /\ ~failed'
      BY <1>1, <1>6, <2>1, OpNames DEF DriverFinish
    <2>3. op' = [op EXCEPT !["open"] = r]
      BY <1>2, <1>6, <2>2
    <2> HIDE DEF r
    <2>4. ctx'.state = s
      BY <1>2, <2>2 DEF CtxRecords
    <2>5. q.reg \notin {"no", "failed"} /\ q.kick = "no"
      BY <1>1, <1>2, <1>6 DEF OpOK, Passed, Common, Begun
    <2>6. handle.state \in {"OPENING", "OPENING_AND_CLOSING"}
      BY <1>1, <1>6, <2>5, CoreFacts DEF HandleOK
    <2>7. c.reg \in {"no", "done"}
      BY <1>1, <1>6, CoreFacts DEF CtxOK, CloseGoing
    <2>8. SteadyOpen(handle'.state, ctx'.state, r)
      BY <1>2, <1>3, <1>4, <1>6, <2>2, <2>4, <2>5, <2>6, OpNames DEF SteadyOpen
    <2>9. SteadyClose(handle'.state, ctx'.state, r, c)
      BY <1>2, <1>4, <1>6, <2>2, <2>4, <2>5, <2>7 DEF SteadyClose
    <2>10. NoData /\ \A d \in Data : op[d].reg # "pass"
      BY <1>2, <2>6 DEF SteadyData
    <2>11. ctx'.state # "CLOSED"
      BY <2>4
    <2> HIDE DEF s
    <2> QED
      BY <1>5, <2>2, <2>3, <2>8, <2>9, <2>10, <2>11, OpenSteps
  <1>7. CASE o = "close"
    <2>1. /\ op' = [op EXCEPT ![o].drv = "finished", ![o].ok = ok, ![o].progress = TRUE]
          /\ ctx' = [ctx EXCEPT !.state = "CLOSED"] /\ handle' = handle /\ ~failed'
      BY <1>1, <1>7, OpNames DEF DriverFinish
    <2>2. op' = [op EXCEPT !["close"] = r]
      BY <1>2, <1>7, <2>1
    <2> HIDE DEF r
    <2>3. ctx'.state = "CLOSED"
      BY <1>2, <2>1 DEF CtxRecords
    <2>4. Outstanding = {} /\ p.drv = "called"
      BY <1>1, <1>7, CoreFacts DEF CtxOK, CloseGoing
    <2>5. q.state \in Begun /\ q.reg \notin {"no", "start", "pass", "err", "failed"} /\ q.kick = "no"
      BY <1>1, <1>7, CoreFacts DEF Common, CloseOK
    <2>6. handle.state = "CLOSING"
      BY <1>2, <1>7, <2>5 DEF SteadyClose
    <2>7. SteadyOpen(handle'.state, ctx'.state, p)
      BY <1>2, <2>1, <2>3, <2>4 DEF SteadyOpen
    <2>8. SteadyClose(handle'.state, ctx'.state, p, r)
      BY <1>2, <1>4, <1>7, <2>1, <2>5, <2>6 DEF SteadyClose
    <2>9. ~Pretended(r) /\ \A d \in Data : op[d].reg # "pass"
      BY <1>2, <1>4, <2>5, <2>6 DEF Pretended, SteadyData
    <2> QED
      BY <1>5, <2>1, <2>2, <2>4, <2>6, <2>7, <2>8, <2>9, CloseSteps
  <1>8. CASE o \in Data
    <2>1. o # "open" /\ o # "close"
      BY <1>8, OpNames
    <2>2. o \in Outstanding
      BY <1>1, <1>3, <2>1 DEF Outstanding
    <2>3. ctx.state # "CLOSED" /\ p.ok
      BY <1>2, <1>3, <1>8, <2>2 DEF SteadyData, NoData
    <2>4. ctx.state # "OPENING"
      BY <1>2, <2>3 DEF SteadyOpen
    <2>5. /\ op' = [op EXCEPT ![o].drv = "finished", ![o].ok = ok, ![o].progress = TRUE]
          /\ ctx' = ctx /\ handle' = handle /\ ~failed'
      BY <1>1, <2>1, <2>3, <2>4 DEF DriverFinish
    <2>6. op' = [op EXCEPT ![o] = r]
      BY <1>2, <2>5
    <2> HIDE DEF r
    <2>7. Calm(o, q, r)
      BY <1>1, <1>3, <1>4, <1>5, <2>1 DEF Calm
    <2> QED
      BY <2>5, <2>6, <2>7, OneCalm
  <1> QED
    BY <1>6, <1>7, <1>8 DEF Ops

\* The driver's kickout calls the application for the open or the close.
LEMMA OpenCloseCallbackSteady ==
    ASSUME Careful, XioCore, Steady, setup' = setup, NEW o \in Ops, OpenCloseCallback(o)
    PROVE  Steady'
  <1> DEFINE p == op["open"]
             c == op["close"]
             q == op[o]
             r == Finished(o)
  <1>1. q.drv = "finished" /\ ~failed /\ o \in {"open", "close"}
    BY DEF OpenCloseCallback
  <1>2. /\ q \in OpRecords /\ OpOK(o, q) /\ SteadyOp(q) /\ handle \in HandleRecords
        /\ ctx \in CtxRecords /\ SteadyData /\ setup \in Setups
        /\ SteadyOpen(handle.state, ctx.state, p) /\ SteadyClose(handle.state, ctx.state, p, c)
    BY CoreFacts DEF Steady, XioCore, OpOK
  <1>3. q.state \in Begun /\ q.reg \notin {"pass", "err", "failed"}
    BY <1>1, <1>2 DEF OpOK, Common
  <1>4. /\ r.reg = q.reg /\ r.drv = "called" /\ r.kick \in {"no", "user"}
        /\ r.state = "FINISH_WAITING" /\ r.delivered = q.delivered
    BY <1>1, FinishedOK
  <1>5. SteadyOp(r)
    BY <1>3, <1>4 DEF SteadyOp
  <1>6. CASE o = "close"
    <2>1. c.reg \notin {"no", "start", "pass"}
      BY <1>1, <1>6, CoreFacts DEF CloseOK
    <2>2. handle.state = "CLOSING"
      BY <1>2, <1>3, <1>6, <2>1 DEF SteadyClose
    <2>3. /\ op' = [op EXCEPT ![o] = r] /\ ctx' = ctx /\ ~failed'
          /\ handle' = [handle EXCEPT !.close_op = FALSE]
      BY <1>1, <1>6, <2>2, OpNames DEF OpenCloseCallback
    <2>4. handle'.state = handle.state
      BY <1>2, <2>3 DEF HandleRecords
    <2> HIDE DEF r
    <2>5. Calm(o, q, r)
      BY <1>1, <1>3, <1>4, <1>5, <1>6, <2>1, <2>2, OpNames DEF Calm, Pretended
    <2> QED
      BY <2>3, <2>4, <2>5, OneCalm
  <1>7. CASE o = "open"
    <2>1. q.reg \notin {"no", "failed"} /\ ~q.delivered
      BY <1>1, <1>2, <1>7 DEF OpOK, Passed
    <2>2. handle.state \in {"OPENING", "OPENING_AND_CLOSING"}
      BY <1>1, <1>7, <2>1, CoreFacts DEF HandleOK
    <2>3. /\ op' = [op EXCEPT !["open"] = r] /\ ctx' = ctx /\ ~failed'
          /\ handle' = IF handle.state = "OPENING"
                       THEN [handle EXCEPT !.state = IF q.ok THEN "OPEN" ELSE "OPENING_FAILED"]
                       ELSE handle
      BY <1>1, <1>7, <2>2, OpNames DEF OpenCloseCallback
    <2>4. handle'.state = IF handle.state = "OPENING"
                          THEN (IF q.ok THEN "OPEN" ELSE "OPENING_FAILED")
                          ELSE "OPENING_AND_CLOSING"
      BY <1>2, <2>2, <2>3 DEF HandleRecords
    <2>5. q.state # "TIMEOUT_PENDING"
      BY <1>2, <1>7 DEF OpOK, Common, Timed, Careful
    <2>6. r.kick = "user" /\ r.ok = q.ok
      <3> DEFINE u == Unlist(q)
      <3>1. OpOK(o, u)
        <4>1. q.kick \notin Over
          BY <1>1, <1>2 DEF OpOK, Common, Begun, Over
        <4> QED
          BY <1>2, <4>1, Unlisted
      <3>2. u.ok = q.ok
        BY <1>2 DEF Unlist, OpRecords
      <3> HIDE DEF u
      <3>3. r = [u EXCEPT !.state = "FINISH_WAITING", !.drv = "called", !.down = FALSE,
                          !.canceled = FALSE, !.kick = "user", !.calls = @ + 1]
        BY <2>5 DEF Finished, u
      <3> HIDE DEF r
      <3> QED
        BY <3>1, <3>2, <3>3 DEF OpOK, OpRecords
    <2> HIDE DEF r
    <2>7. c.reg \in {"no", "done"}
      BY <1>1, <1>7, CoreFacts DEF CtxOK, CloseGoing
    <2>8. handle.state = "OPENING" => c.state = "NONE" /\ c.reg = "no" /\ c.drv = "no" /\ c.kick = "no"
      BY CoreFacts DEF HandleOK, Common
    <2>9. SteadyOpen(handle'.state, ctx'.state, r)
      BY <1>1, <1>2, <1>4, <1>7, <2>1, <2>3, <2>4, <2>6 DEF SteadyOpen
    <2>10. SteadyClose(handle'.state, ctx'.state, r, c)
      BY <1>2, <1>7, <2>2, <2>3, <2>4, <2>6, <2>7, <2>8 DEF SteadyClose, Begun
    <2>11. NoData /\ \A d \in Data : op[d].reg # "pass"
      BY <1>2, <2>2 DEF SteadyData
    <2>12. ctx'.state # "CLOSED"
      <3>1. "open" \in Outstanding
        BY <1>1, <1>7, <2>1, OpNames DEF Outstanding
      <3> QED
        BY <1>2, <2>3, <3>1 DEF SteadyData
    <2> QED
      BY <1>5, <2>3, <2>9, <2>10, <2>11, <2>12, OpenSteps
  <1> QED
    BY <1>1, <1>6, <1>7

\* The callback of the open or the close is over.
LEMMA OpenCloseKickoutSteady ==
    ASSUME XioCore, Steady, setup' = setup, NEW o \in Ops, OpenCloseKickout(o)
    PROVE  Steady'
  <1> DEFINE p == op["open"]
             c == op["close"]
             q == op[o]
             starts == handle.state = "OPENING_AND_CLOSING"
             k == After(o, IF starts THEN "closing" ELSE "done")
             r == [q EXCEPT !.state = "FINISHED", !.ref = @ - 1, !.kick = k]
             h == [handle EXCEPT !.open_op = FALSE]
             h2 == CASE handle.state = "OPENING_FAILED" -> [h EXCEPT !.state = "OPEN_FAILED"]
                     [] starts -> [h EXCEPT !.state = "CLOSING"]
                     [] handle.state = "CLOSING" /\ o = "close" ->
                          HandleDec([h EXCEPT !.state = "CLOSED"])
                     [] OTHER -> h
  <1>1. o \in {"open", "close"} /\ q.kick \in {"user", "timerUser"} /\ ~failed
    BY DEF OpenCloseKickout, InUser
  <1>2. /\ q \in OpRecords /\ OpOK(o, q) /\ SteadyOp(q) /\ handle \in HandleRecords
        /\ op \in [Ops -> OpRecords] /\ SteadyData
        /\ SteadyOpen(handle.state, ctx.state, p) /\ SteadyClose(handle.state, ctx.state, p, c)
    BY CoreFacts DEF Steady, XioCore, OpOK
  <1>3. q.state = "FINISH_WAITING"
    BY <1>1, <1>2 DEF SteadyOp
  <1>4. o = "open" => /\ q.kick = "user" /\ q.drv = "called" /\ ~OpenOver
                      /\ handle.state \notin {"CLIENT", "OPENING", "OPEN_FAILED"}
    <2>1. SUFFICES ASSUME o = "open"
                   PROVE  /\ q.kick = "user" /\ q.drv = "called" /\ ~OpenOver
                          /\ handle.state \notin {"CLIENT", "OPENING", "OPEN_FAILED"}
      OBVIOUS
    <2>2. q.kick = "user"
      BY <1>1, <1>2, <2>1 DEF SteadyOpen
    <2>3. q.drv = "called" /\ q.reg \notin {"no", "failed"}
      BY <1>2, <1>3, <2>1 DEF OpOK, Passed, Common, Begun, Ended
    <2>4. ~OpenOver
      BY <2>1, <2>2, <2>3 DEF OpenOver, Over
    <2>5. handle.state \notin {"CLIENT", "OPENING", "OPEN_FAILED"}
      BY <1>2, <2>1, <2>3, <2>4, CoreFacts DEF HandleOK, SteadyOpen
    <2> QED
      BY <2>2, <2>3, <2>4, <2>5
  <1>5. o = "close" => handle.state \in {"CLOSING", "CLOSED"}
    BY <1>1, <1>2 DEF SteadyClose
  <1>6. /\ op' = IF starts THEN [op EXCEPT ![o] = r, !["close"].reg = "start"]
                 ELSE [op EXCEPT ![o] = r]
        /\ handle' = IF r.ref = 0 THEN HandleDec(h2) ELSE h2
        /\ ctx' = ctx /\ ~failed'
    BY <1>1, <1>3, <1>4, <1>5, OpNames DEF OpenCloseKickout
  <1>7. h \in HandleRecords /\ h.state = handle.state
    BY <1>2 DEF HandleRecords
  <1>8. k = (IF q.kick = "user" THEN (IF starts THEN "closing" ELSE "done")
             ELSE IF starts THEN "timerClosing" ELSE "timerDone")
    BY DEF After
  <1> HIDE DEF h, k
  <1>9. /\ r.state = "FINISHED" /\ r.kick = k /\ r.drv = q.drv /\ r.ok = q.ok /\ r.reg = q.reg
        /\ r.delivered = q.delivered /\ r.canceled = q.canceled /\ r.timer = q.timer
    BY <1>2 DEF OpRecords
  <1> HIDE DEF r
  <1>10. SteadyOp(r)
    BY <1>2, <1>8, <1>9 DEF SteadyOp
  <1>11. CASE o = "close"
    <2>1. ~starts
      BY <1>5, <1>11
    <2>2. op' = [op EXCEPT !["close"] = r]
      BY <1>6, <1>11, <2>1
    <2>3. h2 \in HandleRecords /\ h2.state = "CLOSED"
      <3>1. CASE handle.state = "CLOSING"
        <4>1. h2 = HandleDec([h EXCEPT !.state = "CLOSED"])
          BY <1>11, <3>1
        <4> QED
          BY <1>7, <4>1, ClosedHandle
      <3>2. CASE handle.state = "CLOSED"
        <4>1. h2 = h
          BY <3>2
        <4> QED
          BY <1>7, <3>2, <4>1
      <3> QED
        BY <1>5, <1>11, <3>1, <3>2
    <2> HIDE DEF h2
    <2>4. handle'.state = "CLOSED"
      BY <1>6, <2>3 DEF HandleDec, HandleRecords
    <2>5. SteadyOpen(handle'.state, ctx'.state, p)
      BY <1>2, <1>6, <2>4 DEF SteadyOpen
    <2>6. SteadyClose(handle'.state, ctx'.state, p, r)
      BY <1>2, <1>6, <1>9, <1>11, <2>4 DEF SteadyClose, Begun
    <2>7. Outstanding \cap Data = {}
      <3>1. CASE q.drv = "no"
        <4>1. NoData
          BY <1>2, <1>3, <1>11, <3>1 DEF SteadyData, Pretended, Ended
        <4>2. ASSUME NEW d \in Data PROVE d \notin Outstanding
          <5>1. OpOK(d, op[d]) /\ op[d].state = "NONE"
            BY <4>1, OpNames DEF XioCore, NoData
          <5> QED
            BY <5>1 DEF OpOK, Common, Outstanding
        <4> QED
          BY <4>2
      <3>2. CASE q.drv # "no"
        BY <1>11, <3>2, CoreFacts DEF CtxOK
      <3> QED
        BY <3>1, <3>2
    <2>8. /\ Pretended(r) => Pretended(c)
          /\ \A d \in Data : op[d].reg # "pass"
          /\ ctx'.state = "CLOSED" => Outstanding = {}
      BY <1>2, <1>3, <1>5, <1>6, <1>9, <1>11 DEF Pretended, Ended, SteadyData
    <2> QED
      BY <1>6, <1>10, <2>2, <2>4, <2>5, <2>6, <2>7, <2>8, CloseSteps
  <1>12. CASE o = "open" /\ ~starts
    <2>1. op' = [op EXCEPT !["open"] = r] /\ k = "done"
      BY <1>4, <1>6, <1>8, <1>12
    <2>2. h2 = IF handle.state = "OPENING_FAILED" THEN [h EXCEPT !.state = "OPEN_FAILED"] ELSE h
      BY <1>12, OpNames
    <2>3. h2 \in HandleRecords /\ h2.state = IF handle.state = "OPENING_FAILED" THEN "OPEN_FAILED" ELSE handle.state
      BY <1>7, <2>2 DEF HandleRecords, HandleStates
    <2> HIDE DEF h2
    <2>4. handle'.state = IF handle.state = "OPENING_FAILED" THEN "OPEN_FAILED" ELSE handle.state
      BY <1>6, <2>3 DEF HandleDec, HandleRecords
    <2>5. handle.state = "OPENING_FAILED" => c.state = "NONE" /\ c.reg = "no" /\ c.drv = "no" /\ c.kick = "no"
      BY CoreFacts DEF HandleOK, Common
    <2>6. SteadyOpen(handle'.state, ctx'.state, r)
      BY <1>2, <1>6, <1>9, <1>12, <2>1, <2>4 DEF SteadyOpen
    <2>7. SteadyClose(handle'.state, ctx'.state, r, c)
      BY <1>2, <1>4, <1>6, <1>9, <1>12, <2>1, <2>4, <2>5 DEF SteadyClose, Begun
    <2>8. /\ \A d \in Data : op[d].reg = "pass" => handle'.state = "OPEN"
          /\ NoData \/ handle'.state \in {"OPEN", "CLOSING", "CLOSED"}
          /\ handle'.state = "CLOSED" => handle.state = "CLOSED"
      BY <1>2, <2>4 DEF SteadyData
    <2>9. r.ok = p.ok /\ r.drv = p.drv /\ r.delivered = p.delivered
      BY <1>9, <1>12
    <2> QED
      BY <1>6, <1>10, <2>1, <2>6, <2>7, <2>8, <2>9, OpenSteps
  <1>13. CASE o = "open" /\ starts
    <2> DEFINE s == [c EXCEPT !.reg = "start"]
    <2>1. op' = [op EXCEPT !["open"] = r, !["close"].reg = "start"] /\ k = "closing"
      BY <1>4, <1>6, <1>8, <1>13
    <2>2. op' = [op EXCEPT !["open"] = r, !["close"] = s]
      BY <1>2, <2>1, OpNames
    <2>3. h2 = [h EXCEPT !.state = "CLOSING"]
      BY <1>13
    <2>4. h2 \in HandleRecords /\ h2.state = "CLOSING"
      BY <1>7, <2>3 DEF HandleRecords, HandleStates
    <2> HIDE DEF h2
    <2>5. handle'.state = "CLOSING"
      BY <1>6, <2>4 DEF HandleDec, HandleRecords
    <2>6. c.state = "OPERATING" /\ c.reg = "no" /\ c \in OpRecords /\ ~c.canceled /\ c.timer = "no"
      BY <1>4, <1>13, CoreFacts DEF HandleOK, CloseOK
    <2>7. c.kick = "no" /\ c.drv = "no"
      BY <2>6, CoreFacts DEF Common, CloseOK, Begun
    <2>8. s.state = c.state /\ s.reg = "start" /\ s.drv = c.drv /\ s.kick = c.kick
      BY <2>6 DEF OpRecords
    <2> HIDE DEF s
    <2>9. /\ op'["open"] = r /\ op'["close"] = s
          /\ \A x \in Ops \ {"open", "close"} : op'[x] = op[x]
      BY <1>2, <2>2, OpNames
    <2>10. \A d \in Data : op'[d] = op[d]
      BY <2>9, OpNames
    <2>11. SteadyOp(s)
      BY <2>7, <2>8 DEF SteadyOp
    <2>12. \A x \in Ops : SteadyOp(op'[x])
      BY <1>10, <2>9, <2>11 DEF Steady
    <2>13. SteadyOpen(handle'.state, ctx'.state, r)
      BY <1>2, <1>4, <1>6, <1>9, <1>13, <2>1, <2>5 DEF SteadyOpen
    <2>14. SteadyClose(handle'.state, ctx'.state, r, s)
      BY <1>2, <1>4, <1>6, <1>9, <1>13, <2>1, <2>5, <2>6, <2>7, <2>8 DEF SteadyClose, SteadyOpen
    <2>15. NoData /\ NoData' /\ \A d \in Data : op'[d].reg # "pass"
      BY <1>2, <1>13, <2>10 DEF SteadyData, NoData
    <2>16. Outstanding' = Outstanding
      <3>1. \A x \in Ops \ {"close"} : op'[x].drv = op[x].drv /\ op'[x].delivered = op[x].delivered
        BY <1>9, <1>13, <2>9
      <3> QED
        BY <3>1, SameOutstanding
    <2>17. SteadyData'
      BY <1>2, <1>6, <2>5, <2>15, <2>16 DEF SteadyData
    <2> QED
      BY <1>6, <2>9, <2>12, <2>13, <2>14, <2>17 DEF Steady, SteadyClose
  <1> QED
    BY <1>1, <1>11, <1>12, <1>13

\* An operation that the application was called for can be delivered.
LEMMA CanDeliver ==
    ASSUME XioCore, Steady, NEW o \in Outstanding, op[o].drv = "called"
    PROVE  Deliverable(o) /\ ctx.state # "CLOSED"
  <1>1. ctx.state # "CLOSED"
    BY DEF Steady, SteadyData
  <1>2. ctx.out > 0
    <2>1. Outstanding \in SUBSET Ops /\ ctx.out = Cardinality(Outstanding)
      BY CoreFacts DEF Outstanding, CtxOK
    <2>2. Cardinality(Outstanding) \in Nat /\ Cardinality(Outstanding) # 0
      BY <2>1, OpsCounted
    <2> QED
      BY <2>1, <2>2
  <1>3. o = "open" => ctx.state \notin {"NONE", "OPENING"}
    BY DEF Steady, SteadyOpen
  <1>4. ctx.state \in CtxStates
    BY CoreFacts DEF CtxRecords
  <1> QED
    BY <1>1, <1>2, <1>3, <1>4 DEF Deliverable, CtxStates

\* A delivery: that of a failed open closes the context, for nothing else was
\* passed, and no close is under way that would still want it.
LEMMA DeliverSteady ==
    ASSUME XioCore, Steady, setup' = setup, ~failed', NEW o \in Outstanding, NEW r, SteadyOp(r),
           op[o].drv = "called", r.drv = "called", r.delivered, r.kick = op[o].kick,
           r.reg = op[o].reg, r.ok = op[o].ok, r.state = op[o].state,
           o = "open" => r.kick = "done" \/ (r.kick = "user" /\ r.ok /\ "open" \in BlockIn),
           op' = [op EXCEPT ![o] = r, !["close"] = CloseAfter(op["close"], Deliver(o).close)],
           handle'.state = handle.state, ctx' = Deliver(o).ctx
    PROVE  Steady'
  <1> DEFINE p == op["open"]
             p2 == op'["open"]
             c == op["close"]
             k == CloseAfter(c, Deliver(o).close)
  <1>1. /\ o \in Ops /\ o # "close" /\ SteadyOp(c) /\ SteadyData /\ op \in [Ops -> OpRecords]
        /\ SteadyOpen(handle.state, ctx.state, p) /\ SteadyClose(handle.state, ctx.state, p, c)
    BY CoreFacts, OpNames DEF Steady, Outstanding
  <1>2. /\ k.state = c.state /\ k.reg = c.reg /\ k.kick = c.kick /\ k.timer = c.timer
        /\ k.canceled = c.canceled /\ (k.drv = c.drv \/ k.drv \in {"no", "finished"})
        /\ (k.drv = "no" => c.drv = "no")
    <2>1. /\ k.state = c.state /\ k.reg = c.reg /\ k.kick = c.kick /\ k.timer = c.timer
          /\ k.canceled = c.canceled /\ Deliver(o).close \in {"no", "go", "finish"}
          /\ Deliver(o).close = "no" => k.drv = c.drv
          /\ Deliver(o).close = "go" => k.drv = "no"
          /\ Deliver(o).close = "finish" => k.drv = "finished"
          /\ Deliver(o).close # "no" => c.drv = "no"
      BY CloseAfterOK, DeliverDoes
    <2> HIDE DEF k
    <2> QED
      BY <2>1
  <1>3. ctx'.state = IF ctx.state = "OPEN_FAILED" THEN "CLOSED"
                     ELSE IF ctx.state = "OPENING_AND_CLOSING" THEN "CLOSING" ELSE ctx.state
    BY DeliverDoes
  <1>4. op' = [op EXCEPT ![o] = r, !["close"] = k]
    OBVIOUS
  <1> HIDE DEF k
  <1>5. op'[o] = r /\ op'["close"] = k /\ \A x \in Ops \ {o, "close"} : op'[x] = op[x]
    BY <1>1, <1>4, OpNames
  <1>6. SteadyOp(k)
    BY <1>1, <1>2 DEF SteadyOp
  <1>7. \A x \in Ops : SteadyOp(op'[x])
    BY <1>5, <1>6 DEF Steady
  <1>8. /\ p2.drv = p.drv /\ p2.ok = p.ok /\ p2.kick = p.kick
        /\ o # "open" => p2.delivered = p.delivered
        /\ o = "open" => p2.kick = "done" \/ (p2.kick = "user" /\ p2.ok /\ "open" \in BlockIn)
    BY <1>1, <1>5, OpNames
  <1>9. ctx.state # "CLOSED"
    BY CanDeliver
  <1>10. ctx'.state \in {"NONE", "OPENING"} => ctx.state = ctx'.state
    BY <1>3
  <1>11. p.drv = "asked" => ctx'.state = "OPENING"
    BY <1>1, <1>3 DEF SteadyOpen
  <1>12. ctx'.state # "OPEN_FAILED" /\ (ctx'.state = "CLOSED" => ~p.ok /\ ctx.state = "OPEN_FAILED")
    BY <1>1, <1>3, <1>9 DEF SteadyOpen
  <1>13. SteadyOpen(handle'.state, ctx'.state, p2)
    BY <1>1, <1>8, <1>10, <1>11, <1>12 DEF SteadyOpen
  <1>14. ~p.ok /\ c.reg \in {"start", "pass"} => o # "open"
    BY <1>1, <1>8 DEF SteadyClose
  <1>15. SteadyClose(handle'.state, ctx'.state, p2, k)
    BY <1>1, <1>2, <1>8, <1>12, <1>14 DEF SteadyClose
  <1>16. \A d \in Data : op'[d].reg = op[d].reg /\ op'[d].state = op[d].state
    BY <1>5, OpNames
  <1>17. Pretended(k) => Pretended(c)
    BY <1>2 DEF Pretended
  <1>18. NoData => NoData'
    BY <1>16 DEF NoData
  <1>19. Outstanding' = Outstanding \ {o}
    BY <1>1, <1>5 DEF Outstanding
  <1>20. ctx'.state = "CLOSED" => Outstanding' = {}
    <2>1. SUFFICES ASSUME ctx'.state = "CLOSED", NEW x \in Outstanding PROVE x = o
      BY <1>19
    <2>2. NoData
      BY <1>1, <1>12, <2>1 DEF SteadyData
    <2>3. ASSUME NEW d \in Data PROVE d \notin Outstanding
      <3>1. OpOK(d, op[d]) /\ op[d].state = "NONE"
        BY <2>2, OpNames DEF XioCore, NoData
      <3> QED
        BY <3>1 DEF OpOK, Common, Outstanding
    <2> QED
      BY <1>1, <2>1, <2>3 DEF Ops, Outstanding
  <1>21. SteadyData'
    BY <1>1, <1>5, <1>8, <1>16, <1>17, <1>18, <1>19, <1>20 DEF SteadyData
  <1> QED
    BY <1>5, <1>7, <1>13, <1>15, <1>21 DEF Steady, SteadyClose

\* globus_i_xio_will_block_cb.
LEMMA WillBlockSteady ==
    ASSUME Careful, XioCore, Steady, setup' = setup, NEW o \in Ops, WillBlock(o)
    PROVE  Steady'
  <1> DEFINE q == op[o]
             r == [q EXCEPT !.delivered = TRUE]
  <1>1. /\ o # "close" /\ q.kick = "user" /\ ~q.delivered /\ ~failed
        /\ o = "open" => q.ok /\ "open" \in BlockIn
    BY DEF WillBlock, Careful
  <1>2. OpOK(o, q) /\ q \in OpRecords /\ SteadyOp(q) /\ op \in [Ops -> OpRecords]
    BY CoreFacts DEF XioCore, OpOK, Steady
  <1>3. q.drv = "called"
    BY <1>1, <1>2 DEF OpOK, Common, Passed, OpRecords, OpStates, Begun, Ended
  <1>4. o \in Outstanding
    BY <1>1, <1>3 DEF Outstanding
  <1>5. Deliverable(o)
    BY <1>3, <1>4, CanDeliver
  <1>6. /\ ctx' = Deliver(o).ctx /\ handle' = handle /\ ~failed'
        /\ op' = [op EXCEPT ![o].delivered = TRUE,
                            !["close"] = CloseAfter(@, Deliver(o).close)]
    BY <1>1, <1>5 DEF WillBlock
  <1>7. op' = [op EXCEPT ![o] = r, !["close"] = CloseAfter(op["close"], Deliver(o).close)]
    BY <1>1, <1>2, <1>6, OpNames
  <1>8. /\ r.drv = q.drv /\ r.kick = q.kick /\ r.reg = q.reg /\ r.ok = q.ok /\ r.state = q.state
        /\ r.canceled = q.canceled /\ r.timer = q.timer /\ r.delivered
    BY <1>2 DEF OpRecords
  <1> HIDE DEF r
  <1>9. SteadyOp(r)
    BY <1>2, <1>8 DEF SteadyOp
  <1> QED
    BY <1>1, <1>3, <1>4, <1>6, <1>7, <1>8, <1>9, DeliverSteady

\* globus_xio_driver_open_delivered, _write_delivered and _read_delivered.
LEMMA DeliveredSteady ==
    ASSUME XioCore, Steady, setup' = setup, NEW o \in Ops, Delivered(o)
    PROVE  Steady'
  <1> DEFINE q == op[o]
             r == [q EXCEPT !.delivered = TRUE, !.returned = TRUE, !.ref = @ - 1]
             k == CloseAfter(op["close"], Deliver(o).close)
  <1>1. o # "close" /\ q.drv = "called" /\ q.kick \notin {"user", "closing"} /\ ~failed
    BY DEF Delivered
  <1>2. /\ OpOK(o, q) /\ q \in OpRecords /\ SteadyOp(q) /\ op \in [Ops -> OpRecords]
        /\ handle \in HandleRecords
    BY CoreFacts DEF XioCore, OpOK, Steady
  <1>3. ~q.delivered => o \in Outstanding /\ Deliverable(o)
    <2>1. SUFFICES ASSUME ~q.delivered PROVE o \in Outstanding /\ Deliverable(o)
      OBVIOUS
    <2>2. o \in Outstanding
      BY <1>1, <2>1 DEF Outstanding
    <2> QED
      BY <1>1, <2>2, CanDeliver
  <1>4. /\ ctx' = IF q.delivered THEN ctx ELSE Deliver(o).ctx
        /\ op' = [op EXCEPT ![o] = r,
                     !["close"] = IF q.delivered THEN @ ELSE CloseAfter(@, Deliver(o).close)]
        /\ handle' = IF r.ref = 0 THEN HandleDec(handle) ELSE handle
        /\ ~failed'
    BY <1>1, <1>3 DEF Delivered
  <1>5. op' = [op EXCEPT ![o] = r, !["close"] = IF q.delivered THEN op["close"] ELSE k]
    BY <1>1, <1>2, <1>4, OpNames
  <1> HIDE DEF k
  <1>6. /\ r.drv = q.drv /\ r.kick = q.kick /\ r.reg = q.reg /\ r.ok = q.ok /\ r.state = q.state
        /\ r.canceled = q.canceled /\ r.timer = q.timer /\ r.delivered = TRUE
    BY <1>2 DEF OpRecords
  <1> HIDE DEF r
  <1>7. SteadyOp(r)
    BY <1>2, <1>6 DEF SteadyOp
  <1>8. handle'.state = handle.state
    BY <1>2, <1>4 DEF HandleDec, HandleRecords
  <1>9. CASE q.delivered
    <2>1. op' = [op EXCEPT ![o] = r] /\ ctx' = ctx
      BY <1>1, <1>2, <1>4, <1>5, <1>9, OpNames
    <2>2. q.delivered = TRUE
      BY <1>2, <1>9 DEF OpRecords
    <2>3. Calm(o, q, r)
      BY <1>1, <1>6, <1>7, <2>2 DEF Calm
    <2> QED
      BY <1>4, <1>8, <2>1, <2>3, OneCalm
  <1>10. CASE ~q.delivered
    <2>1. /\ op' = [op EXCEPT ![o] = r, !["close"] = CloseAfter(op["close"], Deliver(o).close)]
          /\ ctx' = Deliver(o).ctx
      BY <1>4, <1>5, <1>10 DEF k
    <2>2. o = "open" => q.kick = "done"
      BY <1>1 DEF Steady, SteadyOpen
    <2> QED
      BY <1>1, <1>3, <1>4, <1>6, <1>7, <1>8, <1>10, <2>1, <2>2, DeliverSteady
  <1> QED
    BY <1>9, <1>10

-----------------------------------------------------------------------------
(* No assertion fails                                                       *)

\* Nothing is registered at first.
LEMMA SteadyInit ==
    ASSUME Init PROVE Steady
  <1>1. \A o \in Ops : op[o] = NoOp
    BY DEF Init
  <1>2. op["open"] = NoOp /\ op["close"] = NoOp /\ \A d \in Data : op[d] = NoOp
    BY <1>1, OpNames
  <1>3. \A o \in Ops : SteadyOp(op[o])
    BY <1>1 DEF NoOp, SteadyOp
  <1>4. SteadyOpen(handle.state, ctx.state, op["open"])
    BY <1>2 DEF Init, NoOp, SteadyOpen
  <1>5. SteadyClose(handle.state, ctx.state, op["open"], op["close"])
    BY <1>2 DEF Init, NoOp, SteadyClose, Begun
  <1>6. SteadyData
    <2>1. handle.state = "CLIENT" /\ ctx.state = "NONE"
      BY DEF Init
    <2>2. NoData
      BY <1>2 DEF NoOp, NoData
    <2>3. \A d \in Data : op[d].reg # "pass"
      BY <1>2 DEF NoOp
    <2> QED
      BY <2>1, <2>2, <2>3 DEF SteadyData
  <1> QED
    BY <1>3, <1>4, <1>5, <1>6 DEF Init, Steady

\* Every step of a careful application keeps it.
LEMMA SteadyNext ==
    ASSUME Careful, XioCore, Steady, Next PROVE Steady'
  <1>1. setup' = setup
    BY DEF Next
  <1>2. CASE Application
    BY <1>1, <1>2, RegisterOpenSteady, RegisterDataSteady, HandleCancelSteady, RegisterCloseSteady
       DEF Application
  <1>3. CASE Registration
    <2>1. CASE PassOpen \/ \E d \in Data : PassData(d)
      BY <1>1, <2>1, PassOpenSteady, PassDataSteady
    <2>2. CASE \E o \in Ops : RegisterReturn(o) \/ PassFailed(o) \/ RegisterErr(o)
      BY <1>1, <2>2, RegisterReturnSteady, PassFailedSteady, RegisterErrSteady
    <2>3. CASE RegisterCloseStart \/ PassClose \/ StartClose \/ StartCloseReturn
      BY <1>1, <2>3, RegisterCloseStartSteady, PassCloseSteady, StartCloseSteady,
         StartCloseReturnSteady
    <2>4. CASE StartCloseRefused \/ RegisterCloseReturn \/ RegisterCloseErr
      BY <1>1, <2>4, StartCloseRefusedSteady, RegisterCloseReturnSteady, RegisterCloseErrSteady
    <2> QED
      BY <1>3, <2>1, <2>2, <2>3, <2>4 DEF Registration
  <1>4. CASE \E o \in Ops, ok \in BOOLEAN : DriverFinish(o, ok)
    BY <1>1, <1>4, DriverFinishSteady
  <1>5. CASE Callbacks
    <2>1. CASE UnopenedClose \/ StartedClose
      BY <1>1, <2>1, UnopenedCloseSteady, StartedCloseSteady
    <2>2. CASE \E o \in Ops : OpenCloseCallback(o) \/ OpenCloseKickout(o)
      BY <1>1, <2>2, OpenCloseCallbackSteady, OpenCloseKickoutSteady
    <2>3. CASE \E d \in Data : ReadWriteCallback(d) \/ ReadWriteKickout(d)
      BY <1>1, <2>3, ReadWriteCallbackSteady, ReadWriteKickoutSteady
    <2>4. CASE \E o \in Ops : Delivered(o)
      BY <1>1, <2>4, DeliveredSteady
    <2> QED
      BY <1>5, <2>1, <2>2, <2>3, <2>4 DEF Callbacks
  <1>6. CASE \E o \in Ops : WillBlock(o)
    BY <1>1, <1>6, WillBlockSteady
  <1>7. CASE \E S \in SUBSET Ops : Poll(S)
    BY <1>1, <1>7, PollSteady
  <1>8. CASE Timer
    BY <1>1, <1>8, TimeoutCallbackSteady, RelistSteady, TimeoutAnswerSteady DEF Timer
  <1> QED
    BY <1>2, <1>3, <1>4, <1>5, <1>6, <1>7, <1>8 DEF Next

\* A step that changes nothing keeps it.
LEMMA SteadyStutter ==
    ASSUME XioCore, Steady, UNCHANGED vars PROVE Steady'
  <1>1. /\ handle' = handle /\ ctx' = ctx /\ op' = op /\ setup' = setup /\ failed' = failed
    BY DEF vars
  <1>2. Outstanding' = Outstanding
    BY <1>1 DEF Outstanding
  <1>3. SteadyData'
    BY <1>1, <1>2 DEF Steady, SteadyData, NoData
  <1> QED
    BY <1>1, <1>3 DEF Steady, SteadyClose

\* A careful application reaches none of the assertions on the way of an
\* operation (pass.c, driver.c, handle.c, timeout.c), in whatever order the
\* driver, the timer and the application's threads act, and the handle is freed
\* only when it is closed.
THEOREM NoAssertionFails == ASSUME Careful PROVE Spec => []AssertionsHold
  <1>1. Init => XioCore /\ Steady
    BY XioInit, SteadyInit
  <1>2. XioCore /\ Steady /\ [Next]_vars => (XioCore /\ Steady)'
    BY XioNext, XioStutter, SteadyNext, SteadyStutter
  <1>3. XioCore /\ Steady => AssertionsHold
    <2>1. SUFFICES ASSUME XioCore, Steady PROVE AssertionsHold
      OBVIOUS
    <2>2. handle.ref = B(handle.state # "CLOSED") + Cardinality(LiveOps)
      BY <2>1 DEF XioCore, HandleRefs, Careful
    <2>3. Cardinality(LiveOps) \in Nat
      <3>1. LiveOps \in SUBSET Ops
        BY DEF LiveOps
      <3> QED
        BY <3>1, OpsCounted
    <2>4. handle.ref = 0 => handle.state = "CLOSED"
      BY <2>2, <2>3 DEF B
    <2> QED
      BY <2>1, <2>4 DEF Steady, AssertionsHold
  <1> QED
    BY <1>1, <1>2, <1>3, PTL DEF Spec

=============================================================================
