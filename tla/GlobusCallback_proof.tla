------------------------ MODULE GlobusCallback_proof ------------------------
(***************************************************************************)
(* Proofs about the threads of GlobusCallback, for any number of           *)
(* callbacks, threads and adjust_* calls: PollersKept and NoWakeupLost.    *)
(* Both rest on ThreadCore, the shape of a thread's record at each place   *)
(* in the code.  GlobusCallbackRefs_proof goes on from here.               *)
(***************************************************************************)
EXTENDS GlobusCallback, FiniteSetTheorems, WellFoundedInduction, TLAPS

-----------------------------------------------------------------------------
(* The invariant                                                            *)

\* threads outside a callback, in one, and dropping a reference
IdlePcs == {"none", "poll", "wait", "timedwait", "woken", "exit"}
InCall == {"run", "respawn", "finish", "spawn", "ownwait", "ownwoken"}
Dropping == {"decref", "kick"}
ThreadRecs == [pc : IdlePcs \cup InCall \cup Dropping, own : BOOLEAN,
               restarted : BOOLEAN, e : Entries \cup {<<>>}]
InfoRecs == [in_queue : {"none", "timed", "ready"}, running_count : Int,
             is_periodic : BOOLEAN, period : {"zero", "own", "long"},
             unregister_callback : BOOLEAN, refs : Int]

\* The types, without the ranges of the counters.
Types ==
  /\ info \in [Entries -> InfoRecs]
  /\ ready_queue \in Seq(Entries) /\ due_queue \in Seq(Entries)
  /\ timed_queue \subseteq Entries
  /\ thread \in [Threads -> ThreadRecs]
  /\ thread_count \in Int
  /\ shutdown \in BOOLEAN /\ stolen \in BOOLEAN
  /\ phase \in [Callbacks -> {"new", "live", "inactive", "active",
                              "released", "draining"}]
  /\ notified \in [Callbacks -> Nat]
  /\ adjusts \in 0 .. MaxAdjust

\* What the record of a thread looks like at each place in the code.
ShapeOf(r) ==
  /\ r.pc \in IdlePcs <=> r.e = <<>>
  /\ r.own => r.pc \in {"run", "ownwait", "ownwoken", "finish", "kick", "decref", "exit"}
  /\ r.pc \in {"ownwait", "ownwoken"} => r.own
  /\ r.restarted => r.pc \in {"run", "respawn", "finish", "kick", "decref", "exit"}
  /\ r.pc = "respawn" => r.restarted

\* the shape of every thread
Shape == \A t \in Threads : ShapeOf(thread[t])

\* the inductive invariant
ThreadCore == Types /\ Shape /\ PollersKept

-----------------------------------------------------------------------------
(* Threads                                                                  *)

\* The pollers PollersKept counts, told from a thread's record.
ActiveRec(r) ==
  /\ ~r.own
  /\ r.pc \in {"poll", "woken", "run", "respawn", "finish", "kick", "decref",
               "spawn"}
  /\ ~r.restarted \/ r.pc = "respawn"
\* a thread of the library that does not leave
Stays(r) == ActiveRec(r) \/ r.pc \in {"wait", "timedwait"}

\* A condition signal changes at most the place where a thread waits.
WokenFrom(r, s) ==
  /\ s.own = r.own /\ s.restarted = r.restarted /\ s.e = r.e
  /\ \/ s.pc = r.pc
     \/ r.pc \in {"wait", "timedwait"} /\ s.pc = "woken"
     \/ r.pc = "ownwait" /\ s.pc = "ownwoken"

\* globus_cond_signal wakes at most one thread and changes nothing else of it.
LEMMA SignalEffect ==
    ASSUME NEW th \in [Threads -> ThreadRecs], Signal(th), stolen \in BOOLEAN
    PROVE  /\ thread' \in [Threads -> ThreadRecs] /\ stolen' \in BOOLEAN
           /\ stolen => stolen'
           /\ \A t \in Threads : WokenFrom(th[t], thread'[t])
  <1>1. CASE Waiting(th) = {}
    BY <1>1 DEF Signal, WokenFrom
  <1>2. CASE Waiting(th) # {}
    <2>1. PICK t \in Waiting(th) : /\ thread' = Wake(th, t)
                                   /\ stolen' = (stolen \/ th[t].pc = "ownwait")
      BY <1>2 DEF Signal
    <2>2. t \in Threads /\ th[t].pc \in {"wait", "timedwait", "ownwait"}
      BY DEF Waiting
    <2>3. thread' = [th EXCEPT ![t] = [th[t] EXCEPT !.pc =
                       IF th[t].pc = "ownwait" THEN "ownwoken" ELSE "woken"]]
      BY <2>1 DEF Wake
    <2>4. thread'[t] \in ThreadRecs /\ WokenFrom(th[t], thread'[t])
      BY <2>2, <2>3 DEF WokenFrom, ThreadRecs, IdlePcs, InCall
    <2>5. \A u \in Threads \ {t} : thread'[u] = th[u]
      BY <2>2, <2>3
    <2>6. \A u \in Threads : WokenFrom(th[u], thread'[u])
      BY <2>4, <2>5 DEF WokenFrom
    <2>7. thread' \in [Threads -> ThreadRecs]
      BY <2>2, <2>3, <2>4
    <2> QED BY <2>1, <2>6, <2>7
  <1> QED BY <1>1, <1>2

\* Waking a thread keeps its shape and whether it counts as a poller.
LEMMA WokenSame ==
    ASSUME NEW r \in ThreadRecs, NEW s \in ThreadRecs, WokenFrom(r, s), ShapeOf(r)
    PROVE  /\ ShapeOf(s) /\ (Stays(s) <=> Stays(r))
           /\ (s.pc = "none") <=> (r.pc = "none")
           /\ ActiveRec(r) => ActiveRec(s)
           /\ r.pc = "timedwait" => s.pc = "timedwait" \/ ActiveRec(s)
  BY DEF WokenFrom, ShapeOf, Stays, ActiveRec, IdlePcs

\* If the pollers and the threads alive are the same, PollersKept stays.
LEMMA PollersSame ==
    ASSUME PollersKept, shutdown => shutdown', thread_count' = thread_count,
           \A t \in Threads :
             /\ ~shutdown' => (Stays(thread'[t]) <=> Stays(thread[t]))
             /\ (thread'[t].pc = "none") <=> (thread[t].pc = "none")
    PROVE  PollersKept'
  <1>1. {t \in Threads : thread[t].pc # "none"}'
          = {t \in Threads : thread[t].pc # "none"}
    OBVIOUS
  <1>2. ~shutdown' =>
          {t \in Threads : Active(t) \/ thread[t].pc \in {"wait", "timedwait"}}'
          = {t \in Threads : Active(t) \/ thread[t].pc \in {"wait", "timedwait"}}
    BY DEF Active, Stays, ActiveRec
  <1> QED BY <1>1, <1>2 DEF PollersKept

\* A step that leaves the threads alone but for a signal keeps ThreadCore's
\* conjuncts about them.
LEMMA SignalCore ==
    ASSUME ThreadCore, NEW th \in [Threads -> ThreadRecs], Signal(th),
           shutdown' = shutdown, thread_count' = thread_count,
           \A t \in Threads :
             /\ ShapeOf(th[t])
             /\ ~shutdown' => (Stays(th[t]) <=> Stays(thread[t]))
             /\ (th[t].pc = "none") <=> (thread[t].pc = "none")
    PROVE  /\ thread' \in [Threads -> ThreadRecs] /\ stolen' \in BOOLEAN
           /\ Shape' /\ PollersKept'
  <1>1. /\ thread' \in [Threads -> ThreadRecs] /\ stolen' \in BOOLEAN
        /\ \A t \in Threads : WokenFrom(th[t], thread'[t])
    BY SignalEffect DEF ThreadCore, Types
  <1>2. \A t \in Threads : /\ ShapeOf(thread'[t])
                           /\ Stays(thread'[t]) <=> Stays(th[t])
                           /\ (thread'[t].pc = "none") <=> (th[t].pc = "none")
    BY <1>1, WokenSame
  <1> QED BY <1>1, <1>2, PollersSame DEF Shape, ThreadCore

\* The same for a step that changes the record of one thread and sends no signal.
LEMMA OneThreadCore ==
    ASSUME ThreadCore, NEW t \in Threads, NEW r \in ThreadRecs,
           thread' = [thread EXCEPT ![t] = r], shutdown' = shutdown,
           thread_count' = thread_count, ShapeOf(r),
           ~shutdown => (Stays(r) <=> Stays(thread[t])),
           (r.pc = "none") <=> (thread[t].pc = "none")
    PROVE  thread' \in [Threads -> ThreadRecs] /\ Shape' /\ PollersKept'
  <1>1. /\ thread' \in [Threads -> ThreadRecs] /\ thread'[t] = r
        /\ \A u \in Threads \ {t} : thread'[u] = thread[u]
    BY DEF ThreadCore, Types
  <1>2. Shape'
    BY <1>1 DEF Shape, ThreadCore
  <1>3. PollersKept'
    BY <1>1, PollersSame DEF ThreadCore
  <1> QED BY <1>1, <1>2, <1>3

\* Where finish_callback leaves a thread.
LEMMA AfterShape ==
    ASSUME ThreadCore, NEW t \in Threads, thread[t].pc \in {"finish", "kick", "decref"}
    PROVE  /\ After(thread, t) \in [Threads -> ThreadRecs]
           /\ \A u \in Threads :
                /\ ShapeOf(After(thread, t)[u])
                /\ Stays(After(thread, t)[u]) <=> Stays(thread[u])
                /\ (After(thread, t)[u].pc = "none") <=> (thread[u].pc = "none")
           /\ \A u \in Threads \ {t} : After(thread, t)[u] = thread[u]
           /\ After(thread, t)[t].e = <<>>
           /\ After(thread, t)[t] = [thread[t] EXCEPT
                 !.pc = IF thread[t].own \/ thread[t].restarted THEN "exit" ELSE "poll",
                 !.e = <<>>]
  <1> DEFINE r == [thread[t] EXCEPT
                !.pc = IF thread[t].own \/ thread[t].restarted THEN "exit" ELSE "poll",
                !.e = <<>>]
  <1>1. After(thread, t) = [thread EXCEPT ![t] = r]
    BY DEF After, ThreadCore, Types
  <1>2. thread[t] \in ThreadRecs /\ ShapeOf(thread[t])
    BY DEF ThreadCore, Types, Shape
  <1>3. /\ r \in ThreadRecs /\ ShapeOf(r) /\ (Stays(r) <=> Stays(thread[t]))
        /\ r.pc # "none" /\ r.e = <<>>
    BY <1>2 DEF ThreadRecs, IdlePcs, ShapeOf, Stays, ActiveRec
  <1> QED BY <1>1, <1>3 DEF ThreadCore, Types, Shape

-----------------------------------------------------------------------------
(* Queues                                                                   *)

\* A set of positions that is not empty has a smallest one.
LEMMA SmallestPosition ==
    ASSUME NEW I \in SUBSET Nat, I # {}
    PROVE  \E k \in I : \A m \in I : k <= m
  <1> DEFINE R == {ss \in Nat \X Nat : ss[1] < ss[2]}
  <1>1. IsWellFoundedOn(R, Nat)
    BY NatLessThanWellFounded DEF OpToRel
  <1>2. PICK k \in I : \A m \in I : ~(<<m, k>> \in R)
    <2> HIDE DEF R
    <2> QED BY <1>1, WFMin
  <1>3. ASSUME NEW m \in I PROVE k <= m
    <2>1. m \in Nat /\ k \in Nat
      OBVIOUS
    <2>2. ~(m < k)
      BY <1>2, <2>1
    <2> QED BY <2>1, <2>2
  <1> QED BY <1>3

\* Two queues put together.
LEMMA QueueJoin ==
    ASSUME NEW q \in Seq(Entries), NEW r \in Seq(Entries)
    PROVE  /\ q \o r \in Seq(Entries) /\ Len(q \o r) = Len(q) + Len(r)
           /\ \A k \in 1..Len(q) : (q \o r)[k] = q[k]
           /\ \A k \in 1..Len(r) : (q \o r)[Len(q) + k] = r[k]
  OBVIOUS

\* What RemoveAt leaves.
LEMMA QueueRemoveAt ==
    ASSUME NEW q \in Seq(Entries), NEW n \in 1..Len(q)
    PROVE  /\ RemoveAt(q, n) \in Seq(Entries) /\ Len(RemoveAt(q, n)) = Len(q) - 1
           /\ \A k \in 1..(n - 1) : RemoveAt(q, n)[k] = q[k]
           /\ \A k \in n..(Len(q) - 1) : RemoveAt(q, n)[k] = q[k + 1]
  <1> DEFINE a == SubSeq(q, 1, n - 1)
             b == SubSeq(q, n + 1, Len(q))
  <1>1. /\ a \in Seq(Entries) /\ Len(a) = n - 1
        /\ \A k \in 1..(n - 1) : a[k] = q[k]
    OBVIOUS
  <1>2. /\ b \in Seq(Entries) /\ Len(b) = Len(q) - n
        /\ \A k \in 1..(Len(q) - n) : b[k] = q[n + k]
    OBVIOUS
  <1>3. RemoveAt(q, n) = a \o b
    BY DEF RemoveAt
  <1>0. Len(q) \in Nat /\ n \in Nat /\ n >= 1 /\ n <= Len(q)
    OBVIOUS
  <1> HIDE DEF a, b
  <1>4. /\ a \o b \in Seq(Entries) /\ Len(a \o b) = Len(q) - 1
    <2>1. a \o b \in Seq(Entries) /\ Len(a \o b) = Len(a) + Len(b)
      BY <1>1, <1>2, QueueJoin
    <2> QED BY <1>0, <1>1, <1>2, <2>1
  <1>5. \A k \in 1..(n - 1) : (a \o b)[k] = q[k]
    BY <1>0, <1>1, <1>2
  <1>6. ASSUME NEW k \in n..(Len(q) - 1) PROVE (a \o b)[k] = q[k + 1]
    <2>1. k - (n - 1) \in 1..(Len(q) - n) /\ n + (k - (n - 1)) = k + 1
      BY <1>0
    <2>2. (a \o b)[k] = b[k - (n - 1)]
      BY <1>0, <1>1, <1>2
    <2> QED BY <1>2, <2>1, <2>2
  <1> QED BY <1>3, <1>4, <1>5, <1>6

\* Taking an entry out of a queue that holds each entry once.
LEMMA QueueRemove ==
    ASSUME NEW q \in Seq(Entries), NEW e
    PROVE  /\ RemoveFirst(q, e) \in Seq(Entries)
           /\ ToSet(RemoveFirst(q, e)) \subseteq ToSet(q)
           /\ IsInjective(q) =>
                /\ IsInjective(RemoveFirst(q, e))
                /\ ToSet(RemoveFirst(q, e)) = ToSet(q) \ {e}
  <1> DEFINE I == {k \in 1..Len(q) : q[k] = e}
  <1>0. Len(q) \in Nat /\ DOMAIN q = 1..Len(q)
    OBVIOUS
  <1>1. CASE I = {}
    <2>1. RemoveFirst(q, e) = q /\ e \notin ToSet(q)
      BY <1>0, <1>1 DEF RemoveFirst, ToSet
    <2> QED BY <2>1
  <1>2. CASE I # {}
    <2> DEFINE n == Min(I)
               r == RemoveFirst(q, e)
    <2>1. RemoveFirst(q, e) = RemoveAt(q, n)
      BY <1>2, Zenon DEF RemoveFirst, SelectInSeq
    <2>2. n \in I
      <3>1. \E k \in I : \A m \in I : k <= m
        <4>1. I \in SUBSET Nat
          BY <1>0
        <4> HIDE DEF I
        <4> QED BY <1>2, <4>1, SmallestPosition
      <3> QED BY <3>1 DEF Min
    <2> HIDE DEF n
    <2>3. n \in 1..Len(q) /\ q[n] = e
      BY <2>2
    <2>4. /\ r \in Seq(Entries) /\ Len(r) = Len(q) - 1
          /\ \A k \in 1..(n - 1) : r[k] = q[k]
          /\ \A k \in n..(Len(q) - 1) : r[k] = q[k + 1]
      BY <2>1, <2>3, QueueRemoveAt
    <2> HIDE DEF r
    <2>5. DOMAIN r = 1..(Len(q) - 1)
      BY <1>0, <2>3, <2>4
    <2> DEFINE old(k) == IF k < n THEN k ELSE k + 1
    <2>6. \A k \in 1..(Len(q) - 1) : /\ old(k) \in 1..Len(q) /\ old(k) # n
                                     /\ r[k] = q[old(k)]
      BY <1>0, <2>3, <2>4
    <2>7. \A k \in 1..Len(q) : k # n =>
             \E m \in 1..(Len(q) - 1) : old(m) = k
      <3> SUFFICES ASSUME NEW k \in 1..Len(q), k # n
                   PROVE  \E m \in 1..(Len(q) - 1) : old(m) = k
        OBVIOUS
      <3>1. CASE k < n
        BY <1>0, <2>3, <3>1
      <3>2. CASE k > n
        <4>1. k - 1 \in 1..(Len(q) - 1) /\ old(k - 1) = k
          BY <1>0, <2>3, <3>2
        <4> QED BY <4>1
      <3> QED BY <1>0, <2>3, <3>1, <3>2
    <2>8. \A k, m \in 1..(Len(q) - 1) : old(k) = old(m) => k = m
      BY <1>0, <2>3
    <2> HIDE DEF old
    <2>9. ToSet(r) \subseteq ToSet(q)
      BY <1>0, <2>5, <2>6 DEF ToSet
    <2>10. ASSUME IsInjective(q)
           PROVE  IsInjective(r) /\ ToSet(r) = ToSet(q) \ {e}
      <3>1. IsInjective(r)
        <4> SUFFICES ASSUME NEW k \in DOMAIN r, NEW m \in DOMAIN r, r[k] = r[m]
                     PROVE  k = m
          BY DEF IsInjective
        <4>1. q[old(k)] = q[old(m)] /\ old(k) \in DOMAIN q /\ old(m) \in DOMAIN q
          BY <1>0, <2>5, <2>6
        <4>2. old(k) = old(m)
          BY <2>10, <4>1 DEF IsInjective
        <4> QED BY <2>5, <2>8, <4>2
      <3>2. e \notin ToSet(r)
        BY <1>0, <2>3, <2>5, <2>6, <2>10 DEF ToSet, IsInjective
      <3>3. ASSUME NEW x \in ToSet(q), x # e PROVE x \in ToSet(r)
        <4>1. PICK k \in 1..Len(q) : x = q[k]
          BY <1>0 DEF ToSet
        <4>2. PICK m \in 1..(Len(q) - 1) : old(m) = k
          BY <2>3, <2>7, <3>3, <4>1
        <4>3. x = r[m]
          BY <2>6, <4>1, <4>2
        <4> QED BY <2>5, <4>3 DEF ToSet
      <3> QED BY <2>9, <3>1, <3>2, <3>3
    <2> QED BY <2>4, <2>9, <2>10 DEF r
  <1> QED BY <1>1, <1>2

-----------------------------------------------------------------------------
(* ThreadCore, action by action                                             *)

\* The types of the entries and the queues.
SpaceTypes ==
  /\ info \in [Entries -> InfoRecs]
  /\ ready_queue \in Seq(Entries) /\ due_queue \in Seq(Entries)
  /\ timed_queue \subseteq Entries

\* A callback has two entries of its own.
LEMMA EntriesOf ==
    ASSUME NEW c \in Callbacks
    PROVE  /\ Cb(c) \in Entries /\ Kick(c) \in Entries /\ Cb(c) # Kick(c)
           /\ \A d \in Callbacks : /\ Cb(c) # Kick(d)
                                   /\ Cb(c) = Cb(d) => c = d
                                   /\ Kick(c) = Kick(d) => c = d
           /\ Cb(c) # <<>> /\ Kick(c) # <<>>
  BY DEF Cb, Kick, Entries

\* An entry belongs to a callback.
LEMMA EntryCases ==
    ASSUME NEW e \in Entries
    PROVE  /\ e # <<>>
           /\ \E c \in Callbacks : (e = Cb(c) \/ e = Kick(c)) /\ e[1] = c
           /\ e[2] = "cb" <=> \E c \in Callbacks : e = Cb(c)
  BY DEF Entries, Cb, Kick

\* The fresh callback_info.
LEMMA NoInfoType ==
    /\ NoInfo \in InfoRecs /\ NoInfo.running_count = 0 /\ ~NoInfo.is_periodic
    /\ ~NoInfo.unregister_callback
  BY DEF NoInfo, InfoRecs

\* The callback_info of a kickout.
LEMMA KickInfoType ==
    LET k == [NoInfo EXCEPT !.in_queue = "ready", !.refs = 1] IN
    /\ k \in InfoRecs /\ k.in_queue = "ready" /\ k.running_count = 0
    /\ ~k.is_periodic /\ ~k.unregister_callback /\ k.refs = 1
  <1> DEFINE k == [NoInfo EXCEPT !.in_queue = "ready", !.refs = 1]
  <1>1. \A r \in InfoRecs, q \in {"none", "timed", "ready"}, n \in Int :
           [r EXCEPT !.in_queue = q, !.refs = n] \in InfoRecs
    BY DEF InfoRecs
  <1>2. "ready" \in {"none", "timed", "ready"} /\ 1 \in Int
    OBVIOUS
  <1>3. k \in InfoRecs
    BY <1>1, <1>2, NoInfoType, Zenon
  <1>4. k.in_queue = "ready" /\ k.refs = 1
    BY NoInfoType DEF InfoRecs
  <1>5. k.running_count = 0 /\ ~k.is_periodic /\ ~k.unregister_callback
    BY NoInfoType DEF InfoRecs
  <1> QED BY <1>3, <1>4, <1>5

\* Moving the entries that are due keeps the types.
LEMMA DueReadyType ==
    ASSUME NEW i \in [Entries -> InfoRecs]
    PROVE  /\ DueReady(i) \in [Entries -> InfoRecs]
           /\ \A e \in Entries :
                /\ DueReady(i)[e].running_count = i[e].running_count
                /\ DueReady(i)[e].is_periodic = i[e].is_periodic
                /\ DueReady(i)[e].period = i[e].period
                /\ DueReady(i)[e].unregister_callback = i[e].unregister_callback
                /\ DueReady(i)[e].refs = i[e].refs
                /\ DueReady(i)[e].in_queue =
                     IF Contains(due_queue, e) THEN "ready" ELSE i[e].in_queue
  BY DEF DueReady, InfoRecs

\* Queueing an entry again keeps the types.
LEMMA RequeueTypes ==
    ASSUME Types, NEW i \in [Entries -> InfoRecs], NEW e \in Entries,
           NEW q \in {"timed", "ready"}, Requeue(i, e, q)
    PROVE  /\ SpaceTypes'
           /\ ready_queue' # <<>> \/ timed_queue' # {}
  <1>1. info' \in [Entries -> InfoRecs]
    <2>1. DueReady(i) \in [Entries -> InfoRecs]
      BY DueReadyType
    <2>2. [DueReady(i)[e] EXCEPT !.in_queue = q] \in InfoRecs
      BY <2>1 DEF InfoRecs
    <2>3. info' = [DueReady(i) EXCEPT ![e] = [DueReady(i)[e] EXCEPT !.in_queue = q]]
      BY DEF Requeue
    <2> QED BY <2>1, <2>2, <2>3
  <1>2. ready_queue \o due_queue \in Seq(Entries)
    BY QueueJoin DEF Types
  <1>3. CASE q = "ready"
    <2>1. ready_queue' = (ready_queue \o due_queue) \o <<e>>
      BY <1>3 DEF Requeue
    <2>2. <<e>> \in Seq(Entries) /\ Len(<<e>>) = 1
      OBVIOUS
    <2>3. ready_queue' \in Seq(Entries) /\ Len(ready_queue') = Len(ready_queue \o due_queue) + 1
      BY <1>2, <2>1, <2>2, QueueJoin
    <2>4. ready_queue' # <<>>
      BY <1>2, <2>3
    <2> QED BY <1>1, <1>3, <2>3, <2>4 DEF Requeue, SpaceTypes, Types
  <1>4. CASE q = "timed"
    <2>1. ready_queue' = (ready_queue \o due_queue) \o <<>>
      BY <1>4 DEF Requeue
    <2>2. ready_queue' \in Seq(Entries)
      BY <1>2, <2>1
    <2> QED BY <1>1, <1>4, <2>2 DEF Requeue, SpaceTypes, Types
  <1> QED BY <1>3, <1>4

\* The program's calls change the threads only by a signal.
LEMMA CallCore ==
    ASSUME ThreadCore, SpaceTypes', UNCHANGED <<shutdown, thread_count>>,
           Signal(thread) \/ UNCHANGED <<thread, stolen>>,
           phase' \in [Callbacks -> {"new", "live", "inactive", "active",
                                     "released", "draining"}],
           UNCHANGED notified, adjusts' \in 0 .. MaxAdjust
    PROVE  ThreadCore'
  <1>1. /\ thread' \in [Threads -> ThreadRecs] /\ stolen' \in BOOLEAN
        /\ Shape' /\ PollersKept'
    <2>1. CASE Signal(thread)
      <3>1. thread \in [Threads -> ThreadRecs] /\ \A t \in Threads : ShapeOf(thread[t])
        BY DEF ThreadCore, Types, Shape
      <3> QED BY <2>1, <3>1, SignalCore
    <2>2. CASE UNCHANGED <<thread, stolen>>
      BY <2>2, PollersSame DEF ThreadCore, Types, Shape
    <2> QED BY <2>1, <2>2
  <1> QED BY <1>1 DEF ThreadCore, Types, SpaceTypes

\* globus_callback_space_register_*.
LEMMA RegisterCore ==
    ASSUME ThreadCore, NEW c \in Callbacks, NEW start \in Starts,
           NEW periodic \in BOOLEAN, NEW period \in {"zero", "own", "long"},
           Register(c, start, periodic, period)
    PROVE  ThreadCore'
  <1>0. /\ info \in [Entries -> InfoRecs] /\ ready_queue \in Seq(Entries)
        /\ due_queue \in Seq(Entries) /\ timed_queue \subseteq Entries
        /\ Cb(c) \in Entries
    BY EntriesOf DEF ThreadCore, Types
  <1>1. QueueOf(start) \in {"none", "timed", "ready"}
    BY CallbackAssumption DEF QueueOf
  <1> DEFINE n == (IF c \in NoHandle THEN 1 ELSE 2)
                    - (IF start = "never" THEN 1 ELSE 0)
             i == [NoInfo EXCEPT !.in_queue = QueueOf(start), !.is_periodic = periodic,
                                 !.period = period, !.refs = n]
  <1>2. i \in InfoRecs
    <2>1. n \in Int
      OBVIOUS
    <2> HIDE DEF n
    <2> QED BY <1>1, <2>1, NoInfoType DEF InfoRecs
  <1>3. SpaceTypes'
    BY <1>0, <1>2 DEF Register, SpaceTypes
  <1>4. phase' \in [Callbacks -> {"new", "live", "inactive", "active",
                                  "released", "draining"}]
    BY DEF Register, ThreadCore, Types
  <1> QED BY <1>3, <1>4, CallCore DEF Register, ThreadCore, Types

\* The queues stay well typed when an entry is taken out.
LEMMA DequeuedTypes ==
    ASSUME ThreadCore, NEW e \in Entries,
           Dequeued(e) \/ EnqueueTimed(e) \/ EnqueueReady(e) \/ UNCHANGED space
    PROVE  /\ ready_queue' \in Seq(Entries) /\ due_queue' \in Seq(Entries)
           /\ timed_queue' \subseteq Entries
  <1>1. /\ RemoveFirst(ready_queue, e) \in Seq(Entries)
        /\ RemoveFirst(due_queue, e) \in Seq(Entries)
    BY QueueRemove DEF ThreadCore, Types
  <1>2. Append(RemoveFirst(ready_queue, e), e) \in Seq(Entries)
    BY <1>1
  <1> QED BY <1>1, <1>2
          DEF Dequeued, EnqueueTimed, EnqueueReady, space, ThreadCore, Types

\* globus_callback_unregister.
LEMMA UnregisterCore ==
    ASSUME ThreadCore, NEW c \in Callbacks, NEW cb \in BOOLEAN,
           UnregisterActive(c, cb) \/ UnregisterInactive(c, cb)
    PROVE  ThreadCore'
  <1> DEFINE e == Cb(c)
  <1>0. /\ info \in [Entries -> InfoRecs] /\ e \in Entries /\ Kick(c) \in Entries
        /\ info[e] \in InfoRecs
    BY EntriesOf DEF ThreadCore, Types
  <1> HIDE DEF e
  <1>1. CASE UnregisterActive(c, cb)
    <2> DEFINE q == IF info[e].is_periodic THEN "none" ELSE info[e].in_queue
               n == info[e].refs - 1
               i == [info[e] EXCEPT !.unregister_callback = cb, !.in_queue = q,
                                    !.is_periodic = FALSE, !.refs = n]
    <2>1. info' = [info EXCEPT ![e] = i]
      BY <1>1 DEF UnregisterActive, e
    <2>2. i \in InfoRecs
      <3>1. q \in {"none", "timed", "ready"} /\ n \in Int
        BY <1>0 DEF InfoRecs
      <3> HIDE DEF q, n
      <3> QED BY <1>0, <3>1 DEF InfoRecs
    <2>3. SpaceTypes'
      BY <1>0, <1>1, <2>1, <2>2, DequeuedTypes DEF UnregisterActive, SpaceTypes, e
    <2>4. phase' \in [Callbacks -> {"new", "live", "inactive", "active",
                                    "released", "draining"}]
      BY <1>1 DEF UnregisterActive, ThreadCore, Types
    <2> QED BY <1>1, <2>3, <2>4, CallCore DEF UnregisterActive, ThreadCore, Types
  <1>2. CASE UnregisterInactive(c, cb)
    <2> DEFINE n == info[e].refs - (IF info[e].in_queue # "none" THEN 1 ELSE 0)
                                 - (IF cb THEN 0 ELSE 1)
               i == [info[e] EXCEPT !.unregister_callback = cb,
                                    !.in_queue = "none", !.refs = n]
               f == [info EXCEPT ![e] = i]
               k == [NoInfo EXCEPT !.in_queue = "ready", !.refs = 1]
    <2>1. info' = IF cb THEN [f EXCEPT ![Kick(c)] = k] ELSE f
      BY <1>2 DEF UnregisterInactive, KickoutInfo, e
    <2>2. i \in InfoRecs /\ k \in InfoRecs
      <3>1. n \in Int
        BY <1>0 DEF InfoRecs
      <3> HIDE DEF n
      <3>2. i \in InfoRecs
        BY <1>0, <3>1 DEF InfoRecs
      <3>3. k \in InfoRecs
        BY KickInfoType
      <3> QED BY <3>2, <3>3
    <2>3. f \in [Entries -> InfoRecs] /\ info' \in [Entries -> InfoRecs]
      BY <1>0, <2>1, <2>2
    <2>4. /\ RemoveFirst(ready_queue, e) \in Seq(Entries)
          /\ RemoveFirst(due_queue, e) \in Seq(Entries)
      BY QueueRemove DEF ThreadCore, Types
    <2>5. Append(RemoveFirst(ready_queue, e), Kick(c)) \in Seq(Entries)
      BY <1>0, <2>4
    <2>6. SpaceTypes'
      BY <1>2, <2>3, <2>4, <2>5
         DEF UnregisterInactive, SpaceTypes, e, ThreadCore, Types
    <2>7. phase' \in [Callbacks -> {"new", "live", "inactive", "active",
                                    "released", "draining"}]
      BY <1>2 DEF UnregisterInactive, ThreadCore, Types
    <2> QED BY <1>2, <2>6, <2>7, CallCore
            DEF UnregisterInactive, ThreadCore, Types
  <1> QED BY <1>1, <1>2

\* globus_callback_adjust_oneshot and globus_callback_adjust_period.
LEMMA AdjustCore ==
    ASSUME ThreadCore, NEW c \in Callbacks, NEW p \in {"zero", "own", "long"},
           NEW q \in {"timed", "ready"},
           \/ AdjustOneshot(c, q) \/ Suspend(c) \/ Resume(c, p)
           \/ ResumeRunning(c, p)
    PROVE  ThreadCore'
  <1> DEFINE e == Cb(c)
  <1>0. /\ info \in [Entries -> InfoRecs] /\ e \in Entries
        /\ info[e] \in InfoRecs
    BY EntriesOf DEF ThreadCore, Types
  <1> HIDE DEF e
  <1>1. /\ UNCHANGED <<thread_count, shutdown, phase, notified>>
        /\ adjusts' \in 0 .. MaxAdjust
    <2>1. Adjust(c)
      BY DEF AdjustOneshot, Suspend, Resume, ResumeRunning
    <2>2. adjusts \in 0 .. MaxAdjust /\ MaxAdjust \in Nat
      BY CallbackAssumption DEF ThreadCore, Types
    <2> QED BY <2>1, <2>2 DEF Adjust
  <1>2. info' \in [Entries -> InfoRecs]
    <2>1. CASE AdjustOneshot(c, q)
      BY <1>0, <2>1 DEF AdjustOneshot, InfoRecs, e
    <2>2. CASE Suspend(c)
      <3> DEFINE n == info[e].refs - (IF info[e].in_queue # "none"
                                           /\ info[e].running_count = 0
                                      THEN 1 ELSE 0)
                 i == [info[e] EXCEPT !.is_periodic = FALSE, !.in_queue = "none",
                                      !.refs = n]
      <3>1. info' = [info EXCEPT ![e] = i]
        BY <2>2 DEF Suspend, e
      <3>2. i \in InfoRecs
        <4>1. n \in Int
          BY <1>0 DEF InfoRecs
        <4> HIDE DEF n
        <4> QED BY <1>0, <4>1 DEF InfoRecs
      <3> QED BY <1>0, <3>1, <3>2
    <2>3. CASE Resume(c, p)
      <3> DEFINE n == info[e].refs + (IF info[e].in_queue = "none" THEN 1 ELSE 0)
                 i == [info[e] EXCEPT !.is_periodic = TRUE, !.period = p,
                                      !.in_queue = PeriodQueue(p), !.refs = n]
      <3>1. info' = [info EXCEPT ![e] = i]
        BY <2>3 DEF Resume, e
      <3>2. i \in InfoRecs
        <4>1. n \in Int /\ PeriodQueue(p) \in {"none", "timed", "ready"}
          BY <1>0 DEF InfoRecs, PeriodQueue
        <4> HIDE DEF n
        <4> QED BY <1>0, <4>1 DEF InfoRecs
      <3> QED BY <1>0, <3>1, <3>2
    <2>4. CASE ResumeRunning(c, p)
      BY <1>0, <2>4 DEF ResumeRunning, InfoRecs, e
    <2> QED BY <2>1, <2>2, <2>3, <2>4
  <1>3. Dequeued(e) \/ EnqueueTimed(e) \/ EnqueueReady(e) \/ UNCHANGED space
    BY DEF AdjustOneshot, Suspend, Resume, ResumeRunning, e
  <1>4. Signal(thread) \/ UNCHANGED <<thread, stolen>>
    BY DEF AdjustOneshot, Suspend, Resume, ResumeRunning
  <1>5. SpaceTypes'
    BY <1>0, <1>2, <1>3, DequeuedTypes DEF SpaceTypes
  <1> QED BY <1>1, <1>4, <1>5, CallCore DEF ThreadCore, Types

\* What is left to show for a step of a thread.
LEMMA StepCore ==
    ASSUME ThreadCore, SpaceTypes' \/ UNCHANGED <<info, space>>,
           thread' \in [Threads -> ThreadRecs], Shape', PollersKept',
           thread_count' \in Int, UNCHANGED <<phase, adjusts>>,
           stolen' \in BOOLEAN \/ UNCHANGED stolen,
           shutdown' \in BOOLEAN \/ UNCHANGED shutdown,
           notified' \in [Callbacks -> Nat] \/ UNCHANGED notified
    PROVE  ThreadCore'
  BY DEF ThreadCore, Types, SpaceTypes, space

\* A thread moves on in the code.
LEMMA MoveCore ==
    ASSUME ThreadCore, NEW t \in Threads, NEW pc \in InCall \cup Dropping \cup IdlePcs,
           thread' = [thread EXCEPT ![t].pc = pc],
           UNCHANGED <<shutdown, thread_count>>,
           ShapeOf([thread[t] EXCEPT !.pc = pc]),
           Stays([thread[t] EXCEPT !.pc = pc]) <=> Stays(thread[t]),
           pc # "none", thread[t].pc # "none"
    PROVE  /\ thread' \in [Threads -> ThreadRecs] /\ Shape' /\ PollersKept'
           /\ thread_count' \in Int
  <1> DEFINE r == [thread[t] EXCEPT !.pc = pc]
  <1>1. thread[t] \in ThreadRecs
    BY DEF ThreadCore, Types
  <1>2. thread' = [thread EXCEPT ![t] = r] /\ r \in ThreadRecs /\ r.pc = pc
    BY <1>1 DEF ThreadRecs, ThreadCore, Types
  <1> HIDE DEF r
  <1>3. ShapeOf(r) /\ (Stays(r) <=> Stays(thread[t]))
    BY DEF r
  <1> QED BY <1>2, <1>3, OneThreadCore DEF ThreadCore, Types

\* The places a thread that is in no callback, or leaves one, goes on to.
LEMMA MoveShape ==
    ASSUME ThreadCore, NEW t \in Threads,
           NEW pc \in InCall \cup Dropping \cup IdlePcs
    PROVE  LET s == [thread[t] EXCEPT !.pc = pc] IN
           /\ s.pc = pc /\ s.own = thread[t].own
           /\ s.restarted = thread[t].restarted /\ s.e = thread[t].e
           /\ thread[t] \in ThreadRecs /\ ShapeOf(thread[t])
  BY DEF ThreadCore, Types, Shape, ThreadRecs

\* The steps that only move a thread on.
LEMMA MovesCore ==
    ASSUME ThreadCore, NEW t \in Threads,
           \/ PollTimeout(t) \/ Return(t) \/ ReturnOwn(t) \/ OwnWake(t)
           \/ OwnWaitAgain(t)
    PROVE  ThreadCore'
  <1>0. thread[t] \in ThreadRecs /\ ShapeOf(thread[t])
    BY DEF ThreadCore, Types, Shape
  <1>1. \E pc \in {"woken", "finish", "ownwait", "run"} :
          /\ thread' = [thread EXCEPT ![t].pc = pc]
          /\ pc = "woken" => thread[t].pc = "timedwait"
          /\ pc = "finish" => thread[t].pc \in {"run", "ownwait", "ownwoken"}
          /\ pc = "ownwait" => /\ thread[t].pc \in {"run", "ownwoken"}
                               /\ thread[t].own /\ ~thread[t].restarted
          /\ pc = "run" => thread[t].pc \in {"ownwait", "ownwoken"}
    <2>1. CASE PollTimeout(t)
      BY <2>1 DEF PollTimeout
    <2>2. CASE Return(t)
      BY <2>2 DEF Return
    <2>3. CASE ReturnOwn(t)
      BY <2>3 DEF ReturnOwn
    <2>4. CASE OwnWake(t)
      BY <2>4 DEF OwnWake
    <2>5. CASE OwnWaitAgain(t)
      BY <1>0, <2>5 DEF OwnWaitAgain, ShapeOf
    <2> QED BY <2>1, <2>2, <2>3, <2>4, <2>5
  <1>2. PICK pc \in {"woken", "finish", "ownwait", "run"} :
          /\ thread' = [thread EXCEPT ![t].pc = pc]
          /\ pc = "woken" => thread[t].pc = "timedwait"
          /\ pc = "finish" => thread[t].pc \in {"run", "ownwait", "ownwoken"}
          /\ pc = "ownwait" => /\ thread[t].pc \in {"run", "ownwoken"}
                               /\ thread[t].own /\ ~thread[t].restarted
          /\ pc = "run" => thread[t].pc \in {"ownwait", "ownwoken"}
    BY <1>1
  <1>3. pc \in InCall \cup Dropping \cup IdlePcs /\ pc # "none"
    BY DEF InCall, IdlePcs
  <1> DEFINE s == [thread[t] EXCEPT !.pc = pc]
  <1>4. /\ s.pc = pc /\ s.own = thread[t].own
        /\ s.restarted = thread[t].restarted /\ s.e = thread[t].e
    BY <1>3, MoveShape
  <1> HIDE DEF s
  <1>5. ShapeOf(s) /\ (Stays(s) <=> Stays(thread[t])) /\ thread[t].pc # "none"
    BY <1>0, <1>2, <1>4 DEF ShapeOf, Stays, ActiveRec, IdlePcs
  <1>6. UNCHANGED <<info, space, thread_count, shutdown, phase, notified, stolen, adjusts>>
    BY DEF PollTimeout, Return, ReturnOwn, OwnWake, OwnWaitAgain
  <1>7. /\ thread' \in [Threads -> ThreadRecs] /\ Shape' /\ PollersKept'
        /\ thread_count' \in Int
    BY <1>2, <1>3, <1>5, <1>6, MoveCore DEF s
  <1> QED BY <1>6, <1>7, StepCore

\* The start time of an entry passes.
LEMMA DueCore ==
    ASSUME ThreadCore, NEW e \in Entries, Due(e)
    PROVE  ThreadCore'
  <1>1. SpaceTypes'
    BY DEF Due, SpaceTypes, ThreadCore, Types
  <1>2. Shape' /\ PollersKept' /\ thread' \in [Threads -> ThreadRecs]
    BY PollersSame DEF Due, ThreadCore, Shape, Types
  <1> QED BY <1>1, <1>2, StepCore DEF Due, ThreadCore, Types

\* One turn of the polling loop.
LEMMA PollCore ==
    ASSUME ThreadCore, NEW t \in Threads, Poll(t)
    PROVE  ThreadCore'
  <1> DEFINE q == ready_queue \o due_queue
             e == Head(q)
  <1>0. /\ thread[t] \in ThreadRecs /\ ShapeOf(thread[t])
        /\ thread[t].pc \in {"poll", "woken"}
        /\ thread[t].e = <<>> /\ ~thread[t].own /\ ~thread[t].restarted
    BY DEF ThreadCore, Types, Shape, Poll, ShapeOf, IdlePcs
  <1>1. CASE shutdown \/ q = <<>>
    <2>1. PICK pc \in {"exit", "wait", "timedwait"} :
             /\ thread' = [thread EXCEPT ![t].pc = pc]
             /\ pc = "exit" => shutdown
      BY <1>1 DEF Poll
    <2>2. pc \in InCall \cup Dropping \cup IdlePcs /\ pc # "none"
      BY DEF IdlePcs
    <2> DEFINE s == [thread[t] EXCEPT !.pc = pc]
    <2>3. /\ s.pc = pc /\ s.own = thread[t].own
          /\ s.restarted = thread[t].restarted /\ s.e = thread[t].e
      BY <2>2, MoveShape
    <2>4. s \in ThreadRecs /\ thread' = [thread EXCEPT ![t] = s]
      BY <1>0, <2>1, <2>2 DEF ThreadRecs, ThreadCore, Types
    <2> HIDE DEF s
    <2>5. ShapeOf(s) /\ (~shutdown => (Stays(s) <=> Stays(thread[t])))
      BY <1>0, <2>1, <2>3 DEF ShapeOf, Stays, ActiveRec, IdlePcs
    <2>6. thread' \in [Threads -> ThreadRecs] /\ Shape' /\ PollersKept'
      BY <1>0, <2>2, <2>3, <2>4, <2>5, OneThreadCore DEF Poll
    <2>7. UNCHANGED <<info, space>>
      BY <1>1 DEF Poll
    <2> QED BY <2>6, <2>7, StepCore DEF Poll, ThreadCore, Types
  <1>2. CASE ~shutdown /\ q # <<>>
    <2>1. q \in Seq(Entries)
      BY QueueJoin DEF ThreadCore, Types
    <2>2. e \in Entries /\ Tail(q) \in Seq(Entries)
      BY <1>2, <2>1
    <2> DEFINE pc == IF info[e].is_periodic /\ info[e].period \in Small
                     THEN "spawn" ELSE "run"
               s == [thread[t] EXCEPT !.e = e, !.pc = pc]
               i == [DueReady(info)[e] EXCEPT !.in_queue = "none",
                       !.running_count = DueReady(info)[e].running_count + 1]
    <2>3. /\ thread' = [thread EXCEPT ![t] = s]
          /\ info' = [DueReady(info) EXCEPT ![e] = i]
          /\ ready_queue' = Tail(q) /\ due_queue' = <<>> /\ UNCHANGED timed_queue
      <3> HIDE DEF pc, q, e
      <3>1. /\ thread' = [thread EXCEPT ![t].e = e, ![t].pc = pc]
            /\ info' = [DueReady(info) EXCEPT ![e].in_queue = "none",
                                              ![e].running_count = @ + 1]
            /\ ready_queue' = Tail(q) /\ due_queue' = <<>> /\ UNCHANGED timed_queue
        BY <1>2 DEF Poll, pc, q, e
      <3>2. DueReady(info) \in [Entries -> InfoRecs] /\ thread \in [Threads -> ThreadRecs]
        BY DueReadyType DEF ThreadCore, Types
      <3> QED BY <3>1, <3>2, <2>2
    <2> HIDE DEF q, e
    <2>4. i \in InfoRecs
      <3>1. DueReady(info)[e] \in InfoRecs
        BY <2>2, DueReadyType DEF ThreadCore, Types
      <3> DEFINE n == DueReady(info)[e].running_count + 1
      <3>2. n \in Int
        BY <3>1 DEF InfoRecs
      <3> HIDE DEF n
      <3>3. \A r \in InfoRecs, x \in {"none", "timed", "ready"}, m \in Int :
               [r EXCEPT !.in_queue = x, !.running_count = m] \in InfoRecs
        BY DEF InfoRecs
      <3>4. "none" \in {"none", "timed", "ready"}
        OBVIOUS
      <3>5. [DueReady(info)[e] EXCEPT !.in_queue = "none", !.running_count = n] \in InfoRecs
        BY <3>1, <3>2, <3>3, <3>4, Zenon
      <3> QED BY <3>5 DEF n
    <2>5. SpaceTypes'
      BY <2>2, <2>3, <2>4, DueReadyType DEF SpaceTypes, ThreadCore, Types
    <2>6. /\ s \in ThreadRecs /\ s.pc = pc /\ s.e = e /\ s.own = thread[t].own
          /\ s.restarted = thread[t].restarted /\ pc \in {"spawn", "run"}
      BY <1>0, <2>2 DEF ThreadRecs, InCall
    <2> HIDE DEF s, pc
    <2>7. e # <<>>
      BY <2>2, EntryCases
    <2>8. ShapeOf(s) /\ (Stays(s) <=> Stays(thread[t])) /\ s.pc # "none"
      BY <1>0, <2>6, <2>7 DEF ShapeOf, Stays, ActiveRec, IdlePcs
    <2>9. thread' \in [Threads -> ThreadRecs] /\ Shape' /\ PollersKept'
      BY <1>0, <2>3, <2>6, <2>8, OneThreadCore DEF Poll
    <2> QED BY <2>5, <2>9, StepCore DEF Poll, ThreadCore, Types
  <1> QED BY <1>1, <1>2

\* A step in which thread t starts thread n: the pollers stay as many, and one
\* thread more is alive.
LEMMA NewThreadCore ==
    ASSUME ThreadCore, NEW t \in Threads, NEW n \in Threads,
           NEW r \in ThreadRecs, NEW s \in ThreadRecs,
           thread' = [thread EXCEPT ![t] = r, ![n] = s],
           thread[t].pc # "none", thread[n].pc = "none",
           ShapeOf(r), ShapeOf(s), r.pc # "none", s.pc # "none",
           UNCHANGED shutdown, thread_count' = thread_count + 1,
           \/ (Stays(r) <=> Stays(thread[t])) /\ ~Stays(s)
           \/ Stays(thread[t]) /\ ~Stays(r) /\ Stays(s)
    PROVE  thread' \in [Threads -> ThreadRecs] /\ Shape' /\ PollersKept'
  <1> DEFINE A == {u \in Threads : thread[u].pc # "none"}
             P == {u \in Threads : Stays(thread[u])}
  <1>0. t # n /\ ~Stays(thread[n])
    BY DEF Stays, ActiveRec
  <1>1. /\ thread' \in [Threads -> ThreadRecs] /\ thread'[t] = r /\ thread'[n] = s
        /\ \A u \in Threads \ {t, n} : thread'[u] = thread[u]
    BY <1>0 DEF ThreadCore, Types
  <1>2. Shape'
    BY <1>1 DEF Shape, ThreadCore
  <1>3. IsFiniteSet(A) /\ IsFiniteSet(P) /\ n \notin A /\ n \notin P
    <2>1. IsFiniteSet(Threads) /\ A \subseteq Threads /\ P \subseteq Threads
      BY CallbackAssumption
    <2> QED BY <1>0, <2>1, FS_Subset
  <1>4. /\ thread_count = Cardinality(A)
        /\ ~shutdown => Cardinality(P) = Cardinality(Pollers)
    <2>1. P = {u \in Threads : Active(u) \/ thread[u].pc \in {"wait", "timedwait"}}
      BY DEF Active, Stays, ActiveRec
    <2> QED BY <2>1 DEF ThreadCore, PollersKept
  <1>5. {u \in Threads : thread[u].pc # "none"}' = A \cup {n}
    BY <1>1
  <1>6. Cardinality(A \cup {n}) = Cardinality(A) + 1
    BY <1>3, FS_AddElement
  <1>7. P' = P \/ (t \in P /\ P' = (P \ {t}) \cup {n})
    BY <1>0, <1>1
  <1>8. Cardinality(P') = Cardinality(P)
    <2>1. CASE P' = P
      BY <2>1
    <2>2. CASE t \in P /\ P' = (P \ {t}) \cup {n}
      <3> HIDE DEF P
      <3>1. IsFiniteSet(P \ {t}) /\ Cardinality(P \ {t}) = Cardinality(P) - 1
        BY <1>3, <2>2, FS_RemoveElement
      <3>2. n \notin P \ {t}
        BY <1>3
      <3>3. Cardinality((P \ {t}) \cup {n}) = Cardinality(P \ {t}) + 1
        BY <3>1, <3>2, FS_AddElement
      <3>4. Cardinality(P) \in Nat
        BY <1>3, FS_CardinalityType
      <3> QED BY <2>2, <3>1, <3>3, <3>4
    <2> QED BY <1>7, <2>1, <2>2
  <1>9. P' = {u \in Threads : Active(u) \/ thread[u].pc \in {"wait", "timedwait"}}'
    BY DEF Active, Stays, ActiveRec
  <1> QED BY <1>1, <1>2, <1>4, <1>5, <1>6, <1>8, <1>9 DEF PollersKept

\* A dedicated thread is started, or a poller in the place of a blocked one.
LEMMA SpawnCore ==
    ASSUME ThreadCore, NEW t \in Threads, SpawnOwn(t) \/ Respawn(t)
    PROVE  ThreadCore'
  <1>0. /\ thread[t] \in ThreadRecs /\ ShapeOf(thread[t])
        /\ thread \in [Threads -> ThreadRecs] /\ shutdown \in BOOLEAN
    BY DEF ThreadCore, Types, Shape
  <1>1. CASE SpawnOwn(t)
    <2> DEFINE r == [thread[t] EXCEPT !.pc = "poll", !.e = <<>>]
    <2>1. /\ r \in ThreadRecs /\ r.pc = "poll" /\ r.own = thread[t].own
          /\ r.restarted = thread[t].restarted /\ r.e = <<>>
      BY <1>0 DEF ThreadRecs, IdlePcs
    <2> HIDE DEF r
    <2>2. /\ thread[t].pc = "spawn" /\ ~thread[t].own /\ ~thread[t].restarted
          /\ thread[t].e \in Entries
      BY <1>0, <1>1 DEF SpawnOwn, ShapeOf, IdlePcs, ThreadRecs
    <2>3. ShapeOf(r) /\ Stays(r) /\ Stays(thread[t])
      BY <2>1, <2>2 DEF ShapeOf, IdlePcs, Stays, ActiveRec
    <2>4. CASE shutdown
      <3>1. thread' = [thread EXCEPT ![t] = r] /\ UNCHANGED thread_count
        BY <1>0, <1>1, <2>4 DEF SpawnOwn, r
      <3>2. thread' \in [Threads -> ThreadRecs] /\ Shape' /\ PollersKept'
        BY <1>1, <2>1, <2>2, <2>3, <3>1, OneThreadCore DEF SpawnOwn
      <3> QED BY <1>1, <3>1, <3>2, StepCore DEF SpawnOwn, ThreadCore, Types
    <2>5. CASE ~shutdown
      <3> DEFINE s == [NoThread EXCEPT !.pc = "run", !.own = TRUE, !.e = thread[t].e]
      <3>1. PICK n \in Threads :
              /\ thread[n].pc = "none"
              /\ thread' = [thread EXCEPT ![t] = r, ![n] = s]
              /\ thread_count' = thread_count + 1
        BY <1>0, <1>1, <2>5 DEF SpawnOwn, r
      <3>2. /\ s \in ThreadRecs /\ s.pc = "run" /\ s.own /\ ~s.restarted
            /\ s.e = thread[t].e
        BY <2>2 DEF ThreadRecs, NoThread, InCall
      <3> HIDE DEF s
      <3>3. ShapeOf(s) /\ ~Stays(s)
        BY <2>2, <3>2, EntryCases DEF ShapeOf, IdlePcs, Stays, ActiveRec
      <3>4. thread' \in [Threads -> ThreadRecs] /\ Shape' /\ PollersKept'
        BY <1>1, <2>1, <2>2, <2>3, <3>1, <3>2, <3>3, NewThreadCore DEF SpawnOwn
      <3>5. thread_count' \in Int
        BY <3>1 DEF ThreadCore, Types
      <3>6. UNCHANGED <<info, space, shutdown, phase, notified, stolen, adjusts>>
        BY <1>1 DEF SpawnOwn
      <3> QED BY <3>4, <3>5, <3>6, StepCore
    <2> QED BY <2>4, <2>5
  <1>2. CASE Respawn(t)
    <2> DEFINE r == [thread[t] EXCEPT !.pc = "run"]
    <2>1. /\ r \in ThreadRecs /\ r.pc = "run" /\ r.own = thread[t].own
          /\ r.restarted = thread[t].restarted /\ r.e = thread[t].e
      BY <1>0 DEF ThreadRecs, InCall
    <2> HIDE DEF r
    <2>2. /\ thread[t].pc = "respawn" /\ ~thread[t].own /\ thread[t].restarted
          /\ thread[t].e # <<>>
      BY <1>0, <1>2 DEF Respawn, ShapeOf, IdlePcs, ThreadRecs
    <2>3. ShapeOf(r) /\ ~Stays(r) /\ Stays(thread[t])
      BY <2>1, <2>2 DEF ShapeOf, IdlePcs, Stays, ActiveRec
    <2>4. CASE shutdown
      <3>1. thread' = [thread EXCEPT ![t] = r] /\ UNCHANGED thread_count
        BY <1>0, <1>2, <2>4 DEF Respawn, r
      <3>2. thread' \in [Threads -> ThreadRecs] /\ Shape' /\ PollersKept'
        BY <1>2, <2>1, <2>2, <2>3, <2>4, <3>1, OneThreadCore DEF Respawn
      <3> QED BY <1>2, <3>1, <3>2, StepCore DEF Respawn, ThreadCore, Types
    <2>5. CASE ~shutdown
      <3>1. PICK n \in Threads :
              /\ thread[n].pc = "none"
              /\ thread' = [thread EXCEPT ![t] = r, ![n] = NewPoller]
              /\ thread_count' = thread_count + 1
        BY <1>0, <1>2, <2>5 DEF Respawn, r
      <3>2. /\ NewPoller \in ThreadRecs /\ NewPoller.pc = "poll" /\ ~NewPoller.own
            /\ ~NewPoller.restarted /\ NewPoller.e = <<>>
        BY DEF ThreadRecs, NoThread, NewPoller, IdlePcs
      <3>3. ShapeOf(NewPoller) /\ Stays(NewPoller)
        BY <3>2 DEF ShapeOf, IdlePcs, Stays, ActiveRec
      <3>4. thread' \in [Threads -> ThreadRecs] /\ Shape' /\ PollersKept'
        BY <1>2, <2>1, <2>2, <2>3, <3>1, <3>2, <3>3, NewThreadCore DEF Respawn
      <3>5. thread_count' \in Int
        BY <3>1 DEF ThreadCore, Types
      <3>6. UNCHANGED <<info, space, shutdown, phase, notified, stolen, adjusts>>
        BY <1>2 DEF Respawn
      <3> QED BY <3>4, <3>5, <3>6, StepCore
    <2> QED BY <2>4, <2>5
  <1> QED BY <1>1, <1>2

\* The record of no thread.
LEMMA NoThreadRec ==
    /\ NoThread \in ThreadRecs /\ NoThread.pc = "none" /\ NoThread.e = <<>>
    /\ ~NoThread.own /\ ~NoThread.restarted /\ ShapeOf(NoThread) /\ ~Stays(NoThread)
  BY DEF NoThread, ThreadRecs, ShapeOf, IdlePcs, Stays, ActiveRec

\* A thread ends.
LEMMA ExitCore ==
    ASSUME ThreadCore, NEW t \in Threads, Exit(t)
    PROVE  ThreadCore'
  <1> DEFINE A == {u \in Threads : thread[u].pc # "none"}
  <1>1. /\ thread' \in [Threads -> ThreadRecs] /\ thread'[t] = NoThread
        /\ \A u \in Threads \ {t} : thread'[u] = thread[u]
    BY NoThreadRec DEF ThreadCore, Types, Exit
  <1>2. Shape'
    BY <1>1, NoThreadRec DEF Shape, ThreadCore
  <1>3. IsFiniteSet(A) /\ t \in A /\ thread_count = Cardinality(A)
    <2>1. IsFiniteSet(Threads) /\ A \subseteq Threads
      BY CallbackAssumption
    <2> QED BY <2>1, FS_Subset DEF Exit, ThreadCore, PollersKept
  <1>4. {u \in Threads : thread[u].pc # "none"}' = A \ {t}
    BY <1>1, NoThreadRec
  <1>5. Cardinality(A \ {t}) = Cardinality(A) - 1 /\ Cardinality(A) \in Nat
    BY <1>3, FS_RemoveElement, FS_CardinalityType
  <1>6. ~Stays(thread[t])
    BY DEF Exit, Stays, ActiveRec
  <1>7. {u \in Threads : Active(u) \/ thread[u].pc \in {"wait", "timedwait"}}'
         = {u \in Threads : Active(u) \/ thread[u].pc \in {"wait", "timedwait"}}
    BY <1>1, <1>6, NoThreadRec DEF Active, Stays, ActiveRec
  <1>8. PollersKept'
    BY <1>3, <1>4, <1>5, <1>7 DEF PollersKept, ThreadCore, Exit
  <1>9. thread_count' \in Int
    BY DEF Exit, ThreadCore, Types
  <1> QED BY <1>1, <1>2, <1>8, <1>9, StepCore DEF Exit

\* The entry a thread is in, with its count of invocations one lower.
LEMMA LeaveInfo ==
    ASSUME ThreadCore, NEW e \in Entries
    PROVE  LET i == [info EXCEPT ![e].running_count = @ - 1] IN
           /\ i \in [Entries -> InfoRecs]
           /\ \A f \in Entries \ {e} : i[f] = info[f]
           /\ i[e].running_count = info[e].running_count - 1
           /\ i[e].in_queue = info[e].in_queue
           /\ i[e].is_periodic = info[e].is_periodic
           /\ i[e].period = info[e].period
           /\ i[e].unregister_callback = info[e].unregister_callback
           /\ i[e].refs = info[e].refs
  <1> DEFINE n == info[e].running_count - 1
             r == [info[e] EXCEPT !.running_count = n]
  <1>1. info \in [Entries -> InfoRecs] /\ info[e] \in InfoRecs
    BY DEF ThreadCore, Types
  <1>2. n \in Int
    BY <1>1 DEF InfoRecs
  <1>3. [info EXCEPT ![e].running_count = @ - 1] = [info EXCEPT ![e] = r]
    BY <1>1
  <1> HIDE DEF n
  <1>4. /\ r \in InfoRecs /\ r.running_count = n /\ r.in_queue = info[e].in_queue
        /\ r.is_periodic = info[e].is_periodic /\ r.period = info[e].period
        /\ r.unregister_callback = info[e].unregister_callback
        /\ r.refs = info[e].refs
    BY <1>1, <1>2 DEF InfoRecs
  <1> HIDE DEF r
  <1> QED BY <1>1, <1>3, <1>4 DEF n

\* A reference is dropped.
LEMMA DropInfo ==
    ASSUME ThreadCore, NEW e \in Entries
    PROVE  LET i == [info EXCEPT ![e].refs = @ - 1] IN
           /\ i \in [Entries -> InfoRecs]
           /\ \A f \in Entries \ {e} : i[f] = info[f]
           /\ i[e].running_count = info[e].running_count
           /\ i[e].in_queue = info[e].in_queue
           /\ i[e].is_periodic = info[e].is_periodic
           /\ i[e].period = info[e].period
           /\ i[e].unregister_callback = info[e].unregister_callback
           /\ i[e].refs = info[e].refs - 1
  <1> DEFINE n == info[e].refs - 1
             r == [info[e] EXCEPT !.refs = n]
  <1>1. info \in [Entries -> InfoRecs] /\ info[e] \in InfoRecs
    BY DEF ThreadCore, Types
  <1>2. n \in Int
    BY <1>1 DEF InfoRecs
  <1>3. [info EXCEPT ![e].refs = @ - 1] = [info EXCEPT ![e] = r]
    BY <1>1
  <1> HIDE DEF n
  <1>4. /\ r \in InfoRecs /\ r.refs = n /\ r.in_queue = info[e].in_queue
        /\ r.is_periodic = info[e].is_periodic /\ r.period = info[e].period
        /\ r.unregister_callback = info[e].unregister_callback
        /\ r.running_count = info[e].running_count
    BY <1>1, <1>2 DEF InfoRecs
  <1> HIDE DEF r
  <1> QED BY <1>1, <1>3, <1>4 DEF n

\* A running callback blocks.
LEMMA BlockedCore ==
    ASSUME ThreadCore, NEW t \in Threads, NEW q \in {"timed", "ready"}, Blocked(t, q)
    PROVE  ThreadCore'
  <1> DEFINE e == thread[t].e
             pc == IF thread[t].own THEN "run" ELSE "respawn"
             r == [thread[t] EXCEPT !.restarted = TRUE, !.pc = pc]
             th == [thread EXCEPT ![t] = r]
  <1>0. /\ thread[t] \in ThreadRecs /\ ShapeOf(thread[t])
        /\ thread \in [Threads -> ThreadRecs] /\ thread[t].pc = "run"
        /\ ~thread[t].restarted
    BY DEF ThreadCore, Types, Shape, Blocked
  <1>1. e \in Entries
    BY <1>0 DEF ShapeOf, IdlePcs, ThreadRecs
  <1>2. /\ r \in ThreadRecs /\ r.pc = pc /\ r.own = thread[t].own /\ r.restarted
        /\ r.e = e
    <2>1. pc \in IdlePcs \cup InCall \cup Dropping
      BY DEF InCall
    <2> HIDE DEF pc
    <2> QED BY <1>0, <2>1 DEF ThreadRecs
  <1>3. thread' = th \/ Signal(th)
    <2>1. th = [thread EXCEPT ![t].restarted = TRUE, ![t].pc = pc]
      BY <1>0
    <2> QED BY <2>1 DEF Blocked
  <1> HIDE DEF r
  <1>4. ShapeOf(r) /\ (Stays(r) <=> Stays(thread[t])) /\ r.pc # "none"
    BY <1>0, <1>2 DEF ShapeOf, IdlePcs, Stays, ActiveRec
  <1>5. /\ th \in [Threads -> ThreadRecs] /\ th[t] = r
        /\ \A u \in Threads \ {t} : th[u] = thread[u]
    BY <1>0, <1>2
  <1>6. \A u \in Threads :
             /\ ShapeOf(th[u])
             /\ ~shutdown' => (Stays(th[u]) <=> Stays(thread[u]))
             /\ (th[u].pc = "none") <=> (thread[u].pc = "none")
    BY <1>0, <1>4, <1>5 DEF ThreadCore, Shape
  <1>7. UNCHANGED <<thread_count, shutdown, phase, notified, adjusts>>
    BY DEF Blocked
  <1>8. CASE info[e].is_periodic
    <2>1. Requeue(info, e, q) /\ Signal(th)
      <3>1. th = [thread EXCEPT ![t].restarted = TRUE, ![t].pc = pc]
        BY <1>0 DEF r
      <3> QED BY <1>8, <3>1 DEF Blocked
    <2> HIDE DEF th
    <2>2. /\ thread' \in [Threads -> ThreadRecs] /\ stolen' \in BOOLEAN
          /\ Shape' /\ PollersKept'
      BY <1>5, <1>6, <1>7, <2>1, SignalCore
    <2>3. SpaceTypes'
      BY <1>1, <2>1, RequeueTypes DEF ThreadCore, Types
    <2> QED BY <1>7, <2>2, <2>3, StepCore DEF ThreadCore, Types
  <1>9. CASE ~info[e].is_periodic
    <2>1. thread' = th /\ UNCHANGED <<info, space, stolen>>
      <3>1. th = [thread EXCEPT ![t].restarted = TRUE, ![t].pc = pc]
        BY <1>0 DEF r
      <3> QED BY <1>9, <3>1 DEF Blocked
    <2>2. thread' \in [Threads -> ThreadRecs] /\ Shape' /\ PollersKept'
      BY <1>0, <1>2, <1>4, <1>7, <2>1, OneThreadCore
    <2> QED BY <1>7, <2>1, <2>2, StepCore DEF ThreadCore, Types
  <1> QED BY <1>8, <1>9

\* The kickout calls the unregister callback.
LEMMA CancelKickoutCore ==
    ASSUME ThreadCore, NEW t \in Threads, CancelKickout(t)
    PROVE  ThreadCore'
  <1> DEFINE c == thread[t].e[1]
  <1>0. /\ thread[t] \in ThreadRecs /\ ShapeOf(thread[t])
        /\ thread \in [Threads -> ThreadRecs] /\ thread[t].pc = "run"
    BY DEF ThreadCore, Types, Shape, CancelKickout
  <1>1. thread[t].e \in Entries /\ c \in Callbacks
    BY <1>0 DEF ShapeOf, IdlePcs, ThreadRecs, Entries
  <1> HIDE DEF c
  <1>2. Cb(c) \in Entries
    BY <1>1, EntriesOf
  <1>3. info' \in [Entries -> InfoRecs]
    BY <1>2, DropInfo DEF CancelKickout, c
  <1>4. notified' \in [Callbacks -> Nat]
    BY <1>1 DEF CancelKickout, c, ThreadCore, Types
  <1> DEFINE s == [thread[t] EXCEPT !.pc = "finish"]
  <1>5. "finish" \in InCall \cup Dropping \cup IdlePcs
    BY DEF InCall
  <1>6. /\ s.pc = "finish" /\ s.own = thread[t].own
        /\ s.restarted = thread[t].restarted /\ s.e = thread[t].e
    BY <1>5, MoveShape
  <1> HIDE DEF s
  <1>7. ShapeOf(s) /\ (Stays(s) <=> Stays(thread[t]))
    BY <1>0, <1>6 DEF ShapeOf, Stays, ActiveRec, IdlePcs
  <1>8. /\ thread' \in [Threads -> ThreadRecs] /\ Shape' /\ PollersKept'
        /\ thread_count' \in Int
    BY <1>0, <1>5, <1>7, MoveCore DEF CancelKickout, s
  <1>9. SpaceTypes'
    BY <1>3 DEF CancelKickout, SpaceTypes, space, ThreadCore, Types
  <1> QED BY <1>4, <1>8, <1>9, StepCore DEF CancelKickout

\* finish_callback, from the end of the invocation to the next poll.
LEMMA FinishCore ==
    ASSUME ThreadCore, NEW t \in Threads, NEW q \in {"timed", "ready"},
           FinishCallback(t, q) \/ FinishKickout(t) \/ FinishDecRef(t)
    PROVE  ThreadCore'
  <1> DEFINE e == thread[t].e
             th == After(thread, t)
  <1>0. /\ thread[t] \in ThreadRecs /\ ShapeOf(thread[t])
        /\ thread \in [Threads -> ThreadRecs] /\ thread[t].pc \in {"finish", "kick", "decref"}
    BY DEF ThreadCore, Types, Shape, FinishCallback, FinishKickout, FinishDecRef
  <1>1. e \in Entries
    BY <1>0 DEF ShapeOf, IdlePcs, ThreadRecs
  <1>2. /\ th \in [Threads -> ThreadRecs]
        /\ \A u \in Threads :
             /\ ShapeOf(th[u])
             /\ ~shutdown' => (Stays(th[u]) <=> Stays(thread[u]))
             /\ (th[u].pc = "none") <=> (thread[u].pc = "none")
    BY <1>0, AfterShape
  <1>3. UNCHANGED <<thread_count, shutdown, phase, notified, adjusts>>
    BY DEF FinishCallback, FinishKickout, FinishDecRef
  <1> HIDE DEF th
  <1>4. ASSUME Signal(th)
        PROVE  /\ thread' \in [Threads -> ThreadRecs] /\ stolen' \in BOOLEAN
               /\ Shape' /\ PollersKept'
    BY <1>2, <1>3, <1>4, SignalCore
  <1>5. ASSUME thread' = th
        PROVE  thread' \in [Threads -> ThreadRecs] /\ Shape' /\ PollersKept'
    BY <1>2, <1>3, <1>5, PollersSame DEF Shape, ThreadCore
  <1>6. CASE FinishCallback(t, q)
    <2> DEFINE i == [info EXCEPT ![e].running_count = @ - 1]
    <2>1. i \in [Entries -> InfoRecs]
      BY <1>1, LeaveInfo
    <2> HIDE DEF e
    <2>2. CASE info' = i /\ UNCHANGED <<space, stolen>> /\ thread' = th
      <3>1. SpaceTypes'
        BY <2>1, <2>2 DEF SpaceTypes, space, ThreadCore, Types
      <3> QED BY <1>3, <1>5, <2>2, <3>1, StepCore DEF ThreadCore, Types
    <2>3. CASE Requeue(i, e, q) /\ Signal(th)
      <3> HIDE DEF i
      <3>1. SpaceTypes'
        BY <1>1, <2>1, <2>3, RequeueTypes DEF ThreadCore, Types
      <3> QED BY <1>3, <1>4, <2>3, <3>1, StepCore DEF ThreadCore, Types
    <2>4. ASSUME info' = i, UNCHANGED <<space, stolen>>,
                 NEW pc \in {"kick", "decref"}, thread' = [thread EXCEPT ![t].pc = pc]
          PROVE  ThreadCore'
      <3>1. SpaceTypes'
        BY <2>1, <2>4 DEF SpaceTypes, space, ThreadCore, Types
      <3> DEFINE s == [thread[t] EXCEPT !.pc = pc]
      <3>2. pc \in InCall \cup Dropping \cup IdlePcs /\ pc # "none"
        BY DEF Dropping
      <3>3. /\ s.pc = pc /\ s.own = thread[t].own
            /\ s.restarted = thread[t].restarted /\ s.e = thread[t].e
        BY <3>2, MoveShape
      <3> HIDE DEF s
      <3>4. thread[t].pc = "finish"
        BY <1>6 DEF FinishCallback
      <3>5. ShapeOf(s) /\ (Stays(s) <=> Stays(thread[t]))
        BY <1>0, <3>3, <3>4 DEF ShapeOf, Stays, ActiveRec, IdlePcs
      <3>6. /\ thread' \in [Threads -> ThreadRecs] /\ Shape' /\ PollersKept'
            /\ thread_count' \in Int
        BY <1>3, <2>4, <3>2, <3>4, <3>5, MoveCore DEF s
      <3> QED BY <1>3, <2>4, <3>1, <3>6, StepCore DEF ThreadCore, Types
    <2>5. \/ info' = i /\ UNCHANGED <<space, stolen>> /\ thread' = th
          \/ Requeue(i, e, q) /\ Signal(th)
          \/ /\ info' = i /\ UNCHANGED <<space, stolen>>
             /\ \E pc \in {"kick", "decref"} : thread' = [thread EXCEPT ![t].pc = pc]
      BY <1>6 DEF FinishCallback, th, e
    <2> QED BY <2>2, <2>3, <2>4, <2>5
  <1>7. CASE FinishKickout(t)
    <2> DEFINE c == e[1]
               k == [NoInfo EXCEPT !.in_queue = "ready", !.refs = 1]
    <2>1. c \in Callbacks
      BY <1>1 DEF Entries
    <2>2. Kick(c) \in Entries
      BY <2>1, EntriesOf
    <2>3. info' = [info EXCEPT ![Kick(c)] = k] /\ k \in InfoRecs
      BY <1>7, KickInfoType DEF FinishKickout, KickoutInfo
    <2>4. SpaceTypes'
      BY <1>7, <2>2, <2>3 DEF FinishKickout, SpaceTypes, ThreadCore, Types
    <2>5. Signal(th)
      BY <1>7 DEF FinishKickout, th
    <2> QED BY <1>3, <1>4, <2>4, <2>5, StepCore DEF ThreadCore, Types
  <1>8. CASE FinishDecRef(t)
    <2>1. info' \in [Entries -> InfoRecs]
      BY <1>1, <1>8, DropInfo DEF FinishDecRef
    <2>2. SpaceTypes'
      BY <1>8, <2>1 DEF FinishDecRef, SpaceTypes, space, ThreadCore, Types
    <2> QED BY <1>3, <1>5, <1>8, <2>2, StepCore DEF FinishDecRef, th, ThreadCore, Types
  <1> QED BY <1>6, <1>7, <1>8

\* Deactivation wakes every thread that waits.
LEMMA DeactivateCore ==
    ASSUME ThreadCore, Deactivate
    PROVE  ThreadCore'
  <1>1. \A t \in Threads : WokenFrom(thread[t], thread'[t]) /\ thread'[t] \in ThreadRecs
    <2> SUFFICES ASSUME NEW t \in Threads
                 PROVE  WokenFrom(thread[t], thread'[t]) /\ thread'[t] \in ThreadRecs
      OBVIOUS
    <2>1. thread[t] \in ThreadRecs /\ thread \in [Threads -> ThreadRecs]
      BY DEF ThreadCore, Types
    <2>2. CASE t \in Waiting(thread)
      <3>1. Wake(thread, t)[t] = [thread[t] EXCEPT !.pc =
               IF thread[t].pc = "ownwait" THEN "ownwoken" ELSE "woken"]
        BY <2>1 DEF Wake
      <3>2. thread'[t] = Wake(thread, t)[t]
        BY <2>2 DEF Deactivate
      <3> QED BY <2>1, <2>2, <3>1, <3>2
              DEF WokenFrom, ThreadRecs, IdlePcs, InCall, Waiting
    <2>3. CASE t \notin Waiting(thread)
      BY <2>1, <2>3 DEF Deactivate, WokenFrom
    <2> QED BY <2>2, <2>3
  <1>2. thread' \in [Threads -> ThreadRecs]
    BY <1>1 DEF Deactivate
  <1>3. \A t \in Threads : /\ ShapeOf(thread'[t])
                           /\ Stays(thread'[t]) <=> Stays(thread[t])
                           /\ (thread'[t].pc = "none") <=> (thread[t].pc = "none")
    BY <1>1, WokenSame DEF ThreadCore, Types, Shape
  <1>4. UNCHANGED <<info, space, thread_count, phase, notified, stolen, adjusts>>
        /\ shutdown' \in BOOLEAN
    BY DEF Deactivate
  <1>5. Shape' /\ PollersKept'
    BY <1>3, <1>4, PollersSame DEF Shape, ThreadCore, Deactivate
  <1> QED BY <1>2, <1>4, <1>5, StepCore DEF ThreadCore, Types

\* Activation starts the pollers.
LEMMA InitCore ==
    ASSUME Init
    PROVE  ThreadCore
  <1>1. /\ NewPoller \in ThreadRecs /\ NewPoller.pc = "poll" /\ ~NewPoller.own
        /\ ~NewPoller.restarted /\ NewPoller.e = <<>>
    BY DEF ThreadRecs, NoThread, NewPoller, IdlePcs
  <1>2. ShapeOf(NewPoller) /\ Stays(NewPoller)
    BY <1>1 DEF ShapeOf, IdlePcs, Stays, ActiveRec
  <1>3. thread \in [Threads -> ThreadRecs] /\ Shape
    BY <1>1, <1>2, NoThreadRec DEF Init, Shape
  <1>4. /\ Pollers = {t \in Threads : thread[t].pc # "none"}
        /\ Pollers = {t \in Threads : Active(t) \/ thread[t].pc \in {"wait", "timedwait"}}
    BY <1>1, NoThreadRec, CallbackAssumption DEF Init, Active
  <1>5. IsFiniteSet(Pollers) /\ Cardinality(Pollers) \in Nat
    BY CallbackAssumption, FS_Subset, FS_CardinalityType
  <1>6. PollersKept /\ thread_count \in Int
    <2>1. thread_count = Cardinality(Pollers)
      BY DEF Init
    <2>2. PollersKept
      BY <1>4, <2>1, Zenon DEF PollersKept
    <2> QED BY <1>5, <2>1, <2>2
  <1>7. info \in [Entries -> InfoRecs]
    BY NoInfoType DEF Init
  <1>8. adjusts \in 0 .. MaxAdjust
    BY CallbackAssumption DEF Init
  <1>9. /\ ready_queue \in Seq(Entries) /\ due_queue \in Seq(Entries)
        /\ timed_queue \subseteq Entries /\ shutdown \in BOOLEAN
        /\ stolen \in BOOLEAN /\ notified \in [Callbacks -> Nat]
        /\ phase \in [Callbacks -> {"new", "live", "inactive", "active",
                                    "released", "draining"}]
    <2>1. ready_queue = <<>> /\ due_queue = <<>> /\ timed_queue = {}
      BY DEF Init
    <2>2. /\ shutdown = FALSE /\ stolen = FALSE
          /\ notified = [c \in Callbacks |-> 0] /\ phase = [c \in Callbacks |-> "new"]
      BY DEF Init
    <2>3. /\ ready_queue \in Seq(Entries) /\ due_queue \in Seq(Entries)
          /\ timed_queue \subseteq Entries
      BY <2>1
    <2>4. shutdown \in BOOLEAN /\ stolen \in BOOLEAN
      BY <2>2
    <2>5. notified \in [Callbacks -> Nat]
      BY <2>2
    <2>6. phase \in [Callbacks -> {"new", "live", "inactive", "active",
                                  "released", "draining"}]
      BY <2>2
    <2> QED BY <2>3, <2>4, <2>5, <2>6
  <1> QED BY <1>3, <1>6, <1>7, <1>8, <1>9 DEF ThreadCore, Types

\* Every step keeps ThreadCore.
LEMMA NextThreadCore ==
    ASSUME ThreadCore, [Next]_vars
    PROVE  ThreadCore'
  <1>1. CASE \E c \in Callbacks : Program(c)
    <2>1. PICK c \in Callbacks : Program(c)
      BY <1>1
    <2>2. Periods \subseteq {"zero", "own", "long"} /\ "long" \in {"zero", "own", "long"}
      BY CallbackAssumption
    <2>3. CASE \E s \in Starts : Register(c, s, FALSE, "long")
      BY <2>2, <2>3, RegisterCore
    <2>4. CASE \E s \in Starts, p \in Periods : c \notin Oneshots /\ Register(c, s, TRUE, p)
      BY <2>2, <2>4, RegisterCore
    <2>5. CASE \E cb \in BOOLEAN : UnregisterActive(c, cb) \/ UnregisterInactive(c, cb)
      BY <2>5, UnregisterCore
    <2>6. CASE \E q \in {"timed", "ready"} : AdjustOneshot(c, q)
      BY <2>2, <2>6, AdjustCore
    <2>7. CASE Suspend(c)
      BY <2>2, <2>7, AdjustCore
    <2>8. CASE \E p \in Periods : Resume(c, p) \/ ResumeRunning(c, p)
      BY <2>2, <2>8, AdjustCore
    <2> QED BY <2>1, <2>3, <2>4, <2>5, <2>6, <2>7, <2>8 DEF Program
  <1>2. CASE \E e \in Entries : Due(e)
    BY <1>2, DueCore
  <1>3. CASE \E t \in Threads : ThreadStep(t)
    <2>1. PICK t \in Threads : ThreadStep(t)
      BY <1>3
    <2>2. CASE \/ PollTimeout(t) \/ Return(t) \/ ReturnOwn(t) \/ OwnWake(t)
      BY <2>2, MovesCore
    <2>3. CASE Poll(t)
      BY <2>3, PollCore
    <2>4. CASE SpawnOwn(t) \/ Respawn(t)
      BY <2>4, SpawnCore
    <2>5. CASE CancelKickout(t)
      BY <2>5, CancelKickoutCore
    <2>6. CASE \/ \E q \in {"timed", "ready"} : FinishCallback(t, q)
               \/ FinishKickout(t) \/ FinishDecRef(t)
      BY <2>6, FinishCore
    <2>7. CASE Exit(t)
      BY <2>7, ExitCore
    <2> QED BY <2>1, <2>2, <2>3, <2>4, <2>5, <2>6, <2>7 DEF ThreadStep
  <1>4. CASE \E t \in Threads, q \in {"timed", "ready"} : Blocked(t, q)
    BY <1>4, BlockedCore
  <1>5. CASE \E t \in Threads : OwnWaitAgain(t)
    BY <1>5, MovesCore
  <1>6. CASE Deactivate
    BY <1>6, DeactivateCore
  <1>7. CASE UNCHANGED vars
    <2>1. Types' /\ Shape'
      BY <1>7 DEF ThreadCore, Types, Shape, vars
    <2>2. PollersKept'
      BY <1>7, PollersSame DEF ThreadCore, vars
    <2> QED BY <2>1, <2>2 DEF ThreadCore
  <1> QED BY <1>1, <1>2, <1>3, <1>4, <1>5, <1>6, <1>7 DEF Next

\* The pollers stay as many as activation made them, whatever callbacks block
\* and whatever periodics get a thread of their own, and the thread count that
\* deactivation waits for is the number of threads alive (blocked_cb,
\* thread_poll, thread_callback, deactivate).
THEOREM PollersAreKept == Spec => []PollersKept
  <1>1. Init => ThreadCore
    BY InitCore
  <1>2. ThreadCore /\ [Next]_vars => ThreadCore'
    BY NextThreadCore
  <1>3. ThreadCore => PollersKept
    BY DEF ThreadCore
  <1> QED BY <1>1, <1>2, <1>3, PTL DEF Spec

-----------------------------------------------------------------------------
(* No wake-up is lost                                                       *)

\* Until shutdown there is a poller: activation starts at least one.
LEMMA SomePoller ==
    ASSUME ThreadCore, ~shutdown
    PROVE  \E t \in Threads : Stays(thread[t])
  <1> DEFINE P == {t \in Threads : Active(t) \/ thread[t].pc \in {"wait", "timedwait"}}
  <1>1. Cardinality(P) = Cardinality(Pollers)
    BY DEF ThreadCore, PollersKept
  <1>2. IsFiniteSet(Pollers) /\ Pollers # {} /\ IsFiniteSet(P)
    <2>1. IsFiniteSet(Threads) /\ P \subseteq Threads
      BY CallbackAssumption
    <2> QED BY <2>1, CallbackAssumption, FS_Subset
  <1>3. P # {}
    <2> HIDE DEF P
    <2> QED BY <1>1, <1>2, FS_EmptySet
  <1> QED BY <1>3 DEF Active, Stays, ActiveRec

\* A signal that no dedicated thread takes leaves a poller awake.
LEMMA SignalWakes ==
    ASSUME ThreadCore, NEW th \in [Threads -> ThreadRecs], Signal(th),
           ~shutdown, ~stolen',
           \A t \in Threads : ShapeOf(th[t]) /\ (Stays(th[t]) <=> Stays(thread[t]))
    PROVE  \E t \in Threads : ActiveRec(thread'[t])
  <1>1. CASE Waiting(th) = {}
    <2>1. thread' = th
      BY <1>1 DEF Signal
    <2>2. PICK t \in Threads : Stays(th[t])
      BY SomePoller
    <2>3. th[t].pc \notin {"wait", "timedwait"}
      BY <1>1 DEF Waiting
    <2> QED BY <2>1, <2>2, <2>3 DEF Stays
  <1>2. CASE Waiting(th) # {}
    <2>1. PICK t \in Waiting(th) : /\ thread' = Wake(th, t)
                                   /\ stolen' = (stolen \/ th[t].pc = "ownwait")
      BY <1>2 DEF Signal
    <2>2. t \in Threads /\ th[t].pc \in {"wait", "timedwait"} /\ th[t] \in ThreadRecs
      BY <2>1 DEF Waiting
    <2>3. thread'[t] = [th[t] EXCEPT !.pc = "woken"]
      BY <2>1, <2>2 DEF Wake
    <2>4. ~th[t].own /\ ~th[t].restarted
      BY <2>2 DEF ShapeOf
    <2>5. ActiveRec(thread'[t])
      BY <2>2, <2>3, <2>4 DEF ActiveRec, ThreadRecs
    <2> QED BY <2>2, <2>5
  <1> QED BY <1>1, <1>2

\* What NoWakeupLost says, told from the threads' records.
LEMMA WakeupRec ==
    NoWakeupLost <=>
      (~shutdown /\ ~stolen =>
        /\ ready_queue # <<>> => \E t \in Threads : ActiveRec(thread[t])
        /\ timed_queue # {} \/ due_queue # <<>> =>
             \E t \in Threads : ActiveRec(thread[t]) \/ thread[t].pc = "timedwait")
  BY DEF NoWakeupLost, Active, ActiveRec

\* A step after which a poller is awake.
LEMMA AwakeAfter ==
    ASSUME ~shutdown' /\ ~stolen' => \E t \in Threads : ActiveRec(thread'[t])
    PROVE  NoWakeupLost'
  BY DEF NoWakeupLost, Active, ActiveRec

\* A step that fills no queue that was empty and sends no poller to sleep.
LEMMA QuietStep ==
    ASSUME NoWakeupLost, UNCHANGED <<shutdown, stolen>>,
           ready_queue' # <<>> => ready_queue # <<>>,
           timed_queue' # {} \/ due_queue' # <<>> => timed_queue # {} \/ due_queue # <<>>,
           \A t \in Threads :
             /\ ActiveRec(thread[t]) => ActiveRec(thread'[t])
             /\ thread[t].pc = "timedwait" =>
                  ActiveRec(thread'[t]) \/ thread'[t].pc = "timedwait"
    PROVE  NoWakeupLost'
  BY DEF NoWakeupLost, Active, ActiveRec

\* The same for a step of one thread that leaves the queues alone.
LEMMA QuietThread ==
    ASSUME ThreadCore, NoWakeupLost, UNCHANGED <<space, shutdown, stolen>>,
           NEW t \in Threads, NEW r \in ThreadRecs,
           thread' = [thread EXCEPT ![t] = r],
           ActiveRec(thread[t]) \/ thread[t].pc = "timedwait" => ActiveRec(r)
    PROVE  NoWakeupLost'
  <1>1. thread'[t] = r /\ \A u \in Threads \ {t} : thread'[u] = thread[u]
    BY DEF ThreadCore, Types
  <1> QED BY <1>1, QuietStep DEF space

\* An empty queue stays empty.
LEMMA RemoveFromEmpty ==
    ASSUME NEW q \in Seq(Entries), NEW e, RemoveFirst(q, e) # <<>>
    PROVE  q # <<>>
  BY DEF RemoveFirst

\* The program's calls: what queues an entry also signals.
LEMMA CallWakes ==
    ASSUME ThreadCore, NoWakeupLost, NEW c \in Callbacks, Program(c)
    PROVE  NoWakeupLost'
  <1>0. /\ ready_queue \in Seq(Entries) /\ due_queue \in Seq(Entries)
        /\ thread \in [Threads -> ThreadRecs] /\ \A t \in Threads : ShapeOf(thread[t])
    BY DEF ThreadCore, Types, Shape
  <1>1. UNCHANGED shutdown
    BY DEF Program, Register, UnregisterActive, UnregisterInactive, AdjustOneshot,
           Suspend, Resume, ResumeRunning, Adjust
  <1>2. CASE Signal(thread)
    <2>1. ~shutdown' /\ ~stolen' => \E t \in Threads : ActiveRec(thread'[t])
      BY <1>0, <1>1, <1>2, SignalWakes
    <2> QED BY <2>1, AwakeAfter
  <1>3. ASSUME UNCHANGED <<thread, stolen>>, NEW e,
               \/ UNCHANGED space
               \/ /\ ready_queue' = RemoveFirst(ready_queue, e)
                  /\ due_queue' = RemoveFirst(due_queue, e)
                  /\ timed_queue' = timed_queue \ {e}
        PROVE  NoWakeupLost'
    <2>1. /\ ready_queue' # <<>> => ready_queue # <<>>
          /\ due_queue' # <<>> => due_queue # <<>>
          /\ timed_queue' # {} => timed_queue # {}
      BY <1>0, <1>3, RemoveFromEmpty DEF space
    <2> QED BY <1>1, <1>3, <2>1, QuietStep
  <1>4. \/ Signal(thread)
        \/ /\ UNCHANGED <<thread, stolen>>
           /\ \/ UNCHANGED space
              \/ /\ ready_queue' = RemoveFirst(ready_queue, Cb(c))
                 /\ due_queue' = RemoveFirst(due_queue, Cb(c))
                 /\ timed_queue' = timed_queue \ {Cb(c)}
    BY DEF Program, Register, UnregisterActive, UnregisterInactive, AdjustOneshot,
           Suspend, Resume, ResumeRunning, Dequeued
  <1> QED BY <1>2, <1>3, <1>4

\* A thread that moves on in the code stays awake.
LEMMA MoveWakes ==
    ASSUME ThreadCore, NoWakeupLost, UNCHANGED <<space, shutdown, stolen>>,
           NEW t \in Threads, NEW pc \in InCall \cup Dropping \cup IdlePcs,
           thread' = [thread EXCEPT ![t].pc = pc],
           \/ thread[t].own
           \/ thread[t].pc = "timedwait" /\ pc = "woken"
           \/ thread[t].pc = "run" /\ pc = "finish"
           \/ thread[t].pc = "finish" /\ pc \in {"kick", "decref"}
    PROVE  NoWakeupLost'
  <1> DEFINE r == [thread[t] EXCEPT !.pc = pc]
  <1>1. thread[t] \in ThreadRecs /\ ShapeOf(thread[t])
    BY DEF ThreadCore, Types, Shape
  <1>2. /\ r \in ThreadRecs /\ r.pc = pc /\ r.own = thread[t].own
        /\ r.restarted = thread[t].restarted
    BY <1>1 DEF ThreadRecs
  <1>3. thread' = [thread EXCEPT ![t] = r]
    BY DEF ThreadCore, Types
  <1> HIDE DEF r
  <1>4. ActiveRec(thread[t]) \/ thread[t].pc = "timedwait" => ActiveRec(r)
    BY <1>1, <1>2 DEF ActiveRec, ShapeOf
  <1> QED BY <1>2, <1>3, <1>4, QuietThread

\* The threads' steps other than those of finish_callback.
LEMMA StepWakes ==
    ASSUME ThreadCore, NoWakeupLost, NEW t \in Threads,
           \/ PollTimeout(t) \/ Return(t) \/ ReturnOwn(t) \/ OwnWake(t)
           \/ OwnWaitAgain(t) \/ CancelKickout(t) \/ Exit(t) \/ SpawnOwn(t)
           \/ Respawn(t)
    PROVE  NoWakeupLost'
  <1>0. /\ thread[t] \in ThreadRecs /\ ShapeOf(thread[t])
        /\ thread \in [Threads -> ThreadRecs] /\ shutdown \in BOOLEAN
        /\ UNCHANGED <<space, shutdown, stolen>>
    BY DEF ThreadCore, Types, Shape, PollTimeout, Return, ReturnOwn, OwnWake,
           OwnWaitAgain, CancelKickout, Exit, SpawnOwn, Respawn
  <1>1. CASE \/ PollTimeout(t) \/ Return(t) \/ ReturnOwn(t) \/ OwnWake(t)
             \/ OwnWaitAgain(t) \/ CancelKickout(t)
    <2>1. \E pc \in InCall \cup Dropping \cup IdlePcs :
           /\ thread' = [thread EXCEPT ![t].pc = pc]
           /\ \/ thread[t].own
              \/ thread[t].pc = "timedwait" /\ pc = "woken"
              \/ thread[t].pc = "run" /\ pc = "finish"
      <3>1. CASE PollTimeout(t)
        BY <3>1 DEF PollTimeout, IdlePcs
      <3>2. CASE Return(t) \/ CancelKickout(t)
        BY <3>2 DEF Return, CancelKickout, InCall
      <3>3. CASE ReturnOwn(t)
        BY <3>3 DEF ReturnOwn, InCall
      <3>4. CASE OwnWake(t) \/ OwnWaitAgain(t)
        BY <1>0, <3>4 DEF OwnWake, OwnWaitAgain, InCall, ShapeOf
      <3> QED BY <1>1, <3>1, <3>2, <3>3, <3>4
    <2> QED BY <1>0, <2>1, MoveWakes
  <1>2. CASE Exit(t)
    BY <1>0, <1>2, NoThreadRec, QuietThread DEF Exit, ActiveRec
  <1>3. CASE SpawnOwn(t)
    <2>1. ActiveRec(thread'[t])
      <3>1. ~thread[t].own /\ ~thread[t].restarted /\ thread[t].pc = "spawn"
        BY <1>0, <1>3 DEF SpawnOwn, ShapeOf
      <3>2. thread'[t] = [thread[t] EXCEPT !.pc = "poll", !.e = <<>>]
        BY <1>0, <1>3, <3>1 DEF SpawnOwn
      <3> QED BY <1>0, <3>1, <3>2 DEF ActiveRec, ThreadRecs
    <2> QED BY <2>1, AwakeAfter
  <1>4. CASE Respawn(t)
    <2>1. CASE ~shutdown
      <3>1. PICK n \in Threads : /\ thread[n].pc = "none"
                                 /\ thread' = [thread EXCEPT ![t].pc = "run", ![n] = NewPoller]
        BY <1>4, <2>1 DEF Respawn
      <3>2. thread'[n] = NewPoller
        BY <1>0, <3>1
      <3>3. ActiveRec(NewPoller)
        BY DEF ActiveRec, NewPoller, NoThread
      <3> QED BY <3>2, <3>3, AwakeAfter
    <2>2. CASE shutdown
      BY <1>0, <2>2, AwakeAfter
    <2> QED BY <2>1, <2>2
  <1> QED BY <1>1, <1>2, <1>3, <1>4

\* A poller goes to sleep only when nothing is ready, and with a time limit
\* when something is timed.
LEMMA PollWakes ==
    ASSUME ThreadCore, NoWakeupLost, NEW t \in Threads, Poll(t)
    PROVE  NoWakeupLost'
  <1> DEFINE q == ready_queue \o due_queue
  <1>0. /\ thread[t] \in ThreadRecs /\ ShapeOf(thread[t])
        /\ thread[t].pc \in {"poll", "woken"} /\ ~thread[t].own /\ ~thread[t].restarted
        /\ thread \in [Threads -> ThreadRecs] /\ shutdown \in BOOLEAN
        /\ UNCHANGED <<shutdown, stolen>>
    BY DEF ThreadCore, Types, Shape, Poll, ShapeOf
  <1>1. CASE shutdown
    BY <1>0, <1>1, AwakeAfter
  <1>2. CASE ~shutdown /\ q = <<>>
    <2>1. ready_queue = <<>> /\ due_queue = <<>>
      BY <1>2 DEF ThreadCore, Types
    <2>2. /\ UNCHANGED space
          /\ timed_queue # {} => thread'[t].pc = "timedwait"
      <3>1. /\ UNCHANGED space
            /\ thread' = [thread EXCEPT ![t].pc =
                            IF timed_queue = {} THEN "wait" ELSE "timedwait"]
        BY <1>2 DEF Poll
      <3> QED BY <1>0, <3>1 DEF ThreadRecs
    <2> QED BY <2>1, <2>2 DEF NoWakeupLost, space
  <1>3. CASE ~shutdown /\ q # <<>>
    <2> DEFINE e == Head(q)
               pc == IF info[e].is_periodic /\ info[e].period \in Small
                     THEN "spawn" ELSE "run"
    <2>0. pc \in {"spawn", "run"}
      OBVIOUS
    <2>1. thread' = [thread EXCEPT ![t].e = e, ![t].pc = pc]
      BY <1>3 DEF Poll
    <2> HIDE DEF e, pc
    <2>2. thread'[t] = [thread[t] EXCEPT !.e = e, !.pc = pc]
      BY <1>0, <2>1
    <2>3. thread'[t].pc = pc /\ ~thread'[t].own /\ ~thread'[t].restarted
      BY <1>0, <2>2 DEF ThreadRecs
    <2> QED BY <2>0, <2>3, AwakeAfter DEF ActiveRec
  <1> QED BY <1>1, <1>2, <1>3

\* finish_callback and blocked_cb signal what they queue.
LEMMA FinishWakes ==
    ASSUME ThreadCore, NoWakeupLost, NEW t \in Threads, NEW q \in {"timed", "ready"},
           \/ FinishCallback(t, q) \/ FinishKickout(t) \/ FinishDecRef(t)
           \/ Blocked(t, q)
    PROVE  NoWakeupLost'
  <1>0. /\ thread[t] \in ThreadRecs /\ ShapeOf(thread[t])
        /\ thread \in [Threads -> ThreadRecs] /\ UNCHANGED shutdown
    BY DEF ThreadCore, Types, Shape, FinishCallback, FinishKickout, FinishDecRef, Blocked
  <1>1. CASE FinishCallback(t, q) \/ FinishKickout(t) \/ FinishDecRef(t)
    <2> DEFINE th == After(thread, t)
    <2>0. thread[t].pc \in {"finish", "kick", "decref"}
      BY <1>1 DEF FinishCallback, FinishKickout, FinishDecRef
    <2>1. /\ th \in [Threads -> ThreadRecs]
          /\ \A u \in Threads :
               ShapeOf(th[u]) /\ (Stays(th[u]) <=> Stays(thread[u]))
          /\ \A u \in Threads \ {t} : th[u] = thread[u]
          /\ th[t] = [thread[t] EXCEPT
                 !.pc = IF thread[t].own \/ thread[t].restarted THEN "exit" ELSE "poll",
                 !.e = <<>>]
      BY <2>0, AfterShape
    <2>2. ActiveRec(thread[t]) => ActiveRec(th[t])
      BY <1>0, <2>0, <2>1 DEF ActiveRec, ThreadRecs
    <2> HIDE DEF th
    <2>3. CASE Signal(th)
      <3>1. ~shutdown' /\ ~stolen' => \E u \in Threads : ActiveRec(thread'[u])
        BY <1>0, <2>1, <2>3, SignalWakes
      <3> QED BY <3>1, AwakeAfter
    <2>4. CASE thread' = th /\ UNCHANGED <<space, stolen>>
      <3>1. \A u \in Threads :
             /\ ActiveRec(thread[u]) => ActiveRec(thread'[u])
             /\ thread[u].pc = "timedwait" =>
                  ActiveRec(thread'[u]) \/ thread'[u].pc = "timedwait"
        BY <2>0, <2>1, <2>2, <2>4
      <3> QED BY <1>0, <2>4, <3>1, QuietStep DEF space
    <2>5. ASSUME thread[t].pc = "finish", UNCHANGED <<space, stolen>>,
                 NEW pc \in {"kick", "decref"}, thread' = [thread EXCEPT ![t].pc = pc]
          PROVE  NoWakeupLost'
      <3>1. pc \in InCall \cup Dropping \cup IdlePcs
        BY DEF Dropping
      <3> QED BY <1>0, <2>5, <3>1, MoveWakes
    <2>6. \/ Signal(th)
          \/ thread' = th /\ UNCHANGED <<space, stolen>>
          \/ /\ thread[t].pc = "finish" /\ UNCHANGED <<space, stolen>>
             /\ \E pc \in {"kick", "decref"} : thread' = [thread EXCEPT ![t].pc = pc]
      <3>1. CASE FinishCallback(t, q)
        BY <3>1 DEF FinishCallback, th
      <3>2. CASE FinishKickout(t)
        BY <3>2 DEF FinishKickout, th
      <3>3. CASE FinishDecRef(t)
        BY <3>3 DEF FinishDecRef, th
      <3> QED BY <1>1, <3>1, <3>2, <3>3
    <2> QED BY <2>3, <2>4, <2>5, <2>6
  <1>2. CASE Blocked(t, q)
    <2> DEFINE pc == IF thread[t].own THEN "run" ELSE "respawn"
               r == [thread[t] EXCEPT !.restarted = TRUE, !.pc = pc]
               th == [thread EXCEPT ![t] = r]
    <2>0. thread[t].pc = "run" /\ ~thread[t].restarted
      BY <1>2 DEF Blocked
    <2>1. \/ Signal(th)
          \/ thread' = th /\ UNCHANGED <<space, stolen>>
      <3>1. th = [thread EXCEPT ![t].restarted = TRUE, ![t].pc = pc]
        BY <1>0
      <3> QED BY <1>2, <3>1 DEF Blocked
    <2>2. /\ r \in ThreadRecs /\ r.pc = pc /\ r.own = thread[t].own /\ r.restarted
          /\ r.e = thread[t].e
      <3>1. pc \in IdlePcs \cup InCall \cup Dropping
        BY DEF InCall
      <3> HIDE DEF pc
      <3> QED BY <1>0, <3>1 DEF ThreadRecs
    <2> HIDE DEF r
    <2>3. /\ ShapeOf(r) /\ (Stays(r) <=> Stays(thread[t]))
          /\ ActiveRec(thread[t]) => ActiveRec(r)
      BY <1>0, <2>0, <2>2 DEF ShapeOf, IdlePcs, Stays, ActiveRec
    <2>4. /\ th \in [Threads -> ThreadRecs]
          /\ \A u \in Threads : ShapeOf(th[u]) /\ (Stays(th[u]) <=> Stays(thread[u]))
      BY <1>0, <2>2, <2>3 DEF ThreadCore, Shape
    <2>5. CASE Signal(th)
      <3> HIDE DEF th
      <3>1. ~shutdown' /\ ~stolen' => \E u \in Threads : ActiveRec(thread'[u])
        BY <1>0, <2>4, <2>5, SignalWakes
      <3> QED BY <3>1, AwakeAfter
    <2>6. CASE thread' = th /\ UNCHANGED <<space, stolen>>
      BY <1>0, <2>0, <2>2, <2>3, <2>6, QuietThread
    <2> QED BY <2>1, <2>5, <2>6
  <1> QED BY <1>1, <1>2

\* While something is ready a poller is awake, and while something is timed a
\* poller is awake or waits with a time limit, until shutdown and for as long
\* as no dedicated thread took a signal.  The pollers and the program's calls
\* interleave in any order (register, adjust_*, requeue, thread_poll).
THEOREM NoWakeupIsLost == Spec => []NoWakeupLost
  <1>1. Init => ThreadCore /\ NoWakeupLost
    BY InitCore DEF Init, NoWakeupLost
  <1>2. ThreadCore /\ NoWakeupLost /\ [Next]_vars => ThreadCore' /\ NoWakeupLost'
    <2> SUFFICES ASSUME ThreadCore, NoWakeupLost, [Next]_vars PROVE NoWakeupLost'
      BY NextThreadCore
    <2>1. CASE \E c \in Callbacks : Program(c)
      BY <2>1, CallWakes
    <2>2. CASE \E e \in Entries : Due(e)
      <3>1. PICK e \in Entries : Due(e)
        BY <2>2
      <3> QED BY <3>1 DEF Due, NoWakeupLost, Active
    <2>3. CASE \E t \in Threads : ThreadStep(t)
      BY <2>3, StepWakes, PollWakes, FinishWakes DEF ThreadStep
    <2>4. CASE \E t \in Threads, q \in {"timed", "ready"} : Blocked(t, q)
      BY <2>4, FinishWakes
    <2>5. CASE \E t \in Threads : OwnWaitAgain(t)
      BY <2>5, StepWakes
    <2>6. CASE Deactivate
      BY <2>6 DEF Deactivate, NoWakeupLost
    <2>7. CASE UNCHANGED vars
      BY <2>7 DEF vars, NoWakeupLost, Active
    <2> QED BY <2>1, <2>2, <2>3, <2>4, <2>5, <2>6, <2>7 DEF Next
  <1> QED BY <1>1, <1>2, PTL DEF Spec

=============================================================================
