---------------------- MODULE GlobusCallbackRefs_proof ----------------------
(***************************************************************************)
(* Proofs about the callbacks of GlobusCallback, for any number of         *)
(* callbacks, threads and adjust_* calls: the reference counts of          *)
(* CallbackInvariant, and the steps of the library as steps of             *)
(* GlobusCallbackService.  Both rest on CallbackCore, which says who may   *)
(* still queue an entry again.  It needs programs that do not resume a     *)
(* periodic whose only invocations are blocked (ResumeBlocked is FALSE).   *)
(***************************************************************************)
EXTENDS GlobusCallback_proof

-----------------------------------------------------------------------------
(* The invariant                                                            *)

\* The queues and in_queue tell the same story.
QueuesAgree ==
  /\ IsInjective(ready_queue) /\ IsInjective(due_queue)
  /\ timed_queue \cap ToSet(due_queue) = {}
  /\ ToSet(ready_queue) = {e \in Entries : info[e].in_queue = "ready"}
  /\ timed_queue \cup ToSet(due_queue)
       = {e \in Entries : info[e].in_queue = "timed"}

\* threads in an invocation of the entry e, and threads releasing it
In(e) == {t \in Threads : thread[t].e = e /\ thread[t].pc \in InCall}
Rel(e) == {t \in Threads : thread[t].e = e /\ thread[t].pc \in {"decref", "kick"}}

\* running_count counts the threads in the entry (a thread that drops a
\* dedicated periodic on shutdown leaves it too high), and at most one of them
\* will queue the entry again; while the entry is queued none will.
EntryOK(e) ==
  LET i == info[e] IN
  /\ i.running_count \in 0 .. Cardinality(Threads)
  /\ i.running_count >= Cardinality(In(e))
  /\ ~shutdown => i.running_count = Cardinality(In(e))
  /\ i.in_queue # "none" => \A t \in In(e) : thread[t].restarted
  /\ \A t, u \in In(e) : ~thread[t].restarted /\ ~thread[u].restarted => t = u
  /\ i.is_periodic /\ i.running_count > 0 /\ i.in_queue = "none" =>
       \/ \E t \in In(e) : ~thread[t].restarted
       \/ i.running_count > Cardinality(In(e))
  /\ ~i.is_periodic /\ i.running_count > 0 => i.in_queue = "none"

\* The references of c's two entries, as RefsAccounted has them.
RefsOK(c) ==
  LET i == info[Cb(c)]  k == info[Kick(c)] IN
  /\ i.refs = B(phase[c] = "live" /\ c \notin NoHandle)
               + B(i.in_queue # "none" \/ i.running_count > 0)
               + Cardinality(Rel(Cb(c)))
               + B(k.refs > 0 /\ notified[c] = 0)
  /\ k.refs = B(k.in_queue # "none" \/ k.running_count > 0)
               + Cardinality(Rel(Kick(c)))

\* A thread is about to register the kickout of c.
Kicking(c) == \E t \in Threads : thread[t].e = Cb(c) /\ thread[t].pc = "kick"

\* The kickout was registered.
Kicked(c) ==
  \/ info[Kick(c)].in_queue # "none" \/ info[Kick(c)].running_count > 0
  \/ info[Kick(c)].refs > 0 \/ notified[c] > 0
  \/ \E t \in Threads : thread[t].e = Kick(c)

\* The kickout is registered once, after the last invocation, and runs once.
KickoutOK(c) ==
  LET i == info[Cb(c)]  k == info[Kick(c)] IN
  /\ ~k.is_periodic /\ ~k.unregister_callback
  /\ i.unregister_callback => phase[c] \in {"active", "inactive"}
  /\ phase[c] = "new" => /\ i.in_queue = "none" /\ i.running_count = 0
                         /\ Rel(Cb(c)) = {}
  /\ phase[c] \in {"inactive", "released"} =>
       i.in_queue = "none" /\ i.running_count = 0
  /\ phase[c] = "inactive" => Kicked(c)
  /\ Kicking(c) \/ Kicked(c) =>
       /\ phase[c] \in {"active", "inactive"}
       /\ i.in_queue = "none" /\ i.running_count = 0
  /\ ~(Kicking(c) /\ Kicked(c))
  /\ \A t, u \in Threads : /\ thread[t].e = Cb(c) /\ thread[t].pc = "kick"
                           /\ thread[u].e = Cb(c) /\ thread[u].pc = "kick"
                           => t = u
  /\ \A t, u \in Threads : thread[t].e = Kick(c) /\ thread[u].e = Kick(c) => t = u
  /\ k.in_queue # "none" =>
       notified[c] = 0 /\ \A t \in Threads : thread[t].e # Kick(c)
  /\ \A t \in Threads : thread[t].e = Kick(c) => ~thread[t].own
  /\ \A t \in Threads : thread[t].e = Kick(c) =>
       \/ thread[t].pc \in {"run", "respawn"} /\ notified[c] = 0
       \/ thread[t].pc \in {"finish", "decref"} /\ notified[c] = 1

\* what holds of one callback and its kickout
CallbackOK(c) ==
  /\ EntryOK(Cb(c)) /\ EntryOK(Kick(c)) /\ RefsOK(c) /\ KickoutOK(c)

\* the inductive invariant
CallbackCore ==
  ThreadCore /\ QueuesAgree /\ \A c \in Callbacks : CallbackOK(c)

-----------------------------------------------------------------------------
(* Sets of threads                                                          *)

\* A set of threads is finite.
LEMMA ThreadSet ==
    ASSUME NEW S \in SUBSET Threads
    PROVE  /\ IsFiniteSet(S) /\ Cardinality(S) \in Nat
           /\ Cardinality(S) <= Cardinality(Threads) /\ Cardinality(Threads) \in Nat
           /\ Cardinality(S) = 0 <=> S = {}
  <1>1. IsFiniteSet(Threads)
    BY CallbackAssumption
  <1>2. IsFiniteSet(S) /\ Cardinality(S) <= Cardinality(Threads)
    BY <1>1, FS_Subset
  <1> QED BY <1>1, <1>2, FS_CardinalityType, FS_EmptySet

\* One thread less.
LEMMA OneLess ==
    ASSUME NEW S \in SUBSET Threads, NEW t \in S
    PROVE  Cardinality(S \ {t}) = Cardinality(S) - 1 /\ Cardinality(S) >= 1
  <1>1. IsFiniteSet(S) /\ Cardinality(S) \in Nat /\ (Cardinality(S) = 0 <=> S = {})
    BY ThreadSet
  <1>2. Cardinality(S \ {t}) = Cardinality(S) - 1
    BY <1>1, FS_RemoveElement
  <1> QED BY <1>1, <1>2

\* One thread more.
LEMMA OneMore ==
    ASSUME NEW S \in SUBSET Threads, NEW t \in Threads \ S
    PROVE  Cardinality(S \cup {t}) = Cardinality(S) + 1
  <1>1. IsFiniteSet(S)
    BY ThreadSet
  <1> QED BY <1>1, FS_AddElement

-----------------------------------------------------------------------------
(* What a step leaves alone                                                 *)

\* Nothing that counts for the references of e changes in its callback_info.
SameInfo(e) ==
  /\ info'[e].running_count = info[e].running_count
  /\ info'[e].is_periodic = info[e].is_periodic
  /\ info'[e].unregister_callback = info[e].unregister_callback
  /\ info'[e].refs = info[e].refs
  /\ info'[e].in_queue = "none" <=> info[e].in_queue = "none"

\* The same threads are in e, and they drop the same references.
SameThreads(e) ==
  \A t \in Threads :
    /\ thread'[t].e = e <=> thread[t].e = e
    /\ thread[t].e = e =>
         /\ thread'[t].own = thread[t].own
         /\ thread'[t].restarted = thread[t].restarted
         /\ \/ thread'[t].pc = thread[t].pc
            \/ thread[t].pc \in InCall /\ thread'[t].pc \in InCall

\* The threads in the kickout e stay before or after their call.
SameKick(e) ==
  \A t \in Threads : thread[t].e = e =>
    /\ thread[t].pc \in {"run", "respawn"} => thread'[t].pc \in {"run", "respawn"}
    /\ thread[t].pc \in {"finish", "decref"} => thread'[t].pc = thread[t].pc

\* The sets the invariant is made of stay.
LEMMA SameSets ==
    ASSUME NEW e, SameThreads(e)
    PROVE  /\ In(e)' = In(e) /\ Rel(e)' = Rel(e)
           /\ \A t \in In(e) : thread'[t].restarted = thread[t].restarted
  BY DEF SameThreads, In, Rel, InCall

\* An entry nobody touches stays as it is.
LEMMA SameEntry ==
    ASSUME NEW e, SameThreads(e), SameInfo(e), EntryOK(e), shutdown => shutdown'
    PROVE  EntryOK(e)'
  <1>1. /\ In(e)' = In(e)
        /\ \A t \in In(e) : thread'[t].restarted = thread[t].restarted
    BY SameSets
  <1> QED BY <1>1 DEF EntryOK, SameInfo

\* The kickout of c is as far as it was.
LEMMA SameKicked ==
    ASSUME NEW c \in Callbacks, SameInfo(Kick(c)), SameThreads(Cb(c)),
           SameThreads(Kick(c)), notified'[c] = notified[c]
    PROVE  Kicking(c)' = Kicking(c) /\ Kicked(c)' = Kicked(c)
  <1>1. Kicking(c)' <=> Kicking(c)
    BY DEF Kicking, SameThreads, InCall
  <1>2. Kicked(c)' <=> Kicked(c)
    BY DEF Kicked, SameThreads, SameInfo
  <1> QED BY <1>1, <1>2 DEF Kicking, Kicked

\* A callback nobody touches stays as it is.
LEMMA SameCallback ==
    ASSUME NEW c \in Callbacks, CallbackOK(c), SameInfo(Cb(c)), SameInfo(Kick(c)),
           SameThreads(Cb(c)), SameThreads(Kick(c)), SameKick(Kick(c)),
           phase'[c] = phase[c], notified'[c] = notified[c], shutdown => shutdown'
    PROVE  CallbackOK(c)'
  <1>1. EntryOK(Cb(c))' /\ EntryOK(Kick(c))'
    BY SameEntry DEF CallbackOK
  <1>2. /\ In(Cb(c))' = In(Cb(c)) /\ Rel(Cb(c))' = Rel(Cb(c))
        /\ In(Kick(c))' = In(Kick(c)) /\ Rel(Kick(c))' = Rel(Kick(c))
    BY SameSets
  <1>3. Kicking(c)' = Kicking(c) /\ Kicked(c)' = Kicked(c)
    BY SameKicked
  <1>4. RefsOK(c)'
    BY <1>2 DEF RefsOK, CallbackOK, SameInfo, B
  <1>5. KickoutOK(c)'
    <2>1. \A t, u \in Threads : /\ thread'[t].e = Cb(c) /\ thread'[t].pc = "kick"
                                /\ thread'[u].e = Cb(c) /\ thread'[u].pc = "kick"
                                => t = u
      BY DEF CallbackOK, KickoutOK, SameThreads, InCall
    <2>2. /\ \A t, u \in Threads : thread'[t].e = Kick(c) /\ thread'[u].e = Kick(c) => t = u
          /\ \A t \in Threads : thread'[t].e = Kick(c) => ~thread'[t].own
          /\ info'[Kick(c)].in_queue # "none" =>
                notified'[c] = 0 /\ \A t \in Threads : thread'[t].e # Kick(c)
      BY DEF CallbackOK, KickoutOK, SameThreads, SameInfo
    <2>3. \A t \in Threads : thread'[t].e = Kick(c) =>
            \/ thread'[t].pc \in {"run", "respawn"} /\ notified'[c] = 0
            \/ thread'[t].pc \in {"finish", "decref"} /\ notified'[c] = 1
      BY DEF CallbackOK, KickoutOK, SameThreads, SameKick
    <2>4. /\ ~info'[Kick(c)].is_periodic /\ ~info'[Kick(c)].unregister_callback
          /\ info'[Cb(c)].unregister_callback => phase'[c] \in {"active", "inactive"}
          /\ phase'[c] = "new" => /\ info'[Cb(c)].in_queue = "none"
                                  /\ info'[Cb(c)].running_count = 0
                                  /\ Rel(Cb(c))' = {}
          /\ phase'[c] \in {"inactive", "released"} =>
               info'[Cb(c)].in_queue = "none" /\ info'[Cb(c)].running_count = 0
          /\ phase'[c] = "inactive" => Kicked(c)'
          /\ Kicking(c)' \/ Kicked(c)' =>
               /\ phase'[c] \in {"active", "inactive"}
               /\ info'[Cb(c)].in_queue = "none" /\ info'[Cb(c)].running_count = 0
          /\ ~(Kicking(c)' /\ Kicked(c)')
      BY <1>2, <1>3 DEF CallbackOK, KickoutOK, SameInfo
    <2> QED BY <2>1, <2>2, <2>3, <2>4 DEF KickoutOK
  <1> QED BY <1>1, <1>4, <1>5 DEF CallbackOK

\* A step that acts on no callback but c keeps the others as they are.
LEMMA OtherCallbacks ==
    ASSUME CallbackCore, NEW c \in Callbacks, CallbackOK(c)',
           \A e \in Entries : e # Cb(c) /\ e # Kick(c) =>
              SameInfo(e) /\ SameThreads(e) /\ SameKick(e),
           \A d \in Callbacks : d # c => phase'[d] = phase[d] /\ notified'[d] = notified[d],
           shutdown => shutdown'
    PROVE  \A d \in Callbacks : CallbackOK(d)'
  <1> SUFFICES ASSUME NEW d \in Callbacks, d # c PROVE CallbackOK(d)'
    OBVIOUS
  <1>1. /\ Cb(d) \in Entries /\ Kick(d) \in Entries
        /\ Cb(d) # Cb(c) /\ Cb(d) # Kick(c) /\ Kick(d) # Cb(c) /\ Kick(d) # Kick(c)
    BY EntriesOf
  <1>2. CallbackOK(d)
    BY DEF CallbackCore
  <1> QED BY <1>1, <1>2, SameCallback

\* A step that acts on no callback.
LEMMA AllCallbacks ==
    ASSUME CallbackCore, shutdown => shutdown', UNCHANGED <<phase, notified>>,
           \A e \in Entries : SameInfo(e) /\ SameThreads(e),
           \A c \in Callbacks : SameKick(Kick(c))
    PROVE  \A c \in Callbacks : CallbackOK(c)'
  <1> SUFFICES ASSUME NEW c \in Callbacks PROVE CallbackOK(c)'
    OBVIOUS
  <1>1. Cb(c) \in Entries /\ Kick(c) \in Entries /\ CallbackOK(c)
    BY EntriesOf DEF CallbackCore
  <1> QED BY <1>1, SameCallback

\* Threads that are at most woken are in the entries they were in.
LEMMA WokenThreads ==
    ASSUME ThreadCore, NEW e \in Entries, NEW T,
           \A t \in Threads \ T : WokenFrom(thread[t], thread'[t]),
           \A t \in Threads \cap T : thread[t].e # e /\ thread'[t].e # e
    PROVE  SameThreads(e) /\ SameKick(e)
  <1>0. \A t \in Threads : thread[t].e = e => thread[t].pc \notin IdlePcs
    BY EntryCases DEF ThreadCore, Shape, ShapeOf
  <1>1. SameThreads(e)
    BY <1>0 DEF SameThreads, WokenFrom, InCall, IdlePcs
  <1>2. SameKick(e)
    BY DEF SameKick, WokenFrom
  <1> QED BY <1>1, <1>2

-----------------------------------------------------------------------------
(* Queues that hold each entry once                                         *)

\* Putting an entry at the end of a queue.
LEMMA QueueAppend ==
    ASSUME NEW q \in Seq(Entries), IsInjective(q), NEW e \in Entries \ ToSet(q)
    PROVE  /\ IsInjective(Append(q, e)) /\ ToSet(Append(q, e)) = ToSet(q) \cup {e}
  <1>1. /\ Append(q, e) \in Seq(Entries) /\ Len(Append(q, e)) = Len(q) + 1
        /\ Len(q) \in Nat /\ Append(q, e)[Len(q) + 1] = e
        /\ \A k \in 1..Len(q) : Append(q, e)[k] = q[k]
    OBVIOUS
  <1>2. DOMAIN q = 1..Len(q) /\ DOMAIN Append(q, e) = 1..(Len(q) + 1)
    BY <1>1
  <1>3. \A k \in 1..Len(q) : q[k] # e
    BY <1>2 DEF ToSet
  <1> DEFINE r == Append(q, e)
  <1> HIDE DEF r
  <1>4. IsInjective(r)
    <2> SUFFICES ASSUME NEW j \in 1..(Len(q) + 1), NEW k \in 1..(Len(q) + 1),
                        r[j] = r[k]
                 PROVE  j = k
      BY <1>2 DEF IsInjective, r
    <2>1. (j \in 1..Len(q) \/ j = Len(q) + 1) /\ (k \in 1..Len(q) \/ k = Len(q) + 1)
      BY <1>1
    <2> QED BY <1>1, <1>2, <1>3, <2>1 DEF IsInjective, r
  <1>5. ToSet(r) \subseteq ToSet(q) \cup {e}
    <2> SUFFICES ASSUME NEW k \in 1..(Len(q) + 1) PROVE r[k] \in ToSet(q) \cup {e}
      BY <1>2 DEF ToSet, r
    <2>1. k \in 1..Len(q) \/ k = Len(q) + 1
      BY <1>1
    <2> QED BY <1>1, <1>2, <2>1 DEF ToSet, r
  <1>6. ToSet(q) \cup {e} \subseteq ToSet(r)
    <2>1. \A k \in 1..Len(q) : k \in 1..(Len(q) + 1)
      BY <1>1
    <2>2. Len(q) + 1 \in 1..(Len(q) + 1)
      BY <1>1
    <2> QED BY <1>1, <1>2, <2>1, <2>2 DEF ToSet, r
  <1> QED BY <1>4, <1>5, <1>6 DEF r

\* Putting two queues together that have no entry in common.
LEMMA QueueUnion ==
    ASSUME NEW q \in Seq(Entries), NEW r \in Seq(Entries), IsInjective(q),
           IsInjective(r), ToSet(q) \cap ToSet(r) = {}
    PROVE  /\ IsInjective(q \o r) /\ ToSet(q \o r) = ToSet(q) \cup ToSet(r)
  <1> DEFINE s == q \o r
  <1>1. /\ s \in Seq(Entries) /\ Len(s) = Len(q) + Len(r)
        /\ \A k \in 1..Len(q) : s[k] = q[k]
        /\ \A k \in 1..Len(r) : s[Len(q) + k] = r[k]
    BY QueueJoin
  <1>2. /\ DOMAIN q = 1..Len(q) /\ DOMAIN r = 1..Len(r)
        /\ Len(q) \in Nat /\ Len(r) \in Nat
    OBVIOUS
  <1> HIDE DEF s
  <1>3. DOMAIN s = 1..(Len(q) + Len(r))
    BY <1>1, <1>2
  <1>4. \A k \in 1..(Len(q) + Len(r)) : k \in 1..Len(q) \/ k - Len(q) \in 1..Len(r)
    BY <1>2
  <1>5. \A k \in 1..(Len(q) + Len(r)) : k \notin 1..Len(q) =>
            /\ k - Len(q) \in 1..Len(r) /\ s[k] = r[k - Len(q)]
    <2> SUFFICES ASSUME NEW k \in 1..(Len(q) + Len(r)), k \notin 1..Len(q)
                 PROVE  /\ k - Len(q) \in 1..Len(r) /\ s[k] = r[k - Len(q)]
      OBVIOUS
    <2>1. k - Len(q) \in 1..Len(r) /\ Len(q) + (k - Len(q)) = k
      BY <1>2
    <2> QED BY <1>1, <2>1
  <1>6. IsInjective(s)
    <2> SUFFICES ASSUME NEW j \in 1..(Len(q) + Len(r)), NEW k \in 1..(Len(q) + Len(r)),
                        s[j] = s[k]
                 PROVE  j = k
      BY <1>3 DEF IsInjective
    <2>1. CASE j \in 1..Len(q) /\ k \in 1..Len(q)
      BY <1>1, <1>2, <2>1 DEF IsInjective
    <2>2. CASE j \notin 1..Len(q) /\ k \notin 1..Len(q)
      <3>1. j - Len(q) = k - Len(q)
        BY <1>2, <1>5, <2>2 DEF IsInjective
      <3> QED BY <1>2, <3>1
    <2>3. CASE j \in 1..Len(q) /\ k \notin 1..Len(q)
      BY <1>1, <1>2, <1>5, <2>3 DEF ToSet
    <2>4. CASE j \notin 1..Len(q) /\ k \in 1..Len(q)
      BY <1>1, <1>2, <1>5, <2>4 DEF ToSet
    <2> QED BY <2>1, <2>2, <2>3, <2>4
  <1>7. ToSet(s) \subseteq ToSet(q) \cup ToSet(r)
    BY <1>1, <1>2, <1>3, <1>5 DEF ToSet
  <1>8. ToSet(q) \subseteq ToSet(s)
    <2>1. \A k \in 1..Len(q) : k \in 1..(Len(q) + Len(r))
      BY <1>2
    <2> QED BY <1>1, <1>2, <1>3, <2>1 DEF ToSet
  <1>9. ToSet(r) \subseteq ToSet(s)
    <2>1. \A k \in 1..Len(r) : Len(q) + k \in 1..(Len(q) + Len(r))
      BY <1>2
    <2> QED BY <1>1, <1>2, <1>3, <2>1 DEF ToSet
  <1> QED BY <1>6, <1>7, <1>8, <1>9 DEF s

\* Taking the first entry of a queue.
LEMMA QueueTail ==
    ASSUME NEW q \in Seq(Entries), IsInjective(q), q # <<>>
    PROVE  /\ IsInjective(Tail(q)) /\ ToSet(Tail(q)) = ToSet(q) \ {Head(q)}
           /\ Head(q) \in ToSet(q)
  <1>1. /\ Len(q) \in Nat /\ Len(q) >= 1 /\ DOMAIN q = 1..Len(q)
        /\ Head(q) = q[1] /\ Tail(q) \in Seq(Entries) /\ Len(Tail(q)) = Len(q) - 1
        /\ \A k \in 1..(Len(q) - 1) : Tail(q)[k] = q[k + 1]
    OBVIOUS
  <1>2. DOMAIN Tail(q) = 1..(Len(q) - 1)
    BY <1>1
  <1> DEFINE r == Tail(q)
  <1> HIDE DEF r
  <1>3. IsInjective(r)
    <2> SUFFICES ASSUME NEW j \in 1..(Len(q) - 1), NEW k \in 1..(Len(q) - 1), r[j] = r[k]
                 PROVE  j = k
      BY <1>2 DEF IsInjective, r
    <2>1. j + 1 \in 1..Len(q) /\ k + 1 \in 1..Len(q)
      BY <1>1
    <2>2. q[j + 1] = q[k + 1]
      BY <1>1 DEF r
    <2>3. j + 1 = k + 1
      BY <1>1, <2>1, <2>2 DEF IsInjective
    <2> QED BY <2>3
  <1>4. ToSet(r) \subseteq ToSet(q) \ {q[1]}
    <2> SUFFICES ASSUME NEW k \in 1..(Len(q) - 1) PROVE r[k] \in ToSet(q) /\ r[k] # q[1]
      BY <1>2 DEF ToSet, r
    <2>1. k + 1 \in 1..Len(q) /\ 1 \in 1..Len(q) /\ k + 1 # 1
      BY <1>1
    <2>2. r[k] = q[k + 1]
      BY <1>1 DEF r
    <2> QED BY <1>1, <2>1, <2>2 DEF ToSet, IsInjective
  <1>5. ToSet(q) \ {q[1]} \subseteq ToSet(r)
    <2> SUFFICES ASSUME NEW k \in 1..Len(q), q[k] # q[1] PROVE q[k] \in ToSet(r)
      BY <1>1 DEF ToSet
    <2>1. k - 1 \in 1..(Len(q) - 1) /\ (k - 1) + 1 = k
      BY <1>1
    <2>2. r[k - 1] = q[k]
      BY <1>1, <2>1 DEF r
    <2> QED BY <1>2, <2>1, <2>2 DEF ToSet, r
  <1>6. q[1] \in ToSet(q)
    BY <1>1 DEF ToSet
  <1> QED BY <1>1, <1>3, <1>4, <1>5, <1>6 DEF r

\* Contains, as membership.
LEMMA ContainsSet ==
    ASSUME NEW q \in Seq(Entries), NEW e
    PROVE  Contains(q, e) <=> e \in ToSet(q)
  BY DEF Contains, ToSet

-----------------------------------------------------------------------------
(* The queues and in_queue                                                  *)

\* The queues once e is taken out of them.
LEMMA QueuesWithout ==
    ASSUME ThreadCore, QueuesAgree, NEW e \in Entries
    PROVE  LET R == RemoveFirst(ready_queue, e)
               D == RemoveFirst(due_queue, e)
               T == timed_queue \ {e} IN
           /\ R \in Seq(Entries) /\ D \in Seq(Entries)
           /\ IsInjective(R) /\ IsInjective(D) /\ T \cap ToSet(D) = {}
           /\ ToSet(R) = {f \in Entries : f # e /\ info[f].in_queue = "ready"}
           /\ T \cup ToSet(D) = {f \in Entries : f # e /\ info[f].in_queue = "timed"}
  <1>0. ready_queue \in Seq(Entries) /\ due_queue \in Seq(Entries)
    BY DEF ThreadCore, Types
  <1>1. /\ RemoveFirst(ready_queue, e) \in Seq(Entries)
        /\ RemoveFirst(due_queue, e) \in Seq(Entries)
        /\ IsInjective(RemoveFirst(ready_queue, e))
        /\ IsInjective(RemoveFirst(due_queue, e))
        /\ ToSet(RemoveFirst(ready_queue, e)) = ToSet(ready_queue) \ {e}
        /\ ToSet(RemoveFirst(due_queue, e)) = ToSet(due_queue) \ {e}
    BY <1>0, QueueRemove DEF QueuesAgree
  <1>2. /\ timed_queue \cap ToSet(due_queue) = {}
        /\ ToSet(ready_queue) = {f \in Entries : info[f].in_queue = "ready"}
        /\ timed_queue \cup ToSet(due_queue)
             = {f \in Entries : info[f].in_queue = "timed"}
    BY DEF QueuesAgree
  <1> QED BY <1>1, <1>2

\* The queues do not change.
LEMMA QueuesSame ==
    ASSUME QueuesAgree, UNCHANGED space,
           \A e \in Entries : info'[e].in_queue = info[e].in_queue
    PROVE  QueuesAgree'
  BY DEF QueuesAgree, space

\* One entry is taken out of the queues, or moved from one to another.
LEMMA QueuesMove ==
    ASSUME ThreadCore, QueuesAgree, NEW e \in Entries,
           \/ Dequeued(e) /\ info'[e].in_queue = "none"
           \/ EnqueueTimed(e) /\ info'[e].in_queue = "timed"
           \/ EnqueueReady(e) /\ info'[e].in_queue = "ready",
           \A f \in Entries : f # e => info'[f].in_queue = info[f].in_queue
    PROVE  QueuesAgree'
  <1> DEFINE R == RemoveFirst(ready_queue, e)
             D == RemoveFirst(due_queue, e)
             T == timed_queue \ {e}
  <1>1. /\ R \in Seq(Entries) /\ D \in Seq(Entries)
        /\ IsInjective(R) /\ IsInjective(D) /\ T \cap ToSet(D) = {}
        /\ ToSet(R) = {f \in Entries : f # e /\ info[f].in_queue = "ready"}
        /\ T \cup ToSet(D) = {f \in Entries : f # e /\ info[f].in_queue = "timed"}
    BY QueuesWithout
  <1>2. CASE Dequeued(e) /\ info'[e].in_queue = "none"
    <2>1. ready_queue' = R /\ due_queue' = D /\ timed_queue' = T
      BY <1>2 DEF Dequeued
    <2> HIDE DEF R, D, T
    <2> QED BY <1>1, <1>2, <2>1 DEF QueuesAgree
  <1>3. CASE EnqueueTimed(e) /\ info'[e].in_queue = "timed"
    <2>1. ready_queue' = R /\ due_queue' = D /\ timed_queue' = T \cup {e}
      BY <1>3 DEF EnqueueTimed
    <2> HIDE DEF R, D, T
    <2> QED BY <1>1, <1>3, <2>1 DEF QueuesAgree
  <1>4. CASE EnqueueReady(e) /\ info'[e].in_queue = "ready"
    <2>1. ready_queue' = Append(R, e) /\ due_queue' = D /\ timed_queue' = T
      BY <1>4 DEF EnqueueReady
    <2> HIDE DEF R, D, T
    <2>2. IsInjective(Append(R, e)) /\ ToSet(Append(R, e)) = ToSet(R) \cup {e}
      BY <1>1, QueueAppend
    <2> QED BY <1>1, <1>4, <2>1, <2>2 DEF QueuesAgree
  <1> QED BY <1>2, <1>3, <1>4

\* An entry that was in no queue is put in one.
LEMMA QueuesAdd ==
    ASSUME ThreadCore, QueuesAgree, NEW e \in Entries, info[e].in_queue = "none",
           UNCHANGED due_queue,
           \/ /\ info'[e].in_queue = "ready"
              /\ ready_queue' = Append(ready_queue, e) /\ UNCHANGED timed_queue
           \/ /\ info'[e].in_queue = "timed"
              /\ timed_queue' = timed_queue \cup {e} /\ UNCHANGED ready_queue
           \/ info'[e].in_queue = "none" /\ UNCHANGED <<ready_queue, timed_queue>>,
           \A f \in Entries : f # e => info'[f].in_queue = info[f].in_queue
    PROVE  QueuesAgree'
  <1>1. /\ e \notin ToSet(ready_queue) /\ e \notin timed_queue
        /\ e \notin ToSet(due_queue) /\ ready_queue \in Seq(Entries)
    BY DEF QueuesAgree, ThreadCore, Types
  <1>2. CASE /\ info'[e].in_queue = "ready"
             /\ ready_queue' = Append(ready_queue, e) /\ UNCHANGED timed_queue
    <2>1. /\ IsInjective(ready_queue')
          /\ ToSet(ready_queue') = ToSet(ready_queue) \cup {e}
      BY <1>1, <1>2, QueueAppend DEF QueuesAgree
    <2> QED BY <1>2, <2>1 DEF QueuesAgree
  <1>3. CASE /\ info'[e].in_queue = "timed"
             /\ timed_queue' = timed_queue \cup {e} /\ UNCHANGED ready_queue
    BY <1>1, <1>3 DEF QueuesAgree
  <1>4. CASE info'[e].in_queue = "none" /\ UNCHANGED <<ready_queue, timed_queue>>
    BY <1>4 DEF QueuesAgree
  <1> QED BY <1>2, <1>3, <1>4

\* The ready queue with what is due after it.
LEMMA QueuesDue ==
    ASSUME ThreadCore, QueuesAgree, NEW i \in [Entries -> InfoRecs],
           \A e \in Entries : i[e].in_queue = info[e].in_queue
    PROVE  LET q == ready_queue \o due_queue IN
           /\ q \in Seq(Entries) /\ IsInjective(q)
           /\ \A e \in Entries :
                /\ e \in ToSet(q) <=> DueReady(i)[e].in_queue = "ready"
                /\ e \in timed_queue <=> DueReady(i)[e].in_queue = "timed"
                /\ DueReady(i)[e].in_queue = "none" <=> info[e].in_queue = "none"
           /\ ToSet(q) \subseteq Entries
  <1> DEFINE q == ready_queue \o due_queue
  <1>0. /\ ready_queue \in Seq(Entries) /\ due_queue \in Seq(Entries)
        /\ timed_queue \subseteq Entries
    BY DEF ThreadCore, Types
  <1>1. ToSet(ready_queue) \cap ToSet(due_queue) = {}
    BY DEF QueuesAgree
  <1>2. /\ q \in Seq(Entries) /\ IsInjective(q)
        /\ ToSet(q) = ToSet(ready_queue) \cup ToSet(due_queue)
    BY <1>0, <1>1, QueueJoin, QueueUnion DEF QueuesAgree
  <1>3. \A e \in Entries : DueReady(i)[e].in_queue =
           IF e \in ToSet(due_queue) THEN "ready" ELSE info[e].in_queue
    BY <1>0, DueReadyType, ContainsSet
  <1> HIDE DEF q
  <1>4. \A e \in Entries :
          /\ e \in ToSet(q) <=> DueReady(i)[e].in_queue = "ready"
          /\ e \in timed_queue <=> DueReady(i)[e].in_queue = "timed"
          /\ DueReady(i)[e].in_queue = "none" <=> info[e].in_queue = "none"
    BY <1>2, <1>3 DEF QueuesAgree
  <1>5. ToSet(q) \subseteq Entries
    BY <1>2 DEF QueuesAgree
  <1> QED BY <1>2, <1>4, <1>5 DEF q

\* Queueing an entry that is in no queue again.
LEMMA RequeueQueues ==
    ASSUME ThreadCore, QueuesAgree, NEW i \in [Entries -> InfoRecs],
           \A f \in Entries : i[f].in_queue = info[f].in_queue,
           NEW e \in Entries, info[e].in_queue = "none",
           NEW q \in {"timed", "ready"}, Requeue(i, e, q)
    PROVE  /\ QueuesAgree'
           /\ info'[e].in_queue = q
           /\ info'[e].running_count = i[e].running_count
           /\ info'[e].is_periodic = i[e].is_periodic
           /\ info'[e].unregister_callback = i[e].unregister_callback
           /\ info'[e].refs = i[e].refs
           /\ \A f \in Entries : f # e =>
                /\ info'[f].running_count = i[f].running_count
                /\ info'[f].is_periodic = i[f].is_periodic
                /\ info'[f].unregister_callback = i[f].unregister_callback
                /\ info'[f].refs = i[f].refs
                /\ info'[f].in_queue = "none" <=> info[f].in_queue = "none"
  <1> DEFINE Q == ready_queue \o due_queue
             J == DueReady(i)
  <1>1. /\ Q \in Seq(Entries) /\ IsInjective(Q)
        /\ \A f \in Entries :
             /\ f \in ToSet(Q) <=> J[f].in_queue = "ready"
             /\ f \in timed_queue <=> J[f].in_queue = "timed"
             /\ J[f].in_queue = "none" <=> info[f].in_queue = "none"
        /\ ToSet(Q) \subseteq Entries
    BY QueuesDue
  <1>2. J \in [Entries -> InfoRecs]
    BY DueReadyType
  <1>3. \A f \in Entries :
          /\ J[f].running_count = i[f].running_count
          /\ J[f].is_periodic = i[f].is_periodic
          /\ J[f].unregister_callback = i[f].unregister_callback
          /\ J[f].refs = i[f].refs
    BY DueReadyType
  <1>4. /\ info' = [J EXCEPT ![e] = [J[e] EXCEPT !.in_queue = q]]
        /\ due_queue' = <<>>
        /\ timed_queue' = IF q = "timed" THEN timed_queue \cup {e} ELSE timed_queue
        /\ ready_queue' = Q \o (IF q = "ready" THEN <<e>> ELSE <<>>)
    BY <1>2 DEF Requeue
  <1>0. timed_queue \subseteq Entries
    BY DEF ThreadCore, Types
  <1> HIDE DEF Q, J
  <1>5. /\ info'[e].in_queue = q
        /\ info'[e].running_count = J[e].running_count
        /\ info'[e].is_periodic = J[e].is_periodic
        /\ info'[e].unregister_callback = J[e].unregister_callback
        /\ info'[e].refs = J[e].refs
        /\ \A f \in Entries : f # e => info'[f] = J[f]
    BY <1>2, <1>4 DEF InfoRecs
  <1>6. IsInjective(<<>>) /\ ToSet(<<>>) = {}
    BY DEF IsInjective, ToSet
  <1>7. CASE q = "ready"
    <2>1. ready_queue' = Append(Q, e)
      BY <1>1, <1>4, <1>7
    <2>2. IsInjective(ready_queue') /\ ToSet(ready_queue') = ToSet(Q) \cup {e}
      BY <1>1, <2>1, QueueAppend
    <2>3. ToSet(ready_queue') = {f \in Entries : info'[f].in_queue = "ready"}
      BY <1>1, <1>5, <1>7, <2>2
    <2>4. timed_queue = {f \in Entries : info'[f].in_queue = "timed"}
      BY <1>0, <1>1, <1>5, <1>7
    <2>5. QueuesAgree'
      BY <1>4, <1>6, <1>7, <2>2, <2>3, <2>4 DEF QueuesAgree
    <2> QED BY <1>1, <1>3, <1>5, <2>5
  <1>8. CASE q = "timed"
    <2>1. ready_queue' = Q
      BY <1>1, <1>4, <1>8
    <2>2. ToSet(ready_queue') = {f \in Entries : info'[f].in_queue = "ready"}
      BY <1>1, <1>5, <1>8, <2>1
    <2>3. timed_queue' = {f \in Entries : info'[f].in_queue = "timed"}
      BY <1>0, <1>1, <1>4, <1>5, <1>8
    <2>4. QueuesAgree'
      BY <1>1, <1>4, <1>6, <1>8, <2>1, <2>2, <2>3 DEF QueuesAgree
    <2> QED BY <1>1, <1>3, <1>5, <2>4
  <1> QED BY <1>7, <1>8

-----------------------------------------------------------------------------
(* The steps that touch no callback                                         *)

\* A thread that is in an entry moves on in it.
LEMMA MoveSame ==
    ASSUME CallbackCore, NEW t \in Threads, NEW pc \in InCall, thread[t].pc \in InCall,
           thread' = [thread EXCEPT ![t].pc = pc],
           \/ \A c \in Callbacks : thread[t].e # Kick(c)
           \/ thread[t].pc \in {"run", "respawn"} /\ pc \in {"run", "respawn"}
    PROVE  /\ \A e \in Entries : SameThreads(e)
           /\ \A c \in Callbacks : SameKick(Kick(c))
  <1>1. thread[t] \in ThreadRecs /\ thread \in [Threads -> ThreadRecs]
    BY DEF CallbackCore, ThreadCore, Types
  <1>2. /\ thread'[t].pc = pc /\ thread'[t].own = thread[t].own
        /\ thread'[t].restarted = thread[t].restarted /\ thread'[t].e = thread[t].e
        /\ \A u \in Threads \ {t} : thread'[u] = thread[u]
    BY <1>1 DEF ThreadRecs
  <1>3. \A e \in Entries : SameThreads(e)
    BY <1>2 DEF SameThreads
  <1>4. \A c \in Callbacks : SameKick(Kick(c))
    BY <1>2 DEF SameKick
  <1> QED BY <1>3, <1>4

\* A thread that is in no entry stays in none.
LEMMA IdleSame ==
    ASSUME CallbackCore, NEW T \in SUBSET Threads,
           \A t \in T : thread[t].e = <<>> /\ thread'[t].e = <<>>,
           \A t \in Threads \ T : WokenFrom(thread[t], thread'[t])
    PROVE  /\ \A e \in Entries : SameThreads(e)
           /\ \A c \in Callbacks : SameKick(Kick(c))
  <1>1. \A e \in Entries : e # <<>>
    BY EntryCases
  <1>2. \A e \in Entries : SameThreads(e) /\ SameKick(e)
    BY <1>1, WokenThreads DEF CallbackCore
  <1> QED BY <1>2, EntriesOf

\* The moves of a thread in and out of its waits, and the end of a thread.
LEMMA MovesRefs ==
    ASSUME CallbackCore, NEW t \in Threads,
           \/ PollTimeout(t) \/ Return(t) \/ ReturnOwn(t) \/ OwnWake(t)
           \/ OwnWaitAgain(t) \/ Respawn(t) \/ Exit(t)
    PROVE  QueuesAgree' /\ \A c \in Callbacks : CallbackOK(c)'
  <1>0. /\ thread[t] \in ThreadRecs /\ ShapeOf(thread[t])
        /\ thread \in [Threads -> ThreadRecs] /\ shutdown \in BOOLEAN
        /\ \A u \in Threads : ShapeOf(thread[u]) /\ thread[u] \in ThreadRecs
    BY DEF CallbackCore, ThreadCore, Types, Shape
  <1>1. UNCHANGED <<info, space, phase, notified, shutdown>>
    BY DEF PollTimeout, Return, ReturnOwn, OwnWake, OwnWaitAgain, Respawn, Exit
  <1>2. /\ \A e \in Entries : SameThreads(e)
        /\ \A c \in Callbacks : SameKick(Kick(c))
    <2>1. CASE Return(t)
      <3>1. \A c \in Callbacks : thread[t].e # Kick(c)
        BY <2>1 DEF Return, Kick
      <3> QED BY <2>1, <3>1, MoveSame DEF Return, InCall
    <2>2. CASE ReturnOwn(t) \/ OwnWake(t) \/ OwnWaitAgain(t)
      <3>1. thread[t].own
        BY <1>0, <2>2 DEF ReturnOwn, OwnWake, OwnWaitAgain, ShapeOf
      <3>2. \A c \in Callbacks : thread[t].e # Kick(c)
        BY <3>1 DEF CallbackCore, CallbackOK, KickoutOK
      <3>3. /\ thread[t].pc \in InCall
            /\ \E pc \in InCall : thread' = [thread EXCEPT ![t].pc = pc]
        BY <2>2 DEF ReturnOwn, OwnWake, OwnWaitAgain, InCall
      <3> QED BY <3>2, <3>3, MoveSame
    <2>3. CASE PollTimeout(t) \/ Exit(t)
      <3>1. /\ thread[t].e = <<>> /\ thread'[t].e = <<>>
            /\ \A u \in Threads \ {t} : thread'[u] = thread[u]
        BY <1>0, <2>3, NoThreadRec DEF PollTimeout, Exit, ShapeOf, IdlePcs, ThreadRecs
      <3>2. \A u \in Threads \ {t} : WokenFrom(thread[u], thread'[u])
        BY <3>1 DEF WokenFrom
      <3>3. {t} \in SUBSET Threads /\ \A u \in {t} : thread[u].e = <<>> /\ thread'[u].e = <<>>
        BY <3>1
      <3> QED BY <3>2, <3>3, IdleSame
    <2>4. CASE Respawn(t)
      <3>1. thread[t].pc = "respawn"
        BY <2>4 DEF Respawn
      <3>2. CASE shutdown
        <4>1. thread' = [thread EXCEPT ![t].pc = "run"]
          BY <2>4, <3>2 DEF Respawn
        <4> QED BY <3>1, <4>1, MoveSame DEF InCall
      <3>3. CASE ~shutdown
        <4>1. PICK n \in Threads :
                /\ thread[n].pc = "none"
                /\ thread' = [thread EXCEPT ![t].pc = "run", ![n] = NewPoller]
          BY <2>4, <3>3 DEF Respawn
        <4>2. /\ thread'[t].pc = "run" /\ thread'[t].own = thread[t].own
              /\ thread'[t].restarted = thread[t].restarted
              /\ thread'[t].e = thread[t].e /\ t # n
              /\ thread[n].e = <<>>
              /\ \A u \in Threads \ {t, n} : thread'[u] = thread[u]
          BY <1>0, <3>1, <4>1 DEF ThreadRecs, ShapeOf, IdlePcs
        <4>3. thread'[n].e = <<>>
          BY <1>0, <4>1 DEF NewPoller, NoThread
        <4>4. \A e \in Entries : SameThreads(e)
          BY <3>1, <4>2, <4>3, EntryCases DEF SameThreads, InCall
        <4>5. \A c \in Callbacks : SameKick(Kick(c))
          BY <3>1, <4>2, <4>3, EntriesOf DEF SameKick
        <4> QED BY <4>4, <4>5
      <3> QED BY <1>0, <3>2, <3>3
    <2> QED BY <2>1, <2>2, <2>3, <2>4
  <1>3. \A e \in Entries : SameInfo(e)
    BY <1>1 DEF SameInfo
  <1>4. QueuesAgree'
    BY <1>1, QueuesSame DEF CallbackCore
  <1> QED BY <1>1, <1>2, <1>3, <1>4, AllCallbacks

\* Deactivation wakes threads and touches no callback.
LEMMA DeactivateRefs ==
    ASSUME CallbackCore, Deactivate
    PROVE  QueuesAgree' /\ \A c \in Callbacks : CallbackOK(c)'
  <1>1. \A t \in Threads : WokenFrom(thread[t], thread'[t])
    <2> SUFFICES ASSUME NEW t \in Threads PROVE WokenFrom(thread[t], thread'[t])
      OBVIOUS
    <2>1. thread[t] \in ThreadRecs /\ thread \in [Threads -> ThreadRecs]
      BY DEF CallbackCore, ThreadCore, Types
    <2>2. CASE t \in Waiting(thread)
      <3>1. Wake(thread, t)[t] = [thread[t] EXCEPT !.pc =
               IF thread[t].pc = "ownwait" THEN "ownwoken" ELSE "woken"]
        BY <2>1 DEF Wake
      <3>2. thread'[t] = Wake(thread, t)[t]
        BY <2>2 DEF Deactivate
      <3> QED BY <2>1, <2>2, <3>1, <3>2 DEF WokenFrom, ThreadRecs, Waiting
    <2>3. CASE t \notin Waiting(thread)
      BY <2>1, <2>3 DEF Deactivate, WokenFrom
    <2> QED BY <2>2, <2>3
  <1>2. /\ \A e \in Entries : SameThreads(e)
        /\ \A c \in Callbacks : SameKick(Kick(c))
    <2>1. {} \in SUBSET Threads
      OBVIOUS
    <2> QED BY <1>1, <2>1, IdleSame
  <1>3. UNCHANGED <<info, space, phase, notified>> /\ shutdown'
    BY DEF Deactivate
  <1>4. \A e \in Entries : SameInfo(e)
    BY <1>3 DEF SameInfo
  <1>5. QueuesAgree'
    BY <1>3, QueuesSame DEF CallbackCore
  <1> QED BY <1>2, <1>3, <1>4, <1>5, AllCallbacks

\* The start time of an entry passes: it goes from one queue to another.
LEMMA DueRefs ==
    ASSUME CallbackCore, NEW e \in Entries, Due(e)
    PROVE  QueuesAgree' /\ \A c \in Callbacks : CallbackOK(c)'
  <1>1. /\ e \in timed_queue /\ timed_queue' = timed_queue \ {e}
        /\ due_queue' = Append(due_queue, e)
        /\ UNCHANGED <<info, ready_queue, thread, shutdown, phase, notified>>
    BY DEF Due
  <1>2. e \notin ToSet(due_queue) /\ due_queue \in Seq(Entries)
    BY <1>1 DEF CallbackCore, QueuesAgree, ThreadCore, Types
  <1>3. IsInjective(due_queue') /\ ToSet(due_queue') = ToSet(due_queue) \cup {e}
    BY <1>1, <1>2, QueueAppend DEF CallbackCore, QueuesAgree
  <1>4. QueuesAgree'
    BY <1>1, <1>3 DEF CallbackCore, QueuesAgree
  <1>5. \A t \in Threads : WokenFrom(thread[t], thread'[t])
    BY <1>1 DEF WokenFrom
  <1>6. /\ \A f \in Entries : SameThreads(f)
        /\ \A c \in Callbacks : SameKick(Kick(c))
    <2>1. {} \in SUBSET Threads
      OBVIOUS
    <2> QED BY <1>5, <2>1, IdleSame
  <1>7. \A f \in Entries : SameInfo(f)
    BY <1>1 DEF SameInfo
  <1> QED BY <1>1, <1>4, <1>6, <1>7, AllCallbacks

-----------------------------------------------------------------------------
(* The program's calls                                                      *)

\* A callback the program has not unregistered has no kickout.
LEMMA NoKickout ==
    ASSUME CallbackCore, NEW c \in Callbacks,
           phase[c] \notin {"active", "inactive"}
              \/ info[Cb(c)].in_queue # "none" \/ info[Cb(c)].running_count > 0
    PROVE  /\ ~Kicking(c) /\ ~Kicked(c)
           /\ info[Kick(c)].in_queue = "none" /\ info[Kick(c)].running_count = 0
           /\ info[Kick(c)].refs = 0 /\ notified[c] = 0
           /\ \A t \in Threads : thread[t].e # Kick(c)
           /\ Rel(Kick(c)) = {} /\ In(Kick(c)) = {}
  <1>1. CallbackOK(c) /\ Kick(c) \in Entries /\ Cb(c) \in Entries
    BY EntriesOf DEF CallbackCore
  <1>2. ~Kicking(c) /\ ~Kicked(c)
    BY <1>1 DEF CallbackOK, KickoutOK
  <1>3. /\ info[Kick(c)].running_count \in Int /\ info[Kick(c)].running_count >= 0
        /\ notified[c] \in Nat
    <2>1. info[Kick(c)] \in InfoRecs /\ notified[c] \in Nat
      BY <1>1 DEF CallbackCore, ThreadCore, Types
    <2>2. info[Kick(c)].running_count \in 0 .. Cardinality(Threads)
      BY <1>1 DEF CallbackOK, EntryOK
    <2> QED BY <2>1, <2>2 DEF InfoRecs
  <1>4. /\ info[Kick(c)].in_queue = "none" /\ info[Kick(c)].running_count = 0
        /\ notified[c] = 0 /\ \A t \in Threads : thread[t].e # Kick(c)
    BY <1>2, <1>3 DEF Kicked
  <1>5. Rel(Kick(c)) = {} /\ In(Kick(c)) = {}
    BY <1>4 DEF Rel, In
  <1>6. info[Kick(c)].refs = 0
    <2>1. Cardinality(Rel(Kick(c))) = 0
      BY <1>5, FS_EmptySet
    <2> QED BY <1>1, <1>4, <2>1 DEF CallbackOK, RefsOK, B
  <1> QED BY <1>2, <1>4, <1>5, <1>6

\* Nobody is in a callback whose count is zero.
LEMMA NotRunning ==
    ASSUME CallbackCore, NEW e \in Entries, info[e].running_count = 0
    PROVE  In(e) = {}
  <1>1. EntryOK(e)
    BY EntryCases DEF CallbackCore, CallbackOK
  <1>2. In(e) \in SUBSET Threads
    BY DEF In
  <1>3. Cardinality(In(e)) \in Nat /\ (Cardinality(In(e)) = 0 <=> In(e) = {})
    BY <1>2, ThreadSet
  <1>4. Cardinality(In(e)) <= 0
    BY <1>1 DEF EntryOK
  <1> QED BY <1>3, <1>4

\* A call on a callback that has no kickout, and that starts none.
LEMMA CallRefs ==
    ASSUME CallbackCore, NEW c \in Callbacks, ~Kicking(c), ~Kicked(c),
           Signal(thread) \/ UNCHANGED <<thread, stolen>>,
           UNCHANGED <<shutdown, notified>>,
           \A e \in Entries : e # Cb(c) => info'[e] = info[e],
           \A d \in Callbacks : d # c => phase'[d] = phase[d],
           phase'[c] \notin {"new", "inactive"},
           phase'[c] = "released" =>
             info'[Cb(c)].in_queue = "none" /\ info'[Cb(c)].running_count = 0,
           info'[Cb(c)].unregister_callback => phase'[c] = "active",
           /\ In(Cb(c))' = In(Cb(c))
           /\ \A t \in In(Cb(c)) : thread'[t].restarted = thread[t].restarted
           => EntryOK(Cb(c))',
           info'[Cb(c)].refs =
               B(phase'[c] = "live" /\ c \notin NoHandle)
               + B(info'[Cb(c)].in_queue # "none" \/ info'[Cb(c)].running_count > 0)
               + Cardinality(Rel(Cb(c)))
    PROVE  \A d \in Callbacks : CallbackOK(d)'
  <1>0. /\ CallbackOK(c) /\ Cb(c) \in Entries /\ Kick(c) \in Entries
        /\ Kick(c) # Cb(c)
    BY EntriesOf DEF CallbackCore
  <1>1. \A t \in Threads : WokenFrom(thread[t], thread'[t])
    <2>1. thread \in [Threads -> ThreadRecs] /\ stolen \in BOOLEAN
      BY DEF CallbackCore, ThreadCore, Types
    <2> QED BY <2>1, SignalEffect DEF WokenFrom
  <1>2. \A e \in Entries : SameThreads(e) /\ SameKick(e)
    <2>1. \A t \in Threads \cap {} : FALSE
      OBVIOUS
    <2> QED BY <1>1, <2>1, WokenThreads DEF CallbackCore
  <1>3. /\ In(Cb(c))' = In(Cb(c)) /\ Rel(Cb(c))' = Rel(Cb(c))
        /\ Rel(Kick(c))' = Rel(Kick(c))
        /\ \A t \in In(Cb(c)) : thread'[t].restarted = thread[t].restarted
    BY <1>0, <1>2, SameSets
  <1>4. \A e \in Entries : e # Cb(c) => SameInfo(e)
    BY DEF SameInfo
  <1>5. EntryOK(Cb(c))' /\ EntryOK(Kick(c))'
    <2>1. EntryOK(Cb(c))'
      BY <1>3
    <2>2. EntryOK(Kick(c))'
      BY <1>0, <1>2, <1>4, SameEntry DEF CallbackOK
    <2> QED BY <2>1, <2>2
  <1>6. ~Kicking(c)' /\ ~Kicked(c)'
    BY <1>0, <1>2, <1>4, SameKicked
  <1>7. RefsOK(c)'
    <2>1. info'[Kick(c)] = info[Kick(c)] /\ ~(info[Kick(c)].refs > 0)
      BY <1>0 DEF Kicked
    <2>2. /\ info'[Kick(c)].refs = B(info'[Kick(c)].in_queue # "none"
                                       \/ info'[Kick(c)].running_count > 0)
                                     + Cardinality(Rel(Kick(c))')
      BY <1>0, <1>3, <2>1 DEF CallbackOK, RefsOK
    <2>3. B(info'[Kick(c)].refs > 0 /\ notified'[c] = 0) = 0
      BY <2>1 DEF B
    <2>4. Cardinality(Rel(Cb(c))) \in Nat
      <3>1. Rel(Cb(c)) \in SUBSET Threads
        BY DEF Rel
      <3> QED BY <3>1, ThreadSet
    <2>5. \A b : B(b) \in Nat
      BY DEF B
    <2> QED BY <1>3, <2>2, <2>3, <2>4, <2>5 DEF RefsOK
  <1>8. KickoutOK(c)'
    <2>1. ~info'[Kick(c)].is_periodic /\ ~info'[Kick(c)].unregister_callback
      BY <1>0 DEF CallbackOK, KickoutOK
    <2>2. /\ \A t \in Threads : thread'[t].e # Kick(c)
          /\ info'[Kick(c)].in_queue = "none"
          /\ \A t \in Threads : ~(thread'[t].e = Cb(c) /\ thread'[t].pc = "kick")
      BY <1>6 DEF Kicked, Kicking
    <2> QED BY <1>6, <2>1, <2>2 DEF KickoutOK
  <1>9. CallbackOK(c)'
    BY <1>5, <1>7, <1>8 DEF CallbackOK
  <1> QED BY <1>2, <1>4, <1>9, OtherCallbacks

\* globus_callback_space_register_*.
LEMMA RegisterRefs ==
    ASSUME CallbackCore, NEW c \in Callbacks, NEW start \in Starts,
           NEW periodic \in BOOLEAN, NEW period \in {"zero", "own", "long"},
           Register(c, start, periodic, period)
    PROVE  QueuesAgree' /\ \A d \in Callbacks : CallbackOK(d)'
  <1> DEFINE e == Cb(c)
             n == (IF c \in NoHandle THEN 1 ELSE 2) - (IF start = "never" THEN 1 ELSE 0)
             i == [NoInfo EXCEPT !.in_queue = QueueOf(start), !.is_periodic = periodic,
                                 !.period = period, !.refs = n]
  <1>0. /\ info \in [Entries -> InfoRecs] /\ e \in Entries /\ CallbackOK(c)
        /\ phase \in [Callbacks -> {"new", "live", "inactive", "active",
                                    "released", "draining"}]
    BY EntriesOf DEF CallbackCore, ThreadCore, Types
  <1>1. /\ phase[c] = "new" /\ phase' = [phase EXCEPT ![c] = "live"]
        /\ info' = [info EXCEPT ![e] = i] /\ Signal(thread)
        /\ UNCHANGED <<due_queue, shutdown, notified>>
        /\ ready_queue' = IF start = "now" THEN Append(ready_queue, e) ELSE ready_queue
        /\ timed_queue' = IF start = "delay" THEN timed_queue \cup {e} ELSE timed_queue
    BY DEF Register
  <1>2. start \in {"now", "delay", "never"}
    BY CallbackAssumption
  <1>3. QueueOf(start) = IF start = "now" THEN "ready"
                         ELSE IF start = "delay" THEN "timed" ELSE "none"
    BY <1>2 DEF QueueOf
  <1>4. /\ i.in_queue = QueueOf(start) /\ i.running_count = 0
        /\ i.is_periodic = periodic /\ ~i.unregister_callback /\ i.refs = n
    <2> HIDE DEF n
    <2> QED BY NoInfoType DEF InfoRecs
  <1>5. n = (IF c \in NoHandle THEN 0 ELSE 1) + (IF start = "never" THEN 0 ELSE 1)
    OBVIOUS
  <1> HIDE DEF i, n, e
  <1>6. /\ info'[e] = i /\ \A f \in Entries : f # e => info'[f] = info[f]
        /\ phase'[c] = "live" /\ \A d \in Callbacks : d # c => phase'[d] = phase[d]
    BY <1>0, <1>1
  <1>7. info[e].in_queue = "none" /\ info[e].running_count = 0 /\ Rel(e) = {}
    BY <1>0, <1>1 DEF CallbackOK, KickoutOK, e
  <1>8. QueuesAgree'
    BY <1>0, <1>1, <1>2, <1>3, <1>4, <1>6, <1>7, QueuesAdd DEF CallbackCore
  <1>9. In(e) = {} /\ Cardinality(In(e)) = 0 /\ Cardinality(Rel(e)) = 0
    BY <1>0, <1>7, NotRunning, FS_EmptySet
  <1>10. ~Kicking(c) /\ ~Kicked(c)
    BY <1>1, NoKickout
  <1>11. Cardinality(Threads) \in Nat
    BY ThreadSet
  <1>12. In(e)' = In(e) => EntryOK(e)'
    BY <1>4, <1>6, <1>9, <1>11 DEF EntryOK
  <1>13. info'[e].refs =
               B(phase'[c] = "live" /\ c \notin NoHandle)
               + B(info'[e].in_queue # "none" \/ info'[e].running_count > 0)
               + Cardinality(Rel(e))
    BY <1>2, <1>3, <1>4, <1>5, <1>6, <1>9 DEF B
  <1> QED BY <1>1, <1>4, <1>6, <1>8, <1>10, <1>12, <1>13, CallRefs DEF e

\* globus_callback_unregister of a callback that runs.
LEMMA UnregisterActiveRefs ==
    ASSUME CallbackCore, NEW c \in Callbacks, NEW cb \in BOOLEAN,
           UnregisterActive(c, cb)
    PROVE  QueuesAgree' /\ \A d \in Callbacks : CallbackOK(d)'
  <1> DEFINE e == Cb(c)
             q == IF info[e].is_periodic THEN "none" ELSE info[e].in_queue
             n == info[e].refs - 1
             i == [info[e] EXCEPT !.unregister_callback = cb, !.in_queue = q,
                                  !.is_periodic = FALSE, !.refs = n]
  <1>0. /\ info \in [Entries -> InfoRecs] /\ e \in Entries /\ CallbackOK(c)
        /\ info[e] \in InfoRecs
        /\ phase \in [Callbacks -> {"new", "live", "inactive", "active",
                                    "released", "draining"}]
    BY EntriesOf DEF CallbackCore, ThreadCore, Types
  <1>1. /\ phase[c] = "live" /\ c \notin NoHandle /\ info[e].running_count > 0
        /\ phase' = [phase EXCEPT ![c] = IF cb THEN "active" ELSE "draining"]
        /\ info' = [info EXCEPT ![e] = i]
        /\ UNCHANGED <<thread, shutdown, notified, stolen>>
        /\ IF info[e].is_periodic THEN Dequeued(e) ELSE UNCHANGED space
    BY DEF UnregisterActive, HasHandle
  <1>2. /\ i.in_queue = q /\ i.running_count = info[e].running_count
        /\ ~i.is_periodic /\ i.unregister_callback = cb /\ i.refs = n
    <2> HIDE DEF q, n
    <2> QED BY <1>0 DEF InfoRecs
  <1>3. EntryOK(e) /\ RefsOK(c)
    BY <1>0 DEF CallbackOK
  <1>4. q = "none"
    BY <1>1, <1>3 DEF EntryOK
  <1>5. n = info[e].refs - 1
    OBVIOUS
  <1> HIDE DEF i, n, q, e
  <1>6. /\ info'[e] = i /\ \A f \in Entries : f # e => info'[f] = info[f]
        /\ phase'[c] = (IF cb THEN "active" ELSE "draining")
        /\ \A d \in Callbacks : d # c => phase'[d] = phase[d]
    BY <1>0, <1>1
  <1>7. QueuesAgree'
    <2>1. CASE info[e].is_periodic
      BY <1>0, <1>1, <1>2, <1>4, <1>6, <2>1, QueuesMove DEF CallbackCore
    <2>2. CASE ~info[e].is_periodic
      <3>1. info[e].in_queue = "none"
        BY <1>1, <1>3, <2>2 DEF EntryOK
      <3>2. UNCHANGED space /\ \A f \in Entries : info'[f].in_queue = info[f].in_queue
        BY <1>1, <1>2, <1>4, <1>6, <2>2, <3>1
      <3> QED BY <3>2, QueuesSame DEF CallbackCore
    <2> QED BY <2>1, <2>2
  <1>8. /\ ~Kicking(c) /\ ~Kicked(c) /\ info[Kick(c)].refs = 0
    BY <1>1, NoKickout
  <1>9. /\ In(e)' = In(e)
        /\ \A t \in In(e) : thread'[t].restarted = thread[t].restarted
        => EntryOK(e)'
    <2> SUFFICES ASSUME In(e)' = In(e),
                        \A t \in In(e) : thread'[t].restarted = thread[t].restarted
                 PROVE  EntryOK(e)'
      OBVIOUS
    <2>1. info'[e].in_queue = "none" /\ ~info'[e].is_periodic
      BY <1>2, <1>4, <1>6
    <2>2. info'[e].running_count = info[e].running_count /\ shutdown' = shutdown
      BY <1>1, <1>2, <1>6
    <2> QED BY <1>3, <2>1, <2>2 DEF EntryOK
  <1>10. info'[e].refs =
               B(phase'[c] = "live" /\ c \notin NoHandle)
               + B(info'[e].in_queue # "none" \/ info'[e].running_count > 0)
               + Cardinality(Rel(e))
    <2>1. Cardinality(Rel(e)) \in Nat
      <3>1. Rel(e) \in SUBSET Threads
        BY DEF Rel
      <3> QED BY <3>1, ThreadSet
    <2>2. /\ info'[e].running_count > 0 /\ info'[e].refs = info[e].refs - 1
          /\ phase'[c] # "live"
      BY <1>1, <1>2, <1>5, <1>6
    <2>3. info[e].refs = 1 + 1 + Cardinality(Rel(e)) + 0
      BY <1>1, <1>3, <1>8 DEF RefsOK, B, e
    <2> QED BY <2>1, <2>2, <2>3 DEF B
  <1>11. /\ phase'[c] \notin {"new", "inactive", "released"}
         /\ info'[e].unregister_callback => phase'[c] = "active"
    BY <1>2, <1>6
  <1> QED BY <1>1, <1>6, <1>7, <1>8, <1>9, <1>10, <1>11, CallRefs DEF e

\* globus_callback_adjust_period.
LEMMA AdjustPeriodRefs ==
    ASSUME CallbackCore, ~ResumeBlocked, NEW c \in Callbacks,
           NEW p \in {"zero", "own", "long"},
           Suspend(c) \/ Resume(c, p) \/ ResumeRunning(c, p)
    PROVE  QueuesAgree' /\ \A d \in Callbacks : CallbackOK(d)'
  <1> DEFINE e == Cb(c)
  <1>0. /\ info \in [Entries -> InfoRecs] /\ e \in Entries /\ CallbackOK(c)
        /\ info[e] \in InfoRecs
    BY EntriesOf DEF CallbackCore, ThreadCore, Types
  <1>1. /\ phase[c] = "live" /\ c \notin NoHandle
        /\ UNCHANGED <<shutdown, notified, phase>>
        /\ Signal(thread) \/ UNCHANGED <<thread, stolen>>
    BY DEF Suspend, Resume, ResumeRunning, Adjust, HasHandle
  <1>2. ~Kicking(c) /\ ~Kicked(c) /\ info[Kick(c)].refs = 0
    BY <1>1, NoKickout
  <1>3. EntryOK(e) /\ RefsOK(c) /\ ~info[e].unregister_callback
    BY <1>0, <1>1 DEF CallbackOK, KickoutOK
  <1>4. Cardinality(Rel(e)) \in Nat
    <2>1. Rel(e) \in SUBSET Threads
      BY DEF Rel
    <2> QED BY <2>1, ThreadSet
  <1>5. info[e].refs = 1 + B(info[e].in_queue # "none" \/ info[e].running_count > 0)
                         + Cardinality(Rel(e))
    <2>1. B(phase[c] = "live" /\ c \notin NoHandle) = 1
      BY <1>1 DEF B
    <2>2. B(info[Kick(c)].refs > 0 /\ notified[c] = 0) = 0
      BY <1>2 DEF B
    <2>3. B(info[e].in_queue # "none" \/ info[e].running_count > 0) \in Nat
      BY DEF B
    <2> QED BY <1>3, <1>4, <2>1, <2>2, <2>3 DEF RefsOK
  <1> HIDE DEF e
  <1>6. ASSUME QueuesAgree', NEW i, info' = [info EXCEPT ![e] = i],
               i.running_count = info[e].running_count,
               i.unregister_callback = info[e].unregister_callback,
               i.refs = 1 + B(i.in_queue # "none" \/ i.running_count > 0)
                          + Cardinality(Rel(e)),
               /\ In(e)' = In(e)
               /\ \A t \in In(e) : thread'[t].restarted = thread[t].restarted
               => EntryOK(e)'
        PROVE  QueuesAgree' /\ \A d \in Callbacks : CallbackOK(d)'
    <2>1. info'[e] = i /\ \A f \in Entries : f # e => info'[f] = info[f]
      BY <1>0, <1>6
    <2>2. B(phase'[c] = "live" /\ c \notin NoHandle) = 1
      BY <1>1 DEF B
    <2> QED BY <1>1, <1>2, <1>3, <1>6, <2>1, <2>2, CallRefs DEF e
  <1>7. CASE Suspend(c)
    <2> DEFINE n == info[e].refs - (IF info[e].in_queue # "none"
                                         /\ info[e].running_count = 0
                                    THEN 1 ELSE 0)
               i == [info[e] EXCEPT !.is_periodic = FALSE, !.in_queue = "none",
                                    !.refs = n]
    <2>1. info' = [info EXCEPT ![e] = i] /\ Dequeued(e)
      BY <1>7 DEF Suspend, e
    <2>2. /\ i.in_queue = "none" /\ i.running_count = info[e].running_count
          /\ ~i.is_periodic /\ i.unregister_callback = info[e].unregister_callback
          /\ i.refs = n
      <3> HIDE DEF n
      <3> QED BY <1>0 DEF InfoRecs
    <2>3. n = 1 + B(info[e].running_count > 0) + Cardinality(Rel(e))
      <3>1. info[e].running_count \in Int /\ info[e].running_count >= 0
        BY <1>3 DEF EntryOK
      <3> QED BY <1>4, <1>5, <3>1 DEF B
    <2> HIDE DEF i, n
    <2>4. info'[e] = i /\ \A f \in Entries : f # e => info'[f] = info[f]
      BY <1>0, <2>1
    <2>5. QueuesAgree'
      BY <1>0, <2>1, <2>2, <2>4, QueuesMove DEF CallbackCore
    <2>6. In(e)' = In(e)
          /\ (\A t \in In(e) : thread'[t].restarted = thread[t].restarted)
          => EntryOK(e)'
      BY <1>1, <1>3, <2>2, <2>4 DEF EntryOK
    <2>7. i.refs = 1 + B(i.in_queue # "none" \/ i.running_count > 0)
                          + Cardinality(Rel(e))
      BY <2>2, <2>3
    <2> QED BY <1>6, <2>1, <2>2, <2>5, <2>6, <2>7
  <1>8. CASE Resume(c, p)
    <2> DEFINE n == info[e].refs + (IF info[e].in_queue = "none" THEN 1 ELSE 0)
               i == [info[e] EXCEPT !.is_periodic = TRUE, !.period = p,
                                    !.in_queue = PeriodQueue(p), !.refs = n]
    <2>1. /\ info' = [info EXCEPT ![e] = i]
          /\ info[e].in_queue # "none" \/ info[e].running_count = 0
          /\ CASE p # "zero" -> EnqueueTimed(e)
               [] p = "zero" -> IF info[e].in_queue # "ready" THEN EnqueueReady(e)
                                                              ELSE UNCHANGED space
      BY <1>8 DEF Resume, e
    <2>2. /\ i.in_queue = PeriodQueue(p) /\ i.running_count = info[e].running_count
          /\ i.is_periodic /\ i.unregister_callback = info[e].unregister_callback
          /\ i.refs = n
      <3> HIDE DEF n
      <3> QED BY <1>0 DEF InfoRecs
    <2>3. n = 1 + 1 + Cardinality(Rel(e))
      BY <1>4, <1>5, <2>1 DEF B
    <2> HIDE DEF i, n
    <2>4. info'[e] = i /\ \A f \in Entries : f # e => info'[f] = info[f]
      BY <1>0, <2>1
    <2>5. QueuesAgree'
      <3>1. CASE p # "zero"
        <4>1. EnqueueTimed(e) /\ info'[e].in_queue = "timed"
          BY <2>1, <2>2, <2>4, <3>1 DEF PeriodQueue
        <4> QED BY <1>0, <2>4, <4>1, QueuesMove DEF CallbackCore
      <3>2. CASE p = "zero" /\ info[e].in_queue # "ready"
        <4>1. EnqueueReady(e) /\ info'[e].in_queue = "ready"
          BY <2>1, <2>2, <2>4, <3>2 DEF PeriodQueue
        <4> QED BY <1>0, <2>4, <4>1, QueuesMove DEF CallbackCore
      <3>3. CASE p = "zero" /\ info[e].in_queue = "ready"
        <4>1. UNCHANGED space /\ info'[e].in_queue = "ready"
          BY <2>1, <2>2, <2>4, <3>3 DEF PeriodQueue
        <4> QED BY <2>4, <3>3, <4>1, QueuesSame DEF CallbackCore
      <3> QED BY <3>1, <3>2, <3>3
    <2>6. In(e)' = In(e)
          /\ (\A t \in In(e) : thread'[t].restarted = thread[t].restarted)
          => EntryOK(e)'
      <3> SUFFICES ASSUME In(e)' = In(e),
                          \A t \in In(e) : thread'[t].restarted = thread[t].restarted
                   PROVE  EntryOK(e)'
        OBVIOUS
      <3>1. \A t \in In(e) : thread[t].restarted
        <4>1. info[e].running_count = 0 => In(e) = {}
          BY <1>0, NotRunning
        <4> QED BY <1>3, <2>1, <4>1 DEF EntryOK
      <3>2. /\ info'[e].running_count = info[e].running_count
            /\ info'[e].is_periodic /\ info'[e].in_queue # "none"
        BY <2>2, <2>4 DEF PeriodQueue
      <3> QED BY <1>1, <1>3, <3>1, <3>2 DEF EntryOK
    <2>7. i.refs = 1 + B(i.in_queue # "none" \/ i.running_count > 0)
                          + Cardinality(Rel(e))
      BY <2>2, <2>3 DEF PeriodQueue, B
    <2> QED BY <1>6, <2>1, <2>2, <2>5, <2>6, <2>7
  <1>9. CASE ResumeRunning(c, p)
    <2> DEFINE i == [info[e] EXCEPT !.is_periodic = TRUE, !.period = p]
    <2>1. /\ info' = [info EXCEPT ![e] = i] /\ UNCHANGED space
          /\ info[e].in_queue = "none" /\ info[e].running_count > 0
          /\ info[e].is_periodic \/ ~AllBlocked(e)
      BY <1>0, <1>9 DEF ResumeRunning, e
    <2>2. /\ i.in_queue = "none" /\ i.running_count = info[e].running_count
          /\ i.is_periodic /\ i.unregister_callback = info[e].unregister_callback
          /\ i.refs = info[e].refs
      BY <1>0, <2>1 DEF InfoRecs
    <2> HIDE DEF i
    <2>3. info'[e] = i /\ \A f \in Entries : f # e => info'[f] = info[f]
      BY <1>0, <2>1
    <2>4. QueuesAgree'
      BY <2>1, <2>2, <2>3, QueuesSame DEF CallbackCore
    <2>5. In(e)' = In(e)
          /\ (\A t \in In(e) : thread'[t].restarted = thread[t].restarted)
          => EntryOK(e)'
      <3> SUFFICES ASSUME In(e)' = In(e),
                          \A t \in In(e) : thread'[t].restarted = thread[t].restarted
                   PROVE  EntryOK(e)'
        OBVIOUS
      <3>1. \/ \E t \in In(e) : ~thread[t].restarted
            \/ info[e].running_count > Cardinality(In(e))
        <4>1. CASE info[e].is_periodic
          BY <1>3, <2>1, <4>1 DEF EntryOK
        <4>2. CASE ~AllBlocked(e)
          <5>1. PICK t \in Threads : /\ thread[t].e = e /\ ~thread[t].restarted
                                     /\ thread[t].pc \notin {"kick", "decref"}
            BY <4>2 DEF AllBlocked
          <5>2. thread[t] \in ThreadRecs /\ ShapeOf(thread[t]) /\ e # <<>>
            BY <1>0, EntryCases DEF CallbackCore, ThreadCore, Types, Shape
          <5>3. t \in In(e)
            BY <5>1, <5>2 DEF In, ThreadRecs, ShapeOf, Dropping
          <5> QED BY <5>1, <5>3
        <4> QED BY <2>1, <4>1, <4>2
      <3>2. /\ info'[e].running_count = info[e].running_count
            /\ info'[e].is_periodic /\ info'[e].in_queue = "none"
        BY <2>2, <2>3
      <3> QED BY <1>1, <1>3, <3>1, <3>2 DEF EntryOK
    <2>6. i.refs = 1 + B(i.in_queue # "none" \/ i.running_count > 0)
                          + Cardinality(Rel(e))
      BY <1>5, <2>1, <2>2
    <2> QED BY <1>6, <2>1, <2>2, <2>4, <2>5, <2>6
  <1> QED BY <1>7, <1>8, <1>9

\* globus_callback_adjust_oneshot: the callback goes from queue to queue.
LEMMA AdjustOneshotRefs ==
    ASSUME CallbackCore, NEW c \in Callbacks, NEW q \in {"timed", "ready"},
           AdjustOneshot(c, q)
    PROVE  QueuesAgree' /\ \A d \in Callbacks : CallbackOK(d)'
  <1> DEFINE e == Cb(c)
             i == [info[e] EXCEPT !.in_queue = q]
  <1>0. /\ info \in [Entries -> InfoRecs] /\ e \in Entries
        /\ info[e] \in InfoRecs /\ thread \in [Threads -> ThreadRecs] /\ stolen \in BOOLEAN
    BY EntriesOf DEF CallbackCore, ThreadCore, Types
  <1>1. /\ info' = [info EXCEPT ![e] = i] /\ Signal(thread)
        /\ UNCHANGED <<shutdown, notified, phase>> /\ info[e].in_queue # "none"
        /\ CASE q = "timed" -> EnqueueTimed(e)
             [] q = "ready" -> IF info[e].in_queue = "timed" THEN EnqueueReady(e)
                                                             ELSE UNCHANGED space
    BY <1>0 DEF AdjustOneshot, Adjust
  <1>2. /\ i.in_queue = q /\ i.running_count = info[e].running_count
        /\ i.is_periodic = info[e].is_periodic
        /\ i.unregister_callback = info[e].unregister_callback
        /\ i.refs = info[e].refs
    BY <1>0 DEF InfoRecs
  <1> HIDE DEF i, e
  <1>3. info'[e] = i /\ \A f \in Entries : f # e => info'[f] = info[f]
    BY <1>0, <1>1
  <1>4. \A f \in Entries : SameInfo(f)
    BY <1>1, <1>2, <1>3 DEF SameInfo
  <1>5. \A t \in Threads : WokenFrom(thread[t], thread'[t])
    BY <1>0, <1>1, SignalEffect
  <1>6. /\ \A f \in Entries : SameThreads(f)
        /\ \A d \in Callbacks : SameKick(Kick(d))
    <2>1. {} \in SUBSET Threads
      OBVIOUS
    <2> QED BY <1>5, <2>1, IdleSame
  <1>7. QueuesAgree'
    <2>1. CASE q = "timed"
      <3>1. EnqueueTimed(e) /\ info'[e].in_queue = "timed"
        BY <1>1, <1>2, <1>3, <2>1
      <3> QED BY <1>0, <1>3, <3>1, QueuesMove DEF CallbackCore
    <2>2. CASE q = "ready" /\ info[e].in_queue = "timed"
      <3>1. EnqueueReady(e) /\ info'[e].in_queue = "ready"
        BY <1>1, <1>2, <1>3, <2>2
      <3> QED BY <1>0, <1>3, <3>1, QueuesMove DEF CallbackCore
    <2>3. CASE q = "ready" /\ info[e].in_queue # "timed"
      <3>1. UNCHANGED space /\ info'[e].in_queue = "ready"
        BY <1>1, <1>2, <1>3, <2>3
      <3>2. info[e].in_queue = "ready"
        BY <1>0, <1>1, <2>3 DEF InfoRecs
      <3> QED BY <1>3, <3>1, <3>2, QueuesSame DEF CallbackCore
    <2> QED BY <2>1, <2>2, <2>3
  <1> QED BY <1>1, <1>4, <1>6, <1>7, AllCallbacks

\* The kickout of c is registered.
LEMMA KickoutStarts ==
    ASSUME CallbackCore, NEW c \in Callbacks, ~Kicked(c),
           info'[Kick(c)] = [NoInfo EXCEPT !.in_queue = "ready", !.refs = 1],
           SameThreads(Kick(c)), notified'[c] = notified[c],
           \A t \in Threads : ~(thread'[t].e = Cb(c) /\ thread'[t].pc = "kick"),
           phase'[c] \in {"active", "inactive"}, EntryOK(Cb(c))',
           info'[Cb(c)].in_queue = "none", info'[Cb(c)].running_count = 0,
           info'[Cb(c)].refs = 1 + Cardinality(Rel(Cb(c))')
    PROVE  CallbackOK(c)'
  <1> DEFINE k == [NoInfo EXCEPT !.in_queue = "ready", !.refs = 1]
  <1>1. /\ info'[Kick(c)] = k /\ k.in_queue = "ready" /\ k.running_count = 0
        /\ ~k.is_periodic /\ ~k.unregister_callback /\ k.refs = 1
    BY KickInfoType
  <1> HIDE DEF k
  <1>2. /\ \A t \in Threads : thread'[t].e # Kick(c)
        /\ notified'[c] = 0
    <2>1. notified[c] \in Nat
      BY DEF CallbackCore, ThreadCore, Types
    <2> QED BY <2>1 DEF SameThreads, Kicked
  <1>3. In(Kick(c))' = {} /\ Rel(Kick(c))' = {}
    BY <1>2 DEF In, Rel
  <1>4. /\ Cardinality(In(Kick(c))') = 0 /\ Cardinality(Rel(Kick(c))') = 0
        /\ Cardinality(Threads) \in Nat
    BY <1>3, FS_EmptySet, ThreadSet
  <1>5. EntryOK(Kick(c))'
    <2>1. info'[Kick(c)].running_count = 0 /\ info'[Kick(c)].in_queue = "ready"
      BY <1>1
    <2>2. 0 \in 0 .. Cardinality(Threads) /\ 0 >= 0
      BY <1>4
    <2> QED BY <1>3, <1>4, <2>1, <2>2 DEF EntryOK
  <1>6. RefsOK(c)'
    <2>1. Cardinality(Rel(Cb(c))') \in Nat
      <3>1. Rel(Cb(c))' \in SUBSET Threads
        BY DEF Rel
      <3> QED BY <3>1, ThreadSet
    <2>2. /\ B(phase'[c] = "live" /\ c \notin NoHandle) = 0
          /\ B(info'[Cb(c)].in_queue # "none" \/ info'[Cb(c)].running_count > 0) = 0
          /\ B(info'[Kick(c)].refs > 0 /\ notified'[c] = 0) = 1
          /\ B(info'[Kick(c)].in_queue # "none" \/ info'[Kick(c)].running_count > 0) = 1
      BY <1>1, <1>2 DEF B
    <2> QED BY <1>1, <1>4, <2>1, <2>2 DEF RefsOK
  <1>7. Kicked(c)' /\ ~Kicking(c)'
    BY <1>1 DEF Kicked, Kicking
  <1>8. KickoutOK(c)'
    BY <1>1, <1>2, <1>7 DEF KickoutOK
  <1> QED BY <1>5, <1>6, <1>8 DEF CallbackOK

\* globus_callback_unregister of a callback that does not run.
LEMMA UnregisterInactiveRefs ==
    ASSUME CallbackCore, NEW c \in Callbacks, NEW cb \in BOOLEAN,
           UnregisterInactive(c, cb)
    PROVE  QueuesAgree' /\ \A d \in Callbacks : CallbackOK(d)'
  <1> DEFINE e == Cb(c)
             n == info[e].refs - (IF info[e].in_queue # "none" THEN 1 ELSE 0)
                               - (IF cb THEN 0 ELSE 1)
             i == [info[e] EXCEPT !.unregister_callback = cb,
                                  !.in_queue = "none", !.refs = n]
             f == [info EXCEPT ![e] = i]
             k == [NoInfo EXCEPT !.in_queue = "ready", !.refs = 1]
             R == RemoveFirst(ready_queue, e)
             D == RemoveFirst(due_queue, e)
             T == timed_queue \ {e}
  <1>0. /\ info \in [Entries -> InfoRecs] /\ e \in Entries /\ CallbackOK(c)
        /\ info[e] \in InfoRecs /\ Kick(c) \in Entries /\ Kick(c) # e
        /\ thread \in [Threads -> ThreadRecs] /\ stolen \in BOOLEAN
        /\ phase \in [Callbacks -> {"new", "live", "inactive", "active",
                                    "released", "draining"}]
    BY EntriesOf DEF CallbackCore, ThreadCore, Types
  <1>1. /\ phase[c] = "live" /\ c \notin NoHandle /\ info[e].running_count = 0
        /\ phase' = [phase EXCEPT ![c] = IF cb THEN "inactive" ELSE "released"]
        /\ UNCHANGED <<shutdown, notified>>
        /\ due_queue' = D /\ timed_queue' = T
        /\ cb => /\ info' = [f EXCEPT ![Kick(c)] = k] /\ Signal(thread)
                 /\ ready_queue' = Append(R, Kick(c))
        /\ ~cb => /\ info' = f /\ ready_queue' = R /\ UNCHANGED <<thread, stolen>>
    BY DEF UnregisterInactive, HasHandle, KickoutInfo
  <1>2. /\ i.in_queue = "none" /\ i.running_count = info[e].running_count
        /\ i.is_periodic = info[e].is_periodic /\ i.unregister_callback = cb
        /\ i.refs = n
    <2> HIDE DEF n
    <2> QED BY <1>0 DEF InfoRecs
  <1>3. /\ ~Kicking(c) /\ ~Kicked(c) /\ info[Kick(c)].refs = 0
        /\ info[Kick(c)].in_queue = "none"
    BY <1>1, NoKickout
  <1>4. Cardinality(Rel(e)) \in Nat
    <2>1. Rel(e) \in SUBSET Threads
      BY DEF Rel
    <2> QED BY <2>1, ThreadSet
  <1>5. n = (IF cb THEN 1 ELSE 0) + Cardinality(Rel(e))
    <2>1. B(phase[c] = "live" /\ c \notin NoHandle) = 1
      BY <1>1 DEF B
    <2>2. B(info[Kick(c)].refs > 0 /\ notified[c] = 0) = 0
      BY <1>3 DEF B
    <2>3. B(info[e].in_queue # "none" \/ info[e].running_count > 0)
            = IF info[e].in_queue # "none" THEN 1 ELSE 0
      BY <1>1 DEF B
    <2>4. info[e].refs = 1 + (IF info[e].in_queue # "none" THEN 1 ELSE 0)
                           + Cardinality(Rel(e)) + 0
      BY <1>0, <2>1, <2>2, <2>3 DEF CallbackOK, RefsOK
    <2> QED BY <1>4, <2>4
  <1>6. In(e) = {} /\ Cardinality(In(e)) = 0 /\ Cardinality(Threads) \in Nat
    BY <1>0, <1>1, NotRunning, FS_EmptySet, ThreadSet
  <1> HIDE DEF i, n, e
  <1>7. /\ f[e] = i /\ \A g \in Entries : g # e => f[g] = info[g]
        /\ f[Kick(c)].in_queue = "none" /\ DOMAIN f = Entries
    BY <1>0, <1>3
  <1>8. /\ phase'[c] = (IF cb THEN "inactive" ELSE "released")
        /\ \A d \in Callbacks : d # c => phase'[d] = phase[d]
    BY <1>0, <1>1
  <1>9. /\ R \in Seq(Entries) /\ D \in Seq(Entries)
        /\ IsInjective(R) /\ IsInjective(D) /\ T \cap ToSet(D) = {}
        /\ ToSet(R) = {g \in Entries : g # e /\ info[g].in_queue = "ready"}
        /\ T \cup ToSet(D) = {g \in Entries : g # e /\ info[g].in_queue = "timed"}
    BY <1>0, QueuesWithout DEF CallbackCore
  <1> HIDE DEF f, k, R, D, T
  <1>10. CASE ~cb
    <2>1. info' = f
      BY <1>1, <1>10
    <2>2. QueuesAgree'
      BY <1>1, <1>2, <1>7, <1>9, <1>10, <2>1 DEF QueuesAgree
    <2>3. In(e)' = In(e) => EntryOK(e)'
      BY <1>1, <1>2, <1>6, <1>7, <2>1 DEF EntryOK
    <2>4. info'[e].refs =
               B(phase'[c] = "live" /\ c \notin NoHandle)
               + B(info'[e].in_queue # "none" \/ info'[e].running_count > 0)
               + Cardinality(Rel(e))
      BY <1>1, <1>2, <1>4, <1>5, <1>7, <1>8, <1>10, <2>1 DEF B
    <2>5. /\ info'[e].in_queue = "none" /\ info'[e].running_count = 0
          /\ ~info'[e].unregister_callback
      BY <1>1, <1>2, <1>7, <1>10, <2>1
    <2> QED BY <1>1, <1>3, <1>7, <1>8, <1>10, <2>1, <2>2, <2>3, <2>4, <2>5, CallRefs DEF e
  <1>11. CASE cb
    <2>1. /\ info' = [f EXCEPT ![Kick(c)] = k] /\ Signal(thread)
          /\ ready_queue' = Append(R, Kick(c))
      BY <1>1, <1>11
    <2>2. /\ info'[e] = i /\ info'[Kick(c)] = k
          /\ \A g \in Entries : g # e /\ g # Kick(c) => info'[g] = info[g]
      BY <1>0, <1>7, <2>1
    <2>3. k.in_queue = "ready"
      BY KickInfoType DEF k
    <2>4. QueuesAgree'
      <3>1. Kick(c) \in Entries \ ToSet(R)
        BY <1>0, <1>3, <1>9
      <3>2. IsInjective(ready_queue') /\ ToSet(ready_queue') = ToSet(R) \cup {Kick(c)}
        BY <1>9, <2>1, <3>1, QueueAppend
      <3>3. ToSet(ready_queue') = {g \in Entries : info'[g].in_queue = "ready"}
        BY <1>0, <1>2, <1>9, <2>2, <2>3, <3>2
      <3>4. T \cup ToSet(D) = {g \in Entries : info'[g].in_queue = "timed"}
        BY <1>0, <1>2, <1>3, <1>9, <2>2, <2>3
      <3> QED BY <1>1, <1>9, <3>2, <3>3, <3>4 DEF QueuesAgree
    <2>5. \A t \in Threads : WokenFrom(thread[t], thread'[t])
      BY <1>0, <2>1, SignalEffect
    <2>6. \A g \in Entries : SameThreads(g) /\ SameKick(g)
      <3>1. \A t \in Threads \cap {} : FALSE
        OBVIOUS
      <3> QED BY <2>5, <3>1, WokenThreads DEF CallbackCore
    <2>7. In(e)' = In(e) /\ Rel(e)' = Rel(e)
      BY <1>0, <2>6, SameSets
    <2>8. EntryOK(e)'
      BY <1>1, <1>2, <1>6, <2>2, <2>7 DEF EntryOK
    <2>9. \A t \in Threads : ~(thread'[t].e = e /\ thread'[t].pc = "kick")
      <3>1. SameThreads(e) /\ ~Kicking(c)
        BY <1>0, <1>3, <2>6
      <3> QED BY <3>1 DEF SameThreads, Kicking, InCall, e
    <2>10. /\ info'[e].in_queue = "none" /\ info'[e].running_count = 0
           /\ info'[e].refs = 1 + Cardinality(Rel(e)')
      BY <1>1, <1>2, <1>5, <1>11, <2>2, <2>7
    <2>11. CallbackOK(c)'
      BY <1>0, <1>1, <1>3, <1>8, <1>11, <2>2, <2>6, <2>8, <2>9, <2>10, KickoutStarts
         DEF e, k
    <2>12. \A g \in Entries : g # Cb(c) /\ g # Kick(c) => SameInfo(g)
      BY <2>2 DEF SameInfo, e
    <2> QED BY <1>1, <1>8, <2>4, <2>6, <2>11, <2>12, OtherCallbacks
  <1> QED BY <1>10, <1>11

-----------------------------------------------------------------------------
(* The threads' steps                                                       *)

\* A thread in an entry counts.
LEMMA InsideCounts ==
    ASSUME CallbackCore, NEW e \in Entries, NEW t \in In(e)
    PROVE  /\ info[e].running_count >= Cardinality(In(e)) /\ Cardinality(In(e)) >= 1
           /\ info[e].running_count > 0 /\ info[e].running_count \in Int
           /\ Cardinality(In(e)) \in Nat
           /\ Cardinality(In(e) \ {t}) = Cardinality(In(e)) - 1
           /\ In(e) \in SUBSET Threads /\ EntryOK(e)
  <1>1. EntryOK(e)
    BY EntryCases DEF CallbackCore, CallbackOK
  <1>2. In(e) \in SUBSET Threads
    BY DEF In
  <1>3. /\ Cardinality(In(e)) \in Nat /\ Cardinality(In(e)) >= 1
        /\ Cardinality(In(e) \ {t}) = Cardinality(In(e)) - 1
    BY <1>2, OneLess, ThreadSet
  <1>4. /\ info[e].running_count >= Cardinality(In(e))
        /\ info[e].running_count \in Int
    BY <1>1 DEF EntryOK
  <1> QED BY <1>1, <1>2, <1>3, <1>4

\* A thread takes e from a queue.
LEMMA EnterEntry ==
    ASSUME CallbackCore, NEW e \in Entries, NEW t \in Threads \ In(e),
           In(e)' = In(e) \cup {t}, ~shutdown, UNCHANGED shutdown,
           info[e].in_queue # "none", ~thread'[t].restarted,
           \A u \in In(e) : thread'[u].restarted = thread[u].restarted,
           info'[e].in_queue = "none",
           info'[e].running_count = info[e].running_count + 1,
           info'[e].is_periodic = info[e].is_periodic
    PROVE  EntryOK(e)'
  <1>1. EntryOK(e)
    BY EntryCases DEF CallbackCore, CallbackOK
  <1>2. In(e) \in SUBSET Threads /\ In(e)' \in SUBSET Threads
    BY DEF In
  <1>3. /\ Cardinality(In(e)') = Cardinality(In(e)) + 1
        /\ Cardinality(In(e)) \in Nat /\ Cardinality(Threads) \in Nat
        /\ Cardinality(In(e)') <= Cardinality(Threads)
    <2>1. Cardinality(In(e) \cup {t}) = Cardinality(In(e)) + 1
      BY <1>2, OneMore
    <2> QED BY <1>2, <2>1, ThreadSet
  <1>4. info[e].running_count = Cardinality(In(e)) /\ \A u \in In(e) : thread[u].restarted
    BY <1>1 DEF EntryOK
  <1>5. /\ info'[e].running_count \in 0 .. Cardinality(Threads)
        /\ info'[e].running_count = Cardinality(In(e)')
        /\ info'[e].running_count >= Cardinality(In(e)')
    BY <1>3, <1>4
  <1>6. \A u, v \in In(e)' : ~thread'[u].restarted /\ ~thread'[v].restarted => u = v
    BY <1>4
  <1>7. t \in In(e)'
    OBVIOUS
  <1> QED BY <1>5, <1>6, <1>7 DEF EntryOK

\* A thread leaves e: it queues a periodic again unless it was blocked in it.
LEMMA LeaveEntry ==
    ASSUME CallbackCore, NEW e \in Entries, NEW t \in In(e),
           In(e)' = In(e) \ {t}, UNCHANGED shutdown,
           \A u \in In(e) \ {t} : thread'[u].restarted = thread[u].restarted,
           info'[e].running_count = info[e].running_count - 1,
           info'[e].is_periodic = info[e].is_periodic,
           \/ /\ info'[e].in_queue = info[e].in_queue
              /\ thread[t].restarted \/ ~info[e].is_periodic
           \/ info'[e].in_queue # "none" /\ info[e].is_periodic /\ ~thread[t].restarted
    PROVE  EntryOK(e)'
  <1>1. /\ info[e].running_count >= Cardinality(In(e)) /\ Cardinality(In(e)) >= 1
        /\ info[e].running_count \in Int /\ Cardinality(In(e)) \in Nat
        /\ Cardinality(In(e)') = Cardinality(In(e)) - 1 /\ EntryOK(e)
    BY InsideCounts
  <1>2. Cardinality(Threads) \in Nat
    BY ThreadSet
  <1>3. /\ info'[e].running_count \in 0 .. Cardinality(Threads)
        /\ info'[e].running_count >= Cardinality(In(e)')
        /\ ~shutdown' => info'[e].running_count = Cardinality(In(e)')
    BY <1>1, <1>2 DEF EntryOK
  <1>4. \A u, v \in In(e)' : ~thread'[u].restarted /\ ~thread'[v].restarted => u = v
    BY <1>1 DEF EntryOK
  <1>5. info'[e].in_queue # "none" => \A u \in In(e)' : thread'[u].restarted
    BY <1>1 DEF EntryOK
  <1>6. info'[e].is_periodic /\ info'[e].running_count > 0 /\ info'[e].in_queue = "none" =>
           \/ \E u \in In(e)' : ~thread'[u].restarted
           \/ info'[e].running_count > Cardinality(In(e)')
    <2> SUFFICES ASSUME info'[e].is_periodic, info'[e].in_queue = "none",
                        ~(info'[e].running_count > Cardinality(In(e)'))
                 PROVE  \E u \in In(e)' : ~thread'[u].restarted
      OBVIOUS
    <2>1. thread[t].restarted /\ info[e].in_queue = "none" /\ info[e].is_periodic
      OBVIOUS
    <2>2. ~(info[e].running_count > Cardinality(In(e))) /\ info[e].running_count > 0
      BY <1>1
    <2>3. PICK u \in In(e) : ~thread[u].restarted
      BY <1>1, <2>1, <2>2 DEF EntryOK
    <2> QED BY <2>1, <2>3
  <1>7. ~info'[e].is_periodic /\ info'[e].running_count > 0 => info'[e].in_queue = "none"
    BY <1>1 DEF EntryOK
  <1> QED BY <1>3, <1>4, <1>5, <1>6, <1>7 DEF EntryOK

\* A step on the callback c that is queued or runs, and has no kickout.
LEMMA CbStep ==
    ASSUME CallbackCore, NEW c \in Callbacks,
           info[Cb(c)].in_queue # "none" \/ info[Cb(c)].running_count > 0,
           SameInfo(Kick(c)), SameThreads(Kick(c)), SameKick(Kick(c)),
           phase'[c] = phase[c], notified'[c] = notified[c], shutdown => shutdown',
           EntryOK(Cb(c))',
           info'[Cb(c)].unregister_callback = info[Cb(c)].unregister_callback,
           info'[Cb(c)].refs = info[Cb(c)].refs,
           B(info'[Cb(c)].in_queue # "none" \/ info'[Cb(c)].running_count > 0)
             + Cardinality(Rel(Cb(c))') = 1 + Cardinality(Rel(Cb(c))),
           \A t, u \in Threads : /\ thread'[t].e = Cb(c) /\ thread'[t].pc = "kick"
                                 /\ thread'[u].e = Cb(c) /\ thread'[u].pc = "kick"
                                 => t = u,
           \A t \in Threads : thread'[t].e = Cb(c) /\ thread'[t].pc = "kick" =>
                /\ info[Cb(c)].unregister_callback
                /\ info'[Cb(c)].in_queue = "none" /\ info'[Cb(c)].running_count = 0
    PROVE  CallbackOK(c)'
  <1>1. /\ ~Kicking(c) /\ ~Kicked(c) /\ info[Kick(c)].refs = 0
        /\ info[Kick(c)].in_queue = "none"
        /\ \A t \in Threads : thread[t].e # Kick(c)
    BY NoKickout
  <1>2. CallbackOK(c)
    BY DEF CallbackCore
  <1>3. phase[c] \notin {"new", "inactive", "released"}
    <2>1. info[Cb(c)].running_count \in Int
      BY <1>2 DEF CallbackOK, EntryOK
    <2> QED BY <1>2, <2>1 DEF CallbackOK, KickoutOK
  <1>4. EntryOK(Kick(c))'
    BY <1>2, SameEntry DEF CallbackOK
  <1>5. ~Kicked(c)'
    BY <1>1 DEF Kicked, SameInfo, SameThreads
  <1>6. RefsOK(c)'
    <2>1. Cardinality(Rel(Cb(c))) \in Nat /\ Cardinality(Rel(Cb(c))') \in Nat
      <3>1. Rel(Cb(c)) \in SUBSET Threads /\ Rel(Cb(c))' \in SUBSET Threads
        BY DEF Rel
      <3> QED BY <3>1, ThreadSet
    <2>2. B(info[Cb(c)].in_queue # "none" \/ info[Cb(c)].running_count > 0) = 1
      BY DEF B
    <2>3. /\ B(info[Kick(c)].refs > 0 /\ notified[c] = 0) = 0
          /\ B(info'[Kick(c)].refs > 0 /\ notified'[c] = 0) = 0
      BY <1>1 DEF B, SameInfo
    <2>4. \A b : B(b) \in Nat
      BY DEF B
    <2>5. info[Cb(c)].refs = B(phase[c] = "live" /\ c \notin NoHandle)
                               + 1 + Cardinality(Rel(Cb(c)))
      BY <1>2, <2>1, <2>2, <2>3, <2>4 DEF CallbackOK, RefsOK
    <2>6. info'[Cb(c)].refs = B(phase'[c] = "live" /\ c \notin NoHandle)
             + B(info'[Cb(c)].in_queue # "none" \/ info'[Cb(c)].running_count > 0)
             + Cardinality(Rel(Cb(c))')
             + B(info'[Kick(c)].refs > 0 /\ notified'[c] = 0)
      BY <2>1, <2>3, <2>4, <2>5
    <2>7. info'[Kick(c)].refs =
            B(info'[Kick(c)].in_queue # "none" \/ info'[Kick(c)].running_count > 0)
               + Cardinality(Rel(Kick(c))')
      <3>1. Rel(Kick(c))' = Rel(Kick(c))
        BY SameSets
      <3> QED BY <1>2, <3>1 DEF CallbackOK, RefsOK, SameInfo
    <2> QED BY <2>6, <2>7 DEF RefsOK
  <1>7. KickoutOK(c)'
    <2>1. /\ ~info'[Kick(c)].is_periodic /\ ~info'[Kick(c)].unregister_callback
          /\ info'[Cb(c)].unregister_callback => phase'[c] \in {"active", "inactive"}
          /\ info'[Kick(c)].in_queue = "none"
          /\ \A t \in Threads : thread'[t].e # Kick(c)
      BY <1>1, <1>2 DEF CallbackOK, KickoutOK, SameInfo, SameThreads
    <2>2. Kicking(c)' => /\ phase'[c] \in {"active", "inactive"}
                         /\ info'[Cb(c)].in_queue = "none"
                         /\ info'[Cb(c)].running_count = 0
      BY <2>1 DEF Kicking
    <2> QED BY <1>3, <1>5, <2>1, <2>2 DEF KickoutOK
  <1> QED BY <1>4, <1>6, <1>7, <1>2 DEF CallbackOK

\* A step on the kickout of c.
LEMMA KickStep ==
    ASSUME CallbackCore, ThreadCore', NEW c \in Callbacks, Kicked(c), Kicked(c)',
           SameThreads(Cb(c)), phase'[c] = phase[c], shutdown => shutdown',
           info'[Cb(c)].running_count = info[Cb(c)].running_count,
           info'[Cb(c)].is_periodic = info[Cb(c)].is_periodic,
           info'[Cb(c)].unregister_callback = info[Cb(c)].unregister_callback,
           info'[Cb(c)].in_queue = "none" <=> info[Cb(c)].in_queue = "none",
           info'[Cb(c)].refs - B(info'[Kick(c)].refs > 0 /\ notified'[c] = 0)
             = info[Cb(c)].refs - B(info[Kick(c)].refs > 0 /\ notified[c] = 0),
           ~info'[Kick(c)].is_periodic, ~info'[Kick(c)].unregister_callback,
           EntryOK(Kick(c))',
           info'[Kick(c)].refs =
             B(info'[Kick(c)].in_queue # "none" \/ info'[Kick(c)].running_count > 0)
               + Cardinality(Rel(Kick(c))'),
           info'[Kick(c)].in_queue = "none",
           \A t, u \in Threads : thread'[t].e = Kick(c) /\ thread'[u].e = Kick(c) => t = u,
           \A t \in Threads : thread'[t].e = Kick(c) =>
             /\ ~thread'[t].own
             /\ \/ thread'[t].pc \in {"run", "respawn"} /\ notified'[c] = 0
                \/ thread'[t].pc \in {"finish", "decref"} /\ notified'[c] = 1
    PROVE  CallbackOK(c)'
  <1>1. CallbackOK(c) /\ Cb(c) \in Entries
    BY EntriesOf DEF CallbackCore
  <1>2. EntryOK(Cb(c))'
    <2>1. /\ In(Cb(c))' = In(Cb(c))
          /\ \A t \in In(Cb(c)) : thread'[t].restarted = thread[t].restarted
      BY SameSets
    <2>2. EntryOK(Cb(c))
      BY <1>1 DEF CallbackOK
    <2> QED BY <2>1, <2>2 DEF EntryOK
  <1>3. Rel(Cb(c))' = Rel(Cb(c))
    BY SameSets
  <1>4. RefsOK(c)'
    <2>1. Cardinality(Rel(Cb(c))) \in Nat
      <3>1. Rel(Cb(c)) \in SUBSET Threads
        BY DEF Rel
      <3> QED BY <3>1, ThreadSet
    <2>2. \A b : B(b) \in Nat
      BY DEF B
    <2>3. B(info'[Cb(c)].in_queue # "none" \/ info'[Cb(c)].running_count > 0)
            = B(info[Cb(c)].in_queue # "none" \/ info[Cb(c)].running_count > 0)
      BY DEF B
    <2>4. info[Cb(c)].refs \in Int /\ info'[Cb(c)].refs \in Int
      <3>1. info[Cb(c)] \in InfoRecs /\ info'[Cb(c)] \in InfoRecs
        BY <1>1 DEF CallbackCore, ThreadCore, Types
      <3> QED BY <3>1 DEF InfoRecs
    <2> QED BY <1>1, <1>3, <2>1, <2>2, <2>3, <2>4 DEF CallbackOK, RefsOK
  <1>5. KickoutOK(c)'
    <2>1. ~Kicking(c)'
      BY <1>1 DEF CallbackOK, KickoutOK, Kicking, SameThreads, InCall
    <2>2. \A t, u \in Threads : /\ thread'[t].e = Cb(c) /\ thread'[t].pc = "kick"
                                /\ thread'[u].e = Cb(c) /\ thread'[u].pc = "kick"
                                => t = u
      BY <2>1 DEF Kicking
    <2>3. /\ phase'[c] \in {"active", "inactive"}
          /\ info'[Cb(c)].in_queue = "none" /\ info'[Cb(c)].running_count = 0
      BY <1>1 DEF CallbackOK, KickoutOK
    <2> QED BY <2>1, <2>2, <2>3 DEF KickoutOK
  <1> QED BY <1>2, <1>4, <1>5 DEF CallbackOK

\* A thread that is in e, or comes to it, or leaves it: the other entries stay.
LEMMA OneEntry ==
    ASSUME CallbackCore, NEW t \in Threads, NEW e \in Entries,
           thread[t].e \in {e, <<>>}, thread'[t].e \in {e, <<>>},
           \A u \in Threads \ {t} : WokenFrom(thread[u], thread'[u])
    PROVE  /\ \A f \in Entries : f # e => SameThreads(f) /\ SameKick(f)
           /\ In(e)' \ {t} = In(e) \ {t} /\ Rel(e)' \ {t} = Rel(e) \ {t}
           /\ \A u \in In(e) \ {t} : thread'[u].restarted = thread[u].restarted
           /\ \A u \in Threads \ {t} : thread'[u].e = e <=> thread[u].e = e
           /\ \A u \in Threads \ {t} : thread'[u].e = e =>
                thread'[u].own = thread[u].own /\
                (thread'[u].pc # thread[u].pc =>
                   thread[u].pc = "ownwait" /\ thread'[u].pc = "ownwoken")
  <1>1. ASSUME NEW f \in Entries, f # e PROVE SameThreads(f) /\ SameKick(f)
    <2>1. \A u \in Threads \cap {t} : thread[u].e # f /\ thread'[u].e # f
      BY <1>1, EntryCases
    <2> QED BY <2>1, WokenThreads DEF CallbackCore
  <1>2. \A u \in Threads : thread[u].e = e => thread[u].pc \notin IdlePcs
    BY EntryCases DEF CallbackCore, ThreadCore, Shape, ShapeOf
  <1>3. \A u \in Threads \ {t} :
           /\ thread'[u].e = thread[u].e /\ thread'[u].restarted = thread[u].restarted
           /\ thread'[u].own = thread[u].own
           /\ thread[u].e = e => \/ thread'[u].pc = thread[u].pc
                                 \/ thread[u].pc = "ownwait" /\ thread'[u].pc = "ownwoken"
    BY <1>2 DEF WokenFrom, IdlePcs
  <1>4. In(e)' \ {t} = In(e) \ {t} /\ Rel(e)' \ {t} = Rel(e) \ {t}
    BY <1>3 DEF In, Rel, InCall
  <1>5. \A u \in In(e) \ {t} : u \in Threads \ {t}
    BY DEF In
  <1> QED BY <1>1, <1>3, <1>4, <1>5

\* One turn of the polling loop.
LEMMA PollRefs ==
    ASSUME CallbackCore, ThreadCore', NEW t \in Threads, Poll(t)
    PROVE  QueuesAgree' /\ \A c \in Callbacks : CallbackOK(c)'
  <1> DEFINE q == ready_queue \o due_queue
  <1>0. /\ thread[t] \in ThreadRecs /\ ShapeOf(thread[t])
        /\ thread[t].pc \in {"poll", "woken"}
        /\ thread[t].e = <<>> /\ ~thread[t].own /\ ~thread[t].restarted
        /\ thread \in [Threads -> ThreadRecs] /\ info \in [Entries -> InfoRecs]
        /\ shutdown \in BOOLEAN /\ UNCHANGED <<shutdown, phase, notified>>
    BY DEF CallbackCore, ThreadCore, Types, Shape, Poll, ShapeOf, IdlePcs
  <1>1. CASE shutdown \/ q = <<>>
    <2>1. /\ \E pc : thread' = [thread EXCEPT ![t].pc = pc]
          /\ UNCHANGED <<info, space>>
      BY <1>1 DEF Poll
    <2>2. /\ thread'[t].e = <<>> /\ \A u \in Threads \ {t} : thread'[u] = thread[u]
      BY <1>0, <2>1 DEF ThreadRecs
    <2>3. /\ {t} \in SUBSET Threads
          /\ \A u \in {t} : thread[u].e = <<>> /\ thread'[u].e = <<>>
          /\ \A u \in Threads \ {t} : WokenFrom(thread[u], thread'[u])
      BY <1>0, <2>2 DEF WokenFrom
    <2>4. /\ \A e \in Entries : SameThreads(e)
          /\ \A c \in Callbacks : SameKick(Kick(c))
      BY <2>3, IdleSame
    <2>5. \A e \in Entries : SameInfo(e)
      BY <2>1 DEF SameInfo
    <2>6. QueuesAgree'
      BY <2>1, QueuesSame DEF CallbackCore
    <2> QED BY <1>0, <2>4, <2>5, <2>6, AllCallbacks
  <1>2. CASE ~shutdown /\ q # <<>>
    <2> DEFINE J == DueReady(info)
    <2>1. /\ q \in Seq(Entries) /\ IsInjective(q)
          /\ \A f \in Entries :
               /\ f \in ToSet(q) <=> J[f].in_queue = "ready"
               /\ f \in timed_queue <=> J[f].in_queue = "timed"
               /\ J[f].in_queue = "none" <=> info[f].in_queue = "none"
          /\ ToSet(q) \subseteq Entries
      BY <1>0, QueuesDue DEF CallbackCore
    <2>2. PICK e \in Entries : e = Head(q) /\ e \in ToSet(q)
      BY <1>2, <2>1, QueueTail
    <2> DEFINE pc == IF info[e].is_periodic /\ info[e].period \in Small
                     THEN "spawn" ELSE "run"
               n == J[e].running_count + 1
    <2>3. /\ thread' = [thread EXCEPT ![t] = [thread[t] EXCEPT !.e = e, !.pc = pc]]
          /\ info' = [J EXCEPT ![e] = [J[e] EXCEPT !.in_queue = "none",
                                                   !.running_count = n]]
          /\ ready_queue' = Tail(q) /\ due_queue' = <<>> /\ UNCHANGED timed_queue
      <3>1. J \in [Entries -> InfoRecs]
        BY <1>0, DueReadyType
      <3>2. /\ thread' = [thread EXCEPT ![t].e = e, ![t].pc = pc]
            /\ info' = [J EXCEPT ![e].in_queue = "none",
                                 ![e].running_count = @ + 1]
            /\ ready_queue' = Tail(q) /\ due_queue' = <<>> /\ UNCHANGED timed_queue
        BY <1>2, <2>2 DEF Poll
      <3> HIDE DEF J, pc
      <3> QED BY <1>0, <3>1, <3>2
    <2>4. /\ J \in [Entries -> InfoRecs]
          /\ \A f \in Entries :
               /\ J[f].running_count = info[f].running_count
               /\ J[f].is_periodic = info[f].is_periodic
               /\ J[f].unregister_callback = info[f].unregister_callback
               /\ J[f].refs = info[f].refs
      BY <1>0, DueReadyType
    <2>5. /\ pc \in {"run", "spawn"} /\ (pc = "spawn" => info[e].is_periodic)
          /\ n = J[e].running_count + 1
      OBVIOUS
    <2> HIDE DEF J, pc, n, q
    <2>6. /\ thread'[t].e = e /\ thread'[t].pc = pc /\ ~thread'[t].own
          /\ ~thread'[t].restarted
          /\ \A u \in Threads \ {t} : thread'[u] = thread[u]
      BY <1>0, <2>3 DEF ThreadRecs
    <2>7. /\ info'[e].in_queue = "none" /\ info'[e].running_count = n
          /\ info'[e].is_periodic = J[e].is_periodic
          /\ info'[e].unregister_callback = J[e].unregister_callback
          /\ info'[e].refs = J[e].refs
          /\ \A f \in Entries : f # e => info'[f] = J[f]
      BY <2>3, <2>4 DEF InfoRecs
    <2>8. \A f \in Entries : f # e => SameInfo(f)
      BY <2>1, <2>4, <2>7 DEF SameInfo
    <2>9. info[e].in_queue # "none"
      BY <2>1, <2>2
    <2>10. QueuesAgree'
      <3>1. IsInjective(Tail(q)) /\ ToSet(Tail(q)) = ToSet(q) \ {e}
        BY <1>2, <2>1, <2>2, QueueTail DEF q
      <3>2. IsInjective(<<>>) /\ ToSet(<<>>) = {}
        BY DEF IsInjective, ToSet
      <3>3. ToSet(q) \ {e} = {f \in Entries : info'[f].in_queue = "ready"}
        BY <2>1, <2>7
      <3>4. timed_queue = {f \in Entries : info'[f].in_queue = "timed"}
        <4>1. timed_queue \subseteq Entries /\ e \notin timed_queue
          BY <2>1, <2>2 DEF CallbackCore, ThreadCore, Types
        <4> QED BY <2>1, <2>7, <4>1
      <3> QED BY <2>3, <3>1, <3>2, <3>3, <3>4 DEF QueuesAgree
    <2>11. \A u \in Threads \ {t} : WokenFrom(thread[u], thread'[u])
      BY <2>6 DEF WokenFrom
    <2>12. /\ \A f \in Entries : f # e => SameThreads(f) /\ SameKick(f)
           /\ In(e)' \ {t} = In(e) \ {t} /\ Rel(e)' \ {t} = Rel(e) \ {t}
           /\ \A u \in In(e) \ {t} : thread'[u].restarted = thread[u].restarted
      BY <1>0, <2>6, <2>11, OneEntry
    <2>13. /\ t \notin In(e) /\ t \in In(e)' /\ t \notin Rel(e) /\ t \notin Rel(e)'
      BY <1>0, <2>2, <2>5, <2>6, EntryCases DEF In, Rel, InCall
    <2>14. In(e)' = In(e) \cup {t} /\ Rel(e)' = Rel(e)
      BY <2>12, <2>13
    <2>15. /\ info'[e].running_count = info[e].running_count + 1
           /\ info'[e].is_periodic = info[e].is_periodic
           /\ info'[e].unregister_callback = info[e].unregister_callback
           /\ info'[e].refs = info[e].refs
      BY <2>4, <2>5, <2>7
    <2>16. EntryOK(e)'
      BY <1>0, <1>2, <2>7, <2>9, <2>12, <2>13, <2>14, <2>15, <2>6, EnterEntry
    <2>17. /\ info'[e].running_count > 0
           /\ B(info'[e].in_queue # "none" \/ info'[e].running_count > 0) = 1
      <3>1. info[e].running_count \in Int /\ info[e].running_count >= 0
        <4>1. EntryOK(e)
          BY EntryCases DEF CallbackCore, CallbackOK
        <4> QED BY <4>1 DEF EntryOK
      <3> QED BY <2>15, <3>1 DEF B
    <2>18. PICK c \in Callbacks : e = Cb(c) \/ e = Kick(c)
      BY EntryCases
    <2>19. CallbackOK(c)'
      <3>1. CASE e = Cb(c)
        <4>1. SameInfo(Kick(c)) /\ SameThreads(Kick(c)) /\ SameKick(Kick(c))
          BY <2>8, <2>12, <3>1, EntriesOf
        <4>2. ~Kicking(c)
          BY <2>9, <3>1, NoKickout
        <4>3. \A u \in Threads : ~(thread'[u].e = Cb(c) /\ thread'[u].pc = "kick")
          BY <2>5, <2>6, <4>2 DEF Kicking
        <4> QED BY <1>0, <2>9, <2>14, <2>15, <2>16, <2>17, <3>1, <4>1, <4>3, CbStep
      <3>2. CASE e = Kick(c)
        <4>1. CallbackOK(c) /\ Cb(c) # e /\ Cb(c) \in Entries
          BY <3>2, EntriesOf DEF CallbackCore
        <4>2. /\ ~info[e].is_periodic /\ ~info[e].unregister_callback /\ notified[c] = 0
              /\ \A u \in Threads : thread[u].e # e
          BY <2>9, <3>2, <4>1 DEF CallbackOK, KickoutOK
        <4>3. Kicked(c) /\ Kicked(c)'
          BY <2>9, <2>17, <3>2 DEF Kicked
        <4>4. SameThreads(Cb(c)) /\ SameInfo(Cb(c))
          BY <2>8, <2>12, <4>1
        <4>5. info'[e].refs = B(info'[e].in_queue # "none" \/ info'[e].running_count > 0)
                                + Cardinality(Rel(e)')
          <5>1. B(info[e].in_queue # "none" \/ info[e].running_count > 0) = 1
            BY <2>9 DEF B
          <5> QED BY <2>14, <2>15, <2>17, <3>2, <4>1, <5>1 DEF CallbackOK, RefsOK
        <4>6. \A u \in Threads : thread'[u].e = e => u = t
          BY <2>6, <4>2
        <4>7. pc = "run"
          BY <2>5, <4>2
        <4>8. info'[Cb(c)].refs - B(info'[e].refs > 0 /\ notified'[c] = 0)
               = info[Cb(c)].refs - B(info[e].refs > 0 /\ notified[c] = 0)
          BY <1>0, <2>15, <4>4 DEF SameInfo
        <4> QED BY <1>0, <2>6, <2>7, <2>15, <2>16, <3>2, <4>2, <4>3, <4>4, <4>5, <4>6,
                   <4>7, <4>8, KickStep DEF SameInfo
      <3> QED BY <2>18, <3>1, <3>2
    <2>20. \A f \in Entries : f # Cb(c) /\ f # Kick(c) =>
              SameInfo(f) /\ SameThreads(f) /\ SameKick(f)
      BY <2>8, <2>12, <2>18
    <2> QED BY <1>0, <2>10, <2>19, <2>20, OtherCallbacks
  <1> QED BY <1>0, <1>1, <1>2

\* A poller hands a periodic to a thread of its own.
LEMMA SpawnOwnRefs ==
    ASSUME CallbackCore, NEW t \in Threads, SpawnOwn(t)
    PROVE  QueuesAgree' /\ \A c \in Callbacks : CallbackOK(c)'
  <1>0. /\ thread[t] \in ThreadRecs /\ ShapeOf(thread[t]) /\ thread[t].pc = "spawn"
        /\ thread \in [Threads -> ThreadRecs] /\ shutdown \in BOOLEAN
        /\ UNCHANGED <<info, space, shutdown, phase, notified>>
    BY DEF CallbackCore, ThreadCore, Types, Shape, SpawnOwn
  <1>1. PICK e \in Entries : thread[t].e = e
    BY <1>0 DEF ShapeOf, IdlePcs, ThreadRecs
  <1>2. ~thread[t].own /\ ~thread[t].restarted
    BY <1>0 DEF ShapeOf
  <1>3. PICK c \in Callbacks : e = Cb(c)
    <2>1. PICK c \in Callbacks : e = Cb(c) \/ e = Kick(c)
      BY EntryCases
    <2>2. e # Kick(c)
      BY <1>0, <1>1 DEF CallbackCore, CallbackOK, KickoutOK
    <2> QED BY <2>1, <2>2
  <1>4. t \in In(e)
    BY <1>0, <1>1 DEF In, InCall
  <1>5. /\ info[e].running_count >= Cardinality(In(e)) /\ Cardinality(In(e)) >= 1
        /\ info[e].running_count > 0 /\ info[e].running_count \in Int
        /\ Cardinality(In(e)) \in Nat /\ EntryOK(e)
        /\ Cardinality(In(e) \ {t}) = Cardinality(In(e)) - 1 /\ In(e) \in SUBSET Threads
    BY <1>4, InsideCounts
  <1>6. \A f \in Entries : SameInfo(f)
    BY <1>0 DEF SameInfo
  <1>7. QueuesAgree'
    BY <1>0, QueuesSame DEF CallbackCore
  <1>8. ~Kicking(c)
    BY <1>3, <1>5, NoKickout
  <1>9. ASSUME EntryOK(e)', Rel(e)' = Rel(e),
               \A f \in Entries : f # e => SameThreads(f) /\ SameKick(f),
               \A u \in Threads : ~(thread'[u].e = e /\ thread'[u].pc = "kick")
        PROVE  QueuesAgree' /\ \A d \in Callbacks : CallbackOK(d)'
    <2>1. /\ SameThreads(Kick(c)) /\ SameKick(Kick(c)) /\ SameInfo(Kick(c))
      BY <1>3, <1>6, <1>9, EntriesOf
    <2>2. B(info'[e].in_queue # "none" \/ info'[e].running_count > 0) = 1
      BY <1>0, <1>5 DEF B
    <2>3. CallbackOK(c)'
      BY <1>0, <1>3, <1>5, <1>9, <2>1, <2>2, CbStep
    <2> QED BY <1>0, <1>3, <1>6, <1>7, <1>9, <2>3, OtherCallbacks
  <1>10. CASE shutdown
    <2>1. thread' = [thread EXCEPT ![t] = [thread[t] EXCEPT !.pc = "poll", !.e = <<>>]]
      BY <1>0, <1>10 DEF SpawnOwn
    <2>2. /\ thread'[t].e = <<>> /\ \A u \in Threads \ {t} : thread'[u] = thread[u]
      BY <1>0, <2>1 DEF ThreadRecs
    <2>3. \A u \in Threads \ {t} : WokenFrom(thread[u], thread'[u])
      BY <2>2 DEF WokenFrom
    <2>4. /\ \A f \in Entries : f # e => SameThreads(f) /\ SameKick(f)
          /\ In(e)' \ {t} = In(e) \ {t} /\ Rel(e)' \ {t} = Rel(e) \ {t}
          /\ \A u \in In(e) \ {t} : thread'[u].restarted = thread[u].restarted
      BY <1>1, <2>2, <2>3, OneEntry
    <2>5. /\ t \notin In(e)' /\ t \notin Rel(e)' /\ t \notin Rel(e)
      BY <1>0, <2>2, EntryCases DEF In, Rel
    <2>6. In(e)' = In(e) \ {t} /\ Rel(e)' = Rel(e)
      BY <2>4, <2>5
    <2>7. EntryOK(e)'
      <3>1. info'[e].running_count > Cardinality(In(e)')
        BY <1>0, <1>5, <2>6
      <3>2. Cardinality(In(e)') \in Nat
        BY <1>5, <2>6
      <3> QED BY <1>0, <1>5, <1>10, <2>4, <2>6, <3>1, <3>2 DEF EntryOK
    <2>8. \A u \in Threads : ~(thread'[u].e = e /\ thread'[u].pc = "kick")
      BY <1>3, <1>8, <2>2, EntryCases DEF Kicking
    <2> QED BY <1>9, <2>4, <2>6, <2>7, <2>8
  <1>11. CASE ~shutdown
    <2> DEFINE s == [NoThread EXCEPT !.pc = "run", !.own = TRUE, !.e = e]
    <2>1. PICK n \in Threads :
            /\ thread[n].pc = "none"
            /\ thread' = [thread EXCEPT
                  ![t] = [thread[t] EXCEPT !.pc = "poll", !.e = <<>>], ![n] = s]
      BY <1>0, <1>1, <1>11 DEF SpawnOwn
    <2>2. s.pc = "run" /\ s.own /\ ~s.restarted /\ s.e = e
      BY DEF NoThread
    <2>3. t # n /\ thread[n].e = <<>>
      BY <1>0, <2>1 DEF CallbackCore, ThreadCore, Shape, ShapeOf, IdlePcs
    <2> HIDE DEF s
    <2>4. /\ thread'[t].e = <<>> /\ thread'[n] = s
          /\ \A u \in Threads \ {t, n} : thread'[u] = thread[u]
      BY <1>0, <2>1, <2>3 DEF ThreadRecs
    <2>5. e # <<>>
      BY EntryCases
    <2>6. ASSUME NEW f \in Entries, f # e PROVE SameThreads(f) /\ SameKick(f)
      <3>1. /\ \A u \in Threads \ {t, n} : WokenFrom(thread[u], thread'[u])
            /\ \A u \in Threads \cap {t, n} : thread[u].e # f /\ thread'[u].e # f
        BY <1>1, <2>2, <2>3, <2>4, <2>6, EntryCases DEF WokenFrom
      <3> QED BY <3>1, WokenThreads DEF CallbackCore
    <2>7. In(e)' = (In(e) \ {t}) \cup {n} /\ Rel(e)' = Rel(e)
      BY <1>0, <1>1, <2>2, <2>3, <2>4, <2>5 DEF In, Rel, InCall
    <2>8. n \notin In(e)
      BY <2>3, <2>5 DEF In
    <2>9. Cardinality(In(e)') = Cardinality(In(e))
      <3>1. In(e) \ {t} \in SUBSET Threads /\ n \in Threads \ (In(e) \ {t})
        BY <1>5, <2>8
      <3>2. Cardinality((In(e) \ {t}) \cup {n}) = Cardinality(In(e) \ {t}) + 1
        BY <3>1, OneMore
      <3> QED BY <1>5, <2>7, <3>2
    <2>10. /\ \A u \in In(e) \ {t} : thread'[u].restarted = thread[u].restarted
           /\ ~thread'[n].restarted
      <3>1. \A u \in In(e) \ {t} : u \in Threads \ {t, n}
        BY <1>5, <2>8
      <3> QED BY <2>2, <2>4, <3>1
    <2>11. EntryOK(e)'
      <3>1. info[e].in_queue = "none"
        BY <1>2, <1>4, <1>5 DEF EntryOK
      <3>2. \A u \in In(e) \ {t} : thread[u].restarted
        BY <1>2, <1>4, <1>5 DEF EntryOK
      <3>3. \A u, v \in In(e)' : ~thread'[u].restarted /\ ~thread'[v].restarted => u = v
        BY <2>7, <2>10, <3>2
      <3>4. n \in In(e)'
        BY <2>7
      <3> QED BY <1>0, <1>5, <2>9, <2>10, <3>1, <3>3, <3>4 DEF EntryOK
    <2>12. \A u \in Threads : ~(thread'[u].e = e /\ thread'[u].pc = "kick")
      BY <1>3, <1>8, <2>2, <2>4, <2>5 DEF Kicking
    <2> QED BY <1>9, <2>6, <2>7, <2>11, <2>12
  <1> QED BY <1>0, <1>10, <1>11

\* A running callback blocks: a periodic is queued again.
LEMMA BlockedRefs ==
    ASSUME CallbackCore, ThreadCore', NEW t \in Threads, NEW q \in {"timed", "ready"},
           Blocked(t, q)
    PROVE  QueuesAgree' /\ \A c \in Callbacks : CallbackOK(c)'
  <1> DEFINE pc == IF thread[t].own THEN "run" ELSE "respawn"
             r == [thread[t] EXCEPT !.restarted = TRUE, !.pc = pc]
             th == [thread EXCEPT ![t] = r]
  <1>0. /\ thread[t] \in ThreadRecs /\ ShapeOf(thread[t])
        /\ thread \in [Threads -> ThreadRecs] /\ thread[t].pc = "run"
        /\ ~thread[t].restarted /\ info \in [Entries -> InfoRecs] /\ stolen \in BOOLEAN
        /\ UNCHANGED <<shutdown, phase, notified>>
    BY DEF CallbackCore, ThreadCore, Types, Shape, Blocked
  <1>1. PICK e \in Entries : thread[t].e = e
    BY <1>0 DEF ShapeOf, IdlePcs, ThreadRecs
  <1>2. /\ r \in ThreadRecs /\ r.pc = pc /\ r.own = thread[t].own /\ r.restarted
        /\ r.e = e /\ pc \in {"run", "respawn"}
    <2>1. pc \in IdlePcs \cup InCall \cup Dropping /\ pc \in {"run", "respawn"}
      BY DEF InCall
    <2> HIDE DEF pc
    <2> QED BY <1>0, <1>1, <2>1 DEF ThreadRecs
  <1>3. /\ info[e].is_periodic => Requeue(info, e, q) /\ Signal(th)
        /\ ~info[e].is_periodic => thread' = th /\ UNCHANGED <<info, space>>
    <2>1. th = [thread EXCEPT ![t].restarted = TRUE, ![t].pc = pc]
      BY <1>0
    <2> QED BY <1>1, <2>1 DEF Blocked
  <1> HIDE DEF r, pc
  <1>4. /\ th \in [Threads -> ThreadRecs] /\ th[t] = r
        /\ \A u \in Threads \ {t} : th[u] = thread[u]
    BY <1>0, <1>2
  <1> HIDE DEF th
  <1>5. /\ \A u \in Threads \ {t} : WokenFrom(thread[u], thread'[u])
        /\ WokenFrom(r, thread'[t])
    <2>1. \A u \in Threads : WokenFrom(th[u], thread'[u])
      BY <1>0, <1>3, <1>4, SignalEffect DEF WokenFrom
    <2> QED BY <1>4, <2>1
  <1>6. /\ thread'[t].e = e /\ thread'[t].pc = pc /\ thread'[t].restarted
        /\ thread'[t].own = thread[t].own
    BY <1>2, <1>5 DEF WokenFrom
  <1>7. /\ \A f \in Entries : f # e => SameThreads(f) /\ SameKick(f)
        /\ In(e)' \ {t} = In(e) \ {t} /\ Rel(e)' \ {t} = Rel(e) \ {t}
        /\ \A u \in In(e) \ {t} : thread'[u].restarted = thread[u].restarted
        /\ \A u \in Threads \ {t} : thread'[u].e = e <=> thread[u].e = e
        /\ \A u \in Threads \ {t} : thread'[u].e = e =>
             thread'[u].own = thread[u].own /\
             (thread'[u].pc # thread[u].pc =>
                thread[u].pc = "ownwait" /\ thread'[u].pc = "ownwoken")
    <2>1. thread[t].e \in {e, <<>>} /\ thread'[t].e \in {e, <<>>}
      BY <1>1, <1>6
    <2> QED BY <1>5, <2>1, OneEntry
  <1>8. /\ t \in In(e) /\ t \in In(e)' /\ t \notin Rel(e) /\ t \notin Rel(e)'
    BY <1>0, <1>1, <1>2, <1>6 DEF In, Rel, InCall
  <1>9. In(e)' = In(e) /\ Rel(e)' = Rel(e)
    <2>1. In(e)' \ {t} = In(e) \ {t} /\ Rel(e)' \ {t} = Rel(e) \ {t}
      BY <1>7
    <2> QED BY <1>8, <2>1
  <1>10. /\ info[e].running_count > 0 /\ info[e].running_count \in Int /\ EntryOK(e)
    BY <1>8, InsideCounts
  <1>11. /\ info[e].in_queue = "none" /\ \A u \in In(e)' : thread'[u].restarted
    <2>1. \A u \in In(e) \ {t} : thread[u].restarted
      BY <1>0, <1>8, <1>10 DEF EntryOK
    <2>2. info[e].in_queue = "none"
      BY <1>0, <1>8, <1>10 DEF EntryOK
    <2> QED BY <1>6, <1>7, <1>9, <2>1, <2>2
  <1>12. /\ QueuesAgree' /\ \A f \in Entries : f # e => SameInfo(f)
         /\ info'[e].running_count = info[e].running_count
         /\ info'[e].is_periodic = info[e].is_periodic
         /\ info'[e].unregister_callback = info[e].unregister_callback
         /\ info'[e].refs = info[e].refs
         /\ info[e].is_periodic => info'[e].in_queue = q
         /\ ~info[e].is_periodic => info'[e].in_queue = "none"
    <2>1. CASE info[e].is_periodic
      <3>1. /\ ThreadCore /\ QueuesAgree /\ Requeue(info, e, q)
            /\ \A f \in Entries : info[f].in_queue = info[f].in_queue
        BY <1>3, <2>1 DEF CallbackCore
      <3>2. /\ QueuesAgree' /\ info'[e].in_queue = q
            /\ info'[e].running_count = info[e].running_count
            /\ info'[e].is_periodic = info[e].is_periodic
            /\ info'[e].unregister_callback = info[e].unregister_callback
            /\ info'[e].refs = info[e].refs
            /\ \A f \in Entries : f # e =>
                 /\ info'[f].running_count = info[f].running_count
                 /\ info'[f].is_periodic = info[f].is_periodic
                 /\ info'[f].unregister_callback = info[f].unregister_callback
                 /\ info'[f].refs = info[f].refs
                 /\ info'[f].in_queue = "none" <=> info[f].in_queue = "none"
        BY <1>0, <1>11, <3>1, RequeueQueues
      <3>3. \A f \in Entries : f # e => SameInfo(f)
        BY <3>2 DEF SameInfo
      <3> QED BY <2>1, <3>2, <3>3
    <2>2. CASE ~info[e].is_periodic
      <3>1. QueuesAgree'
        BY <1>3, <2>2, QueuesSame DEF CallbackCore
      <3> QED BY <1>3, <1>11, <2>2, <3>1 DEF SameInfo
    <2> QED BY <2>1, <2>2
  <1>13. EntryOK(e)'
    BY <1>0, <1>9, <1>10, <1>11, <1>12 DEF EntryOK
  <1>14. B(info'[e].in_queue # "none" \/ info'[e].running_count > 0) = 1
    BY <1>10, <1>12 DEF B
  <1>15. PICK c \in Callbacks : e = Cb(c) \/ e = Kick(c)
    BY EntryCases
  <1>16. CallbackOK(c)'
    <2>1. CASE e = Cb(c)
      <3>1. SameInfo(Kick(c)) /\ SameThreads(Kick(c)) /\ SameKick(Kick(c))
        BY <1>7, <1>12, <2>1, EntriesOf
      <3>2. ~Kicking(c)
        BY <1>10, <2>1, NoKickout
      <3>3. \A u \in Threads : ~(thread'[u].e = Cb(c) /\ thread'[u].pc = "kick")
        BY <1>2, <1>6, <1>7, <2>1, <3>2 DEF Kicking
      <3> QED BY <1>0, <1>9, <1>10, <1>12, <1>13, <1>14, <2>1, <3>1, <3>3, CbStep
    <2>2. CASE e = Kick(c)
      <3>1. CallbackOK(c) /\ Cb(c) # e /\ Cb(c) \in Entries
        BY <2>2, EntriesOf DEF CallbackCore
      <3>2. /\ ~info[e].is_periodic /\ ~info[e].unregister_callback
            /\ notified[c] = 0 /\ ~thread[t].own
            /\ \A u \in Threads : thread[u].e = e => u = t
        BY <1>0, <1>1, <2>2, <3>1 DEF CallbackOK, KickoutOK
      <3>3. Kicked(c) /\ Kicked(c)'
        BY <1>10, <1>12, <2>2 DEF Kicked
      <3>4. SameThreads(Cb(c)) /\ SameInfo(Cb(c))
        BY <1>7, <1>12, <3>1
      <3>5. info'[e].refs = B(info'[e].in_queue # "none" \/ info'[e].running_count > 0)
                              + Cardinality(Rel(e)')
        <4>1. B(info[e].in_queue # "none" \/ info[e].running_count > 0) = 1
          BY <1>10 DEF B
        <4> QED BY <1>9, <1>12, <1>14, <2>2, <3>1, <4>1 DEF CallbackOK, RefsOK
      <3>6. \A u \in Threads : thread'[u].e = e => u = t
        BY <1>7, <3>2
      <3>7. info'[Cb(c)].refs - B(info'[e].refs > 0 /\ notified'[c] = 0)
             = info[Cb(c)].refs - B(info[e].refs > 0 /\ notified[c] = 0)
        BY <1>0, <1>12, <3>4 DEF SameInfo
      <3> QED BY <1>0, <1>2, <1>6, <1>12, <1>13, <2>2, <3>2, <3>3, <3>4, <3>5, <3>6, <3>7,
                 KickStep DEF SameInfo
    <2> QED BY <1>15, <2>1, <2>2
  <1>17. \A f \in Entries : f # Cb(c) /\ f # Kick(c) =>
            SameInfo(f) /\ SameThreads(f) /\ SameKick(f)
    BY <1>7, <1>12, <1>15
  <1> QED BY <1>0, <1>12, <1>16, <1>17, OtherCallbacks

\* The kickout calls the unregister callback.
LEMMA CancelKickoutRefs ==
    ASSUME CallbackCore, ThreadCore', NEW t \in Threads, CancelKickout(t)
    PROVE  QueuesAgree' /\ \A c \in Callbacks : CallbackOK(c)'
  <1>0. /\ thread[t] \in ThreadRecs /\ ShapeOf(thread[t]) /\ thread[t].pc = "run"
        /\ thread \in [Threads -> ThreadRecs] /\ info \in [Entries -> InfoRecs]
        /\ notified \in [Callbacks -> Nat] /\ UNCHANGED <<space, shutdown, phase>>
    BY DEF CallbackCore, ThreadCore, Types, Shape, CancelKickout
  <1>1. PICK c \in Callbacks : c = thread[t].e[1] /\ thread[t].e = Kick(c)
    <2>1. thread[t].e \in Entries
      BY <1>0 DEF ShapeOf, IdlePcs, ThreadRecs
    <2>2. thread[t].e[1] \in Callbacks
      BY <2>1 DEF Entries
    <2> QED BY <2>2 DEF CancelKickout
  <1> DEFINE e == Kick(c)
  <1>2. e \in Entries /\ Cb(c) \in Entries /\ Cb(c) # e /\ CallbackOK(c)
    BY EntriesOf DEF CallbackCore
  <1>3. /\ notified' = [notified EXCEPT ![c] = notified[c] + 1]
        /\ info' = [info EXCEPT ![Cb(c)].refs = @ - 1]
        /\ thread' = [thread EXCEPT ![t].pc = "finish"]
    BY <1>1 DEF CancelKickout
  <1> HIDE DEF e
  <1>4. /\ notified'[c] = notified[c] + 1
        /\ \A d \in Callbacks : d # c => notified'[d] = notified[d]
    BY <1>0, <1>3
  <1>5. /\ \A f \in Entries \ {Cb(c)} : info'[f] = info[f]
        /\ info'[Cb(c)].running_count = info[Cb(c)].running_count
        /\ info'[Cb(c)].in_queue = info[Cb(c)].in_queue
        /\ info'[Cb(c)].is_periodic = info[Cb(c)].is_periodic
        /\ info'[Cb(c)].unregister_callback = info[Cb(c)].unregister_callback
        /\ info'[Cb(c)].refs = info[Cb(c)].refs - 1
    BY <1>2, <1>3, DropInfo DEF CallbackCore
  <1>6. /\ thread'[t].e = e /\ thread'[t].pc = "finish"
        /\ thread'[t].own = thread[t].own /\ thread'[t].restarted = thread[t].restarted
        /\ \A u \in Threads \ {t} : thread'[u] = thread[u]
    BY <1>0, <1>1, <1>3 DEF ThreadRecs, e
  <1>7. \A u \in Threads \ {t} : WokenFrom(thread[u], thread'[u])
    BY <1>6 DEF WokenFrom
  <1>8. /\ \A f \in Entries : f # e => SameThreads(f) /\ SameKick(f)
        /\ In(e)' \ {t} = In(e) \ {t} /\ Rel(e)' \ {t} = Rel(e) \ {t}
        /\ \A u \in In(e) \ {t} : thread'[u].restarted = thread[u].restarted
    BY <1>1, <1>2, <1>6, <1>7, OneEntry DEF e
  <1>9. t \in In(e) /\ t \in In(e)' /\ t \notin Rel(e) /\ t \notin Rel(e)'
    BY <1>0, <1>1, <1>6 DEF In, Rel, InCall, e
  <1>10. In(e)' = In(e) /\ Rel(e)' = Rel(e)
    BY <1>8, <1>9
  <1>11. info[e].running_count > 0 /\ info[e].running_count \in Int /\ EntryOK(e)
    BY <1>2, <1>9, InsideCounts
  <1>12. EntryOK(e)'
    <2>1. \A u \in In(e) : thread'[u].restarted = thread[u].restarted
      BY <1>6, <1>8
    <2> QED BY <1>0, <1>2, <1>5, <1>10, <1>11, <2>1 DEF EntryOK
  <1>13. /\ ~info[e].is_periodic /\ ~info[e].unregister_callback /\ notified[c] = 0
         /\ ~thread[t].own /\ info[e].in_queue = "none"
         /\ \A u \in Threads : thread[u].e = e => u = t
    BY <1>0, <1>1, <1>2 DEF CallbackOK, KickoutOK, e
  <1>14. info[e].refs > 0 /\ info[e].refs \in Int
    <2>1. B(info[e].in_queue # "none" \/ info[e].running_count > 0) = 1
      BY <1>11 DEF B
    <2>2. Cardinality(Rel(e)) \in Nat
      <3>1. Rel(e) \in SUBSET Threads
        BY DEF Rel
      <3> QED BY <3>1, ThreadSet
    <2> QED BY <1>2, <2>1, <2>2 DEF CallbackOK, RefsOK, e
  <1>15. CallbackOK(c)'
    <2>1. Kicked(c) /\ Kicked(c)'
      BY <1>2, <1>5, <1>11 DEF Kicked, e
    <2>2. SameThreads(Cb(c))
      BY <1>2, <1>8
    <2>3. /\ B(info[e].refs > 0 /\ notified[c] = 0) = 1
          /\ B(info'[e].refs > 0 /\ notified'[c] = 0) = 0
      BY <1>2, <1>4, <1>13, <1>14 DEF B
    <2>4. info'[Cb(c)].refs - B(info'[e].refs > 0 /\ notified'[c] = 0)
             = info[Cb(c)].refs - B(info[e].refs > 0 /\ notified[c] = 0)
      <3>1. info[Cb(c)].refs \in Int
        BY <1>0, <1>2 DEF InfoRecs
      <3> QED BY <1>5, <2>3, <3>1
    <2>5. info'[e].refs = B(info'[e].in_queue # "none" \/ info'[e].running_count > 0)
                            + Cardinality(Rel(e)')
      BY <1>2, <1>5, <1>10 DEF CallbackOK, RefsOK, e
    <2>6. \A u \in Threads : thread'[u].e = e => u = t
      BY <1>6, <1>13
    <2>7. info'[e] = info[e] /\ notified'[c] = 1
      BY <1>2, <1>4, <1>5, <1>13
    <2> QED BY <1>0, <1>5, <1>6, <1>12, <1>13, <2>1, <2>2, <2>4, <2>5, <2>6, <2>7,
               KickStep DEF e
  <1>16. \A f \in Entries : f # Cb(c) /\ f # Kick(c) =>
            SameInfo(f) /\ SameThreads(f) /\ SameKick(f)
    BY <1>5, <1>8 DEF SameInfo, e
  <1>17. QueuesAgree'
    BY <1>0, <1>5, QueuesSame DEF CallbackCore
  <1> QED BY <1>0, <1>4, <1>15, <1>16, <1>17, OtherCallbacks

\* The three ways finish_callback leaves an invocation of e.
Leaves(t, e) ==
  \/ /\ thread'[t].e = <<>> /\ info'[e].in_queue = info[e].in_queue
     /\ thread[t].restarted \/ ~info[e].is_periodic
     /\ info[e].is_periodic \/ info'[e].running_count # 0
  \/ /\ thread'[t].e = <<>> /\ info'[e].in_queue # "none"
     /\ info[e].is_periodic /\ ~thread[t].restarted
  \/ /\ thread'[t].e = e /\ thread'[t].own = thread[t].own
     /\ thread'[t].pc = IF info[e].unregister_callback THEN "kick" ELSE "decref"
     /\ info'[e].in_queue = info[e].in_queue
     /\ ~info[e].is_periodic /\ info'[e].running_count = 0

\* A thread is done with an invocation of e: it queues e again, leaves the end
\* of the callback to others, or is left with the library's reference.
LEMMA FinishEntry ==
    ASSUME CallbackCore, ThreadCore', NEW t \in Threads, NEW e \in Entries,
           thread[t].e = e, thread[t].pc = "finish",
           \A u \in Threads \ {t} : WokenFrom(thread[u], thread'[u]),
           UNCHANGED <<shutdown, phase, notified>>,
           \A f \in Entries : f # e => SameInfo(f),
           info'[e].running_count = info[e].running_count - 1,
           info'[e].is_periodic = info[e].is_periodic,
           info'[e].unregister_callback = info[e].unregister_callback,
           info'[e].refs = info[e].refs,
           Leaves(t, e)
    PROVE  \A c \in Callbacks : CallbackOK(c)'
  <1>0. e # <<>>
    BY EntryCases
  <1>1. /\ \A f \in Entries : f # e => SameThreads(f) /\ SameKick(f)
        /\ In(e)' \ {t} = In(e) \ {t} /\ Rel(e)' \ {t} = Rel(e) \ {t}
        /\ \A u \in In(e) \ {t} : thread'[u].restarted = thread[u].restarted
        /\ \A u \in Threads \ {t} : thread'[u].e = e <=> thread[u].e = e
        /\ \A u \in Threads \ {t} : thread'[u].e = e =>
             thread'[u].own = thread[u].own /\
             (thread'[u].pc # thread[u].pc =>
                thread[u].pc = "ownwait" /\ thread'[u].pc = "ownwoken")
    <2>1. thread[t].e \in {e, <<>>} /\ thread'[t].e \in {e, <<>>}
      BY DEF Leaves
    <2> QED BY <2>1, OneEntry
  <1>2. t \in In(e) /\ t \notin Rel(e)
    BY DEF In, Rel, InCall
  <1>3. t \notin In(e)' /\ (t \in Rel(e)' <=> thread'[t].e = e)
    BY <1>0 DEF In, Rel, InCall, Leaves
  <1>4. In(e)' = In(e) \ {t}
    <2>1. In(e)' \ {t} = In(e) \ {t}
      BY <1>1
    <2> QED BY <1>3, <2>1
  <1>5. Rel(e)' = IF thread'[t].e = e THEN Rel(e) \cup {t} ELSE Rel(e)
    <2>1. Rel(e)' \ {t} = Rel(e) \ {t}
      BY <1>1
    <2>2. CASE thread'[t].e = e
      <3>1. Rel(e)' = Rel(e) \cup {t}
        BY <1>2, <1>3, <2>1, <2>2
      <3> QED BY <2>2, <3>1
    <2>3. CASE thread'[t].e # e
      <3>1. t \notin Rel(e)' /\ t \notin Rel(e)
        BY <1>2, <1>3, <2>3
      <3>2. Rel(e)' = Rel(e)
        BY <2>1, <3>1
      <3> QED BY <2>3, <3>2
    <2> QED BY <2>2, <2>3
  <1>6. EntryOK(e)'
    <2>1. \/ /\ info'[e].in_queue = info[e].in_queue
             /\ thread[t].restarted \/ ~info[e].is_periodic
          \/ info'[e].in_queue # "none" /\ info[e].is_periodic /\ ~thread[t].restarted
      BY DEF Leaves
    <2> QED BY <1>1, <1>2, <1>4, <2>1, LeaveEntry
  <1>7. /\ info[e].running_count >= Cardinality(In(e)) /\ Cardinality(In(e)) >= 1
        /\ info[e].running_count \in Int /\ Cardinality(In(e)) \in Nat /\ EntryOK(e)
    BY <1>2, InsideCounts
  <1>8. info[e].is_periodic /\ thread[t].restarted /\ info[e].in_queue = "none" =>
            info'[e].running_count > 0
    <2> SUFFICES ASSUME info[e].is_periodic, thread[t].restarted, info[e].in_queue = "none",
                        ~(info[e].running_count > Cardinality(In(e)))
                 PROVE  info'[e].running_count > 0
      BY <1>7
    <2>1. PICK u \in In(e) : ~thread[u].restarted
      BY <1>7 DEF EntryOK
    <2>2. u \in In(e)'
      BY <1>4, <2>1
    <2>3. Cardinality(In(e)') # 0 /\ Cardinality(In(e)') \in Nat
      <3>1. In(e)' \in SUBSET Threads
        BY DEF In
      <3> QED BY <2>2, <3>1, ThreadSet
    <2> QED BY <1>6, <2>3 DEF EntryOK
  <1>9. /\ info'[e].running_count \in Nat
        /\ thread'[t].e = <<>> => info'[e].in_queue # "none" \/ info'[e].running_count > 0
        /\ thread'[t].e = e => info'[e].in_queue = "none" /\ info'[e].running_count = 0
    <2>1. info'[e].running_count \in Nat
      BY <1>7
    <2>2. thread'[t].e = <<>> => info'[e].in_queue # "none" \/ info'[e].running_count > 0
      <3>0. info'[e].running_count # 0 => info'[e].running_count > 0
        BY <1>7, <2>1
      <3> SUFFICES ASSUME thread'[t].e = <<>>, info'[e].in_queue = "none"
                   PROVE  info'[e].running_count # 0
        BY <3>0
      <3>1. /\ info'[e].in_queue = info[e].in_queue
            /\ thread[t].restarted \/ ~info[e].is_periodic
            /\ info[e].is_periodic \/ info'[e].running_count # 0
        BY <1>0 DEF Leaves
      <3>2. CASE info[e].is_periodic
        BY <1>8, <2>1, <3>1, <3>2
      <3> QED BY <3>1, <3>2
    <2>3. thread'[t].e = e => info'[e].in_queue = "none" /\ info'[e].running_count = 0
      BY <1>0, <1>7 DEF EntryOK, Leaves
    <2> QED BY <2>1, <2>2, <2>3
  <1>10. /\ Cardinality(Rel(e)) \in Nat
         /\ B(info'[e].in_queue # "none" \/ info'[e].running_count > 0)
             + Cardinality(Rel(e)') = 1 + Cardinality(Rel(e))
    <2>1. Rel(e) \in SUBSET Threads
      BY DEF Rel
    <2>2. Cardinality(Rel(e)) \in Nat
      BY <2>1, ThreadSet
    <2>3. CASE thread'[t].e = e
      <3>1. Cardinality(Rel(e) \cup {t}) = Cardinality(Rel(e)) + 1
        BY <1>2, <2>1, OneMore
      <3> QED BY <1>5, <1>9, <2>2, <2>3, <3>1 DEF B
    <2>4. CASE thread'[t].e = <<>>
      BY <1>0, <1>5, <1>9, <2>2, <2>4 DEF B
    <2> QED BY <2>2, <2>3, <2>4 DEF Leaves
  <1>11. PICK c \in Callbacks : e = Cb(c) \/ e = Kick(c)
    BY EntryCases
  <1>12. CallbackOK(c)'
    <2>1. CASE e = Cb(c)
      <3>1. SameInfo(Kick(c)) /\ SameThreads(Kick(c)) /\ SameKick(Kick(c))
        BY <1>1, <2>1, EntriesOf
      <3>2. ~Kicking(c)
        BY <1>7, <2>1, NoKickout
      <3>3. \A u \in Threads : thread'[u].e = Cb(c) /\ thread'[u].pc = "kick" =>
               u = t /\ info[Cb(c)].unregister_callback
                 /\ info'[Cb(c)].in_queue = "none" /\ info'[Cb(c)].running_count = 0
        <4>1. \A u \in Threads \ {t} : ~(thread'[u].e = e /\ thread'[u].pc = "kick")
          BY <1>1, <2>1, <3>2 DEF Kicking
        <4>2. thread'[t].e = e /\ thread'[t].pc = "kick" => info[e].unregister_callback
          BY <1>0 DEF Leaves
        <4> QED BY <1>9, <2>1, <4>1, <4>2
      <3>4. info[e].running_count > 0
        BY <1>7
      <3> QED BY <1>6, <1>10, <2>1, <3>1, <3>3, <3>4, CbStep
    <2>2. CASE e = Kick(c)
      <3>1. CallbackOK(c) /\ Cb(c) # e /\ Cb(c) \in Entries
        BY <2>2, EntriesOf DEF CallbackCore
      <3>2. /\ ~info[e].is_periodic /\ ~info[e].unregister_callback
            /\ notified[c] = 1 /\ ~thread[t].own /\ info[e].in_queue = "none"
            /\ \A u \in Threads : thread[u].e = e => u = t
        BY <2>2, <3>1 DEF CallbackOK, KickoutOK
      <3>3. Kicked(c) /\ Kicked(c)'
        BY <3>2 DEF Kicked
      <3>4. SameThreads(Cb(c)) /\ SameInfo(Cb(c))
        BY <1>1, <3>1
      <3>5. info'[e].refs = B(info'[e].in_queue # "none" \/ info'[e].running_count > 0)
                              + Cardinality(Rel(e)')
        <4>1. B(info[e].in_queue # "none" \/ info[e].running_count > 0) = 1
          BY <1>7 DEF B
        <4> QED BY <1>10, <2>2, <3>1, <4>1 DEF CallbackOK, RefsOK
      <3>6. \A u \in Threads : thread'[u].e = e =>
              u = t /\ ~thread'[u].own /\ thread'[u].pc = "decref"
        <4>1. \A u \in Threads \ {t} : thread'[u].e # e
          BY <1>1, <3>2
        <4>2. thread'[t].e = e => ~thread'[t].own /\ thread'[t].pc = "decref"
          BY <1>0, <3>2 DEF Leaves
        <4> QED BY <4>1, <4>2
      <3>7. info'[Cb(c)].refs - B(info'[e].refs > 0 /\ notified'[c] = 0)
             = info[Cb(c)].refs - B(info[e].refs > 0 /\ notified[c] = 0)
        BY <3>4 DEF SameInfo
      <3>8. info'[e].in_queue = "none"
        BY <3>2 DEF Leaves
      <3> QED BY <1>6, <2>2, <3>2, <3>3, <3>4, <3>5, <3>6, <3>7, <3>8, KickStep DEF SameInfo
    <2> QED BY <1>11, <2>1, <2>2
  <1>13. \A f \in Entries : f # Cb(c) /\ f # Kick(c) =>
            SameInfo(f) /\ SameThreads(f) /\ SameKick(f)
    BY <1>1, <1>11
  <1> QED BY <1>12, <1>13, OtherCallbacks

\* A thread that leaves for good or goes on polling is in no entry.
LEMMA AfterLeaves ==
    ASSUME CallbackCore, NEW t \in Threads, thread[t].pc \in {"finish", "kick", "decref"},
           Signal(After(thread, t)) \/ thread' = After(thread, t)
    PROVE  /\ thread'[t].e = <<>>
           /\ \A u \in Threads \ {t} : WokenFrom(thread[u], thread'[u])
  <1> DEFINE th == After(thread, t)
  <1>1. /\ th \in [Threads -> ThreadRecs] /\ th[t].e = <<>>
        /\ \A u \in Threads \ {t} : th[u] = thread[u]
    BY AfterShape DEF CallbackCore
  <1>2. stolen \in BOOLEAN
    BY DEF CallbackCore, ThreadCore, Types
  <1> HIDE DEF th
  <1>3. Signal(th) \/ thread' = th
    BY DEF th
  <1>4. \A u \in Threads : WokenFrom(th[u], thread'[u])
    BY <1>1, <1>2, <1>3, SignalEffect DEF WokenFrom
  <1> QED BY <1>1, <1>4 DEF WokenFrom

\* globus_l_callback_finish_callback, under the space's lock.
LEMMA FinishCallbackRefs ==
    ASSUME CallbackCore, ThreadCore', NEW t \in Threads, NEW q \in {"timed", "ready"},
           FinishCallback(t, q)
    PROVE  QueuesAgree' /\ \A c \in Callbacks : CallbackOK(c)'
  <1>0. /\ thread[t] \in ThreadRecs /\ ShapeOf(thread[t]) /\ thread[t].pc = "finish"
        /\ thread \in [Threads -> ThreadRecs] /\ info \in [Entries -> InfoRecs]
        /\ UNCHANGED <<shutdown, phase, notified>> /\ ThreadCore /\ QueuesAgree
    BY DEF CallbackCore, ThreadCore, Types, Shape, FinishCallback
  <1>1. PICK e \in Entries : thread[t].e = e
    BY <1>0 DEF ShapeOf, IdlePcs, ThreadRecs
  <1> DEFINE i == [info EXCEPT ![e].running_count = @ - 1]
  <1>2. /\ i \in [Entries -> InfoRecs]
        /\ \A f \in Entries \ {e} : i[f] = info[f]
        /\ i[e].running_count = info[e].running_count - 1
        /\ i[e].in_queue = info[e].in_queue
        /\ i[e].is_periodic = info[e].is_periodic
        /\ i[e].unregister_callback = info[e].unregister_callback
        /\ i[e].refs = info[e].refs
    BY <1>0, LeaveInfo
  <1>3. \A f \in Entries : i[f].in_queue = info[f].in_queue
    BY <1>2
  <1>4. \/ /\ ~i[e].is_periodic /\ i[e].running_count = 0 /\ info' = i
           /\ thread' = [thread EXCEPT ![t].pc =
                           IF i[e].unregister_callback THEN "kick" ELSE "decref"]
           /\ UNCHANGED space
        \/ i[e].is_periodic /\ ~thread[t].restarted
              /\ Requeue(i, e, q) /\ Signal(After(thread, t))
        \/ /\ ~(~i[e].is_periodic /\ i[e].running_count = 0)
           /\ ~(i[e].is_periodic /\ ~thread[t].restarted)
           /\ info' = i /\ thread' = After(thread, t) /\ UNCHANGED space
    BY <1>1 DEF FinishCallback
  <1> HIDE DEF i
  <1>5. ASSUME info' = i, UNCHANGED space
        PROVE  /\ QueuesAgree' /\ \A f \in Entries : f # e => SameInfo(f)
               /\ info'[e].running_count = info[e].running_count - 1
               /\ info'[e].is_periodic = info[e].is_periodic
               /\ info'[e].unregister_callback = info[e].unregister_callback
               /\ info'[e].refs = info[e].refs
               /\ info'[e].in_queue = info[e].in_queue
    <2>1. QueuesAgree'
      BY <1>0, <1>3, <1>5, QueuesSame
    <2> QED BY <1>2, <1>5, <2>1 DEF SameInfo
  <1>6. CASE /\ ~i[e].is_periodic /\ i[e].running_count = 0 /\ info' = i
             /\ thread' = [thread EXCEPT ![t].pc =
                             IF i[e].unregister_callback THEN "kick" ELSE "decref"]
             /\ UNCHANGED space
    <2> DEFINE pc == IF i[e].unregister_callback THEN "kick" ELSE "decref"
    <2>1. /\ thread'[t].pc = pc /\ thread'[t].e = e /\ thread'[t].own = thread[t].own
          /\ \A u \in Threads \ {t} : thread'[u] = thread[u]
      <3> HIDE DEF pc
      <3> QED BY <1>0, <1>1, <1>6 DEF ThreadRecs, pc
    <2>2. \A u \in Threads \ {t} : WokenFrom(thread[u], thread'[u])
      BY <2>1 DEF WokenFrom
    <2>3. Leaves(t, e)
      BY <1>2, <1>5, <1>6, <2>1 DEF Leaves
    <2> QED BY <1>0, <1>1, <1>5, <1>6, <2>2, <2>3, FinishEntry
  <1>7. CASE i[e].is_periodic /\ ~thread[t].restarted
               /\ Requeue(i, e, q) /\ Signal(After(thread, t))
    <2>1. thread'[t].e = <<>> /\ \A u \in Threads \ {t} : WokenFrom(thread[u], thread'[u])
      BY <1>0, <1>7, AfterLeaves
    <2>2. info[e].in_queue = "none"
      <3>1. t \in In(e)
        BY <1>0, <1>1 DEF In, InCall
      <3>2. EntryOK(e)
        BY <3>1, InsideCounts
      <3> QED BY <1>7, <3>1, <3>2 DEF EntryOK
    <2>3. /\ QueuesAgree' /\ info'[e].in_queue = q
          /\ info'[e].running_count = i[e].running_count
          /\ info'[e].is_periodic = i[e].is_periodic
          /\ info'[e].unregister_callback = i[e].unregister_callback
          /\ info'[e].refs = i[e].refs
          /\ \A f \in Entries : f # e =>
               /\ info'[f].running_count = i[f].running_count
               /\ info'[f].is_periodic = i[f].is_periodic
               /\ info'[f].unregister_callback = i[f].unregister_callback
               /\ info'[f].refs = i[f].refs
               /\ info'[f].in_queue = "none" <=> info[f].in_queue = "none"
      <3>1. ThreadCore /\ QueuesAgree /\ i \in [Entries -> InfoRecs] /\ Requeue(i, e, q)
        BY <1>0, <1>2, <1>7
      <3> QED BY <1>3, <2>2, <3>1, RequeueQueues
    <2>4. \A f \in Entries : f # e => SameInfo(f)
      BY <1>2, <2>3 DEF SameInfo
    <2>5. Leaves(t, e)
      BY <1>2, <1>7, <2>1, <2>3 DEF Leaves
    <2> QED BY <1>0, <1>1, <1>2, <2>1, <2>3, <2>4, <2>5, FinishEntry
  <1>8. CASE /\ ~(~i[e].is_periodic /\ i[e].running_count = 0)
             /\ ~(i[e].is_periodic /\ ~thread[t].restarted)
             /\ info' = i /\ thread' = After(thread, t) /\ UNCHANGED space
    <2>1. thread'[t].e = <<>> /\ \A u \in Threads \ {t} : WokenFrom(thread[u], thread'[u])
      BY <1>0, <1>8, AfterLeaves
    <2>2. Leaves(t, e)
      BY <1>2, <1>5, <1>8, <2>1 DEF Leaves
    <2> QED BY <1>0, <1>1, <1>5, <1>8, <2>1, <2>2, FinishEntry
  <1> QED BY <1>4, <1>6, <1>7, <1>8

\* finish_callback registers the kickout.
LEMMA FinishKickoutRefs ==
    ASSUME CallbackCore, NEW t \in Threads, FinishKickout(t)
    PROVE  QueuesAgree' /\ \A c \in Callbacks : CallbackOK(c)'
  <1>0. /\ thread[t] \in ThreadRecs /\ ShapeOf(thread[t]) /\ thread[t].pc = "kick"
        /\ info \in [Entries -> InfoRecs] /\ ThreadCore /\ QueuesAgree
        /\ UNCHANGED <<timed_queue, due_queue, shutdown, phase, notified>>
        /\ Signal(After(thread, t))
    BY DEF CallbackCore, ThreadCore, Types, Shape, FinishKickout
  <1>1. PICK c \in Callbacks : c = thread[t].e[1] /\ thread[t].e = Cb(c)
    <2>1. thread[t].e \in Entries
      BY <1>0 DEF ShapeOf, IdlePcs, ThreadRecs
    <2>2. PICK c \in Callbacks : thread[t].e = Cb(c) \/ thread[t].e = Kick(c)
      BY <2>1, EntryCases
    <2>3. thread[t].e # Kick(c)
      BY <1>0 DEF CallbackCore, CallbackOK, KickoutOK
    <2> QED BY <2>2, <2>3 DEF Cb
  <1> DEFINE e == Cb(c)
             k == [NoInfo EXCEPT !.in_queue = "ready", !.refs = 1]
  <1>2. e \in Entries /\ Kick(c) \in Entries /\ Kick(c) # e /\ CallbackOK(c) /\ e # <<>>
    BY EntriesOf, EntryCases DEF CallbackCore
  <1>3. /\ info' = [info EXCEPT ![Kick(c)] = k]
        /\ ready_queue' = Append(ready_queue, Kick(c))
    BY <1>1 DEF FinishKickout, KickoutInfo
  <1>4. k.in_queue = "ready"
    BY KickInfoType
  <1>5. /\ ~Kicked(c) /\ phase[c] \in {"active", "inactive"}
        /\ info[e].in_queue = "none" /\ info[e].running_count = 0
        /\ info[Kick(c)].in_queue = "none" /\ ~(info[Kick(c)].refs > 0)
    <2>1. Kicking(c)
      BY <1>0, <1>1 DEF Kicking
    <2>2. ~Kicked(c)
      BY <1>2, <2>1 DEF CallbackOK, KickoutOK
    <2> QED BY <1>2, <2>1, <2>2 DEF CallbackOK, KickoutOK, Kicked
  <1>6. thread'[t].e = <<>> /\ \A u \in Threads \ {t} : WokenFrom(thread[u], thread'[u])
    BY <1>0, AfterLeaves
  <1> HIDE DEF e, k
  <1>7. /\ \A f \in Entries : f # e => SameThreads(f) /\ SameKick(f)
        /\ In(e)' \ {t} = In(e) \ {t} /\ Rel(e)' \ {t} = Rel(e) \ {t}
        /\ \A u \in Threads \ {t} : thread'[u].e = e <=> thread[u].e = e
        /\ \A u \in Threads \ {t} : thread'[u].e = e =>
             thread'[u].own = thread[u].own /\
             (thread'[u].pc # thread[u].pc =>
                thread[u].pc = "ownwait" /\ thread'[u].pc = "ownwoken")
    <2>1. thread[t].e \in {e, <<>>} /\ thread'[t].e \in {e, <<>>}
      BY <1>1, <1>6 DEF e
    <2> QED BY <1>2, <1>6, <2>1, OneEntry
  <1>8. /\ info'[Kick(c)] = k /\ \A f \in Entries : f # Kick(c) => info'[f] = info[f]
    BY <1>0, <1>2, <1>3
  <1>9. QueuesAgree'
    BY <1>0, <1>2, <1>3, <1>4, <1>5, <1>8, QueuesAdd
  <1>10. In(e) = {}
    BY <1>2, <1>5, NotRunning
  <1>11. In(e)' = {}
    <2>1. t \notin In(e)' /\ In(e)' \ {t} = In(e) \ {t}
      BY <1>2, <1>6, <1>7 DEF In
    <2> QED BY <1>10, <2>1
  <1>12. t \in Rel(e) /\ Rel(e)' = Rel(e) \ {t} /\ Rel(e) \in SUBSET Threads
    <2>1. t \in Rel(e) /\ t \notin Rel(e)' /\ Rel(e) \in SUBSET Threads
      BY <1>0, <1>1, <1>2, <1>6 DEF Rel, e
    <2>2. Rel(e)' \ {t} = Rel(e) \ {t}
      BY <1>7
    <2> QED BY <2>1, <2>2
  <1>13. info'[e].refs = 1 + Cardinality(Rel(e)')
    <2>1. Cardinality(Rel(e)) \in Nat /\ Cardinality(Rel(e)') = Cardinality(Rel(e)) - 1
      BY <1>12, OneLess, ThreadSet
    <2>2. /\ B(phase[c] = "live" /\ c \notin NoHandle) = 0
          /\ B(info[e].in_queue # "none" \/ info[e].running_count > 0) = 0
          /\ B(info[Kick(c)].refs > 0 /\ notified[c] = 0) = 0
      BY <1>5 DEF B
    <2>3. info[e].refs = Cardinality(Rel(e))
      BY <1>2, <2>1, <2>2 DEF CallbackOK, RefsOK, e
    <2> QED BY <1>2, <1>8, <2>1, <2>3
  <1>14. EntryOK(e)'
    <2>1. /\ Cardinality(In(e)') = 0 /\ Cardinality(Threads) \in Nat
      BY <1>11, FS_EmptySet, ThreadSet
    <2>2. info'[e].in_queue = "none" /\ info'[e].running_count = 0
      BY <1>2, <1>5, <1>8
    <2> QED BY <1>11, <2>1, <2>2 DEF EntryOK
  <1>15. \A u \in Threads : ~(thread'[u].e = e /\ thread'[u].pc = "kick")
    <2>1. \A u \in Threads : thread[u].e = e /\ thread[u].pc = "kick" => u = t
      BY <1>0, <1>1, <1>2 DEF CallbackOK, KickoutOK, e
    <2> QED BY <1>2, <1>6, <1>7, <2>1
  <1>16. CallbackOK(c)'
    BY <1>0, <1>2, <1>5, <1>7, <1>8, <1>13, <1>14, <1>15, KickoutStarts DEF e, k
  <1>17. \A f \in Entries : f # Cb(c) /\ f # Kick(c) =>
            SameInfo(f) /\ SameThreads(f) /\ SameKick(f)
    BY <1>7, <1>8 DEF SameInfo, e
  <1> QED BY <1>0, <1>9, <1>16, <1>17, OtherCallbacks

\* finish_callback drops the library's reference.
LEMMA FinishDecRefRefs ==
    ASSUME CallbackCore, ThreadCore', NEW t \in Threads, FinishDecRef(t)
    PROVE  QueuesAgree' /\ \A c \in Callbacks : CallbackOK(c)'
  <1>0. /\ thread[t] \in ThreadRecs /\ ShapeOf(thread[t]) /\ thread[t].pc = "decref"
        /\ info \in [Entries -> InfoRecs] /\ ThreadCore /\ QueuesAgree
        /\ UNCHANGED <<space, shutdown, phase, notified>> /\ thread' = After(thread, t)
    BY DEF CallbackCore, ThreadCore, Types, Shape, FinishDecRef
  <1>1. PICK e \in Entries : thread[t].e = e
    BY <1>0 DEF ShapeOf, IdlePcs, ThreadRecs
  <1>2. /\ \A f \in Entries \ {e} : info'[f] = info[f]
        /\ info'[e].running_count = info[e].running_count
        /\ info'[e].in_queue = info[e].in_queue
        /\ info'[e].is_periodic = info[e].is_periodic
        /\ info'[e].unregister_callback = info[e].unregister_callback
        /\ info'[e].refs = info[e].refs - 1
    BY <1>0, <1>1, DropInfo DEF FinishDecRef
  <1>3. thread'[t].e = <<>> /\ \A u \in Threads \ {t} : WokenFrom(thread[u], thread'[u])
    BY <1>0, AfterLeaves
  <1>4. /\ \A f \in Entries : f # e => SameThreads(f) /\ SameKick(f)
        /\ In(e)' \ {t} = In(e) \ {t} /\ Rel(e)' \ {t} = Rel(e) \ {t}
        /\ \A u \in In(e) \ {t} : thread'[u].restarted = thread[u].restarted
        /\ \A u \in Threads \ {t} : thread'[u].e = e <=> thread[u].e = e
        /\ \A u \in Threads \ {t} : thread'[u].e = e =>
             thread'[u].own = thread[u].own /\
             (thread'[u].pc # thread[u].pc =>
                thread[u].pc = "ownwait" /\ thread'[u].pc = "ownwoken")
    <2>1. thread[t].e \in {e, <<>>} /\ thread'[t].e \in {e, <<>>}
      BY <1>1, <1>3
    <2> QED BY <1>3, <2>1, OneEntry
  <1>5. e # <<>>
    BY EntryCases
  <1>6. In(e)' = In(e) /\ t \notin In(e)
    <2>1. t \notin In(e)' /\ t \notin In(e)
      BY <1>0, <1>3, <1>5 DEF In, InCall
    <2>2. In(e)' \ {t} = In(e) \ {t}
      BY <1>4
    <2> QED BY <2>1, <2>2
  <1>7. t \in Rel(e) /\ Rel(e)' = Rel(e) \ {t} /\ Rel(e) \in SUBSET Threads
    <2>1. t \in Rel(e) /\ t \notin Rel(e)' /\ Rel(e) \in SUBSET Threads
      BY <1>0, <1>1, <1>3, <1>5 DEF Rel
    <2>2. Rel(e)' \ {t} = Rel(e) \ {t}
      BY <1>4
    <2> QED BY <2>1, <2>2
  <1>8. Cardinality(Rel(e)) \in Nat /\ Cardinality(Rel(e)') = Cardinality(Rel(e)) - 1
    BY <1>7, OneLess, ThreadSet
  <1>9. EntryOK(e)'
    <2>1. EntryOK(e)
      BY EntryCases DEF CallbackCore, CallbackOK
    <2>2. \A u \in In(e) : thread'[u].restarted = thread[u].restarted
      BY <1>4, <1>6
    <2> QED BY <1>0, <1>2, <1>6, <2>1, <2>2 DEF EntryOK
  <1>10. QueuesAgree'
    BY <1>0, <1>2, QueuesSame
  <1>11. PICK c \in Callbacks : e = Cb(c) \/ e = Kick(c)
    BY EntryCases
  <1>12. CallbackOK(c) /\ Cb(c) \in Entries /\ Kick(c) \in Entries /\ Cb(c) # Kick(c)
    BY EntriesOf DEF CallbackCore
  <1>13. \A b : B(b) \in Nat
    BY DEF B
  <1>14. ASSUME e = Cb(c) PROVE CallbackOK(c)'
    <2>1. SameInfo(Kick(c)) /\ SameThreads(Kick(c)) /\ SameKick(Kick(c))
      BY <1>2, <1>4, <1>12, <1>14 DEF SameInfo
    <2>2. EntryOK(Kick(c))' /\ Rel(Kick(c))' = Rel(Kick(c))
      BY <1>0, <1>12, <2>1, SameEntry, SameSets DEF CallbackOK
    <2>3. RefsOK(c)'
      <3>1. info[e].refs = B(phase[c] = "live" /\ c \notin NoHandle)
               + B(info[e].in_queue # "none" \/ info[e].running_count > 0)
               + Cardinality(Rel(e))
               + B(info[Kick(c)].refs > 0 /\ notified[c] = 0)
        BY <1>12, <1>14 DEF CallbackOK, RefsOK
      <3>2. info'[e].refs = B(phase'[c] = "live" /\ c \notin NoHandle)
               + B(info'[e].in_queue # "none" \/ info'[e].running_count > 0)
               + Cardinality(Rel(e)')
               + B(info'[Kick(c)].refs > 0 /\ notified'[c] = 0)
        <4> DEFINE b1 == B(phase[c] = "live" /\ c \notin NoHandle)
                   b2 == B(info[e].in_queue # "none" \/ info[e].running_count > 0)
                   b3 == B(info[Kick(c)].refs > 0 /\ notified[c] = 0)
        <4>1. /\ B(phase'[c] = "live" /\ c \notin NoHandle) = b1
              /\ B(info'[e].in_queue # "none" \/ info'[e].running_count > 0) = b2
              /\ B(info'[Kick(c)].refs > 0 /\ notified'[c] = 0) = b3
          BY <1>0, <1>2, <1>12, <1>14
        <4>2. b1 \in Nat /\ b2 \in Nat /\ b3 \in Nat
          BY <1>13
        <4> HIDE DEF b1, b2, b3
        <4>3. info[e].refs = b1 + b2 + Cardinality(Rel(e)) + b3
          BY <3>1 DEF b1, b2, b3
        <4> QED BY <1>2, <1>8, <4>1, <4>2, <4>3
      <3>3. info'[Kick(c)].refs =
              B(info'[Kick(c)].in_queue # "none" \/ info'[Kick(c)].running_count > 0)
                 + Cardinality(Rel(Kick(c))')
        BY <1>2, <1>12, <1>14, <2>2 DEF CallbackOK, RefsOK
      <3> QED BY <1>14, <3>2, <3>3 DEF RefsOK
    <2>4. KickoutOK(c)'
      <3>0. info'[Kick(c)] = info[Kick(c)] /\ notified'[c] = notified[c] /\ phase'[c] = phase[c]
        BY <1>0, <1>2, <1>12, <1>14
      <3>1. Kicked(c)' <=> Kicked(c)
        BY <2>1, <3>0 DEF Kicked, SameThreads
      <3>2. \A u \in Threads : thread'[u].e = Cb(c) /\ thread'[u].pc = "kick" =>
              thread[u].e = Cb(c) /\ thread[u].pc = "kick"
        BY <1>3, <1>4, <1>5, <1>14
      <3>3. Kicking(c)' => Kicking(c)
        BY <3>2 DEF Kicking
      <3>4. phase'[c] = "new" => Rel(Cb(c))' = {}
        BY <1>7, <1>12, <1>14, <3>0 DEF CallbackOK, KickoutOK
      <3>5. /\ info'[Cb(c)].in_queue = info[Cb(c)].in_queue
            /\ info'[Cb(c)].running_count = info[Cb(c)].running_count
            /\ info'[Cb(c)].unregister_callback = info[Cb(c)].unregister_callback
        BY <1>2, <1>14
      <3>6. /\ \A u, v \in Threads : thread'[u].e = Kick(c) /\ thread'[v].e = Kick(c) => u = v
            /\ \A u \in Threads : thread'[u].e = Kick(c) => ~thread'[u].own
            /\ info'[Kick(c)].in_queue # "none" =>
                  notified'[c] = 0 /\ \A u \in Threads : thread'[u].e # Kick(c)
        BY <1>12, <2>1, <3>0 DEF CallbackOK, KickoutOK, SameThreads
      <3>7. \A u \in Threads : thread'[u].e = Kick(c) =>
              \/ thread'[u].pc \in {"run", "respawn"} /\ notified'[c] = 0
              \/ thread'[u].pc \in {"finish", "decref"} /\ notified'[c] = 1
        BY <1>12, <2>1, <3>0 DEF CallbackOK, KickoutOK, SameThreads, SameKick
      <3>8. \A u, v \in Threads : /\ thread'[u].e = Cb(c) /\ thread'[u].pc = "kick"
                                  /\ thread'[v].e = Cb(c) /\ thread'[v].pc = "kick"
                                  => u = v
        BY <1>12, <3>2 DEF CallbackOK, KickoutOK
      <3> QED BY <1>12, <3>0, <3>1, <3>3, <3>4, <3>5, <3>6, <3>7, <3>8 DEF CallbackOK, KickoutOK
    <2> QED BY <1>9, <1>14, <2>2, <2>3, <2>4 DEF CallbackOK
  <1>15. ASSUME e = Kick(c) PROVE CallbackOK(c)'
    <2>1. /\ ~info[e].is_periodic /\ ~info[e].unregister_callback
          /\ notified[c] = 1 /\ info[e].in_queue = "none"
          /\ \A u \in Threads : thread[u].e = e => u = t
      BY <1>0, <1>1, <1>12, <1>15 DEF CallbackOK, KickoutOK
    <2>2. \A u \in Threads : thread'[u].e # e
      BY <1>3, <1>4, <1>5, <2>1
    <2>3. Kicked(c) /\ Kicked(c)'
      BY <1>0, <2>1 DEF Kicked
    <2>4. SameThreads(Cb(c)) /\ info'[Cb(c)] = info[Cb(c)]
      BY <1>2, <1>4, <1>12, <1>15
    <2>5. info'[e].refs = B(info'[e].in_queue # "none" \/ info'[e].running_count > 0)
                            + Cardinality(Rel(e)')
      <3>1. info[e].refs = B(info[e].in_queue # "none" \/ info[e].running_count > 0)
                            + Cardinality(Rel(e))
        BY <1>12, <1>15 DEF CallbackOK, RefsOK
      <3>2. B(info[e].in_queue # "none" \/ info[e].running_count > 0) \in Nat
        BY <1>13
      <3> QED BY <1>2, <1>8, <3>1, <3>2
    <2>6. info'[Cb(c)].refs - B(info'[e].refs > 0 /\ notified'[c] = 0)
             = info[Cb(c)].refs - B(info[e].refs > 0 /\ notified[c] = 0)
      BY <1>0, <2>1, <2>4 DEF B
    <2> QED BY <1>0, <1>2, <1>9, <1>15, <2>1, <2>2, <2>3, <2>4, <2>5, <2>6, KickStep
  <1>16. \A f \in Entries : f # Cb(c) /\ f # Kick(c) =>
            SameInfo(f) /\ SameThreads(f) /\ SameKick(f)
    BY <1>2, <1>4, <1>11 DEF SameInfo
  <1>17. CallbackOK(c)'
    BY <1>11, <1>14, <1>15
  <1> QED BY <1>0, <1>10, <1>16, <1>17, OtherCallbacks

-----------------------------------------------------------------------------
(* The references                                                           *)

\* The invariant holds once the module is activated.
LEMMA InitCallbackCore ==
    ASSUME Init
    PROVE  CallbackCore
  <1>1. ThreadCore
    BY InitCore
  <1>2. /\ NoInfo.in_queue = "none" /\ NoInfo.running_count = 0 /\ ~NoInfo.is_periodic
        /\ ~NoInfo.unregister_callback /\ NoInfo.refs = 0
    BY DEF NoInfo
  <1>3. \A e \in Entries : info[e] = NoInfo
    BY DEF Init
  <1>4. /\ ready_queue = <<>> /\ due_queue = <<>> /\ timed_queue = {}
        /\ \A c \in Callbacks : notified[c] = 0 /\ phase[c] = "new"
    BY DEF Init
  <1>5. \A t \in Threads : thread[t].e = <<>>
    BY NoThreadRec DEF Init, NewPoller, NoThread
  <1>6. QueuesAgree
    <2>1. IsInjective(<<>>) /\ ToSet(<<>>) = {}
      BY DEF IsInjective, ToSet
    <2>2. \A e \in Entries : info[e].in_queue = "none"
      BY <1>2, <1>3
    <2> HIDE DEF NoInfo
    <2> QED BY <1>4, <2>1, <2>2 DEF QueuesAgree
  <1>7. ASSUME NEW c \in Callbacks PROVE CallbackOK(c)
    <2>1. /\ Cb(c) \in Entries /\ Kick(c) \in Entries
          /\ \A t \in Threads : thread[t].e # Cb(c) /\ thread[t].e # Kick(c)
      BY <1>5, EntriesOf, EntryCases
    <2>2. In(Cb(c)) = {} /\ In(Kick(c)) = {} /\ Rel(Cb(c)) = {} /\ Rel(Kick(c)) = {}
      BY <2>1 DEF In, Rel
    <2>3. Cardinality({}) = 0 /\ Cardinality(Threads) \in Nat
      BY FS_EmptySet, ThreadSet
    <2>4. /\ info[Cb(c)].in_queue = "none" /\ info[Cb(c)].running_count = 0
          /\ ~info[Cb(c)].unregister_callback /\ info[Cb(c)].refs = 0
          /\ info[Kick(c)].in_queue = "none" /\ info[Kick(c)].running_count = 0
          /\ ~info[Kick(c)].is_periodic /\ ~info[Kick(c)].unregister_callback
          /\ info[Kick(c)].refs = 0
      BY <1>2, <1>3, <2>1
    <2>5. EntryOK(Cb(c)) /\ EntryOK(Kick(c))
      BY <2>2, <2>3, <2>4 DEF EntryOK
    <2>6. RefsOK(c)
      BY <1>4, <2>2, <2>3, <2>4 DEF RefsOK, B
    <2>7. ~Kicking(c) /\ ~Kicked(c)
      BY <1>4, <2>1, <2>4 DEF Kicking, Kicked
    <2>8. KickoutOK(c)
      BY <1>4, <2>1, <2>2, <2>4, <2>7 DEF KickoutOK
    <2> QED BY <2>5, <2>6, <2>8 DEF CallbackOK
  <1> QED BY <1>1, <1>6, <1>7 DEF CallbackCore

\* Every step keeps CallbackCore.
LEMMA NextCallbackCore ==
    ASSUME ~ResumeBlocked, CallbackCore, [Next]_vars
    PROVE  CallbackCore'
  <1>0. ThreadCore'
    BY NextThreadCore DEF CallbackCore
  <1> SUFFICES QueuesAgree' /\ \A c \in Callbacks : CallbackOK(c)'
    BY <1>0 DEF CallbackCore
  <1>1. CASE \E c \in Callbacks : Program(c)
    <2>1. PICK c \in Callbacks : Program(c)
      BY <1>1
    <2>2. Periods \subseteq {"zero", "own", "long"} /\ "long" \in {"zero", "own", "long"}
      BY CallbackAssumption
    <2>3. CASE \E s \in Starts : Register(c, s, FALSE, "long")
      BY <2>2, <2>3, RegisterRefs
    <2>4. CASE \E s \in Starts, p \in Periods : c \notin Oneshots /\ Register(c, s, TRUE, p)
      BY <2>2, <2>4, RegisterRefs
    <2>5. CASE \E cb \in BOOLEAN : UnregisterActive(c, cb)
      BY <2>5, UnregisterActiveRefs
    <2>6. CASE \E cb \in BOOLEAN : UnregisterInactive(c, cb)
      BY <2>6, UnregisterInactiveRefs
    <2>7. CASE \E q \in {"timed", "ready"} : AdjustOneshot(c, q)
      BY <2>7, AdjustOneshotRefs
    <2>8. CASE Suspend(c)
      BY <2>2, <2>8, AdjustPeriodRefs
    <2>9. CASE \E p \in Periods : Resume(c, p) \/ ResumeRunning(c, p)
      BY <2>2, <2>9, AdjustPeriodRefs
    <2> QED BY <2>1, <2>3, <2>4, <2>5, <2>6, <2>7, <2>8, <2>9 DEF Program
  <1>2. CASE \E e \in Entries : Due(e)
    BY <1>2, DueRefs
  <1>3. CASE \E t \in Threads : ThreadStep(t)
    <2>1. PICK t \in Threads : ThreadStep(t)
      BY <1>3
    <2>2. CASE \/ PollTimeout(t) \/ Return(t) \/ ReturnOwn(t) \/ OwnWake(t)
               \/ Respawn(t) \/ Exit(t)
      BY <2>2, MovesRefs
    <2>3. CASE Poll(t)
      BY <1>0, <2>3, PollRefs
    <2>4. CASE SpawnOwn(t)
      BY <1>0, <2>4, SpawnOwnRefs
    <2>5. CASE CancelKickout(t)
      BY <1>0, <2>5, CancelKickoutRefs
    <2>6. CASE \E q \in {"timed", "ready"} : FinishCallback(t, q)
      BY <1>0, <2>6, FinishCallbackRefs
    <2>7. CASE FinishKickout(t)
      BY <2>7, FinishKickoutRefs
    <2>8. CASE FinishDecRef(t)
      BY <1>0, <2>8, FinishDecRefRefs
    <2> QED BY <2>1, <2>2, <2>3, <2>4, <2>5, <2>6, <2>7, <2>8 DEF ThreadStep
  <1>4. CASE \E t \in Threads, q \in {"timed", "ready"} : Blocked(t, q)
    BY <1>0, <1>4, BlockedRefs
  <1>5. CASE \E t \in Threads : OwnWaitAgain(t)
    BY <1>5, MovesRefs
  <1>6. CASE Deactivate
    BY <1>6, DeactivateRefs
  <1>7. CASE UNCHANGED vars
    <2>1. UNCHANGED <<info, space, thread, phase, notified, shutdown>>
      BY <1>7 DEF vars, space
    <2>2. \A e \in Entries : SameInfo(e) /\ SameThreads(e) /\ SameKick(e)
      BY <2>1 DEF SameInfo, SameThreads, SameKick
    <2>3. QueuesAgree'
      BY <2>1, QueuesSame DEF CallbackCore
    <2>4. \A c \in Callbacks : SameKick(Kick(c))
      BY <2>2, EntriesOf
    <2> QED BY <2>1, <2>2, <2>3, <2>4, AllCallbacks
  <1> QED BY <1>1, <1>2, <1>3, <1>4, <1>5, <1>6, <1>7 DEF Next

\* What CallbackInvariant says follows from CallbackCore.
LEMMA CoreInvariant ==
    ASSUME CallbackCore
    PROVE  CallbackInvariant
  <1>1. RefsAccounted
    BY DEF CallbackCore, CallbackOK, RefsOK, Rel, RefsAccounted
  <1>2. \A b : B(b) \in Nat
    BY DEF B
  <1>3. ASSUME NEW e \in Entries
        PROVE  info[e].refs \in Nat /\ info[e].running_count \in 0 .. Cardinality(Threads)
    <2>1. PICK c \in Callbacks : e = Cb(c) \/ e = Kick(c)
      BY EntryCases
    <2>2. CallbackOK(c)
      BY DEF CallbackCore
    <2>3. info[e].running_count \in 0 .. Cardinality(Threads)
      BY <2>1, <2>2 DEF CallbackOK, EntryOK
    <2>4. Cardinality(Rel(Cb(c))) \in Nat /\ Cardinality(Rel(Kick(c))) \in Nat
      <3>1. Rel(Cb(c)) \in SUBSET Threads /\ Rel(Kick(c)) \in SUBSET Threads
        BY DEF Rel
      <3> QED BY <3>1, ThreadSet
    <2>5. info[Cb(c)].refs \in Nat
      <3> DEFINE b1 == B(phase[c] = "live" /\ c \notin NoHandle)
                 b2 == B(info[Cb(c)].in_queue # "none" \/ info[Cb(c)].running_count > 0)
                 b3 == B(info[Kick(c)].refs > 0 /\ notified[c] = 0)
      <3>1. info[Cb(c)].refs = b1 + b2 + Cardinality(Rel(Cb(c))) + b3
        BY <2>2 DEF CallbackOK, RefsOK
      <3>2. b1 \in Nat /\ b2 \in Nat /\ b3 \in Nat
        BY <1>2
      <3> HIDE DEF b1, b2, b3
      <3> QED BY <2>4, <3>1, <3>2
    <2>6. info[Kick(c)].refs \in Nat
      <3> DEFINE b1 == B(info[Kick(c)].in_queue # "none" \/ info[Kick(c)].running_count > 0)
      <3>1. info[Kick(c)].refs = b1 + Cardinality(Rel(Kick(c)))
        BY <2>2 DEF CallbackOK, RefsOK
      <3>2. b1 \in Nat
        BY <1>2
      <3> HIDE DEF b1
      <3> QED BY <2>4, <3>1, <3>2
    <2> QED BY <2>1, <2>3, <2>5, <2>6
  <1> DEFINE R == [in_queue : {"none", "timed", "ready"},
                   running_count : 0 .. Cardinality(Threads),
                   is_periodic : BOOLEAN,
                   period : {"zero", "own", "long"},
                   unregister_callback : BOOLEAN,
                   refs : Nat]
  <1>4. info \in [Entries -> R]
    <2>1. info \in [Entries -> InfoRecs]
      BY DEF CallbackCore, ThreadCore, Types
    <2>2. ASSUME NEW e \in Entries PROVE info[e] \in R
      BY <1>3, <2>1 DEF InfoRecs
    <2> HIDE DEF R
    <2> QED BY <2>1, <2>2
  <1>5. thread_count \in 0 .. Cardinality(Threads)
    <2> DEFINE S == {t \in Threads : thread[t].pc # "none"}
    <2>1. S \in SUBSET Threads /\ thread_count = Cardinality(S)
      BY DEF CallbackCore, ThreadCore, PollersKept
    <2> HIDE DEF S
    <2> QED BY <2>1, ThreadSet
  <1>6. thread \in [Threads ->
           [pc : {"none", "poll", "wait", "timedwait", "woken", "run", "ret",
                  "respawn", "finish", "kick", "decref", "spawn", "ownwait",
                  "ownwoken", "exit"},
            own : BOOLEAN, restarted : BOOLEAN, e : Entries \cup {<<>>}]]
    <2>1. thread \in [Threads -> ThreadRecs]
      BY DEF CallbackCore, ThreadCore, Types
    <2> QED BY <2>1 DEF ThreadRecs, IdlePcs, InCall, Dropping
  <1>7. TypeOK
    BY <1>4, <1>5, <1>6 DEF TypeOK, CallbackCore, ThreadCore, Types
  <1> QED BY <1>1, <1>7 DEF CallbackInvariant

\* As long as no program resumes a periodic whose only invocations are
\* blocked, the reference count of every callback is exactly the number of
\* those that will still use it, for any number of callbacks and threads and
\* through every race of unregister, adjust and the end of an invocation
\* (register, unregister, adjust_period, finish_callback, cancel_kickout_cb).
THEOREM RefsAreAccounted ==
    ASSUME ~ResumeBlocked
    PROVE  Spec => []CallbackInvariant
  <1>1. Init => CallbackCore
    BY InitCallbackCore
  <1>2. CallbackCore /\ [Next]_vars => CallbackCore'
    BY NextCallbackCore
  <1>3. CallbackCore => CallbackInvariant
    BY CoreInvariant
  <1> QED BY <1>1, <1>2, <1>3, PTL DEF Spec

-----------------------------------------------------------------------------
(* The library implements its service                                       *)

\* The threads that execute the program's function of c, and how many.
Exec(c) == {t \in Threads : thread[t].e = Cb(c) /\ thread[t].pc \in {"run", "respawn"}}
\* the abstract state: invocations that are under way
Executing == [c \in Callbacks |-> Cardinality(Exec(c))]

\* What no step undoes.
Worse == shutdown \/ stolen => shutdown' \/ stolen'

SameExec(c) == Exec(c)' = Exec(c)

\* A step the service does not show, or shows as an impairment.
LEMMA ServiceSame ==
    ASSUME UNCHANGED <<phase, notified>>, Worse, \A c \in Callbacks : SameExec(c)
    PROVE  Service!Next
  <1>1. Executing' = Executing
    BY DEF Executing, SameExec
  <1> QED BY <1>1 DEF Service!Next, Service!Impair, Service!Worsens, Worse, Executing, Exec

\* The program's registration.
LEMMA ServiceRegister ==
    ASSUME NEW c \in Callbacks, phase[c] = "new", phase' = [phase EXCEPT ![c] = "live"],
           UNCHANGED notified, Worse, \A d \in Callbacks : SameExec(d)
    PROVE  Service!Next
  <1>1. Executing' = Executing
    BY DEF Executing, SameExec
  <1>2. Service!Register(c)
    BY <1>1 DEF Service!Register, Service!Worsens, Worse, Executing, Exec
  <1> QED BY <1>2 DEF Service!Next

\* The program's unregistration.
LEMMA ServiceUnregister ==
    ASSUME NEW c \in Callbacks, phase[c] = "live",
           NEW p \in {"active", "draining", "inactive", "released"},
           p \in {"inactive", "released"} => Exec(c) = {},
           phase' = [phase EXCEPT ![c] = p],
           UNCHANGED notified, Worse, \A d \in Callbacks : SameExec(d)
    PROVE  Service!Next
  <1>1. Executing' = Executing
    BY DEF Executing, SameExec
  <1>2. p \in {"inactive", "released"} => Executing[c] = 0
    BY FS_EmptySet DEF Executing
  <1>3. Service!Unregister(c)
    BY <1>1, <1>2 DEF Service!Unregister, Service!Worsens, Worse, Executing, Exec
  <1> QED BY <1>3 DEF Service!Next

\* The unregister callback.
LEMMA ServiceNotify ==
    ASSUME NEW c \in Callbacks, phase[c] \in {"active", "inactive"}, Exec(c) = {},
           notified[c] = 0, notified' = [notified EXCEPT ![c] = 1],
           UNCHANGED phase, Worse, \A d \in Callbacks : SameExec(d)
    PROVE  Service!Next
  <1>1. Executing' = Executing
    BY DEF Executing, SameExec
  <1>2. Executing[c] = 0
    BY FS_EmptySet DEF Executing
  <1>3. Service!Notify(c)
    BY <1>1, <1>2 DEF Service!Notify, Service!Worsens, Worse, Executing, Exec
  <1> QED BY <1>3 DEF Service!Next

\* A thread enters the program's function.
LEMMA ServiceEnter ==
    ASSUME NEW c \in Callbacks, phase[c] \in {"live", "active", "draining"},
           notified[c] = 0, NEW t \in Threads, t \notin Exec(c), Exec(c)' = Exec(c) \cup {t},
           \A d \in Callbacks : d # c => SameExec(d), UNCHANGED <<phase, notified>>, Worse
    PROVE  Service!Next
  <1>1. Cardinality(Exec(c)') = Cardinality(Exec(c)) + 1
    <2>1. Exec(c) \in SUBSET Threads /\ t \in Threads \ Exec(c)
      BY DEF Exec
    <2> QED BY <2>1, OneMore
  <1>2. Executing' = [Executing EXCEPT ![c] = Executing[c] + 1]
    <2>1. \A d \in Callbacks : d # c => Cardinality(Exec(d)') = Cardinality(Exec(d))
      BY DEF SameExec
    <2> QED BY <1>1, <2>1 DEF Executing
  <1>3. Service!Enter(c)
    BY <1>2 DEF Service!Enter, Service!Worsens, Worse, Executing, Exec
  <1> QED BY <1>3 DEF Service!Next

\* A thread returns from the program's function.
LEMMA ServiceLeave ==
    ASSUME NEW c \in Callbacks, NEW t \in Exec(c), Exec(c)' = Exec(c) \ {t},
           \A d \in Callbacks : d # c => SameExec(d), UNCHANGED <<phase, notified>>, Worse
    PROVE  Service!Next
  <1>1. /\ Cardinality(Exec(c)') = Cardinality(Exec(c)) - 1
        /\ Cardinality(Exec(c)) >= 1 /\ Cardinality(Exec(c)) \in Nat
    <2>1. Exec(c) \in SUBSET Threads
      BY DEF Exec
    <2> QED BY <2>1, OneLess, ThreadSet
  <1>2. Executing' = [Executing EXCEPT ![c] = Executing[c] - 1]
    <2>1. \A d \in Callbacks : d # c => Cardinality(Exec(d)') = Cardinality(Exec(d))
      BY DEF SameExec
    <2> QED BY <1>1, <2>1 DEF Executing
  <1>3. Executing[c] > 0
    <2>1. Executing[c] = Cardinality(Exec(c))
      BY DEF Executing
    <2> QED BY <1>1, <2>1
  <1>4. Service!Leave(c)
    BY <1>2, <1>3 DEF Service!Leave, Service!Worsens, Worse, Executing, Exec
  <1> QED BY <1>4 DEF Service!Next

\* Threads outside T are at most woken: they execute what they executed.
LEMMA ExecSame ==
    ASSUME NEW c \in Callbacks, NEW T,
           \A t \in Threads \ T : WokenFrom(thread[t], thread'[t])
    PROVE  Exec(c)' \ T = Exec(c) \ T
  BY DEF Exec, WokenFrom

\* Every step of the library that executes no callback.
LEMMA QuietSteps ==
    ASSUME ThreadCore, NEW t \in Threads,
           \A u \in Threads \ {t} : WokenFrom(thread[u], thread'[u]),
           \A c \in Callbacks : t \in Exec(c) <=> t \in Exec(c)'
    PROVE  \A c \in Callbacks : SameExec(c)
  <1> SUFFICES ASSUME NEW c \in Callbacks PROVE SameExec(c)
    OBVIOUS
  <1>1. Exec(c)' \ {t} = Exec(c) \ {t}
    BY ExecSame
  <1> QED BY <1>1 DEF SameExec

\* A callback a thread is in may be entered again.
LEMMA MayEnter ==
    ASSUME CallbackCore, NEW c \in Callbacks,
           info[Cb(c)].in_queue # "none" \/ info[Cb(c)].running_count > 0
    PROVE  phase[c] \in {"live", "active", "draining"} /\ notified[c] = 0
  <1>1. notified[c] = 0
    BY NoKickout
  <1>2. CallbackOK(c) /\ info[Cb(c)].running_count \in Int
    BY DEF CallbackCore, CallbackOK, EntryOK
  <1>3. phase[c] \notin {"new", "inactive", "released"}
    BY <1>2 DEF CallbackOK, KickoutOK
  <1>4. phase[c] \in {"new", "live", "inactive", "active", "released", "draining"}
    BY DEF CallbackCore, ThreadCore, Types
  <1> QED BY <1>1, <1>3, <1>4

\* Nobody executes a callback whose count is zero.
LEMMA NotExecuting ==
    ASSUME CallbackCore, NEW c \in Callbacks, info[Cb(c)].running_count = 0
    PROVE  Exec(c) = {}
  <1>1. In(Cb(c)) = {}
    BY EntriesOf, NotRunning
  <1> QED BY <1>1 DEF In, Exec, InCall

\* The program's calls, as steps of the service.
LEMMA ProgramService ==
    ASSUME CallbackCore, NEW c \in Callbacks, Program(c)
    PROVE  Service!Next
  <1>0. thread \in [Threads -> ThreadRecs] /\ stolen \in BOOLEAN
    BY DEF CallbackCore, ThreadCore, Types
  <1>1. Signal(thread) \/ UNCHANGED <<thread, stolen>>
    BY DEF Program, Register, UnregisterActive, UnregisterInactive, AdjustOneshot,
           Suspend, Resume, ResumeRunning
  <1>2. (\A t \in Threads : WokenFrom(thread[t], thread'[t])) /\ (stolen => stolen')
    BY <1>0, <1>1, SignalEffect DEF WokenFrom
  <1>3. UNCHANGED <<shutdown, notified>>
    BY DEF Program, Register, UnregisterActive, UnregisterInactive, AdjustOneshot,
           Suspend, Resume, ResumeRunning, Adjust
  <1>4. Worse
    BY <1>2, <1>3 DEF Worse
  <1>5. \A d \in Callbacks : SameExec(d)
    <2>1. \A d \in Callbacks : Exec(d)' \ {} = Exec(d) \ {}
      BY <1>2, ExecSame
    <2> QED BY <2>1 DEF SameExec
  <1>6. CASE \E s \in Starts, b \in BOOLEAN, p \in Periods \cup {"long"} : Register(c, s, b, p)
    <2>1. phase[c] = "new" /\ phase' = [phase EXCEPT ![c] = "live"]
      BY <1>6 DEF Register
    <2> QED BY <1>3, <1>4, <1>5, <2>1, ServiceRegister
  <1>7. CASE \E cb \in BOOLEAN : UnregisterActive(c, cb)
    <2>1. PICK p \in {"active", "draining"} :
            phase[c] = "live" /\ phase' = [phase EXCEPT ![c] = p]
      BY <1>7 DEF UnregisterActive, HasHandle
    <2>2. p \in {"active", "draining", "inactive", "released"}
            /\ p \notin {"inactive", "released"}
      BY <2>1
    <2> QED BY <1>3, <1>4, <1>5, <2>1, <2>2, ServiceUnregister
  <1>8. CASE \E cb \in BOOLEAN : UnregisterInactive(c, cb)
    <2>1. PICK p \in {"inactive", "released"} :
            /\ phase[c] = "live" /\ phase' = [phase EXCEPT ![c] = p]
            /\ info[Cb(c)].running_count = 0
      BY <1>8 DEF UnregisterInactive, HasHandle
    <2>2. p \in {"active", "draining", "inactive", "released"} /\ Exec(c) = {}
      BY <2>1, NotExecuting
    <2> QED BY <1>3, <1>4, <1>5, <2>1, <2>2, ServiceUnregister
  <1>9. CASE \/ \E q \in {"timed", "ready"} : AdjustOneshot(c, q)
             \/ Suspend(c)
             \/ \E p \in Periods : Resume(c, p) \/ ResumeRunning(c, p)
    <2>1. UNCHANGED phase
      BY <1>9 DEF AdjustOneshot, Suspend, Resume, ResumeRunning, Adjust
    <2> QED BY <1>3, <1>4, <1>5, <2>1, ServiceSame
  <1> QED BY <1>6, <1>7, <1>8, <1>9 DEF Program

\* The thread t enters c, or comes back to it from its wait.
LEMMA EnterService ==
    ASSUME CallbackCore, NEW c \in Callbacks, NEW t \in Threads, Worse,
           \A u \in Threads \ {t} : thread'[u] = thread[u],
           thread[t].e = Cb(c) \/ thread[t].e = <<>>, thread[t].pc \notin {"run", "respawn"},
           thread'[t].e = Cb(c), thread'[t].pc = "run",
           info[Cb(c)].in_queue # "none" \/ info[Cb(c)].running_count > 0,
           UNCHANGED <<phase, notified>>
    PROVE  Service!Next
  <1>1. phase[c] \in {"live", "active", "draining"} /\ notified[c] = 0
    BY MayEnter
  <1>2. t \notin Exec(c) /\ Exec(c)' = Exec(c) \cup {t}
    BY DEF Exec
  <1>3. ASSUME NEW d \in Callbacks, d # c PROVE SameExec(d)
    <2>1. Cb(d) # Cb(c)
      BY <1>3 DEF Cb
    <2> QED BY <2>1 DEF SameExec, Exec
  <1> QED BY <1>1, <1>2, <1>3, ServiceEnter

\* The thread t returns from c.
LEMMA LeaveService ==
    ASSUME NEW c \in Callbacks, NEW t \in Threads, Worse,
           \A u \in Threads \ {t} : thread'[u] = thread[u],
           thread[t].e = Cb(c), thread'[t].e = Cb(c), thread[t].pc = "run",
           thread'[t].pc \in {"finish", "ownwait"}, UNCHANGED <<phase, notified>>
    PROVE  Service!Next
  <1>1. t \in Exec(c) /\ Exec(c)' = Exec(c) \ {t}
    BY DEF Exec
  <1>2. ASSUME NEW d \in Callbacks, d # c PROVE SameExec(d)
    <2>1. Cb(d) # Cb(c)
      BY <1>2 DEF Cb
    <2> QED BY <2>1 DEF SameExec, Exec
  <1> QED BY <1>1, <1>2, ServiceLeave

\* A thread that executes nothing before and after a step.
LEMMA IdleService ==
    ASSUME CallbackCore, NEW t \in Threads, Worse, UNCHANGED <<phase, notified>>,
           \A u \in Threads \ {t} : WokenFrom(thread[u], thread'[u]),
           \/ /\ thread[t].pc \notin {"run", "respawn"}
              /\ \/ thread'[t].pc \notin {"run", "respawn"}
                 \/ thread'[t].e = <<>>
                 \/ \E c \in Callbacks : thread'[t].e = Kick(c)
           \/ /\ thread[t].pc \in {"run", "respawn"} /\ thread'[t].pc \in {"run", "respawn"}
              /\ thread'[t].e = thread[t].e
    PROVE  Service!Next
  <1>1. \A c, d \in Callbacks : Cb(c) # Kick(d) /\ Cb(c) # <<>>
    BY DEF Cb, Kick
  <1>2. \A c \in Callbacks : t \in Exec(c) <=> t \in Exec(c)'
    BY <1>1 DEF Exec
  <1>3. \A c \in Callbacks : SameExec(c)
    BY <1>2, QuietSteps DEF CallbackCore
  <1> QED BY <1>3, ServiceSame

\* One turn of the polling loop, as a step of the service.
LEMMA PollService ==
    ASSUME CallbackCore, NEW t \in Threads, Poll(t)
    PROVE  Service!Next
  <1> DEFINE q == ready_queue \o due_queue
  <1>0. /\ thread[t] \in ThreadRecs /\ thread[t].pc \in {"poll", "woken"}
        /\ thread[t].e = <<>> /\ thread \in [Threads -> ThreadRecs]
        /\ info \in [Entries -> InfoRecs] /\ UNCHANGED <<shutdown, stolen, phase, notified>>
    BY DEF CallbackCore, ThreadCore, Types, Shape, Poll, ShapeOf, IdlePcs
  <1>1. Worse
    BY <1>0 DEF Worse
  <1>2. CASE shutdown \/ q = <<>>
    <2>1. \E pc \in {"exit", "wait", "timedwait"} : thread' = [thread EXCEPT ![t].pc = pc]
      BY <1>2 DEF Poll
    <2>2. /\ thread'[t].pc \notin {"run", "respawn"}
          /\ \A u \in Threads \ {t} : WokenFrom(thread[u], thread'[u])
      BY <1>0, <2>1 DEF ThreadRecs, WokenFrom
    <2> QED BY <1>0, <1>1, <2>2, IdleService
  <1>3. CASE ~shutdown /\ q # <<>>
    <2>1. /\ q \in Seq(Entries) /\ IsInjective(q)
          /\ \A f \in Entries :
               /\ f \in ToSet(q) <=> DueReady(info)[f].in_queue = "ready"
               /\ DueReady(info)[f].in_queue = "none" <=> info[f].in_queue = "none"
          /\ ToSet(q) \subseteq Entries
      BY <1>0, QueuesDue DEF CallbackCore
    <2>2. PICK e \in Entries : e = Head(q) /\ e \in ToSet(q)
      BY <1>3, <2>1, QueueTail
    <2>3. info[e].in_queue # "none"
      BY <2>1, <2>2
    <2>4. \E pc \in {"spawn", "run"} : thread' = [thread EXCEPT ![t].e = e, ![t].pc = pc]
      BY <1>3, <2>2 DEF Poll
    <2>5. PICK pc \in {"spawn", "run"} :
            thread' = [thread EXCEPT ![t] = [thread[t] EXCEPT !.e = e, !.pc = pc]]
      BY <1>0, <2>4
    <2>6. /\ thread'[t].e = e /\ thread'[t].pc = pc
          /\ \A u \in Threads \ {t} : thread'[u] = thread[u]
      BY <1>0, <2>5 DEF ThreadRecs
    <2>7. \A u \in Threads \ {t} : WokenFrom(thread[u], thread'[u])
      BY <2>6 DEF WokenFrom
    <2>8. PICK c \in Callbacks : e = Cb(c) \/ e = Kick(c)
      BY EntryCases
    <2>9. CASE e = Cb(c) /\ pc = "run"
      BY <1>0, <1>1, <2>3, <2>6, <2>9, EnterService
    <2>10. CASE e = Kick(c) \/ pc = "spawn"
      BY <1>0, <1>1, <2>6, <2>7, <2>10, IdleService
    <2> QED BY <2>5, <2>8, <2>9, <2>10
  <1> QED BY <1>2, <1>3

\* A thread other than the one that moves is started, or none is.
LEMMA SpawnService ==
    ASSUME CallbackCore, NEW t \in Threads, SpawnOwn(t) \/ Respawn(t)
    PROVE  Service!Next
  <1>0. /\ thread[t] \in ThreadRecs /\ ShapeOf(thread[t])
        /\ thread \in [Threads -> ThreadRecs] /\ shutdown \in BOOLEAN
        /\ \A u \in Threads : ShapeOf(thread[u]) /\ thread[u] \in ThreadRecs
        /\ UNCHANGED <<info, shutdown, stolen, phase, notified>>
    BY DEF CallbackCore, ThreadCore, Types, Shape, SpawnOwn, Respawn
  <1>1. Worse
    BY <1>0 DEF Worse
  <1>2. CASE SpawnOwn(t)
    <2>1. thread[t].pc = "spawn"
      BY <1>2 DEF SpawnOwn
    <2>2. PICK e \in Entries : thread[t].e = e
      BY <1>0, <2>1 DEF ShapeOf, IdlePcs, ThreadRecs
    <2>3. PICK c \in Callbacks : e = Cb(c) \/ e = Kick(c)
      BY EntryCases
    <2>4. e # Kick(c)
      BY <2>1, <2>2 DEF CallbackCore, CallbackOK, KickoutOK
    <2>5. CASE shutdown
      <3>1. thread' = [thread EXCEPT ![t] = [thread[t] EXCEPT !.pc = "poll", !.e = <<>>]]
        BY <1>0, <1>2, <2>5 DEF SpawnOwn
      <3>2. /\ thread'[t].pc = "poll"
            /\ \A u \in Threads \ {t} : WokenFrom(thread[u], thread'[u])
        BY <1>0, <3>1 DEF ThreadRecs, WokenFrom
      <3> QED BY <1>0, <1>1, <2>1, <3>2, IdleService
    <2>6. CASE ~shutdown
      <3> DEFINE s == [NoThread EXCEPT !.pc = "run", !.own = TRUE, !.e = e]
      <3>1. PICK n \in Threads :
              /\ thread[n].pc = "none"
              /\ thread' = [thread EXCEPT
                    ![t] = [thread[t] EXCEPT !.pc = "poll", !.e = <<>>], ![n] = s]
        BY <1>0, <1>2, <2>2, <2>6 DEF SpawnOwn
      <3>2. s.pc = "run" /\ s.e = e
        BY DEF NoThread
      <3>3. t # n /\ thread[n].e = <<>>
        BY <1>0, <2>1, <3>1 DEF ShapeOf, IdlePcs
      <3> HIDE DEF s
      <3>4. /\ thread'[t].e = <<>> /\ thread'[n] = s
            /\ \A u \in Threads \ {t, n} : thread'[u] = thread[u]
        BY <1>0, <3>1, <3>3 DEF ThreadRecs
      <3>5. phase[c] \in {"live", "active", "draining"} /\ notified[c] = 0
        <4>1. t \in In(e)
          BY <2>1, <2>2 DEF In, InCall
        <4>2. info[e].running_count > 0
          BY <4>1, InsideCounts
        <4> QED BY <2>3, <2>4, <4>2, MayEnter
      <3>6. n \notin Exec(c) /\ Exec(c)' = Exec(c) \cup {n}
        <4>1. Cb(c) # <<>> /\ e = Cb(c)
          BY <2>3, <2>4 DEF Cb
        <4> QED BY <2>1, <3>1, <3>2, <3>4, <4>1 DEF Exec
      <3>7. ASSUME NEW d \in Callbacks, d # c PROVE SameExec(d)
        <4>1. Cb(d) # Cb(c) /\ Cb(d) # <<>>
          BY <3>7 DEF Cb
        <4> QED BY <2>1, <2>3, <2>4, <3>1, <3>2, <3>4, <4>1 DEF SameExec, Exec
      <3> QED BY <1>0, <1>1, <3>5, <3>6, <3>7, ServiceEnter
    <2> QED BY <2>5, <2>6
  <1>3. CASE Respawn(t)
    <2>1. thread[t].pc = "respawn"
      BY <1>3 DEF Respawn
    <2>2. CASE shutdown
      <3>1. thread' = [thread EXCEPT ![t].pc = "run"]
        BY <1>3, <2>2 DEF Respawn
      <3>2. /\ thread'[t].pc = "run" /\ thread'[t].e = thread[t].e
            /\ \A u \in Threads \ {t} : WokenFrom(thread[u], thread'[u])
        BY <1>0, <3>1 DEF ThreadRecs, WokenFrom
      <3> QED BY <1>0, <1>1, <2>1, <3>2, IdleService
    <2>3. CASE ~shutdown
      <3>1. PICK n \in Threads :
              /\ thread[n].pc = "none"
              /\ thread' = [thread EXCEPT ![t].pc = "run", ![n] = NewPoller]
        BY <1>3, <2>3 DEF Respawn
      <3>2. NewPoller.pc = "poll"
        BY DEF NewPoller, NoThread
      <3>3. /\ thread'[t].pc = "run" /\ thread'[t].e = thread[t].e
            /\ thread'[n].pc = "poll" /\ n # t
            /\ \A u \in Threads \ {t, n} : thread'[u] = thread[u]
        BY <1>0, <2>1, <3>1, <3>2 DEF ThreadRecs
      <3>4. \A d \in Callbacks : SameExec(d)
        BY <2>1, <3>1, <3>3 DEF SameExec, Exec
      <3> QED BY <1>0, <1>1, <3>4, ServiceSame
    <2> QED BY <2>2, <2>3
  <1> QED BY <1>2, <1>3

\* The returns of a callback and the wake-ups of a dedicated thread.
LEMMA MoveService ==
    ASSUME CallbackCore, NEW t \in Threads,
           \/ PollTimeout(t) \/ Return(t) \/ ReturnOwn(t) \/ OwnWake(t)
           \/ OwnWaitAgain(t) \/ Exit(t)
    PROVE  Service!Next
  <1>0. /\ thread[t] \in ThreadRecs /\ ShapeOf(thread[t])
        /\ thread \in [Threads -> ThreadRecs]
        /\ UNCHANGED <<shutdown, stolen, phase, notified>>
    BY DEF CallbackCore, ThreadCore, Types, Shape, PollTimeout, Return, ReturnOwn,
           OwnWake, OwnWaitAgain, Exit
  <1>1. Worse
    BY <1>0 DEF Worse
  <1>2. ASSUME thread[t].e # <<>>, ~\E c \in Callbacks : thread[t].e = Kick(c)
        PROVE  \E c \in Callbacks : thread[t].e = Cb(c)
    <2>1. thread[t].e \in Entries
      BY <1>0, <1>2 DEF ThreadRecs
    <2> QED BY <1>2, <2>1, EntryCases
  <1>3. ASSUME NEW pc, thread' = [thread EXCEPT ![t].pc = pc]
        PROVE  /\ thread'[t].pc = pc /\ thread'[t].e = thread[t].e
               /\ \A u \in Threads \ {t} : thread'[u] = thread[u]
               /\ \A u \in Threads \ {t} : WokenFrom(thread[u], thread'[u])
    BY <1>0, <1>3 DEF ThreadRecs, WokenFrom
  <1>4. CASE Return(t)
    <2>1. /\ thread[t].pc = "run" /\ thread' = [thread EXCEPT ![t].pc = "finish"]
          /\ thread[t].e # <<>> /\ ~\E c \in Callbacks : thread[t].e = Kick(c)
      BY <1>0, <1>4 DEF Return, ShapeOf, IdlePcs, Kick
    <2>2. PICK c \in Callbacks : thread[t].e = Cb(c)
      BY <1>2, <2>1
    <2> QED BY <1>0, <1>1, <1>3, <2>1, <2>2, LeaveService
  <1>5. CASE ReturnOwn(t) \/ OwnWake(t)
    <2>1. thread[t].own /\ thread[t].e # <<>>
      BY <1>0, <1>5 DEF ReturnOwn, OwnWake, ShapeOf, IdlePcs
    <2>2. ~\E c \in Callbacks : thread[t].e = Kick(c)
      BY <2>1 DEF CallbackCore, CallbackOK, KickoutOK
    <2>3. PICK c \in Callbacks : thread[t].e = Cb(c)
      BY <1>2, <2>1, <2>2
    <2>4. CASE ReturnOwn(t)
      <3>1. PICK pc \in {"finish", "ownwait"} : thread' = [thread EXCEPT ![t].pc = pc]
        BY <2>4 DEF ReturnOwn
      <3>2. thread[t].pc = "run"
        BY <2>4 DEF ReturnOwn
      <3> QED BY <1>0, <1>1, <1>3, <2>3, <3>1, <3>2, LeaveService
    <2>5. CASE OwnWake(t)
      <3>1. PICK pc \in {"finish", "run"} : thread' = [thread EXCEPT ![t].pc = pc]
        BY <2>5 DEF OwnWake
      <3>2. thread[t].pc \in {"ownwait", "ownwoken"}
        BY <2>5 DEF OwnWake
      <3>3. info[Cb(c)].running_count > 0
        <4>1. t \in In(Cb(c)) /\ Cb(c) \in Entries
          BY <2>3, <3>2, EntriesOf DEF In, InCall
        <4> QED BY <4>1, InsideCounts
      <3>4. CASE pc = "run"
        <4>1. thread[t].pc \notin {"run", "respawn"}
          BY <3>2
        <4> QED BY <1>0, <1>1, <1>3, <2>3, <3>1, <3>3, <3>4, <4>1, EnterService
      <3>5. CASE pc = "finish"
        BY <1>0, <1>1, <1>3, <3>1, <3>2, <3>5, IdleService
      <3> QED BY <3>1, <3>4, <3>5
    <2> QED BY <1>5, <2>4, <2>5
  <1>6. CASE PollTimeout(t) \/ OwnWaitAgain(t)
    <2>1. /\ thread[t].pc \notin {"run", "respawn"}
          /\ \E pc \in {"woken", "ownwait"} : thread' = [thread EXCEPT ![t].pc = pc]
      BY <1>6 DEF PollTimeout, OwnWaitAgain
    <2> QED BY <1>0, <1>1, <1>3, <2>1, IdleService
  <1>7. CASE Exit(t)
    <2>1. thread[t].pc = "exit" /\ thread' = [thread EXCEPT ![t] = NoThread]
      BY <1>7 DEF Exit
    <2>2. thread'[t].pc = "none" /\ \A u \in Threads \ {t} : WokenFrom(thread[u], thread'[u])
      BY <1>0, <2>1, NoThreadRec DEF WokenFrom
    <2> QED BY <1>0, <1>1, <2>1, <2>2, IdleService
  <1> QED BY <1>4, <1>5, <1>6, <1>7

\* The end of an invocation executes nothing.
LEMMA FinishService ==
    ASSUME CallbackCore, NEW t \in Threads, NEW q \in {"timed", "ready"},
           FinishCallback(t, q) \/ FinishKickout(t) \/ FinishDecRef(t)
    PROVE  Service!Next
  <1>0. /\ thread[t] \in ThreadRecs /\ thread \in [Threads -> ThreadRecs]
        /\ stolen \in BOOLEAN /\ ThreadCore
        /\ thread[t].pc \in {"finish", "kick", "decref"}
        /\ UNCHANGED <<shutdown, phase, notified>>
    BY DEF CallbackCore, ThreadCore, Types, FinishCallback, FinishKickout, FinishDecRef
  <1>1. \/ Signal(After(thread, t))
        \/ thread' = After(thread, t) /\ UNCHANGED stolen
        \/ /\ \E pc \in {"kick", "decref"} : thread' = [thread EXCEPT ![t].pc = pc]
           /\ UNCHANGED stolen
    BY DEF FinishCallback, FinishKickout, FinishDecRef
  <1>2. /\ stolen => stolen'
        /\ \A u \in Threads \ {t} : WokenFrom(thread[u], thread'[u])
        /\ thread'[t].e = <<>> \/ thread'[t].pc \notin {"run", "respawn"}
    <2>1. CASE Signal(After(thread, t))
      <3>1. After(thread, t) \in [Threads -> ThreadRecs]
        BY <1>0, AfterShape
      <3>2. stolen => stolen'
        BY <1>0, <2>1, <3>1, SignalEffect
      <3> QED BY <1>0, <2>1, <3>2, AfterLeaves
    <2>2. CASE thread' = After(thread, t) /\ UNCHANGED stolen
      BY <1>0, <2>2, AfterLeaves
    <2>3. CASE /\ \E pc \in {"kick", "decref"} : thread' = [thread EXCEPT ![t].pc = pc]
               /\ UNCHANGED stolen
      BY <1>0, <2>3 DEF WokenFrom, ThreadRecs
    <2> QED BY <1>1, <2>1, <2>2, <2>3
  <1>3. Worse
    BY <1>0, <1>2 DEF Worse
  <1>4. thread[t].pc \notin {"run", "respawn"}
    BY <1>0
  <1> QED BY <1>0, <1>2, <1>3, <1>4, IdleService

\* A callback that blocks goes on executing.
LEMMA BlockedService ==
    ASSUME CallbackCore, NEW t \in Threads, NEW q \in {"timed", "ready"}, Blocked(t, q)
    PROVE  Service!Next
  <1> DEFINE pc == IF thread[t].own THEN "run" ELSE "respawn"
             r == [thread[t] EXCEPT !.restarted = TRUE, !.pc = pc]
             th == [thread EXCEPT ![t] = r]
  <1>0. /\ thread[t] \in ThreadRecs /\ thread[t].pc = "run" /\ stolen \in BOOLEAN
        /\ thread \in [Threads -> ThreadRecs] /\ UNCHANGED <<shutdown, phase, notified>>
    BY DEF CallbackCore, ThreadCore, Types, Blocked
  <1>1. /\ r \in ThreadRecs /\ r.pc = pc /\ r.e = thread[t].e /\ pc \in {"run", "respawn"}
    <2>1. pc \in IdlePcs \cup InCall \cup Dropping /\ pc \in {"run", "respawn"}
      BY DEF InCall
    <2> HIDE DEF pc
    <2> QED BY <1>0, <2>1 DEF ThreadRecs
  <1>2. Signal(th) \/ (thread' = th /\ UNCHANGED stolen)
    <2>1. th = [thread EXCEPT ![t].restarted = TRUE, ![t].pc = pc]
      BY <1>0
    <2> QED BY <2>1 DEF Blocked
  <1> HIDE DEF r, pc
  <1>3. /\ th \in [Threads -> ThreadRecs] /\ th[t] = r
        /\ \A u \in Threads \ {t} : th[u] = thread[u]
    BY <1>0, <1>1
  <1> HIDE DEF th
  <1>4. (\A u \in Threads : WokenFrom(th[u], thread'[u])) /\ (stolen => stolen')
    BY <1>0, <1>2, <1>3, SignalEffect DEF WokenFrom
  <1>5. /\ \A u \in Threads \ {t} : WokenFrom(thread[u], thread'[u])
        /\ WokenFrom(r, thread'[t])
    BY <1>3, <1>4
  <1>6. thread'[t].e = thread[t].e /\ thread'[t].pc \in {"run", "respawn"}
    BY <1>1, <1>5 DEF WokenFrom
  <1>7. Worse
    BY <1>0, <1>4 DEF Worse
  <1>8. thread[t].pc \in {"run", "respawn"}
    BY <1>0
  <1> QED BY <1>0, <1>5, <1>6, <1>7, <1>8, IdleService

\* The kickout notifies the program, once nobody executes the callback.
LEMMA CancelKickoutService ==
    ASSUME CallbackCore, NEW t \in Threads, CancelKickout(t)
    PROVE  Service!Next
  <1>0. /\ thread[t] \in ThreadRecs /\ ShapeOf(thread[t]) /\ thread[t].pc = "run"
        /\ thread \in [Threads -> ThreadRecs] /\ UNCHANGED <<shutdown, stolen, phase>>
        /\ thread' = [thread EXCEPT ![t].pc = "finish"]
    BY DEF CallbackCore, ThreadCore, Types, Shape, CancelKickout
  <1>1. PICK c \in Callbacks : c = thread[t].e[1] /\ thread[t].e = Kick(c)
    <2>1. thread[t].e \in Entries
      BY <1>0 DEF ShapeOf, IdlePcs, ThreadRecs
    <2>2. thread[t].e[1] \in Callbacks
      BY <2>1 DEF Entries
    <2> QED BY <2>2 DEF CancelKickout
  <1>2. CallbackOK(c) /\ Kicked(c)
    BY <1>1 DEF CallbackCore, Kicked
  <1>3. /\ phase[c] \in {"active", "inactive"} /\ info[Cb(c)].running_count = 0
        /\ notified[c] = 0
    BY <1>0, <1>1, <1>2 DEF CallbackOK, KickoutOK
  <1>4. notified' = [notified EXCEPT ![c] = 1]
    <2>1. notified' = [notified EXCEPT ![c] = notified[c] + 1]
      BY <1>1 DEF CancelKickout
    <2>2. notified[c] + 1 = 1
      BY <1>3
    <2> QED BY <2>1, <2>2
  <1>5. \A d \in Callbacks : SameExec(d)
    <2>1. thread'[t].pc = "finish" /\ \A u \in Threads \ {t} : thread'[u] = thread[u]
      BY <1>0 DEF ThreadRecs
    <2>2. \A d \in Callbacks : thread[t].e # Cb(d)
      BY <1>1 DEF Kick, Cb
    <2> QED BY <2>1, <2>2 DEF SameExec, Exec
  <1>6. Worse /\ Exec(c) = {}
    BY <1>0, <1>3, NotExecuting DEF Worse
  <1> QED BY <1>0, <1>3, <1>4, <1>5, <1>6, ServiceNotify

\* Every step of the library is a step of the service, or none.
LEMMA NextService ==
    ASSUME CallbackCore, [Next]_vars
    PROVE  [Service!Next]_(Service!vars)
  <1>1. CASE \E c \in Callbacks : Program(c)
    BY <1>1, ProgramService
  <1>2. CASE \E e \in Entries : Due(e)
    <2>1. UNCHANGED <<thread, shutdown, stolen, phase, notified>>
      BY <1>2 DEF Due
    <2> QED BY <2>1, ServiceSame DEF Worse, SameExec, Exec
  <1>3. CASE \E t \in Threads : ThreadStep(t)
    <2>1. PICK t \in Threads : ThreadStep(t)
      BY <1>3
    <2>2. CASE PollTimeout(t) \/ Return(t) \/ ReturnOwn(t) \/ OwnWake(t) \/ Exit(t)
      BY <2>2, MoveService
    <2>3. CASE Poll(t)
      BY <2>3, PollService
    <2>4. CASE SpawnOwn(t) \/ Respawn(t)
      BY <2>4, SpawnService
    <2>5. CASE CancelKickout(t)
      BY <2>5, CancelKickoutService
    <2>6. CASE \/ \E q \in {"timed", "ready"} : FinishCallback(t, q)
               \/ FinishKickout(t) \/ FinishDecRef(t)
      BY <2>6, FinishService
    <2> QED BY <2>1, <2>2, <2>3, <2>4, <2>5, <2>6 DEF ThreadStep
  <1>4. CASE \E t \in Threads, q \in {"timed", "ready"} : Blocked(t, q)
    BY <1>4, BlockedService
  <1>5. CASE \E t \in Threads : OwnWaitAgain(t)
    BY <1>5, MoveService
  <1>6. CASE Deactivate
    <2>1. \A t \in Threads : WokenFrom(thread[t], thread'[t])
      <3> SUFFICES ASSUME NEW t \in Threads PROVE WokenFrom(thread[t], thread'[t])
        OBVIOUS
      <3>1. thread[t] \in ThreadRecs /\ thread \in [Threads -> ThreadRecs]
        BY DEF CallbackCore, ThreadCore, Types
      <3>2. CASE t \in Waiting(thread)
        <4>1. Wake(thread, t)[t] = [thread[t] EXCEPT !.pc =
                 IF thread[t].pc = "ownwait" THEN "ownwoken" ELSE "woken"]
          BY <3>1 DEF Wake
        <4>2. thread'[t] = Wake(thread, t)[t]
          BY <1>6, <3>2 DEF Deactivate
        <4> QED BY <3>1, <3>2, <4>1, <4>2 DEF WokenFrom, ThreadRecs, Waiting
      <3>3. CASE t \notin Waiting(thread)
        BY <1>6, <3>1, <3>3 DEF Deactivate, WokenFrom
      <3> QED BY <3>2, <3>3
    <2>2. \A c \in Callbacks : Exec(c)' \ {} = Exec(c) \ {}
      BY <2>1, ExecSame
    <2>3. Worse /\ UNCHANGED <<phase, notified>>
      BY <1>6 DEF Deactivate, Worse
    <2>4. \A c \in Callbacks : SameExec(c)
      BY <2>2 DEF SameExec
    <2> QED BY <2>3, <2>4, ServiceSame
  <1>7. CASE UNCHANGED vars
    BY <1>7 DEF vars, Service!vars
  <1> QED BY <1>1, <1>2, <1>3, <1>4, <1>5, <1>6, <1>7 DEF Next

\* The library implements the safety of its service: once unregister has
\* answered that a callback is not active it is never entered, the unregister
\* callback is called at most once, when no thread executes the callback, and
\* nothing is entered after it, for any number of callbacks and threads (unregister,
\* thread_poll, thread_callback, finish_callback, cancel_kickout_cb).
THEOREM LibraryImplementsService ==
    ASSUME ~ResumeBlocked
    PROVE  Spec => Service!Init /\ [][Service!Next]_(Service!vars)
  <1>1. Init => CallbackCore
    BY InitCallbackCore
  <1>2. CallbackCore /\ [Next]_vars => CallbackCore'
    BY NextCallbackCore
  <1>3. Init => Service!Init
    <2> SUFFICES ASSUME Init PROVE Service!Init
      OBVIOUS
    <2>1. \A c \in Callbacks : Exec(c) = {}
      <3>1. \A t \in Threads : thread[t].pc \notin {"run", "respawn"}
        BY NoThreadRec DEF Init, NewPoller, NoThread
      <3> QED BY <3>1 DEF Exec
    <2>2. Executing = [c \in Callbacks |-> 0]
      BY <2>1, FS_EmptySet DEF Executing
    <2> QED BY <2>2 DEF Init, Service!Init, Executing, Exec
  <1>4. CallbackCore /\ [Next]_vars => [Service!Next]_(Service!vars)
    BY NextService
  <1> QED BY <1>1, <1>2, <1>3, <1>4, PTL DEF Spec

=============================================================================
