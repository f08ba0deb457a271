---------------------------- MODULE XioRead_proof ----------------------------
(***************************************************************************)
(* Proofs about XioRead for any finite set of reads.                       *)
(*                                                                         *)
(* ReadInvariant, EofLast and CloseAfterReads hold whether or not the      *)
(* application closes without canceling; AssertionsHold holds when every   *)
(* close cancels.  They rest on ReadCore: what the state says about the    *)
(* counters, and what the dispatcher of the queued reads may rely on.      *)
(***************************************************************************)
EXTENDS XioRead, FiniteSetTheorems, TLAPS

-----------------------------------------------------------------------------
(* The invariant                                                            *)

\* reads the driver has or has answered with data; reads that end with end of
\* file; reads under way; the read the dispatcher took off its queue
Reading == {i \in Reads : pc[i] = "driver" \/ Ended(i, "data")}
Ending == {i \in Reads : pc[i] = "eof" \/ Ended(i, "eof")}
Busy == {i \in Reads : pc[i] # "idle"}
Holding == IF dispatcher = "holding" THEN 1 ELSE 0

ClosingStates == {"CLOSING", "EOF_RECEIVED_AND_CLOSING",
                  "EOF_DELIVERED_AND_CLOSING", "CLOSED"}

\* The counters, with the sets they count named.
Counted ==
  /\ read_operations = Cardinality(Reading) + Holding
  /\ eof_operations = Cardinality(Ending)
  /\ outstanding = Cardinality(Busy)

\* The queue holds each waiting read once.
Queued ==
  /\ ToSet(pending) = {i \in Reads : pc[i] = "pending"}
  /\ IsInjective(pending)

\* A read that is on its way to the application has a result.
HasResult ==
  \A i \in Reads : /\ pc[i] = "eof" => result[i] = "eof"
                   /\ pc[i] \in {"kick", "user"} => result[i] \in {"data", "eof"}

\* An end of file is called back only while read_operations is 0.
EofHeld == \A i \in Reads : Ended(i, "eof") => read_operations = 0

\* What the state says about the counters.
StateSays ==
  /\ state \in {"OPEN", "CLOSING", "CLOSED"} => eof_operations = 0
  /\ state = "EOF_DELIVERED" => read_operations = 0 /\ eof_operations > 0

\* A dispatcher that was asked for finds the context empty but for the queue.
WantedQuiet ==
  dispatcher = "wanted" =>
    /\ read_operations = 0 /\ eof_operations = 0 /\ pending # <<>>
    /\ state \in {"OPEN", "CLOSING", "EOF_DELIVERED_AND_CLOSING"}

\* The driver is being closed only when nothing is outstanding.
CloseStarted ==
  /\ close_started => outstanding = 0 /\ state \in ClosingStates
  /\ state = "CLOSED" => close_started

\* If every close cancels, the reads still queued when a close was registered
\* are canceled and none of them is passed to the driver.
CanceledAtClose ==
  ~NoCancel =>
    /\ state \in ClosingStates =>
         \A i \in Reads : pc[i] = "pending" => canceled[i]
    /\ state = "EOF_DELIVERED_AND_CLOSING" => \A i \in Reads : pc[i] # "driver"
    /\ ~failed

\* the inductive invariant
ReadCore ==
  /\ TypeOK /\ Counted /\ Queued /\ HasResult /\ EofHeld /\ StateSays
  /\ WantedQuiet /\ CloseStarted /\ CanceledAtClose

-----------------------------------------------------------------------------
(* Counting and queues                                                      *)

\* A set of reads is finite, and empty exactly when it counts 0.
LEMMA ReadsCounted ==
    ASSUME NEW S \in SUBSET Reads
    PROVE  /\ IsFiniteSet(S) /\ Cardinality(S) \in Nat
           /\ Cardinality(S) = 0 <=> S = {}
  BY FS_Subset, FS_CardinalityType, FS_EmptySet, XioReadAssumption

\* One more read counts one more.
LEMMA CountMore ==
    ASSUME NEW S \in SUBSET Reads, NEW i, i \notin S
    PROVE  Cardinality(S \cup {i}) = Cardinality(S) + 1
  BY ReadsCounted, FS_AddElement

\* One read less counts one less.
LEMMA CountLess ==
    ASSUME NEW S \in SUBSET Reads, NEW i \in S
    PROVE  Cardinality(S \ {i}) = Cardinality(S) - 1
  BY ReadsCounted, FS_RemoveElement

\* Two disjoint sets of reads add up.
LEMMA CountBoth ==
    ASSUME NEW S \in SUBSET Reads, NEW T \in SUBSET Reads, S \cap T = {}
    PROVE  Cardinality(S \cup T) = Cardinality(S) + Cardinality(T)
  <1>1. Cardinality(S \cup T)
          = Cardinality(S) + Cardinality(T) - Cardinality(S \cap T)
    BY ReadsCounted, FS_Union
  <1> QED BY <1>1, ReadsCounted, FS_EmptySet

\* A read put into the queue once is there once.
LEMMA QueueAppend ==
    ASSUME NEW q \in Seq(Reads), NEW i \in Reads, IsInjective(q),
           i \notin ToSet(q)
    PROVE  /\ Append(q, i) \in Seq(Reads) /\ Append(q, i) # <<>>
           /\ ToSet(Append(q, i)) = ToSet(q) \cup {i}
           /\ IsInjective(Append(q, i))
  <1>1. /\ Append(q, i) \in Seq(Reads)
        /\ Len(Append(q, i)) = Len(q) + 1
        /\ \A k \in 1..Len(q) : Append(q, i)[k] = q[k]
        /\ Append(q, i)[Len(q) + 1] = i
        /\ DOMAIN q = 1..Len(q) /\ DOMAIN Append(q, i) = 1..(Len(q) + 1)
        /\ Len(q) \in Nat
    OBVIOUS
  <1>2. \A k \in 1..(Len(q) + 1) : k \in 1..Len(q) \/ k = Len(q) + 1
    BY <1>1
  <1>3. ToSet(Append(q, i)) = ToSet(q) \cup {i}
    <2>1. Len(q) + 1 \in 1..(Len(q) + 1) /\ 1..Len(q) \subseteq 1..(Len(q) + 1)
      BY <1>1
    <2> QED BY <1>1, <1>2, <2>1, Zenon DEF ToSet
  <1>4. \A k \in 1..Len(q) : q[k] # i
    BY <1>1 DEF ToSet
  <1>5. IsInjective(Append(q, i))
    BY <1>1, <1>2, <1>4, Zenon DEF IsInjective
  <1> QED BY <1>1, <1>3, <1>5

\* Taking its head off the queue takes out one read.
LEMMA QueueTail ==
    ASSUME NEW q \in Seq(Reads), IsInjective(q), q # <<>>
    PROVE  /\ Head(q) \in ToSet(q) /\ Head(q) \in Reads
           /\ Tail(q) \in Seq(Reads) /\ IsInjective(Tail(q))
           /\ ToSet(Tail(q)) = ToSet(q) \ {Head(q)}
  <1>1. /\ Head(q) = q[1] /\ Tail(q) \in Seq(Reads) /\ Head(q) \in Reads
        /\ DOMAIN q = 1..Len(q) /\ DOMAIN Tail(q) = 1..(Len(q) - 1)
        /\ Len(q) \in Nat /\ Len(q) >= 1
        /\ \A k \in 1..(Len(q) - 1) : Tail(q)[k] = q[k + 1]
    OBVIOUS
  <1>2. \A k \in 1..(Len(q) - 1) : k + 1 \in 1..Len(q) /\ k + 1 # 1
    BY <1>1
  <1>3. \A k \in 1..Len(q) : k # 1 => k - 1 \in 1..(Len(q) - 1) /\ (k - 1) + 1 = k
    BY <1>1
  <1>4. 1 \in 1..Len(q)
    BY <1>1
  <1>5. IsInjective(Tail(q))
    <2> SUFFICES ASSUME NEW a \in DOMAIN Tail(q), NEW b \in DOMAIN Tail(q),
                        Tail(q)[a] = Tail(q)[b]
                 PROVE  a = b
      BY DEF IsInjective
    <2>1. q[a + 1] = q[b + 1] /\ a + 1 \in DOMAIN q /\ b + 1 \in DOMAIN q
      BY <1>1, <1>2
    <2>2. a + 1 = b + 1
      BY <2>1 DEF IsInjective
    <2> QED BY <2>2, <1>1
  <1>6. ToSet(Tail(q)) = ToSet(q) \ {Head(q)}
    <2>1. ASSUME NEW x \in ToSet(Tail(q)) PROVE x \in ToSet(q) \ {Head(q)}
      <3>1. PICK k \in 1..(Len(q) - 1) : x = q[k + 1]
        BY <1>1 DEF ToSet
      <3>2. q[k + 1] # q[1]
        BY <1>1, <1>2, <1>4 DEF IsInjective
      <3> QED BY <1>1, <1>2, <3>1, <3>2 DEF ToSet
    <2>2. ASSUME NEW x \in ToSet(q) \ {Head(q)} PROVE x \in ToSet(Tail(q))
      <3>1. PICK k \in 1..Len(q) : x = q[k] /\ k # 1
        BY <1>1 DEF ToSet
      <3>2. k - 1 \in 1..(Len(q) - 1) /\ Tail(q)[k - 1] = x
        BY <1>1, <1>3, <3>1
      <3> QED BY <1>1, <3>2 DEF ToSet
    <2> QED BY <2>1, <2>2
  <1> QED BY <1>1, <1>4, <1>5, <1>6 DEF ToSet

\* A queue that holds each read once is as long as the set of its reads.
LEMMA QueueLength ==
    ASSUME NEW q \in Seq(Reads), IsInjective(q)
    PROVE  Len(q) = Cardinality(ToSet(q)) /\ (q = <<>> <=> ToSet(q) = {})
  <1>1. q \in [1..Len(q) -> ToSet(q)] /\ Len(q) \in Nat /\ DOMAIN q = 1..Len(q)
    BY DEF ToSet
  <1>2. q \in Bijection(1..Len(q), ToSet(q))
    BY <1>1 DEF Bijection, Injection, Surjection, IsInjective, ToSet
  <1>3. Cardinality(ToSet(q)) = Len(q)
    BY <1>1, <1>2, FS_CountingElements, Zenon DEF ExistsBijection
  <1>4. q = <<>> <=> Len(q) = 0
    OBVIOUS
  <1>5. ToSet(q) \in SUBSET Reads
    BY <1>1 DEF ToSet
  <1> QED BY <1>3, <1>4, <1>5, ReadsCounted

-----------------------------------------------------------------------------
(* One lemma for each action                                                *)

\* What the counters say about the reads.
LEMMA CoreFacts ==
    ASSUME ReadCore
    PROVE  /\ Reading \in SUBSET Reads /\ Ending \in SUBSET Reads
           /\ Busy \in SUBSET Reads
           /\ Cardinality(Reading) \in Nat /\ Cardinality(Ending) \in Nat
           /\ Cardinality(Busy) \in Nat
           /\ read_operations = 0 <=> Reading = {} /\ dispatcher # "holding"
           /\ eof_operations = 0 <=> Ending = {}
           /\ outstanding = 0 <=> Busy = {}
  <1>1. /\ Reading \in SUBSET Reads /\ Ending \in SUBSET Reads
        /\ Busy \in SUBSET Reads
    BY DEF Reading, Ending, Busy
  <1> QED BY <1>1, ReadsCounted DEF ReadCore, Counted, Holding

\* Before the first read all counters are 0.
LEMMA InitCore == Init => ReadCore
  <1> SUFFICES ASSUME Init PROVE ReadCore
    OBVIOUS
  <1>1. Reading = {} /\ Ending = {} /\ Busy = {}
    BY DEF Init, Reading, Ending, Busy, Ended
  <1>2. TypeOK
    <2>1. pending \in Seq(Reads)
      BY DEF Init
    <2>2. /\ pc \in [Reads -> Places] /\ canceled \in [Reads -> BOOLEAN]
          /\ result \in [Reads -> {"none", "data", "eof", "dispatched"}]
      BY DEF Init, Places
    <2> QED BY <2>1, <2>2 DEF Init, TypeOK, States
  <1>3. Counted
    BY <1>1, FS_EmptySet DEF Init, Counted, Holding
  <1>4. Queued
    BY DEF Init, Queued, ToSet, IsInjective
  <1> QED
    BY <1>2, <1>3, <1>4
       DEF Init, ReadCore, HasResult, EofHeld, StateSays, WantedQuiet,
           CloseStarted, CanceledAtClose, Ended, ClosingStates

\* A failed assertion stops the program where it is.
LEMMA AbortCore ==
    ASSUME ReadCore, Abort, NoCancel
    PROVE  ReadCore'
  BY DEF ReadCore, Abort, TypeOK, Counted, Queued, HasResult, EofHeld,
         StateSays, WantedQuiet, CloseStarted, CanceledAtClose, counters, reads,
         closing, Reading, Ending, Busy, Holding, Ended

\* Registering a read.
LEMMA PassReadCore ==
    ASSUME ReadCore, NEW i \in Reads, PassRead(i)
    PROVE  ReadCore'
  <1> USE DEF closing
  <1>0. /\ TypeOK /\ Counted /\ Queued /\ HasResult /\ EofHeld /\ StateSays
        /\ WantedQuiet /\ CloseStarted /\ CanceledAtClose
    BY DEF ReadCore
  <1>1. /\ i \notin Busy /\ i \notin Reading /\ i \notin Ending
        /\ i \notin ToSet(pending)
    BY <1>0 DEF PassRead, Busy, Reading, Ending, Ended, Queued
  <1>2. Busy' = Busy \cup {i}
    BY <1>0 DEF PassRead, Busy, TypeOK
  <1>3. outstanding' = Cardinality(Busy') /\ ~close_started /\ outstanding' \in Nat
    BY <1>0, <1>1, <1>2, CoreFacts, CountMore
       DEF PassRead, Counted, CloseStarted, ClosingStates, TypeOK
  <1>4. CASE state = "EOF_RECEIVED"
    <2>1. Reading' = Reading /\ Ending' = Ending \cup {i}
      BY <1>0, <1>4 DEF PassRead, Reading, Ending, Ended, TypeOK
    <2>2. Counted'
      BY <1>0, <1>1, <1>3, <1>4, <2>1, CoreFacts, CountMore
         DEF PassRead, Counted, Holding
    <2>3. TypeOK'
      BY <1>0, <1>3, <1>4 DEF PassRead, TypeOK, Places
    <2>4. Queued'
      BY <1>0, <1>4 DEF PassRead, Queued, TypeOK
    <2>5. dispatcher # "wanted"
      BY <1>0, <1>4 DEF WantedQuiet
    <2> QED
      BY <1>0, <1>3, <1>4, <2>2, <2>3, <2>4, <2>5
         DEF PassRead, ReadCore, HasResult, EofHeld, StateSays, WantedQuiet,
             CloseStarted, CanceledAtClose, Ended, TypeOK, ClosingStates
  <1>5. CASE state = "EOF_DELIVERED" \/ (state = "OPEN" /\ pending # <<>>)
    <2>1. Reading' = Reading /\ Ending' = Ending
      BY <1>0, <1>5 DEF PassRead, Reading, Ending, Ended, TypeOK
    <2>2. Counted'
      BY <1>0, <1>3, <1>5, <2>1 DEF PassRead, Counted, Holding
    <2>3. pending' = Append(pending, i)
      BY <1>5 DEF PassRead
    <2>4. pending' \in Seq(Reads) /\ pending' # <<>>
          /\ ToSet(pending') = ToSet(pending) \cup {i} /\ IsInjective(pending')
      BY <1>0, <1>1, <2>3, QueueAppend DEF Queued, TypeOK
    <2>5. TypeOK'
      BY <1>0, <1>3, <1>5, <2>4 DEF PassRead, TypeOK, Places
    <2>6. Queued'
      BY <1>0, <1>5, <2>4 DEF PassRead, Queued, TypeOK
    <2> QED
      BY <1>0, <1>3, <1>5, <2>2, <2>4, <2>5, <2>6
         DEF PassRead, ReadCore, HasResult, EofHeld, StateSays, WantedQuiet,
             CloseStarted, CanceledAtClose, Ended, TypeOK, ClosingStates
  <1>6. CASE state = "OPEN" /\ pending = <<>>
    <2>1. Reading' = Reading \cup {i} /\ Ending' = Ending
      BY <1>0, <1>6 DEF PassRead, Reading, Ending, Ended, TypeOK
    <2>2. Counted'
      BY <1>0, <1>1, <1>3, <1>6, <2>1, CoreFacts, CountMore
         DEF PassRead, Counted, Holding
    <2>3. TypeOK'
      BY <1>0, <1>3, <1>6 DEF PassRead, TypeOK, Places
    <2>4. Queued'
      BY <1>0, <1>6 DEF PassRead, Queued, TypeOK
    <2>5. dispatcher # "wanted" /\ \A j \in Reads : ~Ended(j, "eof")
      BY <1>0, <1>6, CoreFacts DEF WantedQuiet, StateSays, Ending
    <2> QED
      BY <1>0, <1>3, <1>6, <2>2, <2>3, <2>4, <2>5
         DEF PassRead, ReadCore, HasResult, EofHeld, StateSays, WantedQuiet,
             CloseStarted, CanceledAtClose, Ended, TypeOK, ClosingStates
  <1> QED BY <1>4, <1>5, <1>6 DEF PassRead

\* The driver gets the read at once but fails it.
LEMMA PassFailedCore ==
    ASSUME ReadCore, NEW i \in Reads, PassFailed(i)
    PROVE  ReadCore'
  <1>0. /\ TypeOK /\ Counted /\ Queued /\ HasResult /\ EofHeld /\ StateSays
        /\ WantedQuiet /\ CloseStarted /\ CanceledAtClose
    BY DEF ReadCore
  <1>1. i \in Busy /\ i \in Reading
    BY DEF PassFailed, Busy, Reading
  <1>2. /\ \A j \in Reads \ {i} :
              \/ pc'[j] = pc[j]
              \/ /\ pc[j] = "eof" /\ pc'[j] = "kick" /\ result[j] = "eof"
                 /\ read_operations = 1
        /\ pc'[i] = "idle" /\ pc' \in [Reads -> Places]
    BY <1>0 DEF PassFailed, Purge, TypeOK, Places, HasResult
  <1>3. Busy' = Busy \ {i}
    BY <1>0, <1>2 DEF PassFailed, Busy, TypeOK
  <1>4. Reading' = Reading \ {i}
    BY <1>0, <1>2 DEF PassFailed, Reading, Ended, TypeOK
  <1>5. Ending' = Ending
    BY <1>0, <1>2 DEF PassFailed, Ending, Ended, TypeOK
  <1>6. Counted'
    <2>1. /\ Cardinality(Busy') = Cardinality(Busy) - 1
          /\ Cardinality(Reading') = Cardinality(Reading) - 1
      BY <1>1, <1>3, <1>4, CoreFacts, CountLess
    <2> QED
      BY <1>0, <1>5, <2>1, CoreFacts DEF PassFailed, Counted, Holding
  <1>7. read_operations > 0 /\ outstanding > 0 /\ ~close_started
    BY <1>0, <1>1, CoreFacts DEF TypeOK, CloseStarted
  <1>8. TypeOK'
    <2>1. read_operations' \in Nat /\ outstanding' \in Nat
      BY <1>0, <1>7 DEF PassFailed, TypeOK
    <2>2. close_started' \in BOOLEAN
      BY DEF PassFailed
    <2> QED BY <1>0, <1>2, <2>1, <2>2 DEF PassFailed, TypeOK
  <1>9. Queued'
    BY <1>0, <1>2 DEF PassFailed, Queued
  <1>10. HasResult' /\ EofHeld'
    <2>1. \A j \in Reads : ~Ended(j, "eof")
      BY <1>0, <1>7 DEF EofHeld
    <2>2. ASSUME NEW j \in Reads, Ended(j, "eof")' PROVE read_operations' = 0
      BY <1>0, <1>2, <2>1, <2>2 DEF PassFailed, Ended, TypeOK
    <2> QED BY <1>0, <1>2, <2>2 DEF PassFailed, HasResult, EofHeld
  <1>11. StateSays' /\ WantedQuiet'
    BY <1>0, <1>7 DEF PassFailed, StateSays, WantedQuiet
  <1>12. CloseStarted'
    BY <1>0, <1>7 DEF PassFailed, CloseStarted, CloseNow, ClosingStates, TypeOK
  <1>13. CanceledAtClose'
    BY <1>0, <1>2 DEF PassFailed, CanceledAtClose
  <1> QED
    BY <1>6, <1>8, <1>9, <1>10, <1>11, <1>12, <1>13 DEF ReadCore

\* The driver answers a read with end of file.
LEMMA FinishedEofCore ==
    ASSUME ReadCore, NEW i \in Reads, FinishedEof(i)
    PROVE  ReadCore'
  <1> USE DEF closing
  <1>0. /\ TypeOK /\ Counted /\ Queued /\ HasResult /\ EofHeld /\ StateSays
        /\ WantedQuiet /\ CloseStarted /\ CanceledAtClose
    BY DEF ReadCore
  <1>1. i \in Busy /\ i \in Reading /\ i \notin Ending
    BY DEF FinishedEof, Busy, Reading, Ending, Ended
  <1>2. read_operations > 0 /\ outstanding > 0
    BY <1>0, <1>1, CoreFacts DEF TypeOK
  <1>3. CASE state \notin {"OPEN", "CLOSING"} \cup Received
    <2>1. Abort
      BY <1>3 DEF FinishedEof
    <2>2. state \in {"EOF_DELIVERED_AND_CLOSING", "CLOSED"}
      BY <1>0, <1>2, <1>3 DEF StateSays, TypeOK, States, Received
    <2>3. ~close_started
      BY <1>0, <1>2 DEF CloseStarted
    <2>4. NoCancel
      BY <1>0, <2>2, <2>3 DEF CanceledAtClose, FinishedEof, CloseStarted
    <2> QED BY <2>1, <2>4, AbortCore
  <1>4. CASE state \in {"OPEN", "CLOSING"} \cup Received
    <2>1. /\ Busy' = Busy /\ Reading' = Reading \ {i}
          /\ Ending' = Ending \cup {i}
      BY <1>0, <1>4 DEF FinishedEof, Busy, Reading, Ending, Ended, TypeOK
    <2>2. Counted'
      <3>1. /\ Cardinality(Reading') = Cardinality(Reading) - 1
            /\ Cardinality(Ending') = Cardinality(Ending) + 1
        BY <1>1, <2>1, CoreFacts, CountLess, CountMore
      <3> QED
        BY <1>0, <1>4, <2>1, <3>1, CoreFacts DEF FinishedEof, Counted, Holding
    <2>3. /\ state' \in Received
          /\ state \in ClosingStates <=> state' \in ClosingStates
      BY <1>4 DEF FinishedEof, Received, ClosingStates
    <2>4. TypeOK'
      <3>1. pc' \in [Reads -> Places]
            /\ result' \in [Reads -> {"none", "data", "eof", "dispatched"}]
        BY <1>0, <1>4 DEF FinishedEof, TypeOK, Places
      <3>2. read_operations' \in Nat /\ eof_operations' \in Nat
        BY <1>0, <1>2, <1>4 DEF FinishedEof, TypeOK
      <3> QED
        BY <1>0, <1>4, <2>3, <3>1, <3>2
           DEF FinishedEof, TypeOK, Received, States
    <2>5. Queued'
      BY <1>0, <1>4 DEF FinishedEof, Queued, TypeOK
    <2>6. HasResult' /\ EofHeld'
      <3>1. \A j \in Reads : ~Ended(j, "eof")
        BY <1>0, <1>2 DEF EofHeld
      <3>2. ASSUME NEW j \in Reads, Ended(j, "eof")' PROVE read_operations' = 0
        BY <1>0, <1>2, <1>4, <3>1, <3>2 DEF FinishedEof, Ended, TypeOK
      <3> QED BY <1>0, <1>4, <3>2 DEF FinishedEof, HasResult, EofHeld, TypeOK
    <2>7. StateSays' /\ WantedQuiet'
      BY <1>0, <1>2, <1>4, <2>3
         DEF FinishedEof, StateSays, WantedQuiet, Received
    <2>8. CloseStarted'
      BY <1>0, <1>4, <2>3 DEF FinishedEof, CloseStarted
    <2>9. CanceledAtClose'
      BY <1>0, <1>4, <2>3 DEF FinishedEof, CanceledAtClose, Received, TypeOK
    <2> QED
      BY <2>2, <2>4, <2>5, <2>6, <2>7, <2>8, <2>9 DEF ReadCore
  <1> QED BY <1>3, <1>4

\* The driver answers a read with data, or with another error.
LEMMA FinishedReadCore ==
    ASSUME ReadCore, NEW i \in Reads, FinishedRead(i)
    PROVE  ReadCore'
  <1> USE DEF closing, counters
  <1>0. /\ TypeOK /\ Counted /\ Queued /\ HasResult /\ EofHeld /\ StateSays
        /\ WantedQuiet /\ CloseStarted /\ CanceledAtClose
    BY DEF ReadCore
  <1>1. Busy' = Busy /\ Reading' = Reading /\ Ending' = Ending
    BY <1>0 DEF FinishedRead, Busy, Reading, Ending, Ended, TypeOK
  <1>2. Counted' /\ Queued'
    BY <1>0, <1>1 DEF FinishedRead, Counted, Holding, Queued, TypeOK
  <1>3. TypeOK'
    BY <1>0 DEF FinishedRead, TypeOK, Places
  <1>4. HasResult' /\ EofHeld'
    BY <1>0 DEF FinishedRead, HasResult, EofHeld, Ended, TypeOK
  <1> QED
    BY <1>0, <1>2, <1>3, <1>4
       DEF FinishedRead, ReadCore, StateSays, WantedQuiet, CloseStarted,
           CanceledAtClose, TypeOK

\* The application's callback is entered.
LEMMA KickoutCore ==
    ASSUME ReadCore, NEW i \in Reads, Kickout(i)
    PROVE  ReadCore'
  <1> USE DEF closing, counters
  <1>0. /\ TypeOK /\ Counted /\ Queued /\ HasResult /\ EofHeld /\ StateSays
        /\ WantedQuiet /\ CloseStarted /\ CanceledAtClose
    BY DEF ReadCore
  <1>1. Busy' = Busy /\ Reading' = Reading /\ Ending' = Ending
    BY <1>0 DEF Kickout, Busy, Reading, Ending, Ended, TypeOK
  <1>2. Counted' /\ Queued'
    BY <1>0, <1>1 DEF Kickout, Counted, Holding, Queued, TypeOK
  <1>3. TypeOK'
    BY <1>0 DEF Kickout, TypeOK, Places
  <1>4. HasResult' /\ EofHeld'
    BY <1>0 DEF Kickout, HasResult, EofHeld, Ended, TypeOK
  <1> QED
    BY <1>0, <1>2, <1>3, <1>4
       DEF Kickout, ReadCore, StateSays, WantedQuiet, CloseStarted,
           CanceledAtClose, TypeOK

\* The dispatcher of the queued reads begins.
LEMMA DispatchStartCore ==
    ASSUME ReadCore, DispatchStart
    PROVE  ReadCore'
  <1> USE DEF closing, reads
  <1>0. /\ TypeOK /\ Counted /\ Queued /\ HasResult /\ EofHeld /\ StateSays
        /\ WantedQuiet /\ CloseStarted /\ CanceledAtClose
    BY DEF ReadCore
  <1>1. /\ Busy' = Busy /\ Reading' = Reading /\ Ending' = Ending /\ Ending = {}
        /\ state # "EOF_DELIVERED"
    BY <1>0, CoreFacts
       DEF DispatchStart, Busy, Reading, Ending, Ended, WantedQuiet
  <1>2. Counted' /\ TypeOK'
    BY <1>0, <1>1, CoreFacts DEF DispatchStart, Counted, Holding, TypeOK
  <1>3. EofHeld'
    BY <1>0, <1>1 DEF DispatchStart, EofHeld, Ended, Ending
  <1> QED
    BY <1>0, <1>1, <1>2, <1>3
       DEF DispatchStart, ReadCore, HasResult, StateSays, WantedQuiet,
           CloseStarted, CanceledAtClose, TypeOK, Queued

\* The dispatcher is done and lets the ends of file it held up go.
LEMMA DispatchEndCore ==
    ASSUME ReadCore, DispatchEnd
    PROVE  ReadCore'
  <1> USE DEF closing
  <1>0. /\ TypeOK /\ Counted /\ Queued /\ HasResult /\ EofHeld /\ StateSays
        /\ WantedQuiet /\ CloseStarted /\ CanceledAtClose
    BY DEF ReadCore
  <1>1. /\ \A j \in Reads :
              \/ pc'[j] = pc[j]
              \/ /\ pc[j] = "eof" /\ pc'[j] = "kick" /\ result[j] = "eof"
                 /\ read_operations = 1
        /\ pc' \in [Reads -> Places]
    BY <1>0 DEF DispatchEnd, Purge, TypeOK, Places, HasResult
  <1>2. Busy' = Busy /\ Reading' = Reading /\ Ending' = Ending
    BY <1>0, <1>1 DEF DispatchEnd, Busy, Reading, Ending, Ended, TypeOK
  <1>3. Counted' /\ read_operations > 0
    BY <1>0, <1>2, CoreFacts DEF DispatchEnd, Counted, Holding, TypeOK
  <1>4. TypeOK'
    BY <1>0, <1>1, <1>3 DEF DispatchEnd, TypeOK
  <1>5. Queued'
    BY <1>0, <1>1 DEF DispatchEnd, Queued
  <1>6. HasResult' /\ EofHeld'
    <2>1. \A j \in Reads : ~Ended(j, "eof")
      BY <1>0, <1>3 DEF EofHeld
    <2>2. ASSUME NEW j \in Reads, Ended(j, "eof")' PROVE read_operations' = 0
      BY <1>0, <1>1, <2>1, <2>2 DEF DispatchEnd, Ended, TypeOK
    <2> QED BY <1>0, <1>1, <2>2 DEF DispatchEnd, HasResult, EofHeld
  <1>7. StateSays' /\ WantedQuiet' /\ CloseStarted'
    BY <1>0, <1>3 DEF DispatchEnd, StateSays, WantedQuiet, CloseStarted
  <1>8. CanceledAtClose'
    BY <1>0, <1>1 DEF DispatchEnd, CanceledAtClose
  <1> QED
    BY <1>3, <1>4, <1>5, <1>6, <1>7, <1>8 DEF ReadCore

\* The driver is done with the close.
LEMMA ClosedCore ==
    ASSUME ReadCore, Closed
    PROVE  ReadCore'
  <1> USE DEF closing, reads, counters
  <1>0. /\ TypeOK /\ Counted /\ Queued /\ HasResult /\ EofHeld /\ StateSays
        /\ WantedQuiet /\ CloseStarted /\ CanceledAtClose
    BY DEF ReadCore
  <1>1. Busy = {} /\ Busy' = Busy /\ Reading' = Reading /\ Ending' = Ending
    BY <1>0, CoreFacts DEF Closed, Busy, Reading, Ending, Ended, CloseStarted
  <1>2. Ending = {} /\ ToSet(pending) = {}
    BY <1>0, <1>1 DEF Ending, Busy, Ended, Queued
  <1>3. pending = <<>> /\ eof_operations = 0
    BY <1>0, <1>2, CoreFacts, QueueLength DEF Queued, TypeOK
  <1>4. \A i \in Reads : pc[i] = "idle"
    BY <1>1 DEF Busy
  <1>5. Counted' /\ Queued'
    BY <1>0, <1>1 DEF Closed, Counted, Holding, Queued
  <1> QED
    BY <1>0, <1>3, <1>4, <1>5
       DEF Closed, ReadCore, TypeOK, States, HasResult, EofHeld, StateSays,
           WantedQuiet, CloseStarted, CanceledAtClose, ClosingStates, Ended

\* The application closes the handle.
LEMMA CloseCore ==
    ASSUME ReadCore, NEW cancel \in BOOLEAN, cancel \/ NoCancel, Close(cancel)
    PROVE  ReadCore'
  <1> USE DEF counters
  <1>0. /\ TypeOK /\ Counted /\ Queued /\ HasResult /\ EofHeld /\ StateSays
        /\ WantedQuiet /\ CloseStarted /\ CanceledAtClose
    BY DEF ReadCore
  <1>1. Busy' = Busy /\ Reading' = Reading /\ Ending' = Ending
    BY DEF Close, Busy, Reading, Ending, Ended
  <1>2. Counted' /\ Queued'
    BY <1>0, <1>1 DEF Close, Counted, Holding, Queued
  <1>3. /\ state' \in {"CLOSING", "EOF_RECEIVED_AND_CLOSING",
                       "EOF_DELIVERED_AND_CLOSING"}
        /\ state' = "CLOSING" => state = "OPEN"
        /\ state' = "EOF_DELIVERED_AND_CLOSING" => state = "EOF_DELIVERED"
        /\ state = "OPEN" => state' = "CLOSING"
    BY DEF Close
  <1>4. canceled' \in [Reads -> BOOLEAN]
    BY <1>0 DEF Close, TypeOK
  <1>5. TypeOK'
    BY <1>0, <1>3, <1>4 DEF Close, TypeOK, States
  <1>6. CanceledAtClose'
    <2> SUFFICES ASSUME ~NoCancel PROVE CanceledAtClose'
      BY DEF CanceledAtClose
    <2>1. \A i \in Reads : pc'[i] = "pending" => canceled'[i]
      BY <1>0 DEF Close, Places
    <2>2. state' = "EOF_DELIVERED_AND_CLOSING" =>
             \A i \in Reads : pc'[i] # "driver"
      BY <1>0, <1>3, CoreFacts DEF Close, StateSays, Reading
    <2> QED BY <1>0, <2>1, <2>2 DEF Close, CanceledAtClose
  <1>7. CloseStarted'
    BY <1>0, <1>3 DEF Close, CloseStarted, ClosingStates
  <1>8. StateSays' /\ WantedQuiet'
    BY <1>0, <1>3 DEF Close, StateSays, WantedQuiet
  <1>9. HasResult' /\ EofHeld'
    BY <1>0 DEF Close, HasResult, EofHeld, Ended
  <1> QED
    BY <1>2, <1>5, <1>6, <1>7, <1>8, <1>9 DEF ReadCore

\* The dispatcher passes the first queued read.
LEMMA DispatchOneCore ==
    ASSUME ReadCore, DispatchOne
    PROVE  ReadCore'
  <1> USE DEF closing
  <1> DEFINE i == Head(pending)
  <1>0. /\ TypeOK /\ Counted /\ Queued /\ HasResult /\ EofHeld /\ StateSays
        /\ WantedQuiet /\ CloseStarted /\ CanceledAtClose
    BY DEF ReadCore
  <1>1. /\ i \in ToSet(pending) /\ i \in Reads
        /\ Tail(pending) \in Seq(Reads) /\ IsInjective(Tail(pending))
        /\ ToSet(Tail(pending)) = ToSet(pending) \ {i}
    BY <1>0, QueueTail DEF DispatchOne, Queued, TypeOK
  <1>2. pc[i] = "pending"
    BY <1>0, <1>1 DEF Queued
  <1>3. read_operations > 0 /\ dispatcher = "holding"
    BY <1>0, CoreFacts DEF DispatchOne, TypeOK
  <1>4. state # "EOF_DELIVERED" /\ state # "CLOSED"
    <2>1. i \in Busy
      BY <1>1, <1>2 DEF Busy
    <2>2. outstanding # 0
      BY <2>1, CoreFacts
    <2> QED BY <1>0, <1>3, <2>2 DEF StateSays, CloseStarted
  <1>5. /\ pending' = Tail(pending)
        /\ read_operations' = read_operations + 1
        /\ pc' = [pc EXCEPT ![i] = IF canceled[i] THEN "kick" ELSE "driver"]
        /\ result' = [result EXCEPT ![i] = IF canceled[i] THEN "data" ELSE "dispatched"]
        /\ UNCHANGED <<state, eof_operations, outstanding, canceled, dispatcher,
                       close_op, close_started, failed>>
    BY <1>4 DEF DispatchOne
  <1> HIDE DEF i
  <1>6. /\ pc' \in [Reads -> Places]
        /\ result' \in [Reads -> {"none", "data", "eof", "dispatched"}]
        /\ pc'[i] \in {"kick", "driver"} /\ (canceled[i] => pc'[i] = "kick")
        /\ pc'[i] = "kick" => result'[i] = "data"
        /\ \A j \in Reads \ {i} : pc'[j] = pc[j] /\ result'[j] = result[j]
    BY <1>0, <1>1, <1>5 DEF TypeOK, Places
  <1>7. i \notin Reading
    BY <1>2 DEF Reading, Ended
  <1>8. Reading' = Reading \cup {i} /\ Ending' = Ending /\ Busy' = Busy
    BY <1>0, <1>1, <1>2, <1>6 DEF Reading, Ending, Busy, Ended, TypeOK
  <1>9. Counted'
    <2>1. Cardinality(Reading') = Cardinality(Reading) + 1
      BY <1>7, <1>8, CoreFacts, CountMore
    <2> QED BY <1>0, <1>5, <1>8, <2>1, CoreFacts DEF Counted, Holding
  <1>10. TypeOK'
    BY <1>0, <1>1, <1>5, <1>6 DEF TypeOK
  <1>11. Queued'
    BY <1>0, <1>1, <1>2, <1>5, <1>6 DEF Queued
  <1>12. HasResult' /\ EofHeld'
    BY <1>0, <1>1, <1>3, <1>6 DEF HasResult, EofHeld, Ended
  <1>13. StateSays' /\ WantedQuiet' /\ CloseStarted'
    BY <1>0, <1>3, <1>4, <1>5 DEF StateSays, WantedQuiet, CloseStarted
  <1>14. CanceledAtClose'
    BY <1>0, <1>1, <1>2, <1>5, <1>6 DEF CanceledAtClose, ClosingStates
  <1> QED
    BY <1>9, <1>10, <1>11, <1>12, <1>13, <1>14 DEF ReadCore

\* The queued reads get the end of file a read before them hit.
LEMMA DispatchEofCore ==
    ASSUME ReadCore, DispatchEof
    PROVE  ReadCore'
  <1> USE DEF closing
  <1> DEFINE Q == {j \in Reads : pc[j] = "pending"}
  <1>0. /\ TypeOK /\ Counted /\ Queued /\ HasResult /\ EofHeld /\ StateSays
        /\ WantedQuiet /\ CloseStarted /\ CanceledAtClose
    BY DEF ReadCore
  <1>1. /\ read_operations > 0 /\ dispatcher = "holding"
        /\ state \notin {"OPEN", "CLOSING", "CLOSED", "EOF_DELIVERED"}
    BY <1>0, CoreFacts DEF DispatchEof, TypeOK, Received
  <1>2. ToSet(pending) = Q /\ Len(pending) = Cardinality(Q)
    BY <1>0, QueueLength DEF Queued, TypeOK
  <1>3. /\ pc' \in [Reads -> Places]
        /\ result' \in [Reads -> {"none", "data", "eof", "dispatched"}]
        /\ \A j \in Q : pc'[j] = "eof" /\ result'[j] = "eof"
        /\ \A j \in Reads \ Q : pc'[j] = pc[j] /\ result'[j] = result[j]
    <2>1. /\ pc' = [j \in Reads |-> IF j \in Q THEN "eof" ELSE pc[j]]
          /\ result' = [j \in Reads |-> IF j \in Q THEN "eof" ELSE result[j]]
      BY <1>2 DEF DispatchEof
    <2> QED BY <1>0, <2>1 DEF TypeOK, Places
  <1>4. Ending' = Ending \cup Q /\ Ending \cap Q = {}
    BY <1>3 DEF Ending, Ended
  <1>5. Reading' = Reading /\ Busy' = Busy
    BY <1>0, <1>3 DEF Reading, Busy, Ended, TypeOK
  <1>6. Counted'
    <2>1. Cardinality(Ending') = Cardinality(Ending) + Cardinality(Q)
      BY <1>4, CoreFacts, CountBoth
    <2> QED BY <1>0, <1>2, <1>5, <2>1, CoreFacts
            DEF DispatchEof, Counted, Holding
  <1>7. TypeOK'
    <2>1. Cardinality(Q) \in Nat
      BY ReadsCounted
    <2>2. eof_operations' \in Nat
      BY <1>0, <1>2, <2>1 DEF DispatchEof, TypeOK
    <2>3. pending' \in Seq(Reads)
      BY DEF DispatchEof
    <2> QED BY <1>0, <1>3, <2>2, <2>3 DEF DispatchEof, TypeOK
  <1>8. Queued'
    <2>1. ToSet(pending') = {} /\ IsInjective(pending')
      BY DEF DispatchEof, ToSet, IsInjective
    <2> QED BY <1>3, <2>1 DEF Queued
  <1>9. HasResult' /\ EofHeld'
    BY <1>0, <1>1, <1>3 DEF HasResult, EofHeld, Ended
  <1>10. StateSays' /\ WantedQuiet' /\ CloseStarted'
    BY <1>0, <1>1 DEF DispatchEof, StateSays, WantedQuiet, CloseStarted
  <1>11. CanceledAtClose'
    BY <1>0, <1>3 DEF DispatchEof, CanceledAtClose
  <1> QED
    BY <1>6, <1>7, <1>8, <1>9, <1>10, <1>11 DEF ReadCore

\* The application's callback returns.
LEMMA ReadDeliveredCore ==
    ASSUME ReadCore, NEW i \in Reads, ReadDelivered(i)
    PROVE  ReadCore'
  <1> DEFINE f == [pc EXCEPT ![i] = "idle"]
             eof == read_operations = 0
             all == eof /\ eof_operations = 1
             s == IF ~eof THEN state
                  ELSE IF all /\ EofDelivered = "EOF_DELIVERED" THEN "OPEN"
                       ELSE EofDelivered
             purge == (eof \/ read_operations = 1) /\ state \in Received
  <1>0. /\ TypeOK /\ Counted /\ Queued /\ HasResult /\ EofHeld /\ StateSays
        /\ WantedQuiet /\ CloseStarted /\ CanceledAtClose
    BY DEF ReadCore
  <1>1. pc[i] = "user" /\ result[i] \in {"data", "eof"} /\ i \in Busy
    BY <1>0 DEF ReadDelivered, HasResult, Busy
  <1>2. outstanding > 0 /\ ~close_started /\ state # "CLOSED"
    BY <1>0, <1>1, CoreFacts DEF CloseStarted, TypeOK
  <1>3. eof => i \in Ending /\ Reading = {} /\ dispatcher # "holding"
    BY <1>0, <1>1, CoreFacts DEF Reading, Ending, Ended
  <1>4. ~eof => i \in Reading /\ ~Ended(i, "eof")
    BY <1>0, <1>1 DEF EofHeld, Reading, Ended
  <1>5. eof => eof_operations > 0 /\ state \notin {"OPEN", "CLOSING", "CLOSED"}
    BY <1>0, <1>3, CoreFacts DEF StateSays, TypeOK
  <1>6. /\ state' = s
        /\ eof_operations' = IF eof THEN eof_operations - 1 ELSE eof_operations
        /\ read_operations' = IF eof THEN 0 ELSE read_operations - 1
        /\ outstanding' = outstanding - 1
        /\ pc' = IF purge THEN Purge(f) ELSE f
        /\ dispatcher' = IF all /\ pending # <<>> THEN "wanted" ELSE dispatcher
        /\ close_started' = (close_started \/ CloseNow(s, outstanding - 1))
        /\ UNCHANGED <<pending, result, canceled, close_op, failed>>
    BY <1>5 DEF ReadDelivered
  <1>7. /\ \A j \in Reads \ {i} :
              \/ pc'[j] = pc[j]
              \/ /\ pc[j] = "eof" /\ pc'[j] = "kick" /\ result[j] = "eof"
                 /\ read_operations = 0 \/ read_operations = 1
        /\ pc'[i] = "idle" /\ pc' \in [Reads -> Places]
    BY <1>0, <1>6 DEF Purge, TypeOK, Places, HasResult
  <1>8. /\ eof => state \in {"EOF_DELIVERED", "EOF_DELIVERED_AND_CLOSING"} \cup Received
        /\ ~eof => s = state
        /\ all => s \in {"OPEN", "EOF_DELIVERED_AND_CLOSING"}
        /\ eof => s \in {"OPEN", "EOF_DELIVERED", "EOF_DELIVERED_AND_CLOSING"}
        /\ eof /\ s = "OPEN" => all
        /\ s \in ClosingStates <=> state \in ClosingStates
    BY <1>0, <1>2, <1>5
       DEF EofDelivered, Received, TypeOK, States, ClosingStates
  <1> HIDE DEF f, s, purge
  <1>9. Busy' = Busy \ {i}
    BY <1>0, <1>7 DEF Busy, TypeOK
  <1>10. Reading' = Reading \ {i}
    BY <1>0, <1>6, <1>7 DEF Reading, Ended, TypeOK
  <1>11. Ending' = Ending \ {i}
    BY <1>0, <1>6, <1>7 DEF Ending, Ended, TypeOK
  <1>12. Counted'
    <2>1. Cardinality(Busy') = Cardinality(Busy) - 1
      BY <1>1, <1>9, CoreFacts, CountLess
    <2>2. CASE eof
      <3>1. Cardinality(Ending') = Cardinality(Ending) - 1
        BY <1>3, <1>11, <2>2, CoreFacts, CountLess
      <3>2. Reading' = {} /\ dispatcher' # "holding"
        BY <1>3, <1>6, <1>10, <2>2
      <3> QED BY <1>0, <1>6, <2>1, <2>2, <3>1, <3>2, CoreFacts, FS_EmptySet
              DEF Counted, Holding
    <2>3. CASE ~eof
      <3>1. Cardinality(Reading') = Cardinality(Reading) - 1
        BY <1>4, <1>10, <2>3, CoreFacts, CountLess
      <3>2. Ending' = Ending
        BY <1>1, <1>4, <1>11, <2>3 DEF Ending
      <3> QED BY <1>0, <1>6, <2>1, <2>3, <3>1, <3>2, CoreFacts
              DEF Counted, Holding
    <2> QED BY <2>2, <2>3
  <1>13. TypeOK'
    <2>1. read_operations' \in Nat /\ eof_operations' \in Nat /\ outstanding' \in Nat
      BY <1>0, <1>2, <1>5, <1>6 DEF TypeOK
    <2>2. close_started' \in BOOLEAN
      BY <1>6
    <2>3. state' \in States
      BY <1>0, <1>6, <1>8 DEF TypeOK, States
    <2> QED BY <1>0, <1>6, <1>7, <2>1, <2>2, <2>3 DEF TypeOK
  <1>14. Queued'
    BY <1>0, <1>1, <1>6, <1>7 DEF Queued
  <1>15. HasResult' /\ EofHeld'
    <2>1. ASSUME NEW j \in Reads, Ended(j, "eof")' PROVE read_operations' = 0
      BY <1>0, <1>6, <1>7, <2>1 DEF Ended, EofHeld, TypeOK
    <2> QED BY <1>0, <1>6, <1>7, <2>1 DEF HasResult, EofHeld
  <1>16. StateSays'
    BY <1>0, <1>5, <1>6, <1>8 DEF StateSays, TypeOK
  <1>17. WantedQuiet'
    <2>1. dispatcher # "wanted"
      BY <1>0, <1>3, <1>5, <1>1, CoreFacts DEF WantedQuiet, TypeOK
    <2> QED BY <1>0, <1>6, <1>8, <2>1 DEF WantedQuiet
  <1>18. CloseStarted'
    BY <1>0, <1>2, <1>6, <1>8 DEF CloseStarted, CloseNow, ClosingStates, TypeOK
  <1>19. CanceledAtClose'
    <2> SUFFICES ASSUME ~NoCancel PROVE CanceledAtClose'
      BY DEF CanceledAtClose
    <2>1. eof => \A j \in Reads : pc[j] # "driver"
      BY <1>3 DEF Reading
    <2>2. state' = "EOF_DELIVERED_AND_CLOSING" =>
             \A j \in Reads : pc'[j] # "driver"
      BY <1>0, <1>6, <1>7, <1>8, <2>1 DEF CanceledAtClose
    <2> QED BY <1>0, <1>6, <1>7, <1>8, <2>2 DEF CanceledAtClose
  <1> QED
    BY <1>12, <1>13, <1>14, <1>15, <1>16, <1>17, <1>18, <1>19 DEF ReadCore

-----------------------------------------------------------------------------
(* The theorems                                                             *)

\* Every step keeps ReadCore.
LEMMA NextCore == ReadCore /\ [Next]_vars => ReadCore'
  <1> SUFFICES ASSUME ReadCore, [Next]_vars PROVE ReadCore'
    OBVIOUS
  <1>1. ASSUME NEW i \in Reads,
               \/ PassRead(i) \/ PassFailed(i) \/ DriverFinish(i)
               \/ Kickout(i) \/ ReadDelivered(i)
        PROVE  ReadCore'
    BY <1>1, PassReadCore, PassFailedCore, FinishedEofCore, FinishedReadCore,
       KickoutCore, ReadDeliveredCore DEF DriverFinish
  <1>2. CASE Dispatch
    BY <1>2, DispatchStartCore, DispatchOneCore, DispatchEofCore, DispatchEndCore
       DEF Dispatch
  <1>3. ASSUME NEW cancel \in BOOLEAN, cancel \/ NoCancel, Close(cancel)
        PROVE  ReadCore'
    BY <1>3, CloseCore
  <1>4. CASE Closed
    BY <1>4, ClosedCore
  <1>5. CASE UNCHANGED vars
    BY <1>5
       DEF ReadCore, vars, TypeOK, Counted, Queued, HasResult, EofHeld,
           StateSays, WantedQuiet, CloseStarted, CanceledAtClose, counters,
           reads, closing, Reading, Ending, Busy, Holding, Ended
  <1> QED BY <1>1, <1>2, <1>3, <1>4, <1>5 DEF Next

\* The invariant the theorems below are read off.
THEOREM ReadCoreHolds == Spec => []ReadCore
  BY InitCore, NextCore, PTL DEF Spec

\* The three counters of the context agree with the reads and the queue holds
\* each waiting read once, whatever the interleaving of callbacks, dispatcher and
\* close (globus_xio_pass.c, globus_xio_driver.c).
THEOREM ReadInvariantHolds == Spec => []ReadInvariant
  <1>1. ReadCore => ReadInvariant
    BY DEF ReadCore, Counted, Queued, Holding, Reading, Ending, Busy,
           ReadInvariant, CountersAccounted
  <1> QED BY <1>1, ReadCoreHolds, PTL

\* End of file is called back only when no read is with the driver and the data
\* of the others was delivered (globus_xio_driver_read_delivered).
THEOREM EofIsLast == Spec => []EofLast
  <1>1. ReadCore => EofLast
    <2> SUFFICES ASSUME ReadCore PROVE EofLast
      OBVIOUS
    <2>1. ASSUME NEW i \in Reads, Ended(i, "eof") PROVE Reading = {}
      BY <2>1, CoreFacts DEF ReadCore, EofHeld
    <2> QED BY <2>1 DEF EofLast, Reading
  <1> QED BY <1>1, ReadCoreHolds, PTL

\* globus_i_xio_driver_start_close is reached only when no read is outstanding,
\* although four places decide whether to call it.
THEOREM CloseWaitsForReads == Spec => []CloseAfterReads
  <1>1. ReadCore => CloseAfterReads
    <2> SUFFICES ASSUME ReadCore, close_started
                 PROVE  \A i \in Reads : pc[i] = "idle"
      BY DEF CloseAfterReads
    <2>1. Busy = {}
      BY CoreFacts DEF ReadCore, CloseStarted
    <2> QED BY <2>1 DEF Busy
  <1> QED BY <1>1, ReadCoreHolds, PTL

\* If every close cancels the operations outstanding, no globus_assert of the
\* read side fails.
THEOREM ReadAssertionsHold == ASSUME ~NoCancel PROVE Spec => []AssertionsHold
  <1>1. ReadCore => AssertionsHold
    BY DEF ReadCore, CanceledAtClose, AssertionsHold
  <1> QED BY <1>1, ReadCoreHolds, PTL

=============================================================================
