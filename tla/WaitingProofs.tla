--------------------------- MODULE WaitingProofs ---------------------------
(***************************************************************************)
(* Theorems about the two classes whose callers sleep on a condition       *)
(* variable, for any finite set of threads.                                *)
(*                                                                         *)
(* LockableQueue, for any bound and any batch sizes: the type invariant,   *)
(* the delivery order, the refinement of the abstract FIFO, and that no    *)
(* wake-up is lost but those that push_items never sends.                  *)
(*                                                                         *)
(* RWLock: the inductive invariant is the type invariant with              *)
(* CountsAreExact.  That the counts are the cardinalities of the sets of   *)
(* readers and writers is what keeps num_reads_ from being decremented     *)
(* below zero, and that a thread sleeps in read_lock only on a lock with a *)
(* writer follows beside it.                                               *)
(***************************************************************************)
EXTENDS LockableQueue, RWLock, SequenceTheorems, FiniteSetTheorems, TLAPS

-----------------------------------------------------------------------------
(* RWLock.                                                                  *)

\* Subsets of the set of threads can be counted.
LEMMA Countable == ASSUME NEW S, S \subseteq Threads
                   PROVE  IsFiniteSet(S) /\ Cardinality(S) \in Nat
  BY ThreadsAssumption, FS_Subset, FS_CardinalityType

LEMMA InitLock == RWInit => RWInv
<1> SUFFICES ASSUME RWInit PROVE RWInv
  OBVIOUS
<1>1. RWTypeOK
  BY DEF RWInit, RWTypeOK, At
<1>2. Readers = {} /\ Writers = {}
  BY DEF RWInit, Readers, Writers
<1>3. CountsAreExact
  BY <1>2, FS_EmptySet DEF RWInit, CountsAreExact
<1>4. ReadersSleepBehindWriters
  BY DEF RWInit, ReadersSleepBehindWriters
<1> QED BY <1>1, <1>3, <1>4 DEF RWInv

LEMMA ReadLockKeeps == ASSUME RWInv, NEW t \in Threads, ReadLock(t) PROVE RWInv'
<1> USE DEF RWInv
<1>1. CASE MayRead
  <2>1. /\ numReads' = numReads + 1 /\ numWrites' = numWrites
        /\ at' = [at EXCEPT ![t] = "reading"] /\ at[t] \in {"out", "read_woken"}
    BY <1>1 DEF ReadLock
  <2>2. RWTypeOK'
    BY <2>1 DEF RWTypeOK, At
  <2>3. Readers' = Readers \cup {t} /\ t \notin Readers /\ Writers' = Writers
    BY <2>1 DEF Readers, Writers, RWTypeOK, At
  <2>4. Cardinality(Readers') = Cardinality(Readers) + 1
    BY <2>3, Countable, FS_AddElement DEF Readers
  <2>5. CountsAreExact'
    BY <2>1, <2>3, <2>4 DEF CountsAreExact
  <2>6. ReadersSleepBehindWriters'
    BY <2>1 DEF ReadersSleepBehindWriters, RWTypeOK, At
  <2> QED BY <2>2, <2>5, <2>6
<1>2. CASE ~MayRead
  <2>1. /\ UNCHANGED <<numReads, numWrites>> /\ numWrites # 0
        /\ at' = [at EXCEPT ![t] = "read_wait"] /\ at[t] \in {"out", "read_woken"}
    BY <1>2 DEF ReadLock, MayRead
  <2>2. RWTypeOK'
    BY <2>1 DEF RWTypeOK, At, Sleeping
  <2>3. Readers' = Readers /\ Writers' = Writers
    BY <2>1 DEF Readers, Writers, RWTypeOK, At
  <2>4. CountsAreExact'
    BY <2>1, <2>3 DEF CountsAreExact
  <2>5. ReadersSleepBehindWriters'
    BY <2>1 DEF ReadersSleepBehindWriters, RWTypeOK, At
  <2> QED BY <2>2, <2>4, <2>5
<1> QED BY <1>1, <1>2

LEMMA ReadUnlockKeeps == ASSUME RWInv, NEW t \in Threads, ReadUnlock(t) PROVE RWInv'
<1> USE DEF RWInv
<1>1. /\ numReads' = numReads - 1 /\ numWrites' = numWrites
      /\ at[t] = "reading" /\ t \in Readers
  BY DEF ReadUnlock, Readers
<1>2. \A u \in Threads : /\ at'[u] \in At
                         /\ u = t => at'[u] = "out"
                         /\ u # t => at'[u] = at[u] \/ at'[u] = Roused(at[u])
  BY DEF ReadUnlock, RWTypeOK, At, Roused, Sleeping, Woken
<1>3. at' \in [Threads -> At]
  BY <1>2 DEF ReadUnlock
<1>4. \A u \in Threads : /\ at'[u] = "reading" <=> at[u] = "reading" /\ u # t
                         /\ at'[u] = "writing" <=> at[u] = "writing"
                         /\ at'[u] = "read_wait" => at[u] = "read_wait"
  BY <1>1, <1>2 DEF Roused
<1>5. Readers' = Readers \ {t} /\ Writers' = Writers
  BY <1>4 DEF Readers, Writers
<1>6. Cardinality(Readers') = Cardinality(Readers) - 1
  BY <1>1, <1>5, Countable, FS_RemoveElement DEF Readers
<1>7. Cardinality(Readers') \in Nat
  BY Countable DEF Readers
<1>8. RWTypeOK'
  BY <1>1, <1>3, <1>6, <1>7 DEF RWTypeOK, CountsAreExact
<1>9. CountsAreExact'
  BY <1>1, <1>5, <1>6 DEF CountsAreExact
<1>10. ReadersSleepBehindWriters'
  BY <1>1, <1>4 DEF ReadersSleepBehindWriters
<1> QED BY <1>8, <1>9, <1>10

LEMMA WriteLockKeeps == ASSUME RWInv, NEW t \in Threads, WriteLock(t) PROVE RWInv'
<1> USE DEF RWInv
<1>1. CASE MayWrite
  <2>1. /\ numWrites' = numWrites + 1 /\ numReads' = numReads
        /\ at' = [at EXCEPT ![t] = "writing"] /\ at[t] \in {"out", "write_woken"}
    BY <1>1 DEF WriteLock
  <2>2. RWTypeOK'
    BY <2>1 DEF RWTypeOK, At
  <2>3. Writers' = Writers \cup {t} /\ t \notin Writers /\ Readers' = Readers
    BY <2>1 DEF Readers, Writers, RWTypeOK, At
  <2>4. Cardinality(Writers') = Cardinality(Writers) + 1
    BY <2>3, Countable, FS_AddElement DEF Writers
  <2>5. CountsAreExact'
    BY <2>1, <2>3, <2>4 DEF CountsAreExact
  <2>6. ReadersSleepBehindWriters'
    BY <2>1 DEF ReadersSleepBehindWriters, RWTypeOK, At
  <2> QED BY <2>2, <2>5, <2>6
<1>2. CASE ~MayWrite
  <2>1. /\ UNCHANGED <<numReads, numWrites>>
        /\ at' = [at EXCEPT ![t] = "write_wait"] /\ at[t] \in {"out", "write_woken"}
    BY <1>2 DEF WriteLock
  <2>2. RWTypeOK'
    BY <2>1 DEF RWTypeOK, At, Sleeping
  <2>3. Readers' = Readers /\ Writers' = Writers
    BY <2>1 DEF Readers, Writers, RWTypeOK, At
  <2>4. CountsAreExact'
    BY <2>1, <2>3 DEF CountsAreExact
  <2>5. ReadersSleepBehindWriters'
    BY <2>1 DEF ReadersSleepBehindWriters, RWTypeOK, At
  <2> QED BY <2>2, <2>4, <2>5
<1> QED BY <1>1, <1>2

LEMMA SpuriousKeeps == ASSUME RWInv, NEW t \in Threads, WakeForNothing(t) PROVE RWInv'
<1> USE DEF RWInv
<1>1. /\ UNCHANGED <<numReads, numWrites>>
      /\ at' = [at EXCEPT ![t] = Roused(at[t])] /\ at[t] \in {"read_wait", "write_wait"}
  BY DEF WakeForNothing, Sleeping
<1>2. Roused(at[t]) \in {"read_woken", "write_woken"}
  BY <1>1 DEF Roused
<1>3. RWTypeOK'
  BY <1>1, <1>2 DEF RWTypeOK, At, Woken
<1>4. Readers' = Readers /\ Writers' = Writers
  BY <1>1, <1>2 DEF Readers, Writers, RWTypeOK, At
<1>5. CountsAreExact'
  BY <1>1, <1>4 DEF CountsAreExact
<1>6. ReadersSleepBehindWriters'
  BY <1>1, <1>2 DEF ReadersSleepBehindWriters, RWTypeOK, At
<1> QED BY <1>3, <1>5, <1>6

LEMMA NextLock == RWInv /\ [RWNext]_rwVars => RWInv'
<1> SUFFICES ASSUME RWInv, [RWNext]_rwVars PROVE RWInv'
  OBVIOUS
<1>1. CASE UNCHANGED rwVars
  BY <1>1 DEF rwVars, RWInv, RWTypeOK, CountsAreExact,
              ReadersSleepBehindWriters, Readers, Writers
<1>2. ASSUME NEW t \in Threads, ReadLock(t) PROVE RWInv'
  BY <1>2, ReadLockKeeps
<1>3. ASSUME NEW t \in Threads, ReadUnlock(t) PROVE RWInv'
  BY <1>3, ReadUnlockKeeps
<1>4. ASSUME NEW t \in Threads, WriteLock(t) PROVE RWInv'
  BY <1>4, WriteLockKeeps
<1>5. ASSUME NEW t \in Threads, WakeForNothing(t) PROVE RWInv'
  BY <1>5, SpuriousKeeps
<1> QED BY <1>1, <1>2, <1>3, <1>4, <1>5 DEF RWNext

\* The counts are exact and readers sleep only behind writers, for any finite
\* set of threads: the inductive invariant the theorems below are parts of.
THEOREM LockSafe == RWSpec => []RWInv
<1> QED BY InitLock, NextLock, PTL DEF RWSpec

-----------------------------------------------------------------------------
\* The variables of the lock keep their types: num_reads_ never wraps while
\* only readers call read_unlock.
THEOREM LockTypeCorrect == RWSpec => []RWTypeOK
<1>1. RWInv => RWTypeOK
  BY DEF RWInv
<1> QED BY <1>1, LockSafe, PTL

\* num_reads_ and num_writes_ are the numbers of threads the lock let in.
THEOREM ExactCounts == RWSpec => []CountsAreExact
<1>1. RWInv => CountsAreExact
  BY DEF RWInv
<1> QED BY <1>1, LockSafe, PTL

\* A thread sleeps in read_lock only on a lock with a writer in it.
THEOREM ReadersWaitForWriters == RWSpec => []ReadersSleepBehindWriters
<1>1. RWInv => ReadersSleepBehindWriters
  BY DEF RWInv
<1> QED BY <1>1, LockSafe, PTL

\* No reader enters a lock that has a writer in it, for any set of threads.
THEOREM ReadersOnlyLeave == RWSpec => NoReaderJoinsWriter
<1>1. RWTypeOK /\ [RWNext]_rwVars =>
          [numWrites > 0 => Readers' \subseteq Readers]_rwVars
  <2> SUFFICES ASSUME RWTypeOK, RWNext, numWrites > 0, NEW u \in Threads, at'[u] = "reading"
               PROVE  at[u] = "reading"
    BY DEF Readers
  <2> PICK t \in Threads : \/ ReadLock(t) \/ ReadUnlock(t)
                             \/ WriteLock(t) \/ WakeForNothing(t)
    BY DEF RWNext
  <2>1. CASE ReadLock(t)
    BY <2>1 DEF ReadLock, MayRead, RWTypeOK, At
  <2>2. CASE ReadUnlock(t)
    <3>1. at[u] = "reading" \/ Roused(at[u]) # "reading"
      BY DEF Roused
    <3> QED BY <2>2, <3>1 DEF ReadUnlock
  <2>3. CASE WriteLock(t)
    BY <2>3 DEF WriteLock, RWTypeOK, At
  <2>4. CASE WakeForNothing(t)
    <3>1. at[t] = "reading" \/ Roused(at[t]) # "reading"
      BY DEF Roused
    <3> QED BY <2>4, <3>1 DEF WakeForNothing, RWTypeOK
  <2> QED BY <2>1, <2>2, <2>3, <2>4
<1> QED BY <1>1, LockTypeCorrect, PTL DEF RWSpec, NoReaderJoinsWriter

-----------------------------------------------------------------------------
(* LockableQueue.                                                           *)

USE BatchAssumption, MaxItemsAssumption

\* The range that push_items appends is a sequence of k new elements.
LEMMA FreshIsSeq ==
    ASSUME NEW k \in Nat, pushed \in Nat, pushed + k <= MaxItems
    PROVE  /\ Fresh(k) \in Seq(Item)
           /\ Fresh(k) \in [1..k -> Item]
           /\ Len(Fresh(k)) = k
           /\ \A i \in 1..k : Fresh(k)[i] = pushed + i
<1>1. \A i \in 1..k : pushed + i \in Item
  BY DEF Item
<1>2. Fresh(k) \in [1..k -> Item]
  BY <1>1 DEF Fresh
<1>3. Fresh(k) \in Seq(Item)
  BY <1>2
<1>4. Len(Fresh(k)) = k
  BY <1>2, <1>3, LenProperties
<1> QED
  BY <1>2, <1>3, <1>4 DEF Fresh

\* Type correctness: the queue holds only pushed elements, and no pop ever
\* reads the front of an empty queue.
THEOREM TypeCorrect == Spec => []TypeOK
<1>1. Init => TypeOK
  BY DEF Init, TypeOK, PC
<1>2. TypeOK /\ [Next]_vars => TypeOK'
  <2> SUFFICES ASSUME TypeOK, [Next]_vars PROVE TypeOK'
    OBVIOUS
  <2> USE DEF TypeOK
  <2>n. ASSUME NotifyOne PROVE pc' \in [Consumers -> PC]
    BY <2>n DEF NotifyOne, PC, Asleep
  <2>t. ASSUME NEW c \in Consumers, TakeFront(c) PROVE TypeOK'
    <3>1. Head(queue) \in Item /\ Tail(queue) \in Seq(Item)
      BY <2>t, HeadTailProperties DEF TakeFront
    <3>2. Append(got[c], Head(queue)) \in Seq(Item)
      BY <3>1, AppendProperties
    <3> QED
      BY <2>t, <3>1, <3>2 DEF TakeFront, PC
  <2>s. ASSUME NEW c \in Consumers, Sleep(c) PROVE TypeOK'
    BY <2>s DEF Sleep, PC
  <2>1. CASE PushItem
    <3>1. pushed + 1 \in Item
      BY <2>1 DEF PushItem, Item
    <3>2. queue' \in Seq(Item)
      BY <2>1, <3>1, AppendProperties DEF PushItem
    <3> QED
      BY <2>1, <2>n, <3>2 DEF PushItem
  <2>2. ASSUME NEW k \in BatchSizes, PushItems(k) PROVE TypeOK'
    <3>1. queue' \in Seq(Item)
      BY <2>2, FreshIsSeq, ConcatProperties DEF PushItems
    <3> QED
      BY <2>2, <2>n, <3>1 DEF PushItems
  <2>3. ASSUME NEW c \in Consumers, Pop(c) PROVE TypeOK'
    BY <2>3, <2>t DEF Pop
  <2>4. ASSUME NEW c \in Consumers, PopWait(c) PROVE TypeOK'
    BY <2>4, <2>t, <2>s DEF PopWait
  <2>5. ASSUME NEW c \in Consumers, Wake(c) PROVE TypeOK'
    BY <2>5, <2>t, <2>s DEF Wake
  <2>6. ASSUME NEW c \in Consumers, SpuriousWakeup(c) PROVE TypeOK'
    BY <2>6 DEF SpuriousWakeup, PC
  <2>7. CASE UNCHANGED vars
    BY <2>7 DEF vars
  <2> QED
    BY <2>1, <2>2, <2>3, <2>4, <2>5, <2>6, <2>7 DEF Next
<1> QED
  BY <1>1, <1>2, PTL DEF Spec

-----------------------------------------------------------------------------
\* Elements are numbered as they are pushed, the queue holds the latest ones
\* in a row, and everything handed out is older than what is stored: the
\* inductive form of the delivery order.
OrderInv == /\ \A i \in 1..Len(queue) : queue[i] = pushed - Len(queue) + i
            /\ Len(queue) <= pushed
            /\ \A c \in Consumers : \A i \in DOMAIN got[c] :
                   got[c][i] <= pushed - Len(queue)
            /\ DeliveredInOrder

LEMMA TakeKeepsOrder ==
    ASSUME TypeOK, OrderInv, NEW c \in Consumers, TakeFront(c)
    PROVE  OrderInv'
<1> USE DEF TypeOK, TakeFront
<1>1. /\ Head(queue) = queue[1]
      /\ Len(queue) \in Nat \ {0}
      /\ Len(Tail(queue)) = Len(queue) - 1
      /\ \A i \in 1..Len(Tail(queue)) : Tail(queue)[i] = queue[i + 1]
      /\ Head(queue) \in Item
  BY HeadTailProperties, EmptySeq
<1>2. Head(queue) = pushed - Len(queue) + 1
  BY <1>1 DEF OrderInv
<1>3. /\ \A i \in 1..Len(queue') : queue'[i] = pushed' - Len(queue') + i
      /\ Len(queue') <= pushed'
  BY <1>1 DEF OrderInv
<1>4. ASSUME NEW d \in Consumers, d # c
      PROVE  got'[d] = got[d]
  BY <1>4
<1>5. /\ Len(got'[c]) = Len(got[c]) + 1
      /\ DOMAIN got[c] = 1..Len(got[c])
      /\ DOMAIN got'[c] = 1..Len(got'[c])
      /\ \A i \in 1..Len(got[c]) : got'[c][i] = got[c][i]
      /\ got'[c][Len(got[c]) + 1] = Head(queue)
      /\ Len(got[c]) \in Nat
      /\ \A i \in 1..Len(got[c]) : got[c][i] \in Nat
  <2>1. got'[c] = Append(got[c], Head(queue))
    OBVIOUS
  <2>2. got[c] \in Seq(Item) /\ got'[c] \in Seq(Item)
    BY <1>1, <2>1, AppendProperties
  <2> QED
    BY <1>1, <2>1, <2>2, AppendProperties, LenProperties DEF Item
<1>6. \A d \in Consumers : \A i \in DOMAIN got'[d] :
          got'[d][i] <= pushed' - Len(queue')
  <2> SUFFICES ASSUME NEW d \in Consumers, NEW i \in DOMAIN got'[d]
               PROVE  got'[d][i] <= pushed - Len(queue) + 1
    BY <1>1
  <2>1. CASE d = c
    BY <1>1, <1>2, <1>5, <2>1 DEF OrderInv
  <2>2. CASE d # c
    <3>1. i \in DOMAIN got[d] /\ got'[d][i] = got[d][i]
      BY <1>4, <2>2
    <3>2. got[d][i] \in Nat
      BY <3>1, LenProperties DEF Item
    <3> QED
      BY <1>1, <3>1, <3>2 DEF OrderInv
  <2> QED
    BY <2>1, <2>2
<1>7. DeliveredInOrder'
  <2> SUFFICES ASSUME NEW d \in Consumers,
                      NEW i \in DOMAIN got'[d], NEW j \in DOMAIN got'[d], i < j
               PROVE  got'[d][i] < got'[d][j]
    BY DEF DeliveredInOrder
  <2>1. CASE d = c
    <3>1. CASE j = Len(got[c]) + 1
      <4>1. i \in 1..Len(got[c]) /\ got[c][i] <= pushed - Len(queue)
        BY <1>5, <2>1, <3>1 DEF OrderInv
      <4> QED
        BY <1>1, <1>2, <1>5, <2>1, <3>1, <4>1
    <3>2. CASE j # Len(got[c]) + 1
      BY <1>5, <2>1, <3>2 DEF OrderInv, DeliveredInOrder
    <3> QED
      BY <3>1, <3>2
  <2>2. CASE d # c
    BY <1>4, <2>2 DEF OrderInv, DeliveredInOrder
  <2> QED
    BY <2>1, <2>2
<1> QED
  BY <1>3, <1>6, <1>7 DEF OrderInv

LEMMA PushKeepsOrder ==
    ASSUME TypeOK, OrderInv, NEW k \in Nat, pushed + k <= MaxItems,
           queue' = queue \o Fresh(k), pushed' = pushed + k, UNCHANGED got
    PROVE  OrderInv'
<1> USE DEF TypeOK
<1>1. /\ Len(queue') = Len(queue) + k
      /\ Len(queue) \in Nat
      /\ \A i \in 1..(Len(queue) + k) :
             queue'[i] = IF i <= Len(queue) THEN queue[i] ELSE Fresh(k)[i - Len(queue)]
  <2>1. queue \in Seq(Item) /\ Fresh(k) \in Seq(Item) /\ Len(Fresh(k)) = k
    BY FreshIsSeq
  <2> QED
    BY <2>1, ConcatProperties, LenProperties
<1>2. \A i \in 1..Len(queue') : queue'[i] = pushed' - Len(queue') + i
  BY <1>1, FreshIsSeq DEF OrderInv
<1>3. pushed' - Len(queue') = pushed - Len(queue) /\ Len(queue') <= pushed'
  BY <1>1 DEF OrderInv
<1> QED
  BY <1>2, <1>3 DEF OrderInv, DeliveredInOrder

\* A push of one element appends the same thing as a range of length one.
LEMMA AppendOne ==
    ASSUME TypeOK, pushed < MaxItems
    PROVE  Append(queue, pushed + 1) = queue \o Fresh(1)
<1>1. Fresh(1) = <<pushed + 1>>
  BY DEF Fresh
<1>2. pushed + 1 \in Item
  BY DEF Item, TypeOK
<1> QED
  BY <1>1, <1>2, AppendIsConcat DEF TypeOK

\* Every consumer gets its elements in push order, whatever the number of
\* consumers, the ranges pushed and the wake-ups that come.
THEOREM OrderedDelivery == Spec => []DeliveredInOrder
<1>1. Init => OrderInv
  BY DEF Init, OrderInv, DeliveredInOrder
<1>2. TypeOK /\ OrderInv /\ [Next]_vars => OrderInv'
  <2> SUFFICES ASSUME TypeOK, OrderInv, [Next]_vars PROVE OrderInv'
    OBVIOUS
  <2>s. ASSUME UNCHANGED <<queue, pushed, got>> PROVE OrderInv'
    BY <2>s DEF OrderInv, DeliveredInOrder
  <2>1. CASE PushItem
    BY <2>1, AppendOne, PushKeepsOrder DEF PushItem, TypeOK
  <2>2. ASSUME NEW k \in BatchSizes, PushItems(k) PROVE OrderInv'
    BY <2>2, PushKeepsOrder DEF PushItems
  <2>3. ASSUME NEW c \in Consumers, Pop(c) \/ PopWait(c) \/ Wake(c) PROVE OrderInv'
    BY <2>3, <2>s, TakeKeepsOrder DEF Pop, PopWait, Wake, Sleep
  <2>4. ASSUME NEW c \in Consumers, SpuriousWakeup(c) PROVE OrderInv'
    BY <2>4, <2>s DEF SpuriousWakeup
  <2>5. CASE UNCHANGED vars
    BY <2>5, <2>s DEF vars
  <2> QED
    BY <2>1, <2>2, <2>3, <2>4, <2>5 DEF Next
<1>3. OrderInv => DeliveredInOrder
  BY DEF OrderInv
<1> QED
  BY <1>1, <1>2, <1>3, TypeCorrect, PTL DEF Spec

-----------------------------------------------------------------------------
LEMMA NotifiedFinite ==
    /\ IsFiniteSet(Notified) /\ Cardinality(Notified) \in Nat
    /\ IsFiniteSet(Notified') /\ Cardinality(Notified') \in Nat
BY ConsumersAssumption, FS_Subset, FS_CardinalityType DEF Notified

\* A notified consumer is one more of the woken...
LEMMA OneMoreNotified ==
    ASSUME TypeOK, NEW c \in Asleep, pc' = [pc EXCEPT ![c] = "notified"]
    PROVE  Cardinality(Notified') = Cardinality(Notified) + 1
<1>1. Notified' = Notified \cup {c} /\ c \notin Notified
  BY DEF Notified, Asleep, TypeOK, PC
<1> QED
  BY <1>1, NotifiedFinite, FS_AddElement

\* ...and leaves them when it returns to its caller with an element.
LEMMA OneLessNotified ==
    ASSUME TypeOK, NEW c \in Notified, pc' = [pc EXCEPT ![c] = "out"]
    PROVE  /\ Cardinality(Notified') = Cardinality(Notified) - 1
           /\ Asleep' = Asleep
<1>1. Notified' = Notified \ {c}
  BY DEF Notified, TypeOK, PC
<1>2. Asleep' = Asleep
  BY DEF Notified, Asleep, TypeOK, PC
<1> QED
  BY <1>1, <1>2, NotifiedFinite, FS_RemoveElement

\* Pushing k elements and notifying once keeps a woken consumer per element,
\* but for the k - 1 elements that nobody is told of.
LEMMA PushKeepsWakeups ==
    ASSUME TypeOK, NoLostWakeup, NotifyOne, NEW k \in Nat \ {0},
           Len(queue') = Len(queue) + k, unannounced' = unannounced + (k - 1)
    PROVE  NoLostWakeup'
<1>1. CASE Asleep = {} /\ UNCHANGED pc
  BY <1>1 DEF NoLostWakeup, Asleep
<1>2. ASSUME NEW c \in Asleep, pc' = [pc EXCEPT ![c] = "notified"]
      PROVE  NoLostWakeup'
  <2>1. /\ Len(queue) <= Cardinality(Notified) + unannounced
        /\ Len(queue) \in Nat /\ unannounced \in Nat
    BY LenProperties DEF NoLostWakeup, TypeOK
  <2>2. Cardinality(Notified') = Cardinality(Notified) + 1
    BY <1>2, OneMoreNotified
  <2> QED
    BY <2>1, <2>2, NotifiedFinite DEF NoLostWakeup
<1> QED
  BY <1>1, <1>2 DEF NotifyOne

\* No wake-up of the condition variable is lost, for any number of consumers
\* that mix pop and pop_wait and any ranges, but the k - 1 that push_items does
\* not send for a range of k; with elements pushed one at a time there are none.
THEOREM WakeupsNotLost == Spec => []NoLostWakeup
<1>1. Init => NoLostWakeup
  BY DEF Init, NoLostWakeup, Asleep
<1>2. TypeOK /\ NoLostWakeup /\ [Next]_vars => NoLostWakeup'
  <2> SUFFICES ASSUME TypeOK, NoLostWakeup, [Next]_vars PROVE NoLostWakeup'
    OBVIOUS
  <2>t. ASSUME NEW c \in Consumers, TakeFront(c)
        PROVE  /\ Len(queue') = Len(queue) - 1 /\ Len(queue) \in Nat
               /\ unannounced' = unannounced /\ unannounced \in Nat
    BY <2>t, HeadTailProperties, LenProperties DEF TakeFront, TypeOK
  <2>s. ASSUME NEW c \in Consumers, Sleep(c) PROVE NoLostWakeup'
    <3>1. Len(queue') = 0 /\ unannounced' \in Nat
      BY <2>s, EmptySeq DEF Sleep, TypeOK
    <3> QED
      BY <3>1, NotifiedFinite DEF NoLostWakeup
  <2>o. ASSUME NEW c \in Consumers, pc[c] = "out", TakeFront(c) PROVE NoLostWakeup'
    <3>1. Asleep' = Asleep /\ Notified' = Notified
      BY <2>o DEF TakeFront, Asleep, Notified, TypeOK, PC
    <3> QED
      BY <2>o, <2>t, <3>1, NotifiedFinite DEF NoLostWakeup
  <2>1. CASE PushItem
    <3>1. Len(queue') = Len(queue) + 1
      BY <2>1, AppendOne, FreshIsSeq, ConcatProperties DEF PushItem, TypeOK
    <3>2. unannounced' = unannounced + (1 - 1)
      BY <2>1 DEF PushItem, TypeOK
    <3> QED
      BY <2>1, <3>1, <3>2, PushKeepsWakeups DEF PushItem
  <2>2. ASSUME NEW k \in BatchSizes, PushItems(k) PROVE NoLostWakeup'
    <3>1. k \in Nat \ {0}
      BY <2>2 DEF PushItems
    <3>2. Fresh(k) \in Seq(Item) /\ Len(Fresh(k)) = k
      BY <2>2, <3>1, FreshIsSeq DEF PushItems, TypeOK
    <3>3. queue' = queue \o Fresh(k) /\ queue \in Seq(Item)
      BY <2>2 DEF PushItems, TypeOK
    <3>4. Len(queue') = Len(queue) + k
      BY <3>2, <3>3, ConcatProperties
    <3> QED
      BY <2>2, <3>1, <3>4, PushKeepsWakeups DEF PushItems
  <2>3. ASSUME NEW c \in Consumers, Pop(c) \/ PopWait(c) PROVE NoLostWakeup'
    BY <2>3, <2>o, <2>s DEF Pop, PopWait
  <2>4. ASSUME NEW c \in Consumers, Wake(c) PROVE NoLostWakeup'
    <3>1. CASE TakeFront(c)
      <4>1. c \in Notified /\ pc' = [pc EXCEPT ![c] = "out"]
        BY <2>4, <3>1 DEF Wake, Notified, TakeFront
      <4>2. Cardinality(Notified') = Cardinality(Notified) - 1 /\ Asleep' = Asleep
        BY <4>1, OneLessNotified
      <4> QED
        BY <2>t, <3>1, <4>2, NotifiedFinite DEF NoLostWakeup
    <3>2. CASE Sleep(c)
      BY <2>s, <3>2
    <3> QED
      BY <2>4, <3>1, <3>2 DEF Wake
  <2>5. ASSUME NEW c \in Consumers, SpuriousWakeup(c) PROVE NoLostWakeup'
    <3>1. c \in Asleep /\ pc' = [pc EXCEPT ![c] = "notified"]
          /\ queue' = queue /\ unannounced' = unannounced
      BY <2>5 DEF SpuriousWakeup, Asleep
    <3>2. /\ Len(queue) <= Cardinality(Notified) + unannounced
          /\ Len(queue) \in Nat /\ unannounced \in Nat
      BY <3>1, LenProperties DEF NoLostWakeup, TypeOK
    <3>3. Cardinality(Notified') = Cardinality(Notified) + 1
      BY <3>1, OneMoreNotified
    <3> QED
      BY <3>1, <3>2, <3>3, NotifiedFinite DEF NoLostWakeup
  <2>6. CASE UNCHANGED vars
    BY <2>6 DEF vars, NoLostWakeup, Asleep, Notified
  <2> QED
    BY <2>1, <2>2, <2>3, <2>4, <2>5, <2>6 DEF Next
<1> QED
  BY <1>1, <1>2, TypeCorrect, PTL DEF Spec

-----------------------------------------------------------------------------
\* The queue implements the abstract first-in first-out queue: a push puts,
\* every way of popping takes, and falling asleep or waking is a stutter.
THEOREM RefinesFIFO == Spec => ImplementsFIFO
<1>1. Init => Abstract!Init
  BY DEF Init, Abstract!Init
<1>2. TypeOK /\ [Next]_vars => [Abstract!Next]_(Abstract!vars)
  <2> SUFFICES ASSUME TypeOK, [Next]_vars PROVE [Abstract!Next]_(Abstract!vars)
    OBVIOUS
  <2>p. ASSUME NEW k \in Nat \ {0}, pushed + k <= MaxItems,
               queue' = queue \o Fresh(k), UNCHANGED got
        PROVE  Abstract!Next
    <3>1. k \in 1..MaxItems /\ Fresh(k) \in [1..k -> Item]
      BY <2>p, FreshIsSeq DEF TypeOK
    <3>2. Fresh(k) \in Abstract!Batches
      BY <3>1 DEF Abstract!Batches
    <3>3. Abstract!Put(Fresh(k))
      BY <2>p DEF Abstract!Put
    <3> QED
      BY <3>2, <3>3 DEF Abstract!Next
  <2>t. ASSUME NEW c \in Consumers, TakeFront(c) PROVE Abstract!Next
    BY <2>t DEF TakeFront, Abstract!Next, Abstract!Take
  <2>s. ASSUME UNCHANGED <<queue, pushed, got>> PROVE UNCHANGED Abstract!vars
    BY <2>s DEF Abstract!vars
  <2>1. CASE PushItem
    BY <2>1, <2>p, AppendOne DEF PushItem, TypeOK
  <2>2. ASSUME NEW k \in BatchSizes, PushItems(k) PROVE Abstract!Next
    <3>1. k \in Nat \ {0}
      BY <2>2 DEF PushItems
    <3> QED
      BY <2>2, <2>p, <3>1 DEF PushItems
  <2>3. ASSUME NEW c \in Consumers, Pop(c) \/ PopWait(c) \/ Wake(c)
        PROVE  Abstract!Next \/ UNCHANGED Abstract!vars
    BY <2>3, <2>t, <2>s DEF Pop, PopWait, Wake, Sleep
  <2>4. ASSUME NEW c \in Consumers, SpuriousWakeup(c) PROVE UNCHANGED Abstract!vars
    BY <2>4, <2>s DEF SpuriousWakeup
  <2>5. CASE UNCHANGED vars
    BY <2>5, <2>s DEF vars
  <2> QED
    BY <2>1, <2>2, <2>3, <2>4, <2>5 DEF Next
<1> QED
  BY <1>1, <1>2, TypeCorrect, PTL DEF Spec, ImplementsFIFO, Abstract!Spec

\* Types, wake-ups and order together: what push_item, push_items, pop and
\* pop_wait keep for any number of consumers and any ranges.
THEOREM QueueSafe == Spec => []Inv
<1>1. TypeOK /\ NoLostWakeup /\ DeliveredInOrder => Inv
  BY DEF Inv
<1> QED BY <1>1, TypeCorrect, WakeupsNotLost, OrderedDelivery, PTL
=============================================================================
