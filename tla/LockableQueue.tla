--------------------------- MODULE LockableQueue ---------------------------
(***************************************************************************)
(* kernel::LockableQueue<T> (and its twin kernel::TaskQueue<T>): a         *)
(* std::queue behind a mutex, with a condition variable on which pop_wait  *)
(* sleeps while the queue is empty.                                        *)
(*                                                                         *)
(* Every member function holds the mutex from its first to its last        *)
(* access, so it is one atomic step; the exception is cond_.wait, which    *)
(* releases the mutex while the thread sleeps.  A consumer inside pop_wait *)
(* is "asleep" (in the condition variable's wait set) or "notified"        *)
(* (woken, but it has yet to take the mutex again and re-test the          *)
(* predicate).  Elements are numbered in the order they are pushed.        *)
(***************************************************************************)
EXTENDS Naturals, Sequences, FiniteSets

CONSTANTS Consumers,    \* threads that pop
          BatchSizes,   \* the lengths of the ranges given to push_items
          MaxItems      \* bound: elements pushed over the whole behaviour

ASSUME ConsumersAssumption == IsFiniteSet(Consumers)
ASSUME BatchAssumption == BatchSizes \subseteq Nat
ASSUME MaxItemsAssumption == MaxItems \in Nat

VARIABLES queue,    \* task_queue_
          pushed,   \* how many elements have been pushed so far
          pc,       \* where each consumer is: see PC
          got,      \* got[c]: what consumer c's pops have returned, in order
          unannounced  \* history: elements of ranges pushed beyond the first,
                       \* which push_items announces to nobody

vars == <<queue, pushed, pc, got, unannounced>>

PC == {"out", "asleep", "notified"}
Item == 1..MaxItems

Asleep == {c \in Consumers : pc[c] = "asleep"}
Notified == {c \in Consumers : pc[c] = "notified"}

TypeOK == /\ queue \in Seq(Item)
          /\ pushed \in 0..MaxItems
          /\ pc \in [Consumers -> PC]
          /\ got \in [Consumers -> Seq(Item)]
          /\ unannounced \in 0..pushed

-----------------------------------------------------------------------------
Init == /\ queue = <<>>
        /\ pushed = 0
        /\ pc = [c \in Consumers |-> "out"]
        /\ got = [c \in Consumers |-> <<>>]
        /\ unannounced = 0

\* cond_.notify_one(): one sleeper, any of them, leaves the wait set.
NotifyOne == \/ Asleep = {} /\ UNCHANGED pc
             \/ \E c \in Asleep : pc' = [pc EXCEPT ![c] = "notified"]

\* The k elements that a push appends.
Fresh(k) == [i \in 1..k |-> pushed + i]

\* Mutant: an element is stored and nobody is told.
PushItemSilently == /\ pushed < MaxItems
                    /\ queue' = Append(queue, pushed + 1)
                    /\ pushed' = pushed + 1
                    /\ UNCHANGED <<pc, got, unannounced>>

\* Mutant: the new element goes to the front.
PushItemInFront == /\ pushed < MaxItems
                   /\ queue' = <<pushed + 1>> \o queue
                   /\ pushed' = pushed + 1
                   /\ NotifyOne
                   /\ UNCHANGED <<got, unannounced>>

PushItem == /\ pushed < MaxItems
            /\ queue' = Append(queue, pushed + 1)
            /\ pushed' = pushed + 1
            /\ NotifyOne
            /\ UNCHANGED <<got, unannounced>>

\* push_items returns at once on an empty range; otherwise it pushes the
\* whole range and then notifies once.
PushItems(k) == /\ k > 0
                /\ pushed + k <= MaxItems
                /\ queue' = queue \o Fresh(k)
                /\ pushed' = pushed + k
                /\ unannounced' = unannounced + (k - 1)
                /\ NotifyOne
                /\ UNCHANGED got

\* Mutant: the front element is returned and stays in the queue.
TakeFrontAndKeep(c) == /\ queue # <<>>
                       /\ got' = [got EXCEPT ![c] = Append(@, Head(queue))]
                       /\ pc' = [pc EXCEPT ![c] = "out"]
                       /\ UNCHANGED <<queue, pushed, unannounced>>

\* Consumer c removes the front element and returns it to its caller.
TakeFront(c) == /\ queue # <<>>
                /\ queue' = Tail(queue)
                /\ got' = [got EXCEPT ![c] = Append(@, Head(queue))]
                /\ pc' = [pc EXCEPT ![c] = "out"]
                /\ UNCHANGED <<pushed, unannounced>>

\* pop: on an empty queue it returns false and changes nothing.
Pop(c) == pc[c] = "out" /\ TakeFront(c)

Sleep(c) == /\ queue = <<>>
            /\ pc' = [pc EXCEPT ![c] = "asleep"]
            /\ UNCHANGED <<queue, pushed, got, unannounced>>

\* pop_wait: the predicate is tested before the first sleep...
PopWait(c) == pc[c] = "out" /\ (TakeFront(c) \/ Sleep(c))

\* ...and again after every wake-up.
Wake(c) == pc[c] = "notified" /\ (TakeFront(c) \/ Sleep(c))

\* A condition variable may wake a sleeper that nobody notified.
SpuriousWakeup(c) == /\ pc[c] = "asleep"
                     /\ pc' = [pc EXCEPT ![c] = "notified"]
                     /\ UNCHANGED <<queue, pushed, got, unannounced>>

Next == \/ PushItem
        \/ \E k \in BatchSizes : PushItems(k)
        \/ \E c \in Consumers : \/ Pop(c)
                                \/ PopWait(c)
                                \/ Wake(c)
                                \/ SpuriousWakeup(c)

Spec == Init /\ [][Next]_vars

\* A notified thread gets the mutex back and runs.  Nothing makes a producer
\* push, a consumer call pop, or a wake-up come without a notification.
FairSpec == Spec /\ \A c \in Consumers : WF_vars(Wake(c))

-----------------------------------------------------------------------------
\* While anybody sleeps in pop_wait, every stored element has a consumer that
\* was already woken to fetch it, but for the k - 1 elements of each range of
\* k that push_items does not announce: cond_ loses no other wake-up, however
\* pop, pop_wait and wake-ups interleave.
NoLostWakeup == Asleep # {} => Len(queue) <= Cardinality(Notified) + unannounced

StarvesBeside(c) == pc[c] = "asleep" /\ queue # <<>>

\* As long as elements are pushed one at a time, no consumer is left asleep
\* in pop_wait beside an element that nobody comes to fetch.
SinglesWake ==
    \A c \in Consumers :
        (StarvesBeside(c) /\ unannounced = 0) ~> (~StarvesBeside(c) \/ unannounced > 0)

\* Every consumer sees the elements it gets in the order they were pushed,
\* whatever the mix of pop, pop_wait and wake-ups.
DeliveredInOrder ==
    \A c \in Consumers : \A i, j \in DOMAIN got[c] : i < j => got[c][i] < got[c][j]

\* What the queue's lock and condition variable keep, taken together.
Inv == TypeOK /\ NoLostWakeup /\ DeliveredInOrder

\* The queue implements the abstract first-in first-out queue.
Abstract == INSTANCE BlockingQueueSpec
                WITH Items <- Item, Takers <- Consumers, MaxBatch <- MaxItems,
                     contents <- queue, received <- got
ImplementsFIFO == Abstract!Spec
=============================================================================
