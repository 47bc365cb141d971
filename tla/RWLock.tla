------------------------------- MODULE RWLock -------------------------------
(***************************************************************************)
(* kernel::RWLock: a count of readers and a count of writers behind a      *)
(* mutex, and one condition variable on which both read_lock and           *)
(* write_lock wait.                                                        *)
(*                                                                         *)
(* Each member function holds the mutex throughout, so it is one step,     *)
(* except that cvar_.wait releases it while the thread sleeps: a sleeper   *)
(* that is woken has to take the mutex and test its predicate once more.   *)
(* The class has no write_unlock: a thread that was let in to write stays. *)
(***************************************************************************)
EXTENDS Naturals, FiniteSets

CONSTANT Threads

ASSUME ThreadsAssumption == IsFiniteSet(Threads)

VARIABLES numReads,   \* num_reads_
          numWrites,  \* num_writes_
          at          \* at[t]: which call, or which side of it, t is in

rwVars == <<numReads, numWrites, at>>

Sleeping == {"read_wait", "write_wait"}
Woken == {"read_woken", "write_woken"}
At == {"out", "reading", "writing"} \cup Sleeping \cup Woken

Readers == {t \in Threads : at[t] = "reading"}
Writers == {t \in Threads : at[t] = "writing"}

RWTypeOK == /\ numReads \in Nat
            /\ numWrites \in Nat
            /\ at \in [Threads -> At]

-----------------------------------------------------------------------------
RWInit == /\ numReads = 0
          /\ numWrites = 0
          /\ at = [t \in Threads |-> "out"]

\* Mutant: the predicate of read_lock looks at the readers.
MayReadAlone == numReads = 0

\* The predicates the two kinds of thread wait for.
MayRead == numWrites = 0
MayWrite == numWrites > 0 \/ numReads > 0

\* read_lock, from its first line or from the wait it was woken from.
ReadLock(t) ==
    /\ at[t] \in {"out", "read_woken"}
    /\ IF MayRead
       THEN /\ numReads' = numReads + 1
            /\ at' = [at EXCEPT ![t] = "reading"]
       ELSE /\ at' = [at EXCEPT ![t] = "read_wait"]
            /\ UNCHANGED numReads
    /\ UNCHANGED numWrites

\* What cvar_.notify_all() makes of a thread.
Roused(where) == CASE where = "read_wait" -> "read_woken"
                   [] where = "write_wait" -> "write_woken"
                   [] OTHER -> where

\* Mutant: the count is left alone unless the reader is the last one.
ReadUnlockLast(t) ==
    /\ at[t] = "reading"
    /\ numReads' = IF numReads = 1 THEN 0 ELSE numReads
    /\ at' = [at EXCEPT ![t] = "out"]
    /\ UNCHANGED numWrites

\* The last reader to leave wakes everybody.
ReadUnlock(t) ==
    /\ at[t] = "reading"
    /\ numReads' = numReads - 1
    /\ at' = [u \in Threads |-> IF u = t THEN "out"
                                ELSE IF numReads = 1 THEN Roused(at[u])
                                ELSE at[u]]
    /\ UNCHANGED numWrites

WriteLock(t) ==
    /\ at[t] \in {"out", "write_woken"}
    /\ IF MayWrite
       THEN /\ numWrites' = numWrites + 1
            /\ at' = [at EXCEPT ![t] = "writing"]
       ELSE /\ at' = [at EXCEPT ![t] = "write_wait"]
            /\ UNCHANGED numWrites
    /\ UNCHANGED numReads

\* A condition variable may wake a thread for no reason.
WakeForNothing(t) == /\ at[t] \in Sleeping
                     /\ at' = [at EXCEPT ![t] = Roused(at[t])]
                     /\ UNCHANGED <<numReads, numWrites>>

RWNext == \E t \in Threads : \/ ReadLock(t) \/ ReadUnlock(t)
                             \/ WriteLock(t) \/ WakeForNothing(t)

RWSpec == RWInit /\ [][RWNext]_rwVars

-----------------------------------------------------------------------------
\* The counts are the numbers of threads let in, however the waits, the
\* wake-ups and the unlocks interleave.
CountsAreExact == /\ numReads = Cardinality(Readers)
                  /\ numWrites = Cardinality(Writers)

\* A thread sleeps in read_lock only behind a writer: since writers never
\* leave, no notification a sleeping reader could miss would have let it in.
ReadersSleepBehindWriters ==
    \A t \in Threads : at[t] = "read_wait" => numWrites > 0

\* What the lock keeps: exact counts, and readers that sleep behind writers.
RWInv == RWTypeOK /\ CountsAreExact /\ ReadersSleepBehindWriters

\* "This is allowed only if there is no writing thread": the readers of a
\* lock with a writer in it can only become fewer.
NoReaderJoinsWriter == [][numWrites > 0 => Readers' \subseteq Readers]_rwVars
=============================================================================
