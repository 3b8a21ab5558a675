------------------------------ MODULE SpinRWLock ----------------------------
(***************************************************************************)
(* The read-write spin lock around the shared tables                       *)
(* (common/thread/spin_rwlock.hpp): one word with a count of readers in    *)
(* its low 20 bits and a count of writers above.  Counts are raised before *)
(* it is known whether the lock is got, and lowered again when it is not,  *)
(* so a count may include threads that do not hold the lock.               *)
(***************************************************************************)
EXTENDS Integers, FiniteSets

CONSTANT Threads

\* 0x100000
WriterUnit == 1048576

\* Neither count outgrows its bits.
ASSUME ThreadsAssumption == IsFiniteSet(Threads) /\ Cardinality(Threads) < 4096

VARIABLES
  m_lock,
  at     \* at[t]: "idle"; "r_wait", "r_add", "r_back", "reading";
         \* "w_wait", "w_add", "w_back", "w_drain", "writing"

lockVars == <<m_lock, at>>

LockInit == m_lock = 0 /\ at = [t \in Threads |-> "idle"]

WriterBits(l) == l \div WriterUnit
ReaderBits(l) == l % WriterUnit

Step(t, from, to) == at[t] = from /\ at' = [at EXCEPT ![t] = to]
-----------------------------------------------------------------------------
BeginRead(t) == Step(t, "idle", "r_wait") /\ UNCHANGED m_lock

ReadWait(t) == WriterBits(m_lock) = 0 /\ Step(t, "r_wait", "r_add") /\ UNCHANGED m_lock

\* (mutant of ReadAdd: the count of writers is not looked at again)
ReadAddBlind(t) ==
  /\ m_lock' = m_lock + 1
  /\ Step(t, "r_add", "reading")

ReadAdd(t) ==
  /\ m_lock' = m_lock + 1
  /\ Step(t, "r_add", IF WriterBits(m_lock') = 0 THEN "reading" ELSE "r_back")

ReadBackOff(t) == m_lock' = m_lock - 1 /\ Step(t, "r_back", "r_wait")

ReadUnlock(t) == m_lock' = m_lock - 1 /\ Step(t, "reading", "idle")
-----------------------------------------------------------------------------
BeginWrite(t) == Step(t, "idle", "w_wait") /\ UNCHANGED m_lock

\* (mutant of WriteWait: writers try at once)
WriteWaitNot(t) == Step(t, "w_wait", "w_add") /\ UNCHANGED m_lock

WriteWait(t) == WriterBits(m_lock) = 0 /\ Step(t, "w_wait", "w_add") /\ UNCHANGED m_lock

WriteAdd(t) ==
  /\ m_lock' = m_lock + WriterUnit
  /\ Step(t, "w_add", IF WriterBits(m_lock') = 1 THEN "w_drain" ELSE "w_back")

WriteBackOff(t) == m_lock' = m_lock - WriterUnit /\ Step(t, "w_back", "w_wait")

WriteDrain(t) == ReaderBits(m_lock) = 0 /\ Step(t, "w_drain", "writing") /\ UNCHANGED m_lock

WriteUnlock(t) == m_lock' = m_lock - WriterUnit /\ Step(t, "writing", "idle")
-----------------------------------------------------------------------------
\* A thread that has entered Lock goes on until it has the lock and gives it
\* back.
Proceed(t) ==
  \/ ReadWait(t) \/ ReadAdd(t) \/ ReadBackOff(t) \/ ReadUnlock(t)
  \/ WriteWait(t) \/ WriteAdd(t) \/ WriteBackOff(t) \/ WriteDrain(t) \/ WriteUnlock(t)

LockNext == \E t \in Threads : BeginRead(t) \/ BeginWrite(t) \/ Proceed(t)

LockSpec == LockInit /\ [][LockNext]_lockVars

FairLockSpec == LockSpec /\ \A t \in Threads : WF_lockVars(Proceed(t))
-----------------------------------------------------------------------------
(***************************************************************************)
(* Properties.                                                             *)
(***************************************************************************)
States == {"idle", "r_wait", "r_add", "r_back", "reading",
           "w_wait", "w_add", "w_back", "w_drain", "writing"}

LockTypeOK == m_lock \in Nat /\ at \in [Threads -> States]

\* A writer is alone: no reader and no other writer has the lock with it
\* (SpinRWLock::Lock).
Exclusion ==
  \A t, u \in Threads : at[t] = "writing" /\ at[u] \in {"reading", "writing"} => t = u

\* Readers and writers that arrive, count themselves in and back off never
\* keep out the writer whose turn it is.
WriterEnters == \A t \in Threads : at[t] = "w_drain" ~> at[t] = "writing"

\* However the threads collide, one of those that want the lock gets it: what
\* is left in the word by threads that back off locks nobody out for good.
Progress == (\E t \in Threads : at[t] # "idle") ~> (\E t \in Threads : at[t] \in {"reading", "writing"})

\* Nobody is locked out by threads that come and go: neither the writer whose
\* turn it is nor all of those that want the lock (SpinRWLock::Lock).
Admits == WriterEnters /\ Progress
=============================================================================
