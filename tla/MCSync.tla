------------------------------- MODULE MCSync -------------------------------
(***************************************************************************)
(* Instances of RWLock, Semaphore, Thread and ThreadPool for TLC.  The     *)
(* four do not interact: `unit' says which of them a behaviour is about,   *)
(* and the others stay as they began.                                      *)
(***************************************************************************)
EXTENDS RWLock

CONSTANTS Units,                                        \* those a run is about
          Value, MaxPermits, MaxBacklog, MaxSpurious,   \* of Semaphore
          Callers, MaxStarts,                           \* of Thread
          Workers, Producers, Limits, MaxTasks          \* of ThreadPool

VARIABLES unit,
          semCount, asleep, woken, permits, spurious,
          running, exitPending, status, thread, child, result, caller, answer, refused,
          poolRunning, started, maxTaskNum, tasks, poolPc, cur, added, done, owner

S == INSTANCE Semaphore WITH count <- semCount
T == INSTANCE Thread
P == INSTANCE ThreadPool WITH running <- poolRunning, pc <- poolPc

ASSUME SemaphoreConstants == S!SemaphoreValues
ASSUME ThreadConstants == T!ThreadValues
ASSUME PoolConstants == P!PoolValues

semVars    == <<semCount, asleep, woken, permits, spurious>>
threadVars == <<running, exitPending, status, thread, child, result, caller, answer, refused>>
poolVars   == <<poolRunning, started, maxTaskNum, tasks, poolPc, cur, added, done, owner>>

syncVars == <<vars, semVars, threadVars, poolVars>>
SyncInit == Init /\ S!Init /\ T!Init /\ P!Init

SyncNext ==
    \/ unit = "lock" /\ Next /\ UNCHANGED <<semVars, threadVars, poolVars>>
    \/ unit = "semaphore" /\ S!Next /\ UNCHANGED <<vars, threadVars, poolVars>>
    \/ unit = "thread" /\ T!Next /\ UNCHANGED <<vars, semVars, poolVars>>
    \/ unit = "pool" /\ P!Next /\ UNCHANGED <<vars, semVars, threadVars>>
    \/ \* nobody posts, or the pool is stopped: no deadlock
       unit \in {"semaphore", "pool"} /\ UNCHANGED syncVars

\* The actions of a unit that is at rest are disabled, and so is its fairness.
SyncSpec ==
    /\ unit \in Units /\ SyncInit
    /\ [][SyncNext /\ UNCHANGED unit]_<<unit, syncVars>>
    /\ Fairness /\ T!Fairness /\ P!Fairness

-----------------------------------------------------------------------------
(* Nobody sleeps in Semaphore::Wait while a permit is free                 *)
(* (semaphore_ex.cpp:28); see Semaphore.                                   *)
NoLostPost == S!NoLostPost

(* Semaphore::Wait lets no more threads through than permits and spurious  *)
(* wakeups (semaphore_ex.cpp:20); see Semaphore.                           *)
WithinPermits == S!WithinPermits

(* At most one child of a Thread executes Run() (thread_ex.cpp:178); see   *)
(* Thread.                                                                 *)
OneChild == T!OneChild

(* NotifyExitSync, when it had to wait, returns after the child has left   *)
(* (thread_ex.cpp:135); see Thread.                                        *)
SyncMeansExited == T!SyncMeansExited

(* NotifyExitSync comes back (thread_ex.cpp:135); see Thread.              *)
SyncReturns == T!SyncReturns

(* A task the pool accepted is queued, run or completed once               *)
(* (thread_pool.cpp:71); see ThreadPool.                                   *)
EachTaskOnce == P!EachTaskOnce

(* A task the pool accepted is run, unless it is stopped or the limit is   *)
(* taken away while the caller waits (thread_pool.cpp:71); see ThreadPool. *)
TasksRun == P!TasksRun

(* ThreadPool::Stop returns (thread_pool.cpp:58); see ThreadPool.          *)
StopReturns == P!StopReturns
=============================================================================
