-------------------------------- MODULE RWLock --------------------------------
(***************************************************************************)
(* Utils::RWLock (base/src/rwlock.cpp): a spinning readers-writer lock     *)
(* made of lockCount_, writeWaitCount_ and writeThreadID_, used through    *)
(* the scoped guards UniqueReadGuard and UniqueWriteGuard.                 *)
(*                                                                         *)
(* One action per access to an atomic.  A thread takes guards in scopes,   *)
(* so a guard goes after the ones constructed inside it.  The calls are    *)
(* those of the code; how threads nest their guards is up to the clients:  *)
(* any of them may nest read guards in its write guard (rwlock.cpp:49-51)  *)
(* and in read guards, Nesters construct write guards directly inside      *)
(* their own, and DeepNesters also with a read guard in between.  Nobody   *)
(* upgrades a counted read guard, on which LockWrite spins for ever.       *)
(***************************************************************************)
EXTENDS Integers, FiniteSets

CONSTANTS
    Threads,
    Writers,      \* the threads that take write guards
    Guards,       \* identities of read guards, per thread
    NoThread,     \* std::thread::id()
    WriteFirst,   \* writeFirst_
    Nesters,      \* the threads that construct a write guard inside another one
    DeepNesters,  \* those that do so inside a read guard inside the other one
    MaxWrites     \* bound: write guards a thread is inside of

ASSUME RWLockConstants ==
    /\ Writers \subseteq Threads
    /\ NoThread \notin Threads
    /\ WriteFirst \in BOOLEAN
    /\ Nesters \subseteq Writers /\ DeepNesters \subseteq Nesters
    /\ MaxWrites \in Nat \ {0}

LOCK_STATUS_WRITE == -1
LOCK_STATUS_FREE  == 0

VARIABLES
    lockCount, writeWaitCount, writeThreadID,
    pc,      \* where each thread is inside LockRead/LockWrite/UnLockWrite
    count,   \* the local variable of LockRead
    want,    \* the read guard being constructed
    reads,   \* <<t, g>>: read guards that are counted in lockCount
    shadow,  \* <<t, g>>: read guards nested in the thread's own write guard
    writes,  \* number of write guards each thread is inside of
    level    \* how many of them a read guard was constructed inside of

vars == <<lockCount, writeWaitCount, writeThreadID, pc, count, want, reads, shadow, writes, level>>

Labels == {"idle", "rload", "rwait", "rcas", "wcas", "wdec", "wid", "wfree"}

Goto(t, label) == pc' = [pc EXCEPT ![t] = label]

\* The read guards of t, counted or not.
ReadsOf(t) == {g \in Guards : <<t, g>> \in reads \union shadow}
CountedOf(t) == {g \in Guards : <<t, g>> \in reads}

\* t is inside LockWrite past the exchange, the recorded owner, or inside
\* UnLockWrite before the store.
OwnsWrite(t) == pc[t] \in {"wdec", "wid", "wfree"} \/ writeThreadID = t

Init ==
    /\ lockCount = LOCK_STATUS_FREE /\ writeWaitCount = 0 /\ writeThreadID = NoThread
    /\ pc = [t \in Threads |-> "idle"]
    /\ count = [t \in Threads |-> 0]
    /\ want \in [Threads -> Guards]
    /\ reads = {} /\ shadow = {}
    /\ writes = [t \in Threads |-> 0]
    /\ level = [x \in Threads \X Guards |-> 0]

-----------------------------------------------------------------------------
(* RWLock::LockRead.                                                       *)
LockRead(t, g) ==
    /\ pc[t] = "idle" /\ g \notin ReadsOf(t)
    /\ IF writeThreadID = t
       THEN /\ shadow' = shadow \union {<<t, g>>}
            /\ level' = [level EXCEPT ![<<t, g>>] = writes[t]]
            /\ UNCHANGED <<pc, want>>
       ELSE /\ Goto(t, "rload") /\ want' = [want EXCEPT ![t] = g]
            /\ UNCHANGED <<shadow, level>>
    /\ UNCHANGED <<lockCount, writeWaitCount, writeThreadID, count, reads, writes>>

\* The inner while: both halves of its condition are loads of their own.
AfterReadLoad(c) ==
    IF c = LOCK_STATUS_WRITE THEN "rload" ELSE IF WriteFirst THEN "rwait" ELSE "rcas"

ReadLoad(t) ==
    /\ pc[t] = "rload"
    /\ count' = [count EXCEPT ![t] = lockCount]
    /\ Goto(t, AfterReadLoad(lockCount))
    /\ UNCHANGED <<lockCount, writeWaitCount, writeThreadID, want, reads, shadow, writes, level>>

IgnoreWaiting == TRUE
NoWriterWaits == writeWaitCount = 0

ReadWait(t) ==
    /\ pc[t] = "rwait"
    /\ Goto(t, IF NoWriterWaits THEN "rcas" ELSE "rload")
    /\ UNCHANGED <<lockCount, writeWaitCount, writeThreadID, count, want, reads, shadow, writes, level>>

ReadCas(t) ==
    /\ pc[t] = "rcas"
    /\ lockCount = count[t]
    /\ lockCount' = lockCount + 1
    /\ reads' = reads \union {<<t, want[t]>>}
    /\ Goto(t, "idle")
    /\ count' = [count EXCEPT ![t] = 0]
    /\ level' = [level EXCEPT ![<<t, want[t]>>] = writes[t]]
    /\ UNCHANGED <<writeWaitCount, writeThreadID, want, shadow, writes>>

\* compare_exchange_weak may also fail spuriously.
ReadCasFail(t) ==
    /\ pc[t] = "rcas"
    /\ Goto(t, "rload")
    /\ UNCHANGED <<lockCount, writeWaitCount, writeThreadID, count, want, reads, shadow, writes, level>>

(* RWLock::UnLockRead.                                                     *)
UncountAlways(t) == lockCount - 1
Uncounted(t) == IF writeThreadID # t THEN lockCount - 1 ELSE lockCount

UnLockRead(t, g) ==
    /\ pc[t] = "idle" /\ g \in ReadsOf(t) /\ level[<<t, g>>] = writes[t]
    /\ lockCount' = Uncounted(t)
    /\ reads' = reads \ {<<t, g>>}
    /\ shadow' = shadow \ {<<t, g>>}
    /\ level' = [level EXCEPT ![<<t, g>>] = 0]
    /\ UNCHANGED <<writeWaitCount, writeThreadID, pc, count, want, writes>>

-----------------------------------------------------------------------------
(* RWLock::LockWrite.                                                      *)
LockWrite(t) ==
    /\ pc[t] = "idle" /\ t \in Writers /\ CountedOf(t) = {}
    /\ writes[t] = 0 \/ (t \in Nesters /\ writes[t] < MaxWrites)
    /\ writeWaitCount' = writeWaitCount + 1
    /\ writeThreadID # t
    /\ Goto(t, "wcas")
    /\ UNCHANGED <<lockCount, writeThreadID, count, want, reads, shadow, writes, level>>

\* The thread already has the write lock: return at once.
LockWriteAgain(t) ==
    /\ t \in Nesters /\ (ReadsOf(t) = {} \/ t \in DeepNesters)
    /\ pc[t] = "idle" /\ writes[t] < MaxWrites
    /\ writeThreadID = t
    /\ writes' = [writes EXCEPT ![t] = @ + 1]
    /\ UNCHANGED <<lockCount, writeWaitCount, writeThreadID, pc, count, want, reads, shadow, level>>

\* A failed exchange changes nothing and is tried again.
NotWriteLocked == lockCount # LOCK_STATUS_WRITE
FreeForWriter == lockCount = LOCK_STATUS_FREE

WriteCas(t) ==
    /\ pc[t] = "wcas"
    /\ FreeForWriter
    /\ lockCount' = LOCK_STATUS_WRITE
    /\ Goto(t, "wdec")
    /\ UNCHANGED <<writeWaitCount, writeThreadID, count, want, reads, shadow, writes, level>>

WriteDec(t) ==
    /\ pc[t] = "wdec"
    /\ writeWaitCount' = writeWaitCount - 1
    /\ Goto(t, "wid")
    /\ UNCHANGED <<lockCount, writeThreadID, count, want, reads, shadow, writes, level>>

WriteId(t) ==
    /\ pc[t] = "wid"
    /\ writeThreadID' = t
    /\ writes' = [writes EXCEPT ![t] = @ + 1]
    /\ Goto(t, "idle")
    /\ UNCHANGED <<lockCount, writeWaitCount, count, want, reads, shadow, level>>

AfterClearOwner == "wfree"

(* RWLock::UnLockWrite: clears the owner, then stores FREE.  A guard whose *)
(* thread no longer owns the lock just goes.                               *)
UnLockWrite(t) ==
    /\ pc[t] = "idle" /\ writes[t] > 0
    /\ \A g \in ReadsOf(t) : level[<<t, g>>] < writes[t]
    /\ writes' = [writes EXCEPT ![t] = @ - 1]
    /\ IF writeThreadID = t /\ lockCount = LOCK_STATUS_WRITE
       THEN writeThreadID' = NoThread /\ Goto(t, AfterClearOwner)
       ELSE UNCHANGED <<writeThreadID, pc>>
    /\ UNCHANGED <<lockCount, writeWaitCount, count, want, reads, shadow, level>>

WriteFree(t) ==
    /\ pc[t] = "wfree"
    /\ lockCount' = LOCK_STATUS_FREE
    /\ Goto(t, "idle")
    /\ UNCHANGED <<writeWaitCount, writeThreadID, count, want, reads, shadow, writes, level>>

-----------------------------------------------------------------------------
\* The steps inside a call, and the end of a scope.
Inside(t) ==
    \/ ReadLoad(t) \/ ReadWait(t) \/ ReadCas(t) \/ ReadCasFail(t)
    \/ WriteCas(t) \/ WriteDec(t) \/ WriteId(t) \/ WriteFree(t)

Leave(t) == UnLockWrite(t) \/ \E g \in Guards : UnLockRead(t, g)

Enter(t) == LockWrite(t) \/ LockWriteAgain(t) \/ \E g \in Guards : LockRead(t, g)

Next == \E t \in Threads : Inside(t) \/ Leave(t) \/ Enter(t)

Spec == Init /\ [][Next]_vars

(* A thread inside a call keeps running, and every scope ends, that of a   *)
(* write guard also when read guards come and go inside it.  The exchange  *)
(* of LockRead gets no fairness of its own: it may fail for ever.          *)
Fairness == \A t \in Threads :
    WF_vars(Inside(t)) /\ WF_vars(Leave(t)) /\ SF_vars(UnLockWrite(t))

FairSpec == Spec /\ Fairness

-----------------------------------------------------------------------------
(* Types: a count of -1, 0 or the number of readers.                       *)
TypeOK ==
    /\ lockCount \in Int /\ writeWaitCount \in Int
    /\ writeThreadID \in Threads \union {NoThread}
    /\ pc \in [Threads -> Labels]
    /\ count \in [Threads -> Int]
    /\ want \in [Threads -> Guards]
    /\ reads \subseteq Threads \X Guards
    /\ shadow \subseteq Threads \X Guards
    /\ writes \in [Threads -> Nat]
    /\ level \in [Threads \X Guards -> Nat]

(* rwlock.h:37-39, for the threads that do not nest write guards, as long  *)
(* as the others nest them directly: while one is inside its write guard,  *)
(* no other thread is inside a read guard, and none inside a write guard   *)
(* but one that lost the lock by nesting.                                  *)
Exclusion ==
    \A t \in Threads \ Nesters : writes[t] > 0 =>
        \A u \in Threads \ {t} : ReadsOf(u) = {} /\ (writes[u] = 0 \/ u \in Nesters)

(* rwlock.h:37-39 for the threads that never nest write guards, whatever   *)
(* the others do.  Where another thread nests write, read, write, the      *)
(* inner UnLockWrite frees the lock (rwlock.cpp:85-86), and its UnLockRead *)
(* then takes off the count of a reader (rwlock.cpp:52-53), although       *)
(* rwlock.cpp:49-51 says that it returns directly.                         *)
BystandersExclude ==
    \A t, u \in Threads \ Nesters : t # u /\ writes[t] > 0 =>
        ReadsOf(u) = {} /\ writes[u] = 0

(* In write-first mode the readers cannot keep the writers out for ever:   *)
(* those past the check of writeWaitCount_ leave, new ones spin, and one   *)
(* of the writers that wait gets in.                                       *)
WriterEnters ==
    (\E t \in Writers : pc[t] = "wcas") ~> (\E t \in Writers : pc[t] = "wdec")

(* The lock in terms of RWLockAbs: a writer owns it from its exchange of   *)
(* lockCount_ to the store of UnLockWrite.                                 *)
Abs == INSTANCE RWLockAbs WITH
          readers <- reads,
          writers <- {t \in Threads : OwnsWrite(t)}

(* RWLock implements the readers-writer lock of RWLockAbs.                 *)
ImplementsRWLockAbs == Abs!AbsSpec

-----------------------------------------------------------------------------
(* The inductive invariant behind Exclusion and the refinement, in parts.  *)

\* lockCount_ tells who holds the lock.
OneOwner       == \A t, u \in Threads : OwnsWrite(t) /\ OwnsWrite(u) => t = u
WriteIsOwned   == (lockCount = LOCK_STATUS_WRITE) <=> \E t \in Threads : OwnsWrite(t)
WriteHasNoRead == lockCount = LOCK_STATUS_WRITE => reads = {}
ReadsCounted   == lockCount # LOCK_STATUS_WRITE => lockCount = Cardinality(reads)

\* writeThreadID_ is set only inside a write guard, and inside every write
\* guard of a thread that does not nest them.
IdIsWriter     == \A t \in Threads : writeThreadID = t => pc[t] = "idle" /\ writes[t] > 0
GuardIsOwner   == \A t \in Threads \ Nesters : writes[t] <= 1 /\ (writes[t] > 0 => writeThreadID = t)
ShadowInWrite  == \A t \in Threads, g \in Guards : <<t, g>> \in shadow => writeThreadID = t

\* What a thread in the middle of a call relies on.
CountWasRead   == \A t \in Threads : pc[t] \in {"rwait", "rcas"} => count[t] >= 0
GuardIsNew     == \A t \in Threads : pc[t] \in {"rload", "rwait", "rcas"} =>
                                         want[t] \notin ReadsOf(t)
AtLevel        == \A t \in Threads : \A g \in ReadsOf(t) : level[<<t, g>>] = writes[t]
NoUpgrade      == \A t \in Threads : pc[t] \in {"wcas", "wdec", "wid", "wfree"} =>
                                         ReadsOf(t) = {}

(* The state of the lock determines who is inside it, without DeepNesters: *)
(* the inductive strengthening of Exclusion.                               *)
Inv ==
    /\ TypeOK /\ IsFiniteSet(reads)
    /\ OneOwner /\ WriteIsOwned /\ WriteHasNoRead /\ ReadsCounted
    /\ IdIsWriter /\ GuardIsOwner /\ ShadowInWrite
    /\ CountWasRead /\ GuardIsNew /\ NoUpgrade /\ AtLevel
=============================================================================
