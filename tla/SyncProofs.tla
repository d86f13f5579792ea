------------------------------ MODULE SyncProofs ------------------------------
(***************************************************************************)
(* The promises of the synchronisation primitives, which do not interact:  *)
(* RWLock for any set of threads and guards in both modes, Semaphore for   *)
(* any finite set of threads and any value, Thread for any set of callers  *)
(* and any number of starts, ThreadPool for any workers and producers.  A  *)
(* thread that nests write guards directly can lose the RWLock inside the  *)
(* outer one; the proofs show that it harms no thread but itself.  With a  *)
(* read guard in between it does harm others, hence DeepNesters = {}.      *)
(***************************************************************************)
EXTENDS MCSync, Sequences, FiniteSetTheorems, TLAPS

(***************************************************************************)
(* RWLock.                                                                 *)
(***************************************************************************)
\* A new RWLock satisfies the invariant.
LEMMA LockInit ==
    Init => Inv
<1> SUFFICES ASSUME Init PROVE Inv
    OBVIOUS
<1> USE RWLockConstants DEF Init
<1>1. TypeOK
    BY DEF TypeOK, Labels, LOCK_STATUS_FREE
<1>2. IsFiniteSet(reads) /\ Cardinality(reads) = 0
    BY FS_EmptySet
<1>3. \A t \in Threads : ~OwnsWrite(t) /\ ReadsOf(t) = {}
    BY DEF OwnsWrite, ReadsOf
<1> QED
    BY <1>1, <1>2, <1>3
    DEF Inv, OneOwner, WriteIsOwned, WriteHasNoRead, ReadsCounted, IdIsWriter,
        GuardIsOwner, ShadowInWrite, CountWasRead, GuardIsNew, NoUpgrade, AtLevel,
        LOCK_STATUS_FREE, LOCK_STATUS_WRITE

\* Taking a read guard that is not yet held raises the number of readers by one.
LEMMA AddRead ==
    ASSUME IsFiniteSet(reads), NEW x, x \notin reads
    PROVE  /\ IsFiniteSet(reads \union {x})
           /\ Cardinality(reads \union {x}) = Cardinality(reads) + 1
           /\ Cardinality(reads) \in Nat
BY FS_AddElement, FS_CardinalityType

\* Releasing a held read guard lowers the number of readers by one.
LEMMA RemoveRead ==
    ASSUME IsFiniteSet(reads), NEW x, x \in reads
    PROVE  /\ IsFiniteSet(reads \ {x})
           /\ Cardinality(reads \ {x}) = Cardinality(reads) - 1
           /\ Cardinality(reads) \in Nat \ {0}
<1>1. IsFiniteSet(reads \ {x}) /\ Cardinality(reads \ {x}) = Cardinality(reads) - 1
    BY FS_RemoveElement
<1>2. Cardinality(reads) \in Nat /\ Cardinality(reads) # 0
    BY FS_CardinalityType, FS_EmptySet
<1> QED
    BY <1>1, <1>2

\* Every access of LockRead, UnLockRead, LockWrite and UnLockWrite to the
\* atomics preserves the invariant, one step per action.
LEMMA LockNext ==
    ASSUME DeepNesters = {}, Inv, [Next]_vars
    PROVE  Inv'
<1> USE RWLockConstants
<1>T. TypeOK /\ IsFiniteSet(reads) /\ Cardinality(reads) \in Nat
    BY FS_CardinalityType DEF Inv
<1>1. ASSUME NEW t \in Threads, NEW g \in Guards, LockRead(t, g)
      PROVE  Inv'
  <2>1. TypeOK'
    BY <1>1, <1>T DEF LockRead, Goto, TypeOK, Labels
  <2>2. AtLevel'
    <3> SUFFICES ASSUME NEW u \in Threads, NEW h \in Guards,
                        <<u, h>> \in reads' \union shadow'
                 PROVE  level'[<<u, h>>] = writes'[u]
      BY DEF AtLevel, ReadsOf
    <3>1. CASE <<u, h>> \in reads \union shadow
      BY <1>1, <1>T, <3>1 DEF LockRead, Inv, TypeOK, AtLevel, ReadsOf
    <3>2. CASE <<u, h>> \notin reads \union shadow
      BY <1>1, <1>T, <3>2 DEF LockRead, TypeOK
    <3> QED
      BY <3>1, <3>2
  <2> QED
    BY <1>1, <1>T, <2>1, <2>2 DEF LockRead, Goto, Inv, TypeOK, Labels, OneOwner, WriteIsOwned,
        WriteHasNoRead, ReadsCounted, IdIsWriter, GuardIsOwner, ShadowInWrite, CountWasRead,
        GuardIsNew, NoUpgrade, OwnsWrite, ReadsOf
<1>2. ASSUME NEW t \in Threads, ReadLoad(t)
      PROVE  Inv'
    BY <1>2, <1>T DEF ReadLoad, AfterReadLoad, Goto, LOCK_STATUS_WRITE, Inv, TypeOK, Labels, OneOwner, WriteIsOwned, WriteHasNoRead,
        ReadsCounted, IdIsWriter, GuardIsOwner, ShadowInWrite, CountWasRead,
        GuardIsNew, NoUpgrade, AtLevel, OwnsWrite, ReadsOf
<1>3. ASSUME NEW t \in Threads, ReadWait(t)
      PROVE  Inv'
    BY <1>3, <1>T DEF ReadWait, NoWriterWaits, Goto, Inv, TypeOK, Labels, OneOwner, WriteIsOwned, WriteHasNoRead,
        ReadsCounted, IdIsWriter, GuardIsOwner, ShadowInWrite, CountWasRead,
        GuardIsNew, NoUpgrade, AtLevel, OwnsWrite, ReadsOf
<1>4. ASSUME NEW t \in Threads, ReadCas(t)
      PROVE  Inv'
  <2>1. <<t, want[t]>> \notin reads
    BY <1>4 DEF ReadCas, Inv, TypeOK, GuardIsNew, ReadsOf
  <2>2. IsFiniteSet(reads') /\ Cardinality(reads') = Cardinality(reads) + 1
    BY <1>4, <1>T, <2>1, AddRead DEF ReadCas
  <2>3. lockCount # LOCK_STATUS_WRITE /\ lockCount' = Cardinality(reads')
    BY <1>4, <1>T, <2>2 DEF ReadCas, Inv, TypeOK, CountWasRead, ReadsCounted, LOCK_STATUS_WRITE
  <2> QED
    BY <1>4, <1>T, <2>1, <2>2, <2>3 DEF ReadCas, Goto, LOCK_STATUS_WRITE, Inv, TypeOK, Labels, OneOwner, WriteIsOwned, WriteHasNoRead,
        ReadsCounted, IdIsWriter, GuardIsOwner, ShadowInWrite, CountWasRead,
        GuardIsNew, NoUpgrade, AtLevel, OwnsWrite, ReadsOf
<1>5. ASSUME NEW t \in Threads, ReadCasFail(t)
      PROVE  Inv'
    BY <1>5, <1>T DEF ReadCasFail, Goto, Inv, TypeOK, Labels, OneOwner, WriteIsOwned, WriteHasNoRead,
        ReadsCounted, IdIsWriter, GuardIsOwner, ShadowInWrite, CountWasRead,
        GuardIsNew, NoUpgrade, AtLevel, OwnsWrite, ReadsOf
<1>6. ASSUME NEW t \in Threads, NEW g \in Guards, UnLockRead(t, g)
      PROVE  Inv'
  <2>1. CASE writeThreadID = t
    <3>1. reads = {} /\ lockCount' = lockCount
      BY <1>6, <2>1, <1>T DEF UnLockRead, Uncounted, Inv, IdIsWriter, WriteIsOwned,
          WriteHasNoRead, OwnsWrite
    <3>2. reads' = reads
      BY <1>6, <3>1 DEF UnLockRead
    <3> QED
      BY <1>6, <1>T, <3>1, <3>2 DEF UnLockRead, Inv, TypeOK, Labels, OneOwner, WriteIsOwned, WriteHasNoRead,
        ReadsCounted, IdIsWriter, GuardIsOwner, ShadowInWrite, CountWasRead,
        GuardIsNew, NoUpgrade, AtLevel, OwnsWrite, ReadsOf
  <2>2. CASE writeThreadID # t
    <3>1. <<t, g>> \in reads
      BY <1>6, <2>2, <1>T DEF UnLockRead, Inv, IdIsWriter, ShadowInWrite, ReadsOf
    <3>2. /\ IsFiniteSet(reads') /\ Cardinality(reads') = Cardinality(reads) - 1
          /\ Cardinality(reads') \in Nat
      BY <1>6, <1>T, <3>1, RemoveRead DEF UnLockRead
    <3>3. /\ lockCount # LOCK_STATUS_WRITE /\ lockCount' = Cardinality(reads')
          /\ lockCount' # LOCK_STATUS_WRITE
      BY <1>6, <1>T, <2>2, <3>1, <3>2
      DEF UnLockRead, Uncounted, Inv, ReadsCounted, WriteHasNoRead, LOCK_STATUS_WRITE
    <3> QED
      BY <1>6, <1>T, <3>1, <3>2, <3>3 DEF UnLockRead, LOCK_STATUS_WRITE, Inv, TypeOK, Labels, OneOwner, WriteIsOwned, WriteHasNoRead,
        ReadsCounted, IdIsWriter, GuardIsOwner, ShadowInWrite, CountWasRead,
        GuardIsNew, NoUpgrade, AtLevel, OwnsWrite, ReadsOf
  <2> QED
    BY <2>1, <2>2
<1>7. ASSUME NEW t \in Threads, LockWrite(t)
      PROVE  Inv'
  <2>1. ReadsOf(t) = {}
    BY <1>7 DEF LockWrite, CountedOf, ReadsOf, Inv, ShadowInWrite
  <2>2. ReadsOf(t)' = {}
    BY <1>7, <2>1 DEF LockWrite, ReadsOf
  <2> QED
    BY <1>7, <1>T, <2>1, <2>2 DEF LockWrite, Goto, LOCK_STATUS_WRITE, Inv, TypeOK, Labels, OneOwner, WriteIsOwned, WriteHasNoRead,
        ReadsCounted, IdIsWriter, GuardIsOwner, ShadowInWrite, CountWasRead,
        GuardIsNew, NoUpgrade, AtLevel, OwnsWrite, ReadsOf
<1>8. ASSUME NEW t \in Threads, WriteCas(t)
      PROVE  Inv'
  <2>1. reads = {} /\ reads' = reads
    BY <1>8, <1>T, FS_EmptySet
    DEF WriteCas, FreeForWriter, Inv, ReadsCounted, LOCK_STATUS_FREE, LOCK_STATUS_WRITE
  <2>2. \A u \in Threads : ~OwnsWrite(u)
    BY <1>8 DEF WriteCas, FreeForWriter, Inv, WriteIsOwned, LOCK_STATUS_FREE, LOCK_STATUS_WRITE
  <2> QED
    BY <1>8, <1>T, <2>1, <2>2 DEF WriteCas, Goto, LOCK_STATUS_WRITE, LOCK_STATUS_FREE, Inv, TypeOK, Labels, OneOwner, WriteIsOwned, WriteHasNoRead,
        ReadsCounted, IdIsWriter, GuardIsOwner, ShadowInWrite, CountWasRead,
        GuardIsNew, NoUpgrade, AtLevel, OwnsWrite, ReadsOf
<1>9. ASSUME NEW t \in Threads, WriteDec(t)
      PROVE  Inv'
    BY <1>9, <1>T DEF WriteDec, Goto, LOCK_STATUS_WRITE, Inv, TypeOK, Labels, OneOwner, WriteIsOwned, WriteHasNoRead,
        ReadsCounted, IdIsWriter, GuardIsOwner, ShadowInWrite, CountWasRead,
        GuardIsNew, NoUpgrade, AtLevel, OwnsWrite, ReadsOf
<1>10. ASSUME NEW t \in Threads, WriteId(t)
      PROVE  Inv'
    BY <1>10, <1>T DEF WriteId, Goto, LOCK_STATUS_WRITE, Inv, TypeOK, Labels, OneOwner, WriteIsOwned, WriteHasNoRead,
        ReadsCounted, IdIsWriter, GuardIsOwner, ShadowInWrite, CountWasRead,
        GuardIsNew, NoUpgrade, AtLevel, OwnsWrite, ReadsOf
<1>11. ASSUME NEW t \in Threads, UnLockWrite(t)
      PROVE  Inv'
    BY <1>11, <1>T DEF UnLockWrite, AfterClearOwner, Goto, LOCK_STATUS_WRITE, Inv, TypeOK, Labels, OneOwner, WriteIsOwned, WriteHasNoRead,
        ReadsCounted, IdIsWriter, GuardIsOwner, ShadowInWrite, CountWasRead,
        GuardIsNew, NoUpgrade, AtLevel, OwnsWrite, ReadsOf
<1>12. ASSUME NEW t \in Threads, WriteFree(t)
       PROVE  Inv'
  <2>1. lockCount = LOCK_STATUS_WRITE /\ reads = {} /\ reads' = reads /\ Cardinality(reads) = 0
    BY <1>12, FS_EmptySet DEF WriteFree, Inv, WriteIsOwned, WriteHasNoRead, OwnsWrite
  <2>2. \A u \in Threads : ~OwnsWrite(u)'
    BY <1>12, <1>T DEF WriteFree, Goto, Inv, TypeOK, OneOwner, OwnsWrite, IdIsWriter
  <2> QED
    BY <1>12, <1>T, <2>1, <2>2 DEF WriteFree, Goto, LOCK_STATUS_WRITE, LOCK_STATUS_FREE, Inv, TypeOK, Labels, OneOwner, WriteIsOwned, WriteHasNoRead,
        ReadsCounted, IdIsWriter, GuardIsOwner, ShadowInWrite, CountWasRead,
        GuardIsNew, NoUpgrade, AtLevel, OwnsWrite, ReadsOf
<1>13. CASE UNCHANGED vars
    BY <1>13 DEF vars, Inv, TypeOK, Labels, OneOwner, WriteIsOwned, WriteHasNoRead,
        ReadsCounted, IdIsWriter, GuardIsOwner, ShadowInWrite, CountWasRead,
        GuardIsNew, NoUpgrade, AtLevel, OwnsWrite, ReadsOf
<1>14. ASSUME NEW t \in Threads, LockWriteAgain(t)
       PROVE  Inv'
    BY <1>14, <1>T DEF LockWriteAgain, Inv, TypeOK, Labels, OneOwner, WriteIsOwned, WriteHasNoRead,
        ReadsCounted, IdIsWriter, GuardIsOwner, ShadowInWrite, CountWasRead,
        GuardIsNew, NoUpgrade, AtLevel, OwnsWrite, ReadsOf
<1> QED
    BY <1>1, <1>2, <1>3, <1>4, <1>5, <1>6, <1>7, <1>8, <1>9, <1>10, <1>11, <1>12, <1>13, <1>14
    DEF Next, Inside, Leave, Enter

(* RWLock: where no read guard stands between nested write guards, the     *)
(* invariant of the lock holds in every reachable state.                   *)
THEOREM LockInvariant ==
    ASSUME DeepNesters = {}
    PROVE  Spec => []Inv
BY LockInit, LockNext, PTL DEF Spec

(* RWLock: LockRead and LockWrite keep readers and the writer apart        *)
(* (Exclusion, rwlock.h:37-39) for any number of threads and guards, in    *)
(* both priority modes, beside threads that nest write guards directly.    *)
THEOREM MutualExclusion ==
    ASSUME DeepNesters = {}
    PROVE  Spec => []Exclusion
<1>1. Inv => Exclusion
    BY DEF Inv, TypeOK, Exclusion, GuardIsOwner, WriteIsOwned, WriteHasNoRead, OwnsWrite,
        ShadowInWrite, ReadsOf
<1> QED
    BY <1>1, LockInvariant, PTL

(* RWLock implements the abstract readers-writer lock: every step of an    *)
(* atomic operation is an acquisition, a release or invisible, where no    *)
(* read guard stands between nested write guards.                          *)
THEOREM Refinement ==
    ASSUME DeepNesters = {}
    PROVE  Spec => ImplementsRWLockAbs
<1>1. Init => Abs!AbsInit
    BY RWLockConstants DEF Init, Abs!AbsInit, OwnsWrite
<1>2. ASSUME Inv, Inv', [Next]_vars
      PROVE  [Abs!AbsNext]_(Abs!absVars)
  <2> DEFINE W == {t \in Threads : OwnsWrite(t)}
  <2>1. ASSUME NEW t \in Threads, ReadCas(t)
        PROVE  Abs!AcquireRead(t, want[t])
    BY <2>1, <1>2 DEF ReadCas, Goto, Abs!AcquireRead, Inv, TypeOK, GuardIsNew, CountWasRead,
        WriteIsOwned, ReadsOf, OwnsWrite, LOCK_STATUS_WRITE
  <2>2. ASSUME NEW t \in Threads, NEW g \in Guards, UnLockRead(t, g)
        PROVE  Abs!ReleaseRead(t, g) \/ UNCHANGED Abs!absVars
    BY <2>2, <1>2 DEF UnLockRead, Abs!ReleaseRead, Abs!absVars, OwnsWrite
  <2>3. ASSUME NEW t \in Threads, WriteCas(t)
        PROVE  Abs!AcquireWrite(t)
    <3>1. reads = {} /\ W = {}
      BY <2>3, <1>2, FS_EmptySet DEF WriteCas, FreeForWriter, Inv, ReadsCounted, WriteIsOwned,
          LOCK_STATUS_FREE, LOCK_STATUS_WRITE
    <3>2. W' = {t} /\ reads' = reads
      BY <2>3, <3>1, <1>2 DEF WriteCas, Goto, OwnsWrite, Inv, TypeOK
    <3> QED
      BY <3>1, <3>2 DEF Abs!AcquireWrite
  <2>4. ASSUME NEW t \in Threads, WriteFree(t)
        PROVE  Abs!ReleaseWrite(t)
    <3>1. W = {t}
      BY <2>4, <1>2 DEF WriteFree, OwnsWrite, Inv, OneOwner
    <3>2. W' = {} /\ reads' = reads
      BY <2>4, <3>1, <1>2 DEF WriteFree, Goto, OwnsWrite, Inv, TypeOK, IdIsWriter
    <3> QED
      BY <3>1, <3>2 DEF Abs!ReleaseWrite
  <2>5. ASSUME NEW t \in Threads, ReadLoad(t) \/ ReadWait(t) \/ ReadCasFail(t) \/ LockWrite(t)
                                   \/ \E g \in Guards : LockRead(t, g)
        PROVE  UNCHANGED Abs!absVars
    BY <2>5, <1>2 DEF ReadLoad, AfterReadLoad, ReadWait, ReadCasFail, LockWrite, LockRead, Goto,
        Abs!absVars, OwnsWrite, Inv, TypeOK, Labels
  <2>6. ASSUME NEW t \in Threads, WriteDec(t) \/ WriteId(t) \/ UnLockWrite(t)
        PROVE  UNCHANGED Abs!absVars
    BY <2>6, <1>2, RWLockConstants
    DEF WriteDec, WriteId, UnLockWrite, AfterClearOwner, Goto, Abs!absVars,
        OwnsWrite, Inv, TypeOK, OneOwner, IdIsWriter, WriteIsOwned
  <2>7. CASE UNCHANGED vars
    BY <2>7 DEF vars, Abs!absVars, OwnsWrite
  <2>8. ASSUME NEW t \in Threads, LockWriteAgain(t)
        PROVE  UNCHANGED Abs!absVars
    BY <2>8 DEF LockWriteAgain, Abs!absVars, OwnsWrite
  <2>9. \A t \in Threads : want[t] \in Guards
    BY <1>2 DEF Inv, TypeOK
  <2> QED
    BY <1>2, <2>1, <2>2, <2>3, <2>4, <2>5, <2>6, <2>7, <2>8, <2>9
    DEF Next, Inside, Leave, Enter, Abs!AbsNext
<1> QED
    BY <1>1, <1>2, LockInvariant, PTL DEF Spec, ImplementsRWLockAbs, Abs!AbsSpec

(***************************************************************************)
(* Semaphore.                                                              *)
(***************************************************************************)
\* Semaphore counts with the operators of FiniteSets, under the name of its
\* instance.
LEMMA SemaphoreSets ==
    /\ \A X : S!IsFiniteSet(X) <=> IsFiniteSet(X)
    /\ \A X : S!Cardinality(X) = Cardinality(X)
<1>1. \A X : S!IsFiniteSet(X) <=> IsFiniteSet(X)
    BY DEF S!IsFiniteSet, IsFiniteSet
<1>2. \A X : S!Cardinality(X) = Cardinality(X)
    BY DEF S!Cardinality, Cardinality
<1> QED
    BY <1>1, <1>2

\* The sets of sleepers and woken threads are finite, so they can be counted.
LEMMA Counted ==
    ASSUME S!SemaphoreValues, NEW X, X \subseteq Threads
    PROVE  /\ S!Cardinality(X) \in Nat
           /\ S!Cardinality(X) = 0 <=> X = {}
           /\ \A t \in Threads \ X : S!Cardinality(X \union {t}) = S!Cardinality(X) + 1
           /\ \A t \in X : S!Cardinality(X \ {t}) = S!Cardinality(X) - 1
<1>1. IsFiniteSet(X)
    BY FS_Subset, SemaphoreSets DEF S!SemaphoreValues
<1>2. /\ Cardinality(X) \in Nat
      /\ Cardinality(X) = 0 <=> X = {}
      /\ \A t \in Threads \ X : Cardinality(X \union {t}) = Cardinality(X) + 1
      /\ \A t \in X : Cardinality(X \ {t}) = Cardinality(X) - 1
    BY <1>1, FS_CardinalityType, FS_EmptySet, FS_AddElement, FS_RemoveElement
<1> QED
    BY <1>2, SemaphoreSets

\* A new Semaphore satisfies the invariant.
LEMMA SemaphoreInit ==
    ASSUME S!SemaphoreValues, S!Init
    PROVE  S!Inv
BY Counted DEF S!SemaphoreValues, S!Init, S!Inv, S!TypeOK

\* A notified or spuriously woken sleeper is moved from one set to the other.
LEMMA Wake ==
    ASSUME S!SemaphoreValues, S!TypeOK, NEW w \in asleep
    PROVE  /\ S!Cardinality(asleep \ {w}) = S!Cardinality(asleep) - 1
           /\ S!Cardinality(woken \union {w}) = S!Cardinality(woken) + 1
           /\ asleep \ {w} \subseteq Threads /\ woken \union {w} \subseteq Threads
           /\ (asleep \ {w}) \intersect (woken \union {w}) = {}
           /\ w \notin woken
BY Counted DEF S!TypeOK

\* Wait, the end of a wait, a spurious wakeup and Post preserve the invariant.
LEMMA SemaphoreNext ==
    ASSUME S!SemaphoreValues, S!Inv, [S!Next]_(S!vars)
    PROVE  S!Inv'
<1> USE DEF S!SemaphoreValues
<1>T. /\ S!TypeOK
      /\ S!Cardinality(asleep) \in Nat /\ S!Cardinality(woken) \in Nat
      /\ S!Cardinality(asleep) = 0 <=> asleep = {}
    BY Counted DEF S!Inv, S!TypeOK
<1>1. ASSUME NEW t \in Threads, S!Wait(t)
      PROVE  S!Inv'
  <2>1. CASE S!MustSleep(semCount - 1)
    <3>1. S!Cardinality(asleep') = S!Cardinality(asleep) + 1 /\ woken' = woken
      BY <1>1, <2>1, <1>T, Counted DEF S!Wait, S!Running, S!TypeOK
    <3>2. S!TypeOK'
      BY <1>1, <2>1, <1>T DEF S!Wait, S!Running, S!TypeOK
    <3>3. semCount' = semCount - 1 /\ semCount' < 0 /\ UNCHANGED <<permits, spurious>>
      BY <1>1, <2>1 DEF S!Wait, S!MustSleep
    <3> QED
      BY <3>1, <3>2, <3>3, <1>T DEF S!Inv, S!TypeOK
  <2>2. CASE ~S!MustSleep(semCount - 1)
    BY <1>1, <2>2, <1>T DEF S!Wait, S!MustSleep, S!Inv, S!TypeOK
  <2> QED
    BY <2>1, <2>2
<1>2. ASSUME NEW t \in Threads, S!WaitReturns(t)
      PROVE  S!Inv'
  <2>1. S!Cardinality(woken') = S!Cardinality(woken) - 1 /\ asleep' = asleep
    BY <1>2, <1>T, Counted DEF S!WaitReturns, S!TypeOK
  <2> QED
    BY <1>2, <2>1, <1>T DEF S!WaitReturns, S!Inv, S!TypeOK
<1>3. ASSUME NEW t \in Threads, S!SpuriousWakeup(t)
      PROVE  S!Inv'
  <2>1. asleep' = asleep \ {t} /\ woken' = woken \union {t} /\ t \in asleep
    BY <1>3 DEF S!SpuriousWakeup
  <2>2. /\ S!Cardinality(asleep') = S!Cardinality(asleep) - 1
        /\ S!Cardinality(woken') = S!Cardinality(woken) + 1
        /\ asleep' \subseteq Threads /\ woken' \subseteq Threads
        /\ asleep' \intersect woken' = {}
    BY <2>1, <1>T, Wake
  <2>3. S!TypeOK'
    BY <1>3, <2>2, <1>T DEF S!SpuriousWakeup, S!TypeOK
  <2> QED
    BY <1>3, <2>2, <2>3, <1>T DEF S!SpuriousWakeup, S!Inv, S!TypeOK
<1>4. ASSUME NEW t \in Threads, S!Post(t)
      PROVE  S!Inv'
  <2>1. CASE S!MustNotify(semCount + 1) /\ asleep # {}
    <3>1. PICK w \in asleep : asleep' = asleep \ {w} /\ woken' = woken \union {w}
      BY <1>4, <2>1 DEF S!Post
    <3>2. /\ S!Cardinality(asleep') = S!Cardinality(asleep) - 1
          /\ S!Cardinality(woken') = S!Cardinality(woken) + 1
          /\ asleep' \subseteq Threads /\ woken' \subseteq Threads
          /\ asleep' \intersect woken' = {}
      BY <3>1, <1>T, Wake
    <3>3. semCount' = semCount + 1 /\ permits' = permits + 1 /\ semCount' <= 0 /\ UNCHANGED spurious
      BY <1>4, <2>1 DEF S!Post, S!MustNotify
    <3>4. S!TypeOK'
      BY <3>2, <3>3, <1>T DEF S!TypeOK
    <3>5. S!Cardinality(asleep') \in Nat /\ (S!Cardinality(asleep') = 0 <=> asleep' = {})
      BY <3>2, Counted
    <3> QED
      BY <3>2, <3>3, <3>4, <3>5, <1>T DEF S!Inv, S!TypeOK
  <2>2. CASE ~(S!MustNotify(semCount + 1) /\ asleep # {})
    BY <1>4, <2>2, <1>T DEF S!Post, S!MustNotify, S!Inv, S!TypeOK
  <2> QED
    BY <2>1, <2>2
<1>5. CASE UNCHANGED S!vars
    BY <1>5 DEF S!vars, S!Inv, S!TypeOK
<1> QED
    BY <1>1, <1>2, <1>3, <1>4, <1>5 DEF S!Next

(* Semaphore: the count, the sleepers and the woken threads always add up. *)
THEOREM SemaphoreInvariant ==
    S!Spec => []S!Inv
<1>1. S!Init => S!Inv
    BY SemaphoreInit, SemaphoreConstants
<1>2. S!Inv /\ [S!Next]_(S!vars) => S!Inv'
    BY SemaphoreNext, SemaphoreConstants
<1> QED
    BY <1>1, <1>2, PTL DEF S!Spec

(* Semaphore::Post: nobody sleeps while a permit is free, with or without  *)
(* spurious wakeups.                                                       *)
THEOREM PostIsNotLost ==
    S!Spec => []NoLostPost
<1>1. S!Inv => NoLostPost
    BY Counted, SemaphoreConstants DEF S!Inv, S!TypeOK, S!NoLostPost, NoLostPost
<1> QED
    BY <1>1, SemaphoreInvariant, PTL

(* Semaphore::Wait: never more entries than permits and spurious wakeups.  *)
THEOREM PermitsAreRespected ==
    S!Spec => []WithinPermits
<1>1. S!Inv => WithinPermits
    BY Counted, SemaphoreConstants DEF S!Inv, S!TypeOK, S!WithinPermits, WithinPermits
<1> QED
    BY <1>1, SemaphoreInvariant, PTL

(* Semaphore::Wait: where cv_.wait returns only after a notification the   *)
(* limit of semaphore_ex.h:25-26 holds.                                    *)
THEOREM EntryIsRestricted ==
    ASSUME MaxSpurious = 0
    PROVE  S!Spec => []S!EntryRestricted
<1>1. S!Inv => S!EntryRestricted
    BY Counted, SemaphoreConstants DEF S!Inv, S!TypeOK, S!EntryRestricted
<1> QED
    BY <1>1, SemaphoreInvariant, PTL

(***************************************************************************)
(* Thread.                                                                 *)
(***************************************************************************)
ChildStates == {"none", "first", "run", "end", "left", "stuck"}

ThreadType ==
    /\ running \in BOOLEAN
    /\ child \in [T!Children -> ChildStates]
    /\ caller \in [Callers -> {"idle", "asleep", "awake"}]

\* OneChild is inductive once the types are known: a child leaves its last
\* round in the same critical section that clears running_ and thread_.
ThreadInv == ThreadType /\ T!OneChild

\* The children created so far can be counted, so Start has a number left.
LEMMA CreatedType ==
    ASSUME MaxStarts \in Nat
    PROVE  T!Created \in Nat
<1>1. IsFiniteSet(T!Children)
    BY FS_Interval DEF T!Children
<1>2. IsFiniteSet({k \in T!Children : child[k] # "none"})
    BY <1>1, FS_Subset
<1>3. \A X : T!Cardinality(X) = Cardinality(X)
    BY DEF T!Cardinality, Cardinality
<1> QED
    BY <1>2, <1>3, FS_CardinalityType DEF T!Created

\* Nobody runs before the first Start.
LEMMA ThreadInit == T!Init => ThreadInv
BY DEF T!Init, ThreadInv, ThreadType, T!OneChild, T!Live, ChildStates

\* A step of a caller preserves the invariant.
LEMMA CallerInv ==
    ASSUME MaxStarts \in Nat, ThreadInv, NEW c \in Callers,
           \/ T!Start(c) \/ T!StartFails(c) \/ T!NotifyExitSync(c) \/ T!SyncWakes(c)
           \/ T!SpuriousWakeup(c) \/ T!NotifyExitAsync(c)
    PROVE  ThreadInv'
<1>1. CASE T!Start(c)
  <2> DEFINE n == T!Created + 1
  <2>1. n \in T!Children /\ T!Live = {}
    BY <1>1, CreatedType DEF T!Start, T!NotStarted, T!Children, ThreadInv, T!OneChild
  <2>2. child' = [child EXCEPT ![n] = "first"] /\ thread' = n /\ running' = TRUE
        /\ caller' = caller
    BY <1>1 DEF T!Start
  <2> HIDE DEF n
  <2>3. T!Live' = {n}
    BY <2>1, <2>2 DEF T!Live, ThreadInv, ThreadType
  <2> QED
    BY <2>1, <2>2, <2>3 DEF ThreadInv, ThreadType, T!OneChild, ChildStates
<1>2. CASE T!StartFails(c)
    BY <1>2 DEF T!StartFails, T!NotStarted, ThreadInv, ThreadType, T!OneChild, T!Live
<1>3. CASE T!NotifyExitSync(c)
    BY <1>3 DEF T!NotifyExitSync, T!Return, ThreadInv, ThreadType, T!OneChild, T!Live
<1>4. CASE T!SyncWakes(c)
    BY <1>4 DEF T!SyncWakes, T!Return, ThreadInv, ThreadType, T!OneChild, T!Live
<1>5. CASE T!SpuriousWakeup(c)
    BY <1>5 DEF T!SpuriousWakeup, ThreadInv, ThreadType, T!OneChild, T!Live
<1>6. CASE T!NotifyExitAsync(c)
    BY <1>6 DEF T!NotifyExitAsync, ThreadInv, ThreadType, T!OneChild, T!Live
<1> QED
    BY <1>1, <1>2, <1>3, <1>4, <1>5, <1>6

\* A step of a child preserves the invariant.
LEMMA ChildInv ==
    ASSUME ThreadInv, NEW k \in T!Children, T!Child(k) \/ T!SelfNotifyExitSync(k)
    PROVE  ThreadInv'
<1>1. child[k] \in {"first", "run", "end"} => running /\ T!Live = {k} /\ thread = k
    BY DEF ThreadInv, T!OneChild, T!Live
<1>2. CASE T!FirstRound(k)
    BY <1>1, <1>2 DEF T!FirstRound, ThreadInv, ThreadType, T!OneChild, T!Live, ChildStates
<1>3. CASE T!RunReturns(k)
    BY <1>1, <1>3 DEF T!RunReturns, ThreadInv, ThreadType, T!OneChild, T!Live, ChildStates
<1>4. CASE T!RoundEnds(k)
  <2>1. CASE T!MustLeave(k)
    <3>1. T!Live' = {}
      BY <1>1, <1>4, <2>1 DEF T!RoundEnds, T!Live, ThreadInv, ThreadType
    <3> QED
      BY <1>4, <2>1, <3>1 DEF T!RoundEnds, T!Woken, ThreadInv, ThreadType, T!OneChild, ChildStates
  <2>2. CASE ~T!MustLeave(k)
    BY <1>1, <1>4, <2>2 DEF T!RoundEnds, ThreadInv, ThreadType, T!OneChild, T!Live, ChildStates
  <2> QED
    BY <2>1, <2>2
<1>5. CASE T!SelfNotifyExitSync(k)
    BY <1>1, <1>5 DEF T!SelfNotifyExitSync, ThreadInv, ThreadType, T!OneChild, T!Live
<1> QED
    BY <1>2, <1>3, <1>4, <1>5 DEF T!Child

\* Every step preserves the invariant.
LEMMA ThreadNext ==
    ASSUME MaxStarts \in Nat, ThreadInv, [T!Next]_(T!vars)
    PROVE  ThreadInv'
<1>1. CASE T!Next
    BY <1>1, CallerInv, ChildInv DEF T!Next
<1>2. CASE UNCHANGED T!vars
    BY <1>2 DEF T!vars, ThreadInv, ThreadType, T!OneChild, T!Live
<1> QED
    BY <1>1, <1>2

\* Thread: the invariant holds in every reachable state.
LEMMA ThreadInvariant ==
    T!Spec => []ThreadInv
<1>1. T!Init => ThreadInv
    BY ThreadInit
<1>2. ThreadInv /\ [T!Next]_(T!vars) => ThreadInv'
    BY ThreadNext, ThreadConstants DEF T!ThreadValues
<1> QED
    BY <1>1, <1>2, PTL DEF T!Spec

(* Thread::Start and Thread::ThreadStart: at most one child runs, running_ *)
(* and thread_ name it, and a child that calls NotifyExitSync on itself is *)
(* recognised, however often the object is started again.                  *)
THEOREM OneChildRuns ==
    T!Spec => []OneChild
<1>1. ThreadInv => OneChild
    BY DEF ThreadInv, OneChild
<1> QED
    BY <1>1, ThreadInvariant, PTL

(* Thread::NotifyExitSync: a caller that had to wait returns only when no  *)
(* child is running any more.                                              *)
THEOREM SyncReturnsAfterExit ==
    T!Spec => SyncMeansExited
<1>1. ASSUME ThreadInv, [T!Next]_(T!vars)
      PROVE  [\A c \in Callers : caller[c] = "awake" /\ caller'[c] = "idle" => T!Live = {}]_(T!vars)
  <2>1. SUFFICES ASSUME T!Next, NEW c \in Callers, caller[c] = "awake", caller'[c] = "idle"
                 PROVE  T!Live = {}
    BY <1>1
  <2>2. ASSUME NEW d \in Callers, T!Start(d) \/ T!StartFails(d) \/ T!NotifyExitAsync(d)
        PROVE  FALSE
    BY <2>1, <2>2 DEF T!Start, T!StartFails, T!NotifyExitAsync
  <2>3. ASSUME NEW d \in Callers, T!NotifyExitSync(d) \/ T!SpuriousWakeup(d)
        PROVE  FALSE
    BY <1>1, <2>1, <2>3 DEF T!NotifyExitSync, T!SpuriousWakeup, T!Return, ThreadInv, ThreadType
  <2>4. ASSUME NEW d \in Callers, T!SyncWakes(d)
        PROVE  ~running
    BY <1>1, <2>1, <2>4 DEF T!SyncWakes, T!Exited, ThreadInv, ThreadType
  <2>5. ASSUME NEW k \in T!Children, T!Child(k) \/ T!SelfNotifyExitSync(k)
        PROVE  FALSE
    BY <1>1, <2>1, <2>5
    DEF T!Child, T!FirstRound, T!RunReturns, T!RoundEnds, T!SelfNotifyExitSync, T!Woken, ThreadInv, ThreadType
  <2>6. ~running
    BY <2>1, <2>2, <2>3, <2>4, <2>5 DEF T!Next
  <2> QED
    BY <1>1, <2>6 DEF ThreadInv, T!OneChild
<1> QED
    BY <1>1, ThreadInvariant, PTL DEF T!Spec, T!SyncMeansExited, SyncMeansExited

(***************************************************************************)
(* ThreadPool.                                                             *)
(***************************************************************************)
WorkerStates   == {"none", "check", "sched", "asleep", "run", "exited"}
ProducerStates == {"idle", "add", "blocked"}
Tasks == Producers \X Nat

PoolPcOK ==
    /\ Workers \intersect Producers = {}
    /\ poolPc \in [Workers \union Producers -> WorkerStates \union ProducerStates]
    /\ \A w \in Workers : poolPc[w] \in WorkerStates
    /\ \A p \in Producers : poolPc[p] \in ProducerStates

PoolType ==
    /\ PoolPcOK
    /\ tasks \in Seq(Tasks) /\ done \in Seq(Tasks)
    /\ cur \in [Workers -> Tasks \union {P!NoTask}]
    /\ added \in [Producers -> Nat]
    /\ started \in BOOLEAN

\* A worker has a task exactly while it runs it; before Start, which would
\* otherwise take it away, no worker exists and nobody is inside AddTask.
Holding ==
    /\ \A w \in Workers : cur[w] # P!NoTask <=> poolPc[w] = "run"
    /\ ~started => /\ \A w \in Workers : poolPc[w] = "none"
                   /\ \A p \in Producers : poolPc[p] = "idle"

RunningWorkers == P!In(Workers, "run")

\* What is counted stays finite, whatever the constants are.
TasksFinite == IsFiniteSet(P!Accepted) /\ IsFiniteSet(RunningWorkers)

\* EachTaskOnce, with the Cardinality of this module.
OnceEach ==
    /\ P!Accepted = P!Range(tasks) \union P!Running \union P!Range(done)
    /\ Cardinality(P!Accepted) = Len(tasks) + Cardinality(RunningWorkers) + Len(done)

PoolInv == PoolType /\ Holding /\ TasksFinite /\ OnceEach

-----------------------------------------------------------------------------
\* push_back adds one element to a queue, pop_front takes the first one.
LEMMA RangeAppend ==
    ASSUME NEW Z, NEW s \in Seq(Z), NEW e
    PROVE  P!Range(Append(s, e)) = P!Range(s) \union {e} /\ Len(Append(s, e)) = Len(s) + 1
<1>1. /\ Len(s) \in Nat /\ DOMAIN s = 1 .. Len(s) /\ DOMAIN Append(s, e) = 1 .. Len(s) + 1
      /\ Len(Append(s, e)) = Len(s) + 1
      /\ \A i \in 1 .. Len(s) : Append(s, e)[i] = s[i]
      /\ Append(s, e)[Len(s) + 1] = e
    OBVIOUS
<1>2. P!Range(s) \union {e} \subseteq P!Range(Append(s, e))
    BY <1>1 DEF P!Range
<1>3. P!Range(Append(s, e)) \subseteq P!Range(s) \union {e}
  <2> SUFFICES ASSUME NEW i \in 1 .. Len(s) + 1
               PROVE  Append(s, e)[i] \in P!Range(s) \union {e}
    BY <1>1 DEF P!Range
  <2> QED
    BY <1>1 DEF P!Range
<1> QED
    BY <1>1, <1>2, <1>3

\* pop_front takes the first element away and leaves the others.
LEMMA RangeTail ==
    ASSUME NEW Z, NEW s \in Seq(Z), s # <<>>
    PROVE  /\ P!Range(s) = P!Range(Tail(s)) \union {Head(s)} /\ Len(Tail(s)) = Len(s) - 1
           /\ Head(s) \in Z /\ Tail(s) \in Seq(Z)
<1>1. /\ Len(s) \in Nat \ {0} /\ DOMAIN s = 1 .. Len(s) /\ DOMAIN Tail(s) = 1 .. Len(s) - 1
      /\ Head(s) = s[1] /\ Len(Tail(s)) = Len(s) - 1
      /\ \A i \in 1 .. Len(s) - 1 : Tail(s)[i] = s[i + 1]
      /\ Head(s) \in Z /\ Tail(s) \in Seq(Z)
    OBVIOUS
<1>2. P!Range(Tail(s)) \union {Head(s)} \subseteq P!Range(s)
    BY <1>1 DEF P!Range
<1>3. P!Range(s) \subseteq P!Range(Tail(s)) \union {Head(s)}
  <2> SUFFICES ASSUME NEW i \in 1 .. Len(s), i # 1
               PROVE  s[i] \in P!Range(Tail(s))
    BY <1>1 DEF P!Range
  <2>1. i - 1 \in 1 .. Len(s) - 1 /\ s[i] = Tail(s)[i - 1]
    BY <1>1
  <2> QED
    BY <1>1, <2>1 DEF P!Range
<1> QED
    BY <1>1, <1>2, <1>3

\* A task that is handed over is a new one.
LEMMA NewTask ==
    ASSUME added \in [Producers -> Nat], NEW p \in Producers,
           added' = [added EXCEPT ![p] = @ + 1]
    PROVE  /\ P!Accepted' = P!Accepted \union {<<p, added[p] + 1>>}
           /\ <<p, added[p] + 1>> \notin P!Accepted
           /\ added' \in [Producers -> Nat] /\ <<p, added[p] + 1>> \in Tasks
<1> DEFINE Of(f, q) == {<<q, i>> : i \in 1 .. f[q]}
<1>1. P!Accepted = UNION {Of(added, q) : q \in Producers}
      /\ P!Accepted' = UNION {Of(added', q) : q \in Producers}
    BY DEF P!Accepted
<1>2. added[p] \in Nat /\ added'[p] = added[p] + 1
      /\ \A q \in Producers \ {p} : added'[q] = added[q]
    OBVIOUS
<1>3. Of(added', p) = Of(added, p) \union {<<p, added[p] + 1>>}
    BY <1>2
<1>4. \A q \in Producers \ {p} : Of(added', q) = Of(added, q)
    BY <1>2
<1>5. \A q \in Producers : <<p, added[p] + 1>> \notin Of(added, q)
    BY <1>2
<1> HIDE DEF Of
<1>6. P!Accepted' = P!Accepted \union {<<p, added[p] + 1>>}
    BY <1>1, <1>3, <1>4
<1>7. <<p, added[p] + 1>> \notin P!Accepted
    BY <1>1, <1>5
<1> QED
    BY <1>2, <1>6, <1>7 DEF Tasks

\* What t's step and a notification do to the threads, when those that sleep
\* as `sleeping' wake up as `waking'.
LEMMA WakeOneMoves ==
    ASSUME PoolPcOK, NEW t \in Workers \union Producers, NEW Z, NEW next, NEW sleeping, NEW waking,
           P!WakeOne(t, next, Z, sleeping, waking), poolPc[t] # sleeping,
           t \in Workers => next \in WorkerStates, t \in Producers => next \in ProducerStates,
           \/ Z = Workers /\ sleeping = "asleep" /\ waking = "sched"
           \/ Z = Producers /\ sleeping = "blocked" /\ waking = "add"
    PROVE  /\ PoolPcOK'
           /\ poolPc'[t] = next
           /\ \A u \in (Workers \union Producers) \ {t} : poolPc'[u] = "run" <=> poolPc[u] = "run"
<1> USE DEF PoolPcOK, WorkerStates, ProducerStates
<1>1. CASE poolPc' = [poolPc EXCEPT ![t] = next]
    BY <1>1
<1>2. ASSUME NEW u \in P!In(Z, sleeping), poolPc' = [poolPc EXCEPT ![t] = next, ![u] = waking]
      PROVE  /\ PoolPcOK'
             /\ poolPc'[t] = next
             /\ \A v \in (Workers \union Producers) \ {t} : poolPc'[v] = "run" <=> poolPc[v] = "run"
  <2>1. u \in Z /\ u \in Workers \union Producers /\ u # t /\ poolPc[u] = sleeping
    BY <1>2 DEF P!In
  <2>2. \A v \in Workers \union Producers :
            poolPc'[v] = IF v = u THEN waking ELSE IF v = t THEN next ELSE poolPc[v]
    BY <1>2, <2>1
  <2> QED
    BY <1>2, <2>1, <2>2
<1> QED
    BY <1>1, <1>2 DEF P!WakeOne

\* A step that leaves the tasks, and who runs one, alone.
LEMMA TasksStay ==
    ASSUME PoolInv, UNCHANGED <<tasks, done, cur, added>>,
           RunningWorkers' = RunningWorkers
    PROVE  TasksFinite' /\ OnceEach'
BY DEF PoolInv, TasksFinite, OnceEach, P!Accepted, P!Running, P!Range, RunningWorkers

-----------------------------------------------------------------------------
\* A new pool satisfies the invariant.
LEMMA PoolInit ==
    ASSUME P!PoolValues, P!Init
    PROVE  PoolInv
<1>1. PoolPcOK
    BY DEF P!PoolValues, P!Init, PoolPcOK, WorkerStates, ProducerStates
<1>2. /\ tasks = <<>> /\ done = <<>> /\ tasks \in Seq(Tasks) /\ done \in Seq(Tasks)
      /\ cur \in [Workers -> Tasks \union {P!NoTask}] /\ \A w \in Workers : cur[w] = P!NoTask
      /\ added \in [Producers -> Nat] /\ \A p \in Producers : added[p] = 0
      /\ \A w \in Workers : poolPc[w] = "none"
      /\ \A p \in Producers : poolPc[p] = "idle"
    BY DEF P!PoolValues, P!Init
<1>3. started \in BOOLEAN
    BY DEF P!Init
<1>4. PoolType /\ Holding
    BY <1>1, <1>2, <1>3 DEF PoolType, Holding
<1>5. P!Accepted = {} /\ RunningWorkers = {} /\ P!Running = {}
    BY <1>2 DEF P!Accepted, RunningWorkers, P!In, P!Running
<1>6. P!Range(tasks) = {} /\ P!Range(done) = {} /\ Len(tasks) = 0 /\ Len(done) = 0
    BY <1>2 DEF P!Range
<1>7. /\ IsFiniteSet({}) /\ Cardinality({}) = 0
    BY FS_EmptySet
<1>8. OnceEach
  <2>1. P!Accepted = P!Range(tasks) \union P!Running \union P!Range(done)
    BY <1>5, <1>6
  <2>2. Cardinality(P!Accepted) = 0 /\ Cardinality(P!In(Workers, "run")) = 0
    BY <1>5, <1>7 DEF RunningWorkers
  <2> QED
    BY <1>6, <2>1, <2>2 DEF OnceEach, RunningWorkers
<1> QED
    BY <1>4, <1>5, <1>7, <1>8 DEF PoolInv, TasksFinite

\* A step that only moves a thread, to or from anything but "run".
LEMMA MoveStep ==
    ASSUME PoolInv, NEW t \in Workers \union Producers, NEW next,
           UNCHANGED <<tasks, done, cur, added, started>>,
           poolPc' = [poolPc EXCEPT ![t] = next], next # "run", poolPc[t] # "run",
           t \in Workers => next \in WorkerStates, t \in Producers => next \in ProducerStates,
           started
    PROVE  PoolInv'
<1>1. PoolPcOK'
    BY DEF PoolInv, PoolType, PoolPcOK, WorkerStates, ProducerStates
<1>2. PoolType'
    BY <1>1 DEF PoolInv, PoolType
<1>3. \A u \in Workers \union Producers : poolPc'[u] = IF u = t THEN next ELSE poolPc[u]
    BY DEF PoolInv, PoolType, PoolPcOK
<1>4. RunningWorkers' = RunningWorkers
    BY <1>3 DEF RunningWorkers, P!In
<1>5. Holding'
    BY <1>3 DEF PoolInv, PoolType, PoolPcOK, Holding
<1> QED
    BY <1>2, <1>4, <1>5, TasksStay DEF PoolInv

\* A step of the owner preserves the invariant.
LEMMA OwnerStep ==
    ASSUME PoolInv, P!Start \/ P!Stop \/ P!Joined \/ (\E n \in Limits : P!SetMaxTaskNum(n))
    PROVE  PoolInv'
<1>1. /\ PoolPcOK /\ DOMAIN poolPc = Workers \union Producers
      /\ UNCHANGED <<tasks, done, cur, added>>
    BY DEF PoolInv, PoolType, PoolPcOK, P!Start, P!Stop, P!Joined, P!SetMaxTaskNum
<1>2. CASE P!Start
  <2>1. /\ poolPc' = [t \in Workers \union Producers |-> IF t \in Workers THEN "check" ELSE poolPc[t]]
        /\ started' \in BOOLEAN /\ started' /\ \A w \in Workers : poolPc[w] = "none"
    BY <1>1, <1>2 DEF P!Start, PoolInv, Holding
  <2>2. PoolPcOK'
    BY <1>1, <2>1 DEF PoolPcOK, WorkerStates, ProducerStates
  <2>3. PoolType'
    BY <1>1, <2>1, <2>2 DEF PoolInv, PoolType
  <2>4. RunningWorkers' = RunningWorkers
    BY <2>1 DEF RunningWorkers, P!In
  <2>5. Holding'
    BY <1>1, <2>1 DEF PoolInv, Holding
  <2> QED
    BY <1>1, <2>3, <2>4, <2>5, TasksStay DEF PoolInv
<1>3. CASE P!Stop
  <2>1. /\ poolPc' = [t \in Workers \union Producers |-> P!WokenByStop(poolPc[t])]
        /\ started' = started /\ started
    BY <1>1, <1>3 DEF P!Stop
  <2>2. PoolPcOK'
    BY <1>1, <2>1 DEF PoolPcOK, WorkerStates, ProducerStates, P!WokenByStop
  <2>3. PoolType'
    BY <1>1, <2>1, <2>2 DEF PoolInv, PoolType
  <2>4. RunningWorkers' = RunningWorkers
    BY <2>1 DEF RunningWorkers, P!In, P!WokenByStop
  <2>5. Holding'
    BY <1>1, <2>1 DEF PoolInv, Holding, P!WokenByStop
  <2> QED
    BY <1>1, <2>3, <2>4, <2>5, TasksStay DEF PoolInv
<1>4. CASE P!Joined \/ \E n \in Limits : P!SetMaxTaskNum(n)
  <2>1. poolPc' = poolPc /\ started' = started
    BY <1>4 DEF P!Joined, P!SetMaxTaskNum
  <2>2. PoolType' /\ Holding' /\ RunningWorkers' = RunningWorkers
    BY <1>1, <2>1 DEF PoolInv, PoolType, PoolPcOK, Holding, RunningWorkers, P!In
  <2> QED
    BY <1>1, <2>2, TasksStay DEF PoolInv
<1> QED
    BY <1>2, <1>3, <1>4

\* AddTask, run in place or queued, preserves the invariant.
LEMMA AddStep ==
    ASSUME PoolInv, NEW p \in Producers, P!AddTask(p) \/ P!AddWait(p) \/ P!AddQueue(p)
    PROVE  PoolInv'
<1> DEFINE e == <<p, added[p] + 1>>
<1>1. /\ PoolPcOK /\ added \in [Producers -> Nat] /\ p \notin Workers /\ poolPc[p] # "run"
      /\ tasks \in Seq(Tasks) /\ done \in Seq(Tasks)
    BY DEF PoolInv, PoolType, PoolPcOK, ProducerStates
<1>2. CASE P!AddTask(p) /\ started
    BY <1>1, <1>2, MoveStep DEF P!AddTask, ProducerStates
<1>3. CASE P!AddTask(p) /\ ~started
  <2>1. /\ done' = Append(done, e) /\ added' = [added EXCEPT ![p] = @ + 1]
        /\ poolPc' = poolPc /\ UNCHANGED <<tasks, cur, started>>
    BY <1>3 DEF P!AddTask
  <2>2. /\ P!Accepted' = P!Accepted \union {e} /\ e \notin P!Accepted
        /\ added' \in [Producers -> Nat] /\ e \in Tasks
    BY <1>1, <2>1, NewTask
  <2> HIDE DEF e
  <2>3. done' \in Seq(Tasks) /\ P!Range(done') = P!Range(done) \union {e} /\ Len(done') = Len(done) + 1
    BY <1>1, <2>1, <2>2, RangeAppend
  <2>4. PoolType' /\ Holding'
    BY <2>1, <2>2, <2>3 DEF PoolInv, PoolType, PoolPcOK, Holding
  <2>5. /\ RunningWorkers' = RunningWorkers /\ P!Running' = P!Running /\ P!Range(tasks') = P!Range(tasks)
        /\ Len(tasks') = Len(tasks)
    BY <2>1 DEF RunningWorkers, P!In, P!Running
  <2>6. /\ Cardinality(P!Accepted') = Cardinality(P!Accepted) + 1
        /\ IsFiniteSet(P!Accepted') /\ IsFiniteSet(RunningWorkers')
    BY <2>2, <2>5, FS_AddElement DEF PoolInv, TasksFinite
  <2>7. /\ Len(tasks) \in Nat /\ Len(done) \in Nat
        /\ Cardinality(RunningWorkers) \in Nat /\ Cardinality(P!Accepted) \in Nat
    BY <1>1, FS_CardinalityType DEF PoolInv, TasksFinite
  <2>8. OnceEach'
    BY <2>2, <2>3, <2>5, <2>6, <2>7 DEF PoolInv, OnceEach, RunningWorkers
  <2> QED
    BY <2>4, <2>6, <2>8 DEF PoolInv, TasksFinite
<1>4. CASE P!AddWait(p)
  <2>1. started
    BY <1>4 DEF P!AddWait, PoolInv, Holding
  <2> QED
    BY <1>1, <1>4, <2>1, MoveStep DEF P!AddWait, ProducerStates
<1>5. CASE P!AddQueue(p)
  <2>1. /\ tasks' = Append(tasks, e) /\ added' = [added EXCEPT ![p] = @ + 1]
        /\ P!WakeOne(p, "idle", Workers, "asleep", "sched") /\ poolPc[p] = "add"
        /\ UNCHANGED <<done, cur, started>>
    BY <1>5 DEF P!AddQueue
  <2>2. /\ P!Accepted' = P!Accepted \union {e} /\ e \notin P!Accepted
        /\ added' \in [Producers -> Nat] /\ e \in Tasks
    BY <1>1, <2>1, NewTask
  <2> HIDE DEF e
  <2>3. tasks' \in Seq(Tasks) /\ P!Range(tasks') = P!Range(tasks) \union {e}
        /\ Len(tasks') = Len(tasks) + 1
    BY <1>1, <2>1, <2>2, RangeAppend
  <2>4. /\ PoolPcOK'
        /\ \A u \in (Workers \union Producers) \ {p} : poolPc'[u] = "run" <=> poolPc[u] = "run"
    BY <1>1, <2>1, WakeOneMoves DEF ProducerStates
  <2>5. started /\ started' = started
    BY <2>1 DEF PoolInv, Holding
  <2>6. /\ RunningWorkers' = RunningWorkers /\ P!Running' = P!Running /\ P!Range(done') = P!Range(done)
        /\ Len(done') = Len(done)
    BY <1>1, <2>1, <2>4 DEF RunningWorkers, P!In, P!Running
  <2>7. PoolType'
    BY <2>1, <2>2, <2>3, <2>4 DEF PoolInv, PoolType
  <2>8. Holding'
    BY <1>1, <2>1, <2>4, <2>5 DEF PoolInv, Holding
  <2>9. /\ Cardinality(P!Accepted') = Cardinality(P!Accepted) + 1
        /\ IsFiniteSet(P!Accepted') /\ IsFiniteSet(RunningWorkers')
    BY <2>2, <2>6, FS_AddElement DEF PoolInv, TasksFinite
  <2>10. /\ Len(tasks) \in Nat /\ Len(done) \in Nat
         /\ Cardinality(RunningWorkers) \in Nat /\ Cardinality(P!Accepted) \in Nat
    BY <1>1, FS_CardinalityType DEF PoolInv, TasksFinite
  <2>11. OnceEach'
    BY <2>2, <2>3, <2>6, <2>9, <2>10 DEF PoolInv, OnceEach, RunningWorkers
  <2> QED
    BY <2>7, <2>8, <2>9, <2>11 DEF PoolInv, TasksFinite
<1> QED
    BY <1>2, <1>3, <1>4, <1>5

\* A worker's step preserves the invariant: a task it takes leaves the queue
\* and is in its hands, a task it completes leaves its hands.
LEMMA WorkStep ==
    ASSUME PoolInv, NEW w \in Workers, P!Work(w)
    PROVE  PoolInv'
<1>1. /\ PoolPcOK /\ w \in Workers \union Producers /\ w \notin Producers
      /\ tasks \in Seq(Tasks) /\ done \in Seq(Tasks)
      /\ cur \in [Workers -> Tasks \union {P!NoTask}]
    BY DEF PoolInv, PoolType, PoolPcOK
<1>2. started /\ started' = started
    BY DEF P!Work, P!WorkCheck, P!ScheduleWait, P!ScheduleTake, P!ScheduleNone, P!RunTask, PoolInv, Holding
<1>3. /\ Len(tasks) \in Nat /\ Len(done) \in Nat
      /\ Cardinality(RunningWorkers) \in Nat /\ Cardinality(P!Accepted) \in Nat
      /\ IsFiniteSet(RunningWorkers) /\ IsFiniteSet(P!Accepted)
    BY <1>1, FS_CardinalityType DEF PoolInv, TasksFinite
<1>4. Cardinality(P!Accepted) = Len(tasks) + Cardinality(RunningWorkers) + Len(done)
    BY DEF PoolInv, OnceEach, RunningWorkers
<1>5. CASE P!WorkCheck(w)
  <2>1. PICK next \in {"sched", "exited"} : poolPc' = [poolPc EXCEPT ![w] = next]
    BY <1>5 DEF P!WorkCheck
  <2> QED
    BY <1>1, <1>2, <1>5, <2>1, MoveStep DEF P!WorkCheck, WorkerStates
<1>6. CASE P!ScheduleWait(w)
    BY <1>1, <1>2, <1>6, MoveStep DEF P!ScheduleWait, WorkerStates
<1>7. CASE P!ScheduleNone(w)
    BY <1>1, <1>2, <1>7, MoveStep DEF P!ScheduleNone, WorkerStates
<1>8. CASE P!ScheduleTake(w)
  <2>1. /\ poolPc[w] = "sched" /\ tasks # <<>> /\ tasks' = Tail(tasks)
        /\ cur' = [cur EXCEPT ![w] = Head(tasks)] /\ UNCHANGED <<added, done>>
    BY <1>8 DEF P!ScheduleTake, P!WithoutFirst
  <2>2. /\ P!Range(tasks) = P!Range(tasks') \union {Head(tasks)} /\ Len(tasks') = Len(tasks) - 1
        /\ Head(tasks) \in Tasks /\ tasks' \in Seq(Tasks)
    BY <1>1, <2>1, RangeTail
  <2>3. Head(tasks) # P!NoTask
    <3>1. PICK q \in Producers, n \in Nat : Head(tasks) = <<q, n>>
      BY <2>2 DEF Tasks
    <3>2. Len(<<q, n>>) = 2 /\ Len(<<>>) = 0
      OBVIOUS
    <3> QED
      BY <3>1, <3>2 DEF P!NoTask
  <2>4. /\ PoolPcOK' /\ poolPc'[w] = "run"
        /\ \A u \in (Workers \union Producers) \ {w} : poolPc'[u] = "run" <=> poolPc[u] = "run"
    <3>1. CASE P!WakeOne(w, "run", Producers, "blocked", "add")
      BY <1>1, <2>1, <3>1, WakeOneMoves DEF WorkerStates
    <3>2. CASE poolPc' = [poolPc EXCEPT ![w] = "run"]
      BY <1>1, <3>2 DEF PoolPcOK, WorkerStates
    <3> QED
      BY <1>8, <3>1, <3>2 DEF P!ScheduleTake
  <2>5. cur[w] = P!NoTask
    BY <2>1 DEF PoolInv, Holding
  <2>6. /\ cur' \in [Workers -> Tasks \union {P!NoTask}] /\ cur'[w] = Head(tasks)
        /\ \A u \in Workers \ {w} : cur'[u] = cur[u]
    BY <1>1, <2>1, <2>2
  <2>7. P!Running' = P!Running \union {Head(tasks)}
    BY <2>3, <2>5, <2>6 DEF P!Running
  <2>8. RunningWorkers' = RunningWorkers \union {w} /\ w \notin RunningWorkers
    BY <2>1, <2>4 DEF RunningWorkers, P!In
  <2>9. PoolType'
    BY <1>2, <2>1, <2>2, <2>4, <2>6 DEF PoolInv, PoolType
  <2>10. Holding'
    BY <1>2, <2>3, <2>4, <2>6 DEF PoolInv, Holding
  <2>11. /\ IsFiniteSet(RunningWorkers')
         /\ Cardinality(RunningWorkers') = Cardinality(RunningWorkers) + 1
    BY <1>3, <2>8, FS_AddElement
  <2>12. P!Accepted' = P!Accepted /\ P!Range(done') = P!Range(done) /\ Len(done') = Len(done)
    BY <2>1 DEF P!Accepted
  <2>13. P!Accepted' = P!Range(tasks') \union P!Running' \union P!Range(done')
    BY <2>2, <2>7, <2>12 DEF PoolInv, OnceEach
  <2>14. Cardinality(P!Accepted') = Len(tasks') + Cardinality(RunningWorkers') + Len(done')
    BY <1>3, <1>4, <2>2, <2>11, <2>12
  <2> QED
    BY <1>3, <2>9, <2>10, <2>11, <2>12, <2>13, <2>14
    DEF PoolInv, TasksFinite, OnceEach, RunningWorkers
<1>9. CASE P!RunTask(w)
  <2>1. /\ poolPc[w] = "run" /\ done' = Append(done, cur[w]) /\ cur' = [cur EXCEPT ![w] = P!NoTask]
        /\ poolPc' = [poolPc EXCEPT ![w] = "check"] /\ UNCHANGED <<added, tasks>>
    BY <1>9 DEF P!RunTask
  <2>2. cur[w] # P!NoTask /\ cur[w] \in Tasks
    BY <1>1, <2>1 DEF PoolInv, Holding
  <2>3. done' \in Seq(Tasks) /\ P!Range(done') = P!Range(done) \union {cur[w]}
        /\ Len(done') = Len(done) + 1
    BY <1>1, <2>1, <2>2, RangeAppend
  <2>4. /\ cur' \in [Workers -> Tasks \union {P!NoTask}] /\ cur'[w] = P!NoTask
        /\ \A u \in Workers \ {w} : cur'[u] = cur[u]
    BY <1>1, <2>1
  <2>5. P!Running' \union {cur[w]} = P!Running
    BY <2>2, <2>4 DEF P!Running
  <2>6. PoolPcOK' /\ poolPc'[w] = "check" /\ \A u \in (Workers \union Producers) \ {w} : poolPc'[u] = poolPc[u]
    BY <1>1, <2>1 DEF PoolPcOK, WorkerStates
  <2>7. RunningWorkers' = RunningWorkers \ {w} /\ w \in RunningWorkers
    BY <2>1, <2>6 DEF RunningWorkers, P!In
  <2>8. PoolType'
    BY <1>2, <2>1, <2>3, <2>4, <2>6 DEF PoolInv, PoolType
  <2>9. Holding'
    BY <1>2, <2>4, <2>6 DEF PoolInv, Holding
  <2>10. /\ IsFiniteSet(RunningWorkers')
         /\ Cardinality(RunningWorkers') = Cardinality(RunningWorkers) - 1
    BY <1>3, <2>7, FS_RemoveElement
  <2>11. P!Accepted' = P!Accepted /\ P!Range(tasks') = P!Range(tasks) /\ Len(tasks') = Len(tasks)
    BY <2>1 DEF P!Accepted
  <2>12. P!Accepted' = P!Range(tasks') \union P!Running' \union P!Range(done')
    BY <2>3, <2>5, <2>11 DEF PoolInv, OnceEach
  <2>13. Cardinality(P!Accepted') = Len(tasks') + Cardinality(RunningWorkers') + Len(done')
    BY <1>3, <1>4, <2>3, <2>10, <2>11
  <2> QED
    BY <1>3, <2>8, <2>9, <2>10, <2>11, <2>12, <2>13
    DEF PoolInv, TasksFinite, OnceEach, RunningWorkers
<1> QED
    BY <1>5, <1>6, <1>7, <1>8, <1>9 DEF P!Work

\* Every step of the specification preserves the invariant.
LEMMA PoolNext == PoolInv /\ [P!Next]_(P!vars) => PoolInv'
<1> SUFFICES ASSUME PoolInv, [P!Next]_(P!vars)
             PROVE  PoolInv'
    OBVIOUS
<1>1. CASE UNCHANGED P!vars
  <2>1. UNCHANGED <<tasks, done, cur, added, poolPc, started>>
    BY <1>1 DEF P!vars
  <2>2. PoolType' /\ Holding' /\ RunningWorkers' = RunningWorkers
    BY <2>1 DEF PoolInv, PoolType, PoolPcOK, Holding, RunningWorkers, P!In
  <2> QED
    BY <2>1, <2>2, TasksStay DEF PoolInv
<1>2. ASSUME NEW t \in DOMAIN poolPc, P!SpuriousWakeup(t)
      PROVE  PoolInv'
  <2>1. t \in Workers \union Producers /\ PoolPcOK
    BY DEF PoolInv, PoolType, PoolPcOK
  <2>2. /\ started
        /\ UNCHANGED <<tasks, done, cur, added, started>>
    BY <1>2, <2>1 DEF P!SpuriousWakeup, PoolInv, Holding
  <2>3. CASE poolPc[t] = "asleep"
    <3>1. t \in Workers /\ t \notin Producers /\ poolPc' = [poolPc EXCEPT ![t] = "sched"]
      BY <1>2, <2>1, <2>3 DEF P!SpuriousWakeup, PoolPcOK, ProducerStates
    <3> QED
      BY <2>1, <2>2, <2>3, <3>1, MoveStep DEF WorkerStates
  <2>4. CASE poolPc[t] = "blocked"
    <3>1. t \in Producers /\ t \notin Workers /\ poolPc' = [poolPc EXCEPT ![t] = "add"]
      BY <1>2, <2>1, <2>4 DEF P!SpuriousWakeup, PoolPcOK, WorkerStates
    <3> QED
      BY <2>1, <2>2, <2>4, <3>1, MoveStep DEF ProducerStates
  <2> QED
    BY <1>2, <2>3, <2>4 DEF P!SpuriousWakeup
<1>3. CASE P!Start \/ P!Stop \/ P!Joined \/ \E n \in Limits : P!SetMaxTaskNum(n)
    BY <1>3, OwnerStep
<1>4. ASSUME NEW p \in Producers, P!AddTask(p) \/ P!AddWait(p) \/ P!AddQueue(p)
      PROVE  PoolInv'
    BY <1>4, AddStep
<1>5. ASSUME NEW w \in Workers, P!Work(w)
      PROVE  PoolInv'
    BY <1>5, WorkStep
<1> QED
    BY <1>1, <1>2, <1>3, <1>4, <1>5 DEF P!Next

(* A task AddTask accepted is in one place at a time, queued, in the hands *)
(* of one worker or completed once: neither the unlocked read of running_  *)
(* nor Stop nor a full queue loses or repeats one, for any number of       *)
(* workers, producers and tasks and any limit of the queue.                *)
THEOREM TasksRunOnce ==
    P!Spec => []EachTaskOnce
<1>1. \A X : P!Cardinality(X) = Cardinality(X)
    BY DEF P!Cardinality, Cardinality
<1>2. PoolInv => EachTaskOnce
    BY <1>1 DEF PoolInv, OnceEach, P!EachTaskOnce, EachTaskOnce, RunningWorkers
<1>3. P!Init => PoolInv
    BY PoolInit, PoolConstants
<1>4. PoolInv /\ [P!Next]_(P!vars) => PoolInv'
    BY PoolNext
<1> QED
    BY <1>2, <1>3, <1>4, PTL DEF P!Spec
=============================================================================
