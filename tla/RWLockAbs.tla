------------------------------ MODULE RWLockAbs ------------------------------
(***************************************************************************)
(* What RWLock promises (base/include/rwlock.h:33-40): any number of read  *)
(* guards, or one writing thread, never both.                              *)
(***************************************************************************)
CONSTANTS Threads, Guards

VARIABLES readers,   \* pairs <<thread, read guard>> that hold the lock
          writers    \* the thread that holds it for writing

absVars == <<readers, writers>>

AbsInit == readers = {} /\ writers = {}

AcquireRead(t, g) ==
    /\ writers = {} /\ <<t, g>> \notin readers
    /\ readers' = readers \union {<<t, g>>}
    /\ UNCHANGED writers

ReleaseRead(t, g) ==
    /\ <<t, g>> \in readers
    /\ readers' = readers \ {<<t, g>>}
    /\ UNCHANGED writers

AcquireWrite(t) ==
    /\ readers = {} /\ writers = {}
    /\ writers' = {t}
    /\ UNCHANGED readers

ReleaseWrite(t) ==
    /\ writers = {t}
    /\ writers' = {}
    /\ UNCHANGED readers

AbsNext == \E t \in Threads :
              \/ \E g \in Guards : AcquireRead(t, g) \/ ReleaseRead(t, g)
              \/ AcquireWrite(t) \/ ReleaseWrite(t)

AbsSpec == AbsInit /\ [][AbsNext]_absVars
=============================================================================
