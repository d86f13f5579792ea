------------------------------ MODULE Semaphore ------------------------------
(***************************************************************************)
(* Semaphore (base/src/semaphore_ex.cpp): a counter and a condition        *)
(* variable under one mutex.  Each critical section is one action.  A      *)
(* thread that sleeps in Wait and is notified is "woken" until it has the  *)
(* mutex again.                                                            *)
(***************************************************************************)
EXTENDS Integers, FiniteSets

CONSTANTS Threads,
          Value,       \* initial value
          MaxPermits,  \* bound on the value the threads post it up to
          MaxBacklog,  \* bound on how far below zero the count goes
          MaxSpurious  \* bound on wakeups without a notification

SemaphoreValues ==
    /\ IsFiniteSet(Threads)
    /\ Value \in Nat /\ MaxPermits \in Nat /\ MaxBacklog \in Nat
    /\ MaxSpurious \in Nat

VARIABLES count,
          asleep, woken,   \* threads in cv_.wait, and notified ones
          permits,         \* Value + calls of Post - returns of Wait
          spurious         \* returns of cv_.wait without a notification

vars == <<count, asleep, woken, permits, spurious>>

Init == count = Value /\ asleep = {} /\ woken = {} /\ permits = Value /\ spurious = 0

Running(t) == t \notin asleep \union woken

(* Semaphore::Wait: if (--count_ < 0) wait.                                *)
MustSleepLate(c) == c < -1
MustSleep(c) == c < 0

Wait(t) ==
    /\ Running(t) /\ count > -MaxBacklog
    /\ count' = count - 1
    /\ IF MustSleep(count - 1)
       THEN asleep' = asleep \union {t} /\ UNCHANGED permits
       ELSE permits' = permits - 1 /\ UNCHANGED asleep
    /\ UNCHANGED <<woken, spurious>>

WaitReturns(t) ==
    /\ t \in woken
    /\ woken' = woken \ {t}
    /\ permits' = permits - 1
    /\ UNCHANGED <<count, asleep, spurious>>

SpuriousWakeup(t) ==
    /\ spurious < MaxSpurious /\ t \in asleep
    /\ spurious' = spurious + 1
    /\ asleep' = asleep \ {t}
    /\ woken' = woken \union {t}
    /\ UNCHANGED <<count, permits>>

(* Semaphore::Post: if (++count_ <= 0) notify_one.                         *)
MustNotifyLate(c) == c < 0
MustNotify(c) == c <= 0

Post(t) ==
    /\ Running(t) /\ permits < MaxPermits
    /\ count' = count + 1
    /\ permits' = permits + 1
    /\ IF MustNotify(count + 1) /\ asleep # {}
       THEN \E w \in asleep : asleep' = asleep \ {w} /\ woken' = woken \union {w}
       ELSE UNCHANGED <<asleep, woken>>
    /\ UNCHANGED spurious

Next == \E t \in Threads : Wait(t) \/ WaitReturns(t) \/ SpuriousWakeup(t) \/ Post(t)

Spec == Init /\ [][Next]_vars

-----------------------------------------------------------------------------
(* Types, and: a thread in Wait is asleep or woken, never both.            *)
TypeOK ==
    /\ count \in Int /\ permits \in Int /\ spurious \in 0 .. MaxSpurious
    /\ asleep \subseteq Threads /\ woken \subseteq Threads
    /\ asleep \intersect woken = {}

(* semaphore_ex.h:25-26: the semaphore "restricts the maximum number of    *)
(* threads entering the code section": Wait never returns more often than  *)
(* the initial value and the calls of Post allow.                          *)
EntryRestricted == permits >= 0

(* What holds of that limit when condition variables wake up spuriously:   *)
(* each such wakeup lets at most one thread too many through Wait, however *)
(* the calls that follow are ordered.                                      *)
WithinPermits == permits + spurious >= 0

(* Nobody sleeps in Wait while a permit is free: a Post that raises the    *)
(* count to 0 or less has woken a sleeper, one that raises it above 0 left *)
(* nobody asleep.                                                          *)
NoLostPost == permits > Cardinality(woken) => asleep = {}

(* The inductive invariant: the count is what is left of the permits when  *)
(* the sleeping and the woken threads have been served, and there are as   *)
(* many sleepers as it is below zero, or fewer after spurious wakeups.     *)
Inv ==
    /\ TypeOK
    /\ count = permits - Cardinality(asleep) - Cardinality(woken)
    /\ count < 0 => Cardinality(asleep) <= -count
    /\ count < 0 => -count <= Cardinality(asleep) + spurious
    /\ count >= 0 => asleep = {}
=============================================================================
