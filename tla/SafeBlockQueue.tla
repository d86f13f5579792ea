---------------------------- MODULE SafeBlockQueue ----------------------------
(***************************************************************************)
(* SafeBlockQueue (base/include/safe_block_queue.h): a bounded queue under *)
(* one mutex with the condition variables cvNotFull_ and cvNotEmpty_.      *)
(* These are its operations and properties; SafeBlockQueueTracking, which  *)
(* inherits them, puts the steps together.                                 *)
(*                                                                         *)
(* A critical section is one action.  A thread that calls is "push" or     *)
(* "pop" while it contends for the mutex, and "full" or "empty" while it   *)
(* sleeps on a condition variable; a notification, or a spurious wakeup,   *)
(* makes it contend again.  An element is the pair of its producer and its *)
(* number there.                                                           *)
(***************************************************************************)
EXTENDS Integers, Sequences, FiniteSets

CONSTANTS Producers, Consumers,
          MaxSize,    \* maxSize_
          MaxItems    \* bound: elements each producer inserts

ASSUME QueueConstants ==
    /\ MaxSize \in Nat /\ MaxItems \in Nat
    /\ Producers \intersect Consumers = {}
    /\ IsFiniteSet(Producers) /\ IsFiniteSet(Consumers)

VARIABLES queueT,
          pc,       \* thread -> what it is doing
          sent,     \* producer -> number of its elements in the queue or taken
          taken     \* elements in the order they were taken

queueVars == <<queueT, pc, sent, taken>>

Threads == Producers \union Consumers

In(S, state) == {t \in S : pc[t] = state}

\* queueT_.size() < maxSize_
HasRoom == Len(queueT) < MaxSize

InitQueue ==
    /\ queueT = <<>> /\ taken = <<>>
    /\ pc = [t \in Threads |-> "idle"]
    /\ sent = [p \in Producers |-> 0]

NotifyNone(t, next, S, asleep, awake) == pc' = [pc EXCEPT ![t] = next]

\* t goes on as `next'; cv.notify_one() makes one thread that sleeps in
\* `asleep', if there is one, contend again as `awake'.
NotifyOne(t, next, S, asleep, awake) ==
    \/ /\ In(S, asleep) = {}
       /\ pc' = [pc EXCEPT ![t] = next]
    \/ \E w \in In(S, asleep) : pc' = [pc EXCEPT ![t] = next, ![w] = awake]

-----------------------------------------------------------------------------
InsertFront(p) ==
    /\ queueT' = <<<<p, sent[p] + 1>>>> \o queueT
    /\ sent' = [sent EXCEPT ![p] = @ + 1]
    /\ NotifyOne(p, "idle", Consumers, "empty", "pop")
    /\ UNCHANGED taken

Insert(p) ==
    /\ queueT' = Append(queueT, <<p, sent[p] + 1>>)
    /\ sent' = [sent EXCEPT ![p] = @ + 1]
    /\ NotifyOne(p, "idle", Consumers, "empty", "pop")
    /\ UNCHANGED taken

Remove(c) ==
    /\ queueT' = Tail(queueT)
    /\ taken' = Append(taken, Head(queueT))
    /\ NotifyOne(c, "work", Producers, "full", "push")
    /\ UNCHANGED sent

(* SafeBlockQueue::Push: the call, the wait while full, the insertion.     *)
Push(p) ==
    /\ pc[p] = "idle" /\ sent[p] < MaxItems
    /\ pc' = [pc EXCEPT ![p] = "push"]
    /\ UNCHANGED <<queueT, sent, taken>>

PushWait(p) ==
    /\ pc[p] = "push" /\ ~HasRoom
    /\ pc' = [pc EXCEPT ![p] = "full"]
    /\ UNCHANGED <<queueT, sent, taken>>

PushInsert(p) ==
    /\ pc[p] = "push" /\ HasRoom
    /\ Insert(p)

(* SafeBlockQueue::PushNoWait: false when full, which changes nothing.     *)
PushNoWait(p) ==
    /\ pc[p] = "idle" /\ sent[p] < MaxItems /\ HasRoom
    /\ Insert(p)

(* SafeBlockQueue::Pop.                                                    *)
Pop(c) ==
    /\ pc[c] = "idle"
    /\ pc' = [pc EXCEPT ![c] = "pop"]
    /\ UNCHANGED <<queueT, sent, taken>>

PopWait(c) ==
    /\ pc[c] = "pop" /\ queueT = <<>>
    /\ pc' = [pc EXCEPT ![c] = "empty"]
    /\ UNCHANGED <<queueT, sent, taken>>

PopRemove(c) ==
    /\ pc[c] = "pop" /\ queueT # <<>>
    /\ Remove(c)

(* SafeBlockQueue::PopNotWait: false when empty, which changes nothing.    *)
PopNotWait(c) ==
    /\ pc[c] = "idle" /\ queueT # <<>>
    /\ Remove(c)

(* The consumer is done with its element.                                  *)
Finish(c) ==
    /\ pc[c] = "work"
    /\ pc' = [pc EXCEPT ![c] = "idle"]
    /\ UNCHANGED <<queueT, sent, taken>>

(* A wait may return without a notification; the loop checks again.        *)
SpuriousWakeup(t) ==
    /\ pc[t] \in {"full", "empty"}
    /\ pc' = [pc EXCEPT ![t] = IF pc[t] = "full" THEN "push" ELSE "pop"]
    /\ UNCHANGED <<queueT, sent, taken>>

-----------------------------------------------------------------------------
(* No lost wakeup: if a consumer sleeps in Pop although there are          *)
(* elements, at least as many consumers are awake to take them, and if a   *)
(* producer sleeps in Push although there is room, at least as many        *)
(* producers are awake to fill it.  One notify_one per insertion or        *)
(* removal is enough, whatever PushNoWait and PopNotWait do in between.    *)
NoLostWakeup ==
    /\ In(Consumers, "empty") # {} => Len(queueT) <= Cardinality(In(Consumers, "pop"))
    /\ In(Producers, "full") # {} => MaxSize - Len(queueT) <= Cardinality(In(Producers, "push"))

\* All elements ever inserted, those that were taken first.
Log == taken \o queueT

(* Every element a producer inserted is in the log once, and in the order  *)
(* in which that producer inserted it: consumers between them take each    *)
(* element once, first in first out.                                       *)
Delivered ==
    /\ \A i \in DOMAIN Log : Log[i][1] \in Producers /\ Log[i][2] \in 1 .. sent[Log[i][1]]
    /\ \A p \in Producers : \A n \in 1 .. sent[p] : \E i \in DOMAIN Log : Log[i] = <<p, n>>
    /\ \A i, j \in DOMAIN Log : i < j /\ Log[i][1] = Log[j][1] => Log[i][2] < Log[j][2]

(* As long as consumers come back, a producer blocked in Push gets its     *)
(* element in: the notification of Pop reaches it.                         *)
PushCompletes == \A p \in Producers : pc[p] = "push" ~> pc[p] = "idle"
=============================================================================
