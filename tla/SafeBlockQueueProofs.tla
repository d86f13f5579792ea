------------------------- MODULE SafeBlockQueueProofs -------------------------
(***************************************************************************)
(* The promises of SafeBlockQueue and SafeBlockQueueTracking for any       *)
(* finite sets of producers and consumers, any maxSize_ and any number of  *)
(* elements.                                                               *)
(***************************************************************************)
EXTENDS SafeBlockQueueTracking, FiniteSetTheorems, SequenceTheorems, TLAPS

ProducerStates == {"idle", "push", "full"}
ConsumerStates == {"idle", "pop", "empty", "work"}

PcOK ==
    /\ pc \in [Threads -> ProducerStates \union ConsumerStates]
    /\ \A p \in Producers : pc[p] \in ProducerStates
    /\ \A c \in Consumers : pc[c] \in ConsumerStates

TypeOK ==
    /\ queueT \in Seq(Producers \X Nat)
    /\ sent \in [Producers -> Nat]
    /\ PcOK
    /\ unfinishedTaskCount \in Int /\ unfinished \in Int /\ raced \in BOOLEAN

\* OneTaskDone is called by a consumer that has an element.
HolderWorks == holder = {} \/ \E c \in Consumers : holder = {c} /\ pc[c] = "work"

\* Producers whose Push has raised the count and not yet inserted.
Pushing == {p \in Producers : pc[p] \in {"push", "full"}}

\* How many threads are where.
NPush    == Cardinality(In(Producers, "push"))
NPushing == Cardinality(Pushing)
NPop     == Cardinality(In(Consumers, "pop"))
NWork    == Cardinality(In(Consumers, "work"))

\* NoLostWakeup, in these numbers.
Awake ==
    /\ In(Consumers, "empty") # {} => Len(queueT) <= NPop
    /\ In(Producers, "full") # {} => MaxSize - Len(queueT) <= NPush

\* Until a Push races with a OneTaskDone, the count is what it says, and
\* the value OneTaskDone has loaded is still current when it is stored.
CountExact ==
    ~raced => /\ unfinishedTaskCount = NPushing + Len(queueT) + NWork
              /\ holder # {} => unfinished = unfinishedTaskCount - 1

Inv == TypeOK /\ HolderWorks /\ Awake /\ CountExact

-----------------------------------------------------------------------------
\* The threads in one state can be counted.
LEMMA Counted ==
    ASSUME NEW S, S \subseteq Producers \/ S \subseteq Consumers
    PROVE  /\ Cardinality(S) \in Nat
           /\ Cardinality(S) = 0 <=> S = {}
           /\ \A t : t \notin S => Cardinality(S \union {t}) = Cardinality(S) + 1
           /\ \A t \in S : Cardinality(S \ {t}) = Cardinality(S) - 1
<1>1. IsFiniteSet(S)
    BY QueueConstants, FS_Subset
<1> QED
    BY <1>1, FS_CardinalityType, FS_EmptySet, FS_AddElement, FS_RemoveElement

\* The four numbers of threads are natural numbers, before and after a step.
LEMMA CountsType ==
    /\ NPush \in Nat /\ NPushing \in Nat /\ NPop \in Nat /\ NWork \in Nat
    /\ NPush' \in Nat /\ NPushing' \in Nat /\ NPop' \in Nat /\ NWork' \in Nat
<1>1. /\ Pushing \subseteq Producers /\ In(Producers, "push") \subseteq Producers
      /\ In(Consumers, "pop") \subseteq Consumers /\ In(Consumers, "work") \subseteq Consumers
    BY DEF In, Pushing
<1>2. /\ Pushing' \subseteq Producers /\ In(Producers, "push")' \subseteq Producers
      /\ In(Consumers, "pop")' \subseteq Consumers /\ In(Consumers, "work")' \subseteq Consumers
    BY DEF In, Pushing
<1> QED
    BY <1>1, <1>2, Counted DEF NPush, NPushing, NPop, NWork

\* What one thread's move from one state to another does to a count.
LEMMA Arrives ==
    ASSUME NEW A, NEW B, A \subseteq Producers \/ A \subseteq Consumers,
           NEW t, t \notin A, B = A \union {t}
    PROVE  Cardinality(B) = Cardinality(A) + 1
BY Counted

\* A thread that leaves a state is counted there no longer.
LEMMA Leaves ==
    ASSUME NEW A, NEW B, A \subseteq Producers \/ A \subseteq Consumers,
           NEW t, B = A \ {t}
    PROVE  Cardinality(B) = IF t \in A THEN Cardinality(A) - 1 ELSE Cardinality(A)
<1>1. CASE t \in A
    BY <1>1, Counted
<1>2. CASE t \notin A
  <2>1. B = A
    BY <1>2
  <2> QED
    BY <1>2, <2>1
<1> QED
    BY <1>1, <1>2

\* What cvNotEmpty_.notify_one() and the return of Push do to the threads.
LEMMA NotifyConsumer ==
    ASSUME PcOK, NEW p \in Producers, pc[p] # "full",
           NotifyOne(p, "idle", Consumers, "empty", "pop")
    PROVE  /\ PcOK'
           /\ In(Producers, "full")' = In(Producers, "full")
           /\ NPush' = IF pc[p] = "push" THEN NPush - 1 ELSE NPush
           /\ NPushing' = IF pc[p] = "push" THEN NPushing - 1 ELSE NPushing
           /\ NWork' = NWork
           /\ \/ In(Consumers, "empty")' = {}
              \/ In(Consumers, "empty") # {} /\ NPop' = NPop + 1
<1>1. PICK w : /\ In(Consumers, "empty") = {} \/ w \in In(Consumers, "empty")
               /\ pc' = IF In(Consumers, "empty") = {} THEN [pc EXCEPT ![p] = "idle"]
                        ELSE [pc EXCEPT ![p] = "idle", ![w] = "pop"]
    BY DEF NotifyOne
<1>2. \A t \in Threads :
          pc'[t] = IF t = p THEN "idle"
                   ELSE IF In(Consumers, "empty") # {} /\ t = w THEN "pop" ELSE pc[t]
    BY <1>1, QueueConstants DEF PcOK, Threads, In
<1>3. DOMAIN pc' = Threads /\ pc' = [t \in Threads |-> pc'[t]]
    BY <1>1 DEF PcOK
<1>4. In(Consumers, "empty") # {} => w \in Consumers /\ pc[w] = "empty"
    BY <1>1 DEF In
<1>5. PcOK'
  <2>1. (\A q \in Producers : pc'[q] \in ProducerStates) /\ \A c \in Consumers : pc'[c] \in ConsumerStates
    BY <1>2, <1>4, QueueConstants DEF PcOK, Threads, ProducerStates, ConsumerStates
  <2> QED
    BY <1>3, <2>1 DEF PcOK, Threads
<1>6. /\ In(Producers, "full")' = In(Producers, "full")
      /\ In(Producers, "push")' = In(Producers, "push") \ {p}
      /\ Pushing' = Pushing \ {p}
      /\ In(Consumers, "work")' = In(Consumers, "work")
    BY <1>2, <1>4, QueueConstants DEF In, Pushing, Threads, PcOK
<1>7. /\ NPush' = IF pc[p] = "push" THEN NPush - 1 ELSE NPush
      /\ NPushing' = IF pc[p] = "push" THEN NPushing - 1 ELSE NPushing
      /\ NWork' = NWork
  <2>1. /\ In(Producers, "push") \subseteq Producers /\ Pushing \subseteq Producers
        /\ p \in In(Producers, "push") <=> pc[p] = "push"
        /\ p \in Pushing <=> pc[p] = "push"
    BY DEF In, Pushing
  <2>2. NPush' = IF p \in In(Producers, "push") THEN NPush - 1 ELSE NPush
    BY <1>6, <2>1, Leaves DEF NPush
  <2>3. NPushing' = IF p \in Pushing THEN NPushing - 1 ELSE NPushing
    BY <1>6, <2>1, Leaves DEF NPushing
  <2> QED
    BY <1>6, <2>1, <2>2, <2>3 DEF NWork
<1>8. In(Consumers, "empty")' = {} \/ (In(Consumers, "empty") # {} /\ NPop' = NPop + 1)
  <2>1. CASE In(Consumers, "empty") = {}
    BY <1>2, <2>1, QueueConstants DEF In, Threads
  <2>2. CASE In(Consumers, "empty") # {}
    <3>1. /\ In(Consumers, "pop")' = In(Consumers, "pop") \union {w}
          /\ w \notin In(Consumers, "pop") /\ In(Consumers, "pop") \subseteq Consumers
      BY <1>2, <1>4, <2>2, QueueConstants DEF In, Threads
    <3> QED
      BY <2>2, <3>1, Arrives DEF NPop
  <2> QED
    BY <2>1, <2>2
<1> QED
    BY <1>5, <1>6, <1>7, <1>8

\* What cvNotFull_.notify_one() and the return of Pop do to the threads.
LEMMA NotifyProducer ==
    ASSUME PcOK, NEW c \in Consumers, pc[c] \in {"pop", "idle"},
           NotifyOne(c, "work", Producers, "full", "push")
    PROVE  /\ PcOK'
           /\ In(Consumers, "empty")' = In(Consumers, "empty")
           /\ NPop' = IF pc[c] = "pop" THEN NPop - 1 ELSE NPop
           /\ NPushing' = NPushing
           /\ NWork' = NWork + 1
           /\ \/ In(Producers, "full")' = {}
              \/ In(Producers, "full") # {} /\ NPush' = NPush + 1
<1>1. PICK w : /\ In(Producers, "full") = {} \/ w \in In(Producers, "full")
               /\ pc' = IF In(Producers, "full") = {} THEN [pc EXCEPT ![c] = "work"]
                        ELSE [pc EXCEPT ![c] = "work", ![w] = "push"]
    BY DEF NotifyOne
<1>2. \A t \in Threads :
          pc'[t] = IF t = c THEN "work"
                   ELSE IF In(Producers, "full") # {} /\ t = w THEN "push" ELSE pc[t]
    BY <1>1, QueueConstants DEF PcOK, Threads, In
<1>3. DOMAIN pc' = Threads /\ pc' = [t \in Threads |-> pc'[t]]
    BY <1>1 DEF PcOK
<1>4. In(Producers, "full") # {} => w \in Producers /\ pc[w] = "full"
    BY <1>1 DEF In
<1>5. PcOK'
  <2>1. (\A q \in Producers : pc'[q] \in ProducerStates) /\ \A d \in Consumers : pc'[d] \in ConsumerStates
    BY <1>2, <1>4, QueueConstants DEF PcOK, Threads, ProducerStates, ConsumerStates
  <2> QED
    BY <1>3, <2>1 DEF PcOK, Threads
<1>6. /\ In(Consumers, "empty")' = In(Consumers, "empty")
      /\ In(Consumers, "pop")' = In(Consumers, "pop") \ {c}
      /\ In(Consumers, "work")' = In(Consumers, "work") \union {c}
      /\ Pushing' = Pushing
    BY <1>2, <1>4, QueueConstants DEF In, Pushing, Threads, PcOK
<1>7. /\ NPop' = IF pc[c] = "pop" THEN NPop - 1 ELSE NPop
      /\ NPushing' = NPushing
      /\ NWork' = NWork + 1
  <2>1. /\ In(Consumers, "pop") \subseteq Consumers /\ In(Consumers, "work") \subseteq Consumers
        /\ c \in In(Consumers, "pop") <=> pc[c] = "pop"
        /\ c \notin In(Consumers, "work")
    BY DEF In
  <2>2. NPop' = IF c \in In(Consumers, "pop") THEN NPop - 1 ELSE NPop
    BY <1>6, <2>1, Leaves DEF NPop
  <2>3. NWork' = NWork + 1
    BY <1>6, <2>1, Arrives DEF NWork
  <2> QED
    BY <1>6, <2>1, <2>2, <2>3 DEF NPushing
<1>8. In(Producers, "full")' = {} \/ (In(Producers, "full") # {} /\ NPush' = NPush + 1)
  <2>1. CASE In(Producers, "full") = {}
    BY <1>2, <2>1, QueueConstants DEF In, Threads
  <2>2. CASE In(Producers, "full") # {}
    <3>1. /\ In(Producers, "push")' = In(Producers, "push") \union {w}
          /\ w \notin In(Producers, "push") /\ In(Producers, "push") \subseteq Producers
      BY <1>2, <1>4, <2>2, QueueConstants DEF In, Threads
    <3> QED
      BY <2>2, <3>1, Arrives DEF NPush
  <2> QED
    BY <2>1, <2>2
<1> QED
    BY <1>5, <1>6, <1>7, <1>8

\* A producer goes from one state to another on its own.
LEMMA ProducerMoves ==
    ASSUME PcOK, NEW p \in Producers, NEW st \in ProducerStates, pc[p] # st,
           pc' = [pc EXCEPT ![p] = st]
    PROVE  /\ PcOK'
           /\ In(Consumers, "empty")' = In(Consumers, "empty")
           /\ NPop' = NPop /\ NWork' = NWork
           /\ NPush' = IF st = "push" THEN NPush + 1
                       ELSE IF pc[p] = "push" THEN NPush - 1 ELSE NPush
           /\ NPushing' = IF pc[p] = "idle" THEN NPushing + 1
                          ELSE IF st = "idle" THEN NPushing - 1 ELSE NPushing
           /\ st # "full" => In(Producers, "full")' \subseteq In(Producers, "full")
<1>1. /\ PcOK' /\ \A t \in Threads : pc'[t] = IF t = p THEN st ELSE pc[t]
    BY QueueConstants DEF PcOK, Threads, ProducerStates, ConsumerStates
<1>2. /\ In(Consumers, "empty")' = In(Consumers, "empty")
      /\ In(Consumers, "pop")' = In(Consumers, "pop")
      /\ In(Consumers, "work")' = In(Consumers, "work")
      /\ st # "full" => In(Producers, "full")' \subseteq In(Producers, "full")
    BY <1>1, QueueConstants DEF In, Threads
<1>3. /\ In(Producers, "push") \subseteq Producers /\ Pushing \subseteq Producers
      /\ p \in In(Producers, "push") <=> pc[p] = "push"
      /\ p \in Pushing <=> pc[p] # "idle"
      /\ pc[p] \in {"idle", "push", "full"}
    BY DEF In, Pushing, PcOK, ProducerStates
<1>4. NPush' = IF st = "push" THEN NPush + 1
               ELSE IF pc[p] = "push" THEN NPush - 1 ELSE NPush
  <2>1. CASE st = "push"
    <3>1. In(Producers, "push")' = In(Producers, "push") \union {p}
      BY <1>1, <2>1 DEF In, Threads
    <3> QED
      BY <1>3, <2>1, <3>1, Arrives DEF NPush
  <2>2. CASE st # "push"
    <3>1. In(Producers, "push")' = In(Producers, "push") \ {p}
      BY <1>1, <2>2 DEF In, Threads
    <3>2. NPush' = IF p \in In(Producers, "push") THEN NPush - 1 ELSE NPush
      BY <1>3, <3>1, Leaves DEF NPush
    <3> QED
      BY <1>3, <2>2, <3>2
  <2> QED
    BY <2>1, <2>2
<1>5. NPushing' = IF pc[p] = "idle" THEN NPushing + 1
                  ELSE IF st = "idle" THEN NPushing - 1 ELSE NPushing
  <2>1. CASE pc[p] = "idle"
    <3>1. Pushing' = Pushing \union {p}
      BY <1>1, <2>1 DEF Pushing, Threads, ProducerStates
    <3> QED
      BY <1>3, <2>1, <3>1, Arrives DEF NPushing
  <2>2. CASE pc[p] # "idle" /\ st = "idle"
    <3>1. Pushing' = Pushing \ {p}
      BY <1>1, <2>2 DEF Pushing, Threads
    <3> QED
      BY <1>3, <2>2, <3>1, Leaves DEF NPushing
  <2>3. CASE pc[p] # "idle" /\ st # "idle"
    <3>1. Pushing' = Pushing
      BY <1>1, <1>3, <2>3 DEF Pushing, Threads, ProducerStates
    <3> QED
      BY <2>3, <3>1 DEF NPushing
  <2> QED
    BY <2>1, <2>2, <2>3
<1> QED
    BY <1>1, <1>2, <1>4, <1>5 DEF NPop, NWork

\* A consumer goes from one state to another on its own.
LEMMA ConsumerMoves ==
    ASSUME PcOK, NEW c \in Consumers, NEW st \in ConsumerStates \ {"work"}, pc[c] # st,
           pc' = [pc EXCEPT ![c] = st]
    PROVE  /\ PcOK'
           /\ In(Producers, "full")' = In(Producers, "full")
           /\ NPush' = NPush /\ NPushing' = NPushing
           /\ NPop' = IF st = "pop" THEN NPop + 1
                      ELSE IF pc[c] = "pop" THEN NPop - 1 ELSE NPop
           /\ NWork' = IF pc[c] = "work" THEN NWork - 1 ELSE NWork
           /\ st # "empty" => In(Consumers, "empty")' \subseteq In(Consumers, "empty")
<1>1. PcOK' /\ \A t \in Threads : pc'[t] = IF t = c THEN st ELSE pc[t]
    BY QueueConstants DEF PcOK, Threads, ProducerStates, ConsumerStates
<1>2. /\ In(Producers, "full")' = In(Producers, "full")
      /\ In(Producers, "push")' = In(Producers, "push")
      /\ Pushing' = Pushing
      /\ In(Consumers, "work")' = In(Consumers, "work") \ {c}
      /\ st # "empty" => In(Consumers, "empty")' \subseteq In(Consumers, "empty")
    BY <1>1, QueueConstants DEF In, Pushing, Threads
<1>3. /\ In(Consumers, "pop") \subseteq Consumers /\ In(Consumers, "work") \subseteq Consumers
      /\ c \in In(Consumers, "pop") <=> pc[c] = "pop"
      /\ c \in In(Consumers, "work") <=> pc[c] = "work"
    BY DEF In
<1>4. NPop' = IF st = "pop" THEN NPop + 1 ELSE IF pc[c] = "pop" THEN NPop - 1 ELSE NPop
  <2>1. CASE st = "pop"
    <3>1. In(Consumers, "pop")' = In(Consumers, "pop") \union {c}
      BY <1>1, <2>1 DEF In, Threads
    <3> QED
      BY <1>3, <2>1, <3>1, Arrives DEF NPop
  <2>2. CASE st # "pop"
    <3>1. In(Consumers, "pop")' = In(Consumers, "pop") \ {c}
      BY <1>1, <2>2 DEF In, Threads
    <3>2. NPop' = IF c \in In(Consumers, "pop") THEN NPop - 1 ELSE NPop
      BY <1>3, <3>1, Leaves DEF NPop
    <3> QED
      BY <1>3, <2>2, <3>2
  <2> QED
    BY <2>1, <2>2
<1>5. NWork' = IF c \in In(Consumers, "work") THEN NWork - 1 ELSE NWork
    BY <1>2, <1>3, Leaves DEF NWork
<1> QED
    BY <1>1, <1>2, <1>3, <1>4, <1>5 DEF NPush, NPushing

-----------------------------------------------------------------------------
\* A new queue satisfies the invariant.
LEMMA InitInv == InitTracking => Inv
<1> SUFFICES ASSUME InitTracking
             PROVE  Inv
    OBVIOUS
<1>1. PcOK
    BY DEF InitTracking, InitQueue, PcOK, Threads, ProducerStates, ConsumerStates
<1>2. queueT \in Seq(Producers \X Nat) /\ Len(queueT) = 0
    BY DEF InitTracking, InitQueue
<1>3. /\ sent \in [Producers -> Nat]
      /\ unfinishedTaskCount = 0 /\ unfinished = 0
      /\ raced \in BOOLEAN /\ holder = {}
    BY DEF InitTracking, InitQueue
<1>4. TypeOK
    BY <1>1, <1>2, <1>3 DEF TypeOK
<1>5. /\ In(Consumers, "empty") = {} /\ In(Producers, "full") = {}
      /\ Pushing = {} /\ In(Consumers, "work") = {}
    BY QueueConstants DEF InitTracking, InitQueue, In, Pushing, Threads
<1>6. NPushing = 0 /\ NWork = 0
    BY <1>5, FS_EmptySet DEF NPushing, NWork
<1> QED
    BY <1>2, <1>3, <1>4, <1>5, <1>6 DEF Inv, HolderWorks, Awake, CountExact

\* An insertion, with its notification, by a Push that has already raised
\* the count or by a PushNoWait, which raises it now.
LEMMA InsertInv ==
    ASSUME Inv, NEW p \in Producers, Free, Insert(p), Same,
           \/ pc[p] = "push" /\ unfinishedTaskCount' = unfinishedTaskCount
           \/ pc[p] = "idle" /\ unfinishedTaskCount' = unfinishedTaskCount + 1
    PROVE  Inv'
<1>1. /\ TypeOK /\ PcOK /\ unfinishedTaskCount \in Int
      /\ Len(queueT) \in Nat /\ MaxSize \in Nat
    BY QueueConstants DEF Inv, TypeOK
<1>2. /\ PcOK'
      /\ In(Producers, "full")' = In(Producers, "full")
      /\ NPush' = IF pc[p] = "push" THEN NPush - 1 ELSE NPush
      /\ NPushing' = IF pc[p] = "push" THEN NPushing - 1 ELSE NPushing
      /\ NWork' = NWork
      /\ \/ In(Consumers, "empty")' = {}
         \/ In(Consumers, "empty") # {} /\ NPop' = NPop + 1
    BY <1>1, NotifyConsumer DEF Insert
<1>3. Len(queueT') = Len(queueT) + 1
    BY <1>1 DEF TypeOK, Insert
<1>4. holder = {} /\ holder' = {} /\ raced' = raced /\ unfinished' = unfinished
    BY DEF Free, Same
<1>5. TypeOK'
  <2>1. queueT' \in Seq(Producers \X Nat) /\ sent' \in [Producers -> Nat]
    BY <1>1 DEF TypeOK, Insert
  <2> QED
    BY <1>1, <1>2, <1>4, <2>1 DEF TypeOK
<1>6. Awake'
    BY <1>1, <1>2, <1>3, CountsType DEF Inv, Awake
<1>7. CountExact'
    BY <1>1, <1>2, <1>3, <1>4, CountsType DEF Inv, CountExact
<1> QED
    BY <1>4, <1>5, <1>6, <1>7 DEF Inv, HolderWorks

\* A removal, with its notification.
LEMMA RemoveInv ==
    ASSUME Inv, NEW c \in Consumers, Free, Remove(c), Same,
           pc[c] \in {"pop", "idle"}, queueT # <<>>,
           unfinishedTaskCount' = unfinishedTaskCount
    PROVE  Inv'
<1>1. /\ TypeOK /\ PcOK /\ unfinishedTaskCount \in Int
      /\ Len(queueT) \in Nat /\ MaxSize \in Nat
    BY QueueConstants DEF Inv, TypeOK
<1>2. /\ PcOK'
      /\ In(Consumers, "empty")' = In(Consumers, "empty")
      /\ NPop' = IF pc[c] = "pop" THEN NPop - 1 ELSE NPop
      /\ NPushing' = NPushing
      /\ NWork' = NWork + 1
      /\ \/ In(Producers, "full")' = {}
         \/ In(Producers, "full") # {} /\ NPush' = NPush + 1
    BY <1>1, NotifyProducer DEF Remove
<1>3. Len(queueT') = Len(queueT) - 1 /\ queueT' \in Seq(Producers \X Nat)
    BY <1>1 DEF TypeOK, Remove
<1>4. /\ holder = {} /\ holder' = {} /\ raced' = raced /\ unfinished' = unfinished
      /\ sent' = sent
    BY DEF Free, Same, Remove
<1>5. TypeOK'
    BY <1>1, <1>2, <1>3, <1>4 DEF TypeOK
<1>6. Awake'
    BY <1>1, <1>2, <1>3, CountsType DEF Inv, Awake
<1>7. CountExact'
    BY <1>1, <1>2, <1>3, <1>4, CountsType DEF Inv, CountExact
<1> QED
    BY <1>4, <1>5, <1>6, <1>7 DEF Inv, HolderWorks

\* A step of a producer preserves the invariant.
LEMMA ProducerInv ==
    ASSUME Inv, NEW p \in Producers,
           TrackPush(p) \/ TrackPushLocked(p) \/ TrackPushNoWait(p)
    PROVE  Inv'
<1>1. /\ TypeOK /\ PcOK /\ unfinishedTaskCount \in Int
      /\ Len(queueT) \in Nat /\ MaxSize \in Nat /\ raced \in BOOLEAN
    BY QueueConstants DEF Inv, TypeOK
<1>2. CASE TrackPush(p)
  <2>1. /\ pc[p] = "idle" /\ pc' = [pc EXCEPT ![p] = "push"]
        /\ queueT' = queueT /\ sent' = sent
        /\ holder' = holder /\ unfinished' = unfinished
        /\ unfinishedTaskCount' = unfinishedTaskCount + 1
    BY <1>2 DEF TrackPush, Push
  <2>2. raced' \in BOOLEAN /\ (~raced' => ~raced /\ holder = {})
    BY <1>1, <1>2 DEF TrackPush, Free
  <2>3. /\ PcOK' /\ NPop' = NPop /\ NWork' = NWork
        /\ In(Consumers, "empty")' = In(Consumers, "empty")
        /\ NPush' = NPush + 1 /\ NPushing' = NPushing + 1
        /\ In(Producers, "full")' \subseteq In(Producers, "full")
    BY <1>1, <2>1, ProducerMoves DEF ProducerStates
  <2>4. TypeOK'
    BY <1>1, <2>1, <2>2, <2>3 DEF TypeOK
  <2>5. HolderWorks'
    BY <1>1, <2>1 DEF Inv, HolderWorks, PcOK, Threads
  <2>6. Awake'
    BY <1>1, <2>1, <2>3, CountsType DEF Inv, Awake
  <2>7. CountExact'
    BY <1>1, <2>1, <2>2, <2>3, CountsType DEF Inv, CountExact
  <2> QED
    BY <2>4, <2>5, <2>6, <2>7 DEF Inv
<1>3. CASE Free /\ PushWait(p) /\ UNCHANGED unfinishedTaskCount /\ Same
  <2>1. /\ pc[p] = "push" /\ pc' = [pc EXCEPT ![p] = "full"]
        /\ queueT' = queueT /\ sent' = sent /\ Len(queueT) >= MaxSize
        /\ holder = {} /\ holder' = {} /\ unfinished' = unfinished
        /\ unfinishedTaskCount' = unfinishedTaskCount /\ raced' = raced
    BY <1>1, <1>3 DEF PushWait, HasRoom, Free, Same
  <2>2. /\ PcOK' /\ NPop' = NPop /\ NWork' = NWork /\ NPushing' = NPushing
        /\ In(Consumers, "empty")' = In(Consumers, "empty")
    BY <1>1, <2>1, ProducerMoves DEF ProducerStates
  <2>3. TypeOK'
    BY <1>1, <2>1, <2>2 DEF TypeOK
  <2>4. Awake'
    BY <1>1, <2>1, <2>2, CountsType DEF Inv, Awake
  <2>5. CountExact'
    BY <1>1, <2>1, <2>2, CountsType DEF Inv, CountExact
  <2> QED
    BY <2>1, <2>3, <2>4, <2>5 DEF Inv, HolderWorks
<1>4. CASE Free /\ PushInsert(p) /\ UNCHANGED unfinishedTaskCount /\ Same
    BY <1>4, InsertInv DEF PushInsert
<1>5. CASE TrackPushNoWait(p)
    BY <1>5, InsertInv DEF TrackPushNoWait, PushNoWait
<1> QED
    BY <1>2, <1>3, <1>4, <1>5 DEF TrackPushLocked

\* A step of a consumer preserves the invariant.
LEMMA ConsumerInv ==
    ASSUME Inv, NEW c \in Consumers, TrackPop(c) \/ DoneLoad(c) \/ DoneStore(c)
    PROVE  Inv'
<1>1. /\ TypeOK /\ PcOK /\ unfinishedTaskCount \in Int /\ unfinished \in Int
      /\ Len(queueT) \in Nat /\ MaxSize \in Nat /\ raced \in BOOLEAN
    BY QueueConstants DEF Inv, TypeOK
<1>2. CASE Pop(c) /\ UNCHANGED unfinishedTaskCount /\ Same
  <2>1. /\ pc[c] = "idle" /\ pc' = [pc EXCEPT ![c] = "pop"]
        /\ queueT' = queueT /\ sent' = sent /\ raced' = raced
        /\ holder' = holder /\ unfinished' = unfinished
        /\ unfinishedTaskCount' = unfinishedTaskCount
    BY <1>2 DEF Pop, Same
  <2>2. /\ PcOK' /\ In(Producers, "full")' = In(Producers, "full")
        /\ NPush' = NPush /\ NPushing' = NPushing
        /\ NPop' = NPop + 1 /\ NWork' = NWork
        /\ In(Consumers, "empty")' \subseteq In(Consumers, "empty")
    BY <1>1, <2>1, ConsumerMoves DEF ConsumerStates
  <2>3. TypeOK'
    BY <1>1, <2>1, <2>2 DEF TypeOK
  <2>4. HolderWorks'
    BY <1>1, <2>1 DEF Inv, HolderWorks, PcOK, Threads
  <2>5. Awake'
    BY <1>1, <2>1, <2>2, CountsType DEF Inv, Awake
  <2>6. CountExact'
    BY <1>1, <2>1, <2>2, CountsType DEF Inv, CountExact
  <2> QED
    BY <2>3, <2>4, <2>5, <2>6 DEF Inv
<1>3. CASE Free /\ PopWait(c) /\ UNCHANGED unfinishedTaskCount /\ Same
  <2>1. /\ pc[c] = "pop" /\ pc' = [pc EXCEPT ![c] = "empty"]
        /\ queueT' = queueT /\ sent' = sent /\ raced' = raced /\ Len(queueT) = 0
        /\ holder = {} /\ holder' = {} /\ unfinished' = unfinished
        /\ unfinishedTaskCount' = unfinishedTaskCount
    BY <1>1, <1>3 DEF PopWait, Free, Same
  <2>2. /\ PcOK' /\ In(Producers, "full")' = In(Producers, "full")
        /\ NPush' = NPush /\ NPushing' = NPushing /\ NWork' = NWork
    BY <1>1, <2>1, ConsumerMoves DEF ConsumerStates
  <2>3. TypeOK'
    BY <1>1, <2>1, <2>2 DEF TypeOK
  <2>4. Awake'
    BY <1>1, <2>1, <2>2, CountsType DEF Inv, Awake
  <2>5. CountExact'
    BY <1>1, <2>1, <2>2, CountsType DEF Inv, CountExact
  <2> QED
    BY <2>1, <2>3, <2>4, <2>5 DEF Inv, HolderWorks
<1>4. CASE /\ Free /\ (PopRemove(c) \/ PopNotWait(c))
           /\ UNCHANGED unfinishedTaskCount /\ Same
    BY <1>4, RemoveInv DEF PopRemove, PopNotWait
<1>5. CASE DoneLoad(c)
  <2>1. /\ holder' = {c} /\ pc[c] = "work" /\ pc' = pc
        /\ unfinished' = unfinishedTaskCount - 1
        /\ unfinishedTaskCount' = unfinishedTaskCount
        /\ queueT' = queueT /\ sent' = sent /\ raced' = raced
    BY <1>5 DEF DoneLoad, queueVars
  <2>2. /\ PcOK' /\ In(Producers, "full")' = In(Producers, "full")
        /\ In(Consumers, "empty")' = In(Consumers, "empty")
        /\ NPush' = NPush /\ NPushing' = NPushing /\ NPop' = NPop /\ NWork' = NWork
    BY <1>1, <2>1 DEF PcOK, In, Pushing, NPush, NPushing, NPop, NWork
  <2>3. TypeOK'
    BY <1>1, <2>1, <2>2 DEF TypeOK
  <2>4. Awake' /\ CountExact'
    BY <2>1, <2>2 DEF Inv, Awake, CountExact
  <2> QED
    BY <2>1, <2>3, <2>4 DEF Inv, HolderWorks
<1>6. CASE DoneStore(c)
  <2>0. /\ pc[c] = "work" /\ pc' = [pc EXCEPT ![c] = "idle"] /\ pc[c] # "idle"
        /\ "idle" \in ConsumerStates \ {"work"}
    BY <1>6 DEF DoneStore, Finish, ConsumerStates
  <2>1. /\ holder = {c} /\ holder' = {} /\ unfinished' = 0
        /\ unfinishedTaskCount' = IF unfinished < 0 THEN unfinishedTaskCount ELSE unfinished
        /\ queueT' = queueT /\ sent' = sent /\ raced' = raced
    BY <1>6 DEF DoneStore, Store, Finish
  <2>2. /\ PcOK' /\ In(Producers, "full")' = In(Producers, "full")
        /\ NPush' = NPush /\ NPushing' = NPushing
        /\ NPop' = NPop /\ NWork' = NWork - 1
        /\ In(Consumers, "empty")' \subseteq In(Consumers, "empty")
    BY <1>1, <2>0, ConsumerMoves
  <2>3. TypeOK'
    BY <1>1, <2>1, <2>2 DEF TypeOK
  <2>4. Awake'
    BY <1>1, <2>1, <2>2, CountsType DEF Inv, Awake
  <2>5. CountExact'
    BY <1>1, <2>1, <2>2, CountsType DEF Inv, CountExact
  <2> QED
    BY <2>1, <2>3, <2>4, <2>5 DEF Inv, HolderWorks
<1> QED
    BY <1>2, <1>3, <1>4, <1>5, <1>6 DEF TrackPop

\* A wait that returns without a notification preserves the invariant.
LEMMA WakeupInv ==
    ASSUME Inv, NEW t \in Threads, TrackWakeup(t)
    PROVE  Inv'
<1>1. /\ TypeOK /\ PcOK /\ unfinishedTaskCount \in Int
      /\ Len(queueT) \in Nat /\ MaxSize \in Nat /\ raced \in BOOLEAN
    BY QueueConstants DEF Inv, TypeOK
<1>2. /\ queueT' = queueT /\ sent' = sent /\ raced' = raced
      /\ holder' = holder /\ unfinished' = unfinished
      /\ unfinishedTaskCount' = unfinishedTaskCount
      /\ pc[t] \in {"full", "empty"}
      /\ pc' = [pc EXCEPT ![t] = IF pc[t] = "full" THEN "push" ELSE "pop"]
    BY DEF TrackWakeup, SpuriousWakeup, Same
<1>3. /\ PcOK' /\ NWork' = NWork /\ NPushing' = NPushing
      /\ NPop' >= NPop /\ NPush' >= NPush
      /\ In(Producers, "full")' \subseteq In(Producers, "full")
      /\ In(Consumers, "empty")' \subseteq In(Consumers, "empty")
  <2>1. CASE t \in Producers
    <3>1. pc[t] = "full" /\ pc' = [pc EXCEPT ![t] = "push"]
      BY <1>1, <1>2, <2>1 DEF PcOK, ProducerStates
    <3>2. /\ PcOK' /\ NWork' = NWork /\ NPushing' = NPushing
          /\ NPop' = NPop /\ NPush' = NPush + 1
          /\ In(Producers, "full")' \subseteq In(Producers, "full")
          /\ In(Consumers, "empty")' = In(Consumers, "empty")
      BY <1>1, <2>1, <3>1, ProducerMoves DEF ProducerStates
    <3> QED
      BY <3>2, CountsType
  <2>2. CASE t \in Consumers
    <3>1. pc[t] = "empty" /\ pc' = [pc EXCEPT ![t] = "pop"]
      BY <1>1, <1>2, <2>2 DEF PcOK, ConsumerStates
    <3>2. /\ PcOK' /\ NWork' = NWork /\ NPushing' = NPushing
          /\ NPop' = NPop + 1 /\ NPush' = NPush
          /\ In(Producers, "full")' = In(Producers, "full")
          /\ In(Consumers, "empty")' \subseteq In(Consumers, "empty")
      BY <1>1, <2>2, <3>1, ConsumerMoves DEF ConsumerStates
    <3> QED
      BY <3>2, CountsType
  <2> QED
    BY <2>1, <2>2 DEF Threads
<1>4. TypeOK'
    BY <1>1, <1>2, <1>3 DEF TypeOK
<1>5. HolderWorks'
    BY <1>1, <1>2 DEF Inv, HolderWorks, PcOK, Threads
<1>6. Awake'
    BY <1>1, <1>2, <1>3, CountsType DEF Inv, Awake
<1>7. CountExact'
    BY <1>1, <1>2, <1>3, CountsType DEF Inv, CountExact
<1> QED
    BY <1>4, <1>5, <1>6, <1>7 DEF Inv

\* Every step preserves the invariant.
LEMMA NextInv ==
    ASSUME Inv, [TrackNext]_trackVars
    PROVE  Inv'
<1>1. CASE \E p \in Producers : TrackPush(p) \/ TrackPushLocked(p) \/ TrackPushNoWait(p)
    BY <1>1, ProducerInv
<1>2. CASE \E c \in Consumers : TrackPop(c) \/ DoneLoad(c) \/ DoneStore(c)
    BY <1>2, ConsumerInv
<1>3. CASE \E t \in Threads : TrackWakeup(t)
    BY <1>3, WakeupInv
<1>4. CASE Join \/ JoinCheck \/ JoinSpurious \/ UNCHANGED trackVars
  <2>1. UNCHANGED <<queueVars, unfinishedTaskCount, holder, unfinished, raced>>
    BY <1>4 DEF Join, JoinCheck, JoinSpurious, trackVars
  <2> QED
    BY <2>1
    DEF queueVars, Inv, TypeOK, PcOK, HolderWorks, Awake, CountExact, NPush, NPushing, NPop,
        NWork, Pushing, In
<1> QED
    BY <1>1, <1>2, <1>3, <1>4 DEF TrackNext

\* SafeBlockQueueTracking: the invariant holds in every reachable state.
LEMMA QueueInvariant == TrackSpec => []Inv
BY InitInv, NextInv, PTL DEF TrackSpec

(* SafeBlockQueue: one notify_one per insertion and per removal loses no   *)
(* wakeup, for any number of threads and any maxSize_, 0 included.         *)
THEOREM WakeupsAreNotLost == TrackSpec => []NoLostWakeup
<1>1. Inv => NoLostWakeup
    BY DEF Inv, Awake, NoLostWakeup, NPush, NPop
<1> QED
    BY <1>1, QueueInvariant, PTL

(* SafeBlockQueueTracking::Join: it returns with a task queued or in work  *)
(* only if a Push came between the load and the store of a OneTaskDone.    *)
THEOREM JoinWaits == TrackSpec => JoinWaitsForAll
<1>1. ASSUME Inv, [TrackNext]_trackVars
      PROVE  [join = "join" /\ join' = "joined" /\ ~raced => NothingLeft]_trackVars
  <2>1. SUFFICES ASSUME TrackNext, join = "join", join' = "joined", ~raced
                 PROVE  NothingLeft
    BY <1>1
  <2>2. ASSUME NEW p \in Producers, TrackPush(p) \/ TrackPushLocked(p) \/ TrackPushNoWait(p)
        PROVE  FALSE
    BY <2>1, <2>2 DEF TrackPush, TrackPushLocked, TrackPushNoWait, Same
  <2>3. ASSUME NEW c \in Consumers, TrackPop(c) \/ DoneLoad(c) \/ DoneStore(c)
        PROVE  FALSE
    BY <2>1, <2>3 DEF TrackPop, DoneLoad, DoneStore, Store, Same
  <2>4. ASSUME NEW t \in Threads, TrackWakeup(t)
        PROVE  FALSE
    BY <2>1, <2>4 DEF TrackWakeup, Same
  <2>5. JoinCheck
    BY <2>1, <2>2, <2>3, <2>4 DEF TrackNext, Join, JoinSpurious
  <2>6. unfinishedTaskCount = 0
    BY <2>1, <2>5 DEF JoinCheck, AllDone
  <2>7. /\ queueT \in Seq(Producers \X Nat) /\ Len(queueT) \in Nat
        /\ unfinishedTaskCount = NPushing + Len(queueT) + NWork
    BY <1>1, <2>1 DEF Inv, TypeOK, CountExact
  <2>8. Len(queueT) = 0 /\ NWork = 0
    BY <2>6, <2>7, CountsType
  <2>9. queueT = <<>>
    BY <2>7, <2>8
  <2>10. In(Consumers, "work") = {}
    <3>1. In(Consumers, "work") \subseteq Consumers
      BY DEF In
    <3> QED
      BY <2>8, <3>1, Counted DEF NWork
  <2> QED
    BY <2>9, <2>10 DEF NothingLeft
<1> QED
    BY <1>1, QueueInvariant, PTL DEF TrackSpec, JoinWaitsForAll

-----------------------------------------------------------------------------
\* Delivered is inductive once taken is known to be a sequence of elements.
LogInv == taken \in Seq(Producers \X Nat) /\ Delivered

\* A removal leaves the log alone, an insertion appends to it.
LEMMA LogSteps ==
    ASSUME TypeOK, taken \in Seq(Producers \X Nat)
    PROVE  /\ Log \in Seq(Producers \X Nat)
           /\ \A c \in Consumers : Remove(c) /\ queueT # <<>> =>
                  taken' \in Seq(Producers \X Nat) /\ Log' = Log
           /\ \A p \in Producers : Insert(p) =>
                  taken' = taken /\ Log' = Append(Log, <<p, sent[p] + 1>>)
<1> DEFINE E == Producers \X Nat
<1>0. queueT \in Seq(E) /\ taken \in Seq(E)
    BY DEF TypeOK
<1>1. Log \in Seq(E)
    BY <1>0, ConcatProperties DEF Log
<1>2. ASSUME NEW c \in Consumers, Remove(c), queueT # <<>>
      PROVE  taken' \in Seq(E) /\ Log' = Log
  <2>1. /\ Head(queueT) \in E /\ Tail(queueT) \in Seq(E) /\ <<Head(queueT)>> \in Seq(E)
        /\ queueT = <<Head(queueT)>> \o Tail(queueT)
    BY <1>0, <1>2, HeadTailProperties
  <2>2. taken' = taken \o <<Head(queueT)>> /\ queueT' = Tail(queueT)
    BY <1>0, <1>2, <2>1, AppendIsConcat DEF Remove
  <2>3. taken' \in Seq(E)
    BY <1>0, <2>1, <2>2, ConcatProperties
  <2>4. (taken \o <<Head(queueT)>>) \o Tail(queueT) = taken \o (<<Head(queueT)>> \o Tail(queueT))
    BY <1>0, <2>1, ConcatAssociative
  <2> QED
    BY <2>1, <2>2, <2>3, <2>4 DEF Log
<1>3. ASSUME NEW p \in Producers, Insert(p)
      PROVE  taken' = taken /\ Log' = Append(Log, <<p, sent[p] + 1>>)
  <2> DEFINE e == <<p, sent[p] + 1>>
  <2>1. e \in E /\ <<e>> \in Seq(E)
    BY DEF TypeOK
  <2>2. taken' = taken /\ queueT' = Append(queueT, e)
    BY <1>3 DEF Insert
  <2> HIDE DEF e, E
  <2>3. queueT' = queueT \o <<e>> /\ Append(Log, e) = Log \o <<e>>
    BY <1>0, <1>1, <2>1, <2>2, AppendIsConcat
  <2>4. (taken \o queueT) \o <<e>> = taken \o (queueT \o <<e>>)
    BY <1>0, <2>1, ConcatAssociative
  <2>5. Log' = Append(Log, e)
    BY <2>2, <2>3, <2>4 DEF Log
  <2> QED
    BY <2>2, <2>5 DEF e
<1> QED
    BY <1>1, <1>2, <1>3

\* The next element of a producer may be appended.
LEMMA AppendDelivered ==
    ASSUME TypeOK, Delivered, Log \in Seq(Producers \X Nat), NEW p \in Producers,
           Log' = Append(Log, <<p, sent[p] + 1>>),
           sent' = [sent EXCEPT ![p] = @ + 1]
    PROVE  Delivered'
<1>1. /\ sent \in [Producers -> Nat] /\ sent[p] \in Nat
      /\ \A q \in Producers : sent'[q] = IF q = p THEN sent[p] + 1 ELSE sent[q]
    BY DEF TypeOK
<1>2. /\ Len(Log) \in Nat /\ DOMAIN Log = 1 .. Len(Log) /\ DOMAIN Log' = 1 .. Len(Log) + 1
      /\ \A i \in 1 .. Len(Log) : Log'[i] = Log[i]
      /\ Log'[Len(Log) + 1] = <<p, sent[p] + 1>>
    BY <1>1
<1>3. \A i \in 1 .. Len(Log) : Log[i][1] \in Producers /\ Log[i][2] \in 1 .. sent[Log[i][1]]
    BY <1>2 DEF Delivered
<1>4. \A i \in DOMAIN Log' : Log'[i][1] \in Producers /\ Log'[i][2] \in 1 .. sent'[Log'[i][1]]
  <2> SUFFICES ASSUME NEW i \in DOMAIN Log'
               PROVE  Log'[i][1] \in Producers /\ Log'[i][2] \in 1 .. sent'[Log'[i][1]]
    OBVIOUS
  <2>1. CASE i = Len(Log) + 1
    BY <1>1, <1>2, <2>1
  <2>2. CASE i \in 1 .. Len(Log)
    <3>1. Log'[i] = Log[i]
      BY <1>2, <2>2
    <3>2. Log[i][1] \in Producers /\ Log[i][2] \in 1 .. sent[Log[i][1]]
      BY <1>3, <2>2
    <3>3. sent[Log[i][1]] \in Nat /\ sent'[Log[i][1]] >= sent[Log[i][1]]
          /\ sent'[Log[i][1]] \in Nat
      BY <1>1, <3>2
    <3> QED
      BY <3>1, <3>2, <3>3
  <2> QED
    BY <1>2, <2>1, <2>2
<1>5. \A q \in Producers : \A n \in 1 .. sent'[q] : \E i \in DOMAIN Log' : Log'[i] = <<q, n>>
  <2> SUFFICES ASSUME NEW q \in Producers, NEW n \in 1 .. sent'[q]
               PROVE  \E i \in DOMAIN Log' : Log'[i] = <<q, n>>
    OBVIOUS
  <2>1. CASE n \in 1 .. sent[q]
    <3>1. PICK i \in DOMAIN Log : Log[i] = <<q, n>>
      BY <2>1 DEF Delivered
    <3> QED
      BY <1>2, <3>1
  <2>2. CASE q = p /\ n = sent[p] + 1
    <3>1. Len(Log) + 1 \in DOMAIN Log' /\ Log'[Len(Log) + 1] = <<q, n>>
      BY <1>2, <2>2
    <3> QED
      BY <3>1
  <2>3. n \in 1 .. sent[q] \/ (q = p /\ n = sent[p] + 1)
    BY <1>1
  <2> QED
    BY <2>1, <2>2, <2>3
<1>6. \A i, j \in DOMAIN Log' :
          i < j /\ Log'[i][1] = Log'[j][1] => Log'[i][2] < Log'[j][2]
  <2> SUFFICES ASSUME NEW i \in DOMAIN Log', NEW j \in DOMAIN Log', i < j,
                      Log'[i][1] = Log'[j][1]
               PROVE  Log'[i][2] < Log'[j][2]
    OBVIOUS
  <2>1. i \in 1 .. Len(Log) /\ Log'[i] = Log[i]
    BY <1>2
  <2>2. CASE j = Len(Log) + 1
    <3>1. Log[i][1] = p /\ Log'[j][2] = sent[p] + 1
      BY <1>2, <2>1, <2>2
    <3>2. Log[i][2] \in 1 .. sent[p]
      BY <1>3, <2>1, <3>1
    <3>3. Log'[i][2] = Log[i][2]
      BY <2>1
    <3> QED
      BY <1>1, <3>1, <3>2, <3>3
  <2>3. CASE j \in 1 .. Len(Log)
    BY <1>2, <2>1, <2>3 DEF Delivered
  <2> QED
    BY <1>2, <2>2, <2>3
<1> QED
    BY <1>4, <1>5, <1>6 DEF Delivered

\* Every step preserves the order of the log.
LEMMA LogNext ==
    ASSUME Inv, LogInv, [TrackNext]_trackVars
    PROVE  LogInv'
<1>1. TypeOK /\ taken \in Seq(Producers \X Nat) /\ Log \in Seq(Producers \X Nat) /\ Delivered
    BY LogSteps DEF Inv, LogInv
<1>2. \/ UNCHANGED <<queueT, sent, taken>>
      \/ \E p \in Producers : Insert(p)
      \/ \E c \in Consumers : Remove(c) /\ queueT # <<>>
  <2>1. ASSUME NEW p \in Producers, TrackPush(p) \/ TrackPushLocked(p) \/ TrackPushNoWait(p)
        PROVE  UNCHANGED <<queueT, sent, taken>> \/ Insert(p)
    BY <2>1
    DEF TrackPush, TrackPushLocked, TrackPushNoWait, Push, PushWait, PushInsert, PushNoWait
  <2>2. ASSUME NEW c \in Consumers, TrackPop(c) \/ DoneLoad(c) \/ DoneStore(c)
        PROVE  UNCHANGED <<queueT, sent, taken>> \/ (Remove(c) /\ queueT # <<>>)
    BY <2>2
    DEF TrackPop, DoneLoad, DoneStore, Pop, PopWait, PopRemove, PopNotWait, Finish, queueVars
  <2>3. ASSUME NEW t \in Threads, TrackWakeup(t)
        PROVE  UNCHANGED <<queueT, sent, taken>>
    BY <2>3 DEF TrackWakeup, SpuriousWakeup
  <2>4. CASE Join \/ JoinCheck \/ JoinSpurious \/ UNCHANGED trackVars
    BY <2>4 DEF Join, JoinCheck, JoinSpurious, trackVars, queueVars
  <2> QED
    BY <2>1, <2>2, <2>3, <2>4 DEF TrackNext
<1>3. CASE UNCHANGED <<queueT, sent, taken>>
    BY <1>3 DEF LogInv, Delivered, Log
<1>4. ASSUME NEW p \in Producers, Insert(p)
      PROVE  LogInv'
  <2>1. taken' = taken /\ Log' = Append(Log, <<p, sent[p] + 1>>)
    BY <1>1, <1>4, LogSteps
  <2>2. sent' = [sent EXCEPT ![p] = @ + 1]
    BY <1>4 DEF Insert
  <2> QED
    BY <1>1, <2>1, <2>2, AppendDelivered DEF LogInv
<1>5. ASSUME NEW c \in Consumers, Remove(c), queueT # <<>>
      PROVE  LogInv'
  <2>1. taken' \in Seq(Producers \X Nat) /\ Log' = Log
    BY <1>1, <1>5, LogSteps
  <2>2. sent' = sent
    BY <1>5 DEF Remove
  <2> QED
    BY <1>1, <2>1, <2>2 DEF LogInv, Delivered
<1> QED
    BY <1>2, <1>3, <1>4, <1>5

(* SafeBlockQueue::Push and Pop: every element is taken once, in the order *)
(* its producer inserted it, for any number of producers and consumers.    *)
THEOREM ElementsAreDelivered == TrackSpec => []Delivered
<1>1. InitTracking => LogInv
  <2> SUFFICES ASSUME InitTracking
               PROVE  LogInv
    OBVIOUS
  <2>1. taken = <<>> /\ queueT = <<>> /\ \A p \in Producers : sent[p] = 0
    BY DEF InitTracking, InitQueue
  <2>2. taken \in Seq(Producers \X Nat) /\ Log = <<>> /\ DOMAIN Log = {}
    BY <2>1 DEF Log
  <2> QED
    BY <2>1, <2>2 DEF LogInv, Delivered
<1>2. LogInv => Delivered
    BY DEF LogInv
<1> QED
    BY <1>1, <1>2, LogNext, QueueInvariant, PTL DEF TrackSpec
=============================================================================
