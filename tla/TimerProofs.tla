----------------------------- MODULE TimerProofs -----------------------------
(***************************************************************************)
(* Proofs about Timer, for any number of descriptors, intervals, timers    *)
(* and loop threads: callbacks follow an expiry of their own descriptor,   *)
(* and events and descriptors match.                                       *)
(***************************************************************************)
EXTENDS Timer, TLAPS

Entries == [on : BOOLEAN, interval : Intervals \cup {None}, once : BOOLEAN,
            fd : Fds \cup {None}]
Dispatching == {"handle", "ontimer", "each", "callback", "erase"}
Serving == {"ontimer", "each", "callback", "erase"}
Places == {"new", "start", "check", "poll", "lookup", "leave", "cleanup", "dead"}
              \cup Dispatching

TypeOK ==
    /\ handler \in [Fds -> Handlers]
    /\ entries \in [Ids -> Entries]
    /\ timers \in [Fds -> Intervals \cup {0, None}]
    /\ nextId \in Nat
    /\ pc \in [Loops -> Places]
    /\ ready \in [Loops -> SUBSET Fds] /\ held \in [Loops -> SUBSET Fds]
    /\ pend \in [Loops -> SUBSET Fds] /\ cur \in [Loops -> Fds \cup {None}]
    /\ snap \in [Loops -> SUBSET Ids] /\ gone \in [Loops -> SUBSET Ids]

-----------------------------------------------------------------------------
(* The handlers and what a loop holds of them.                             *)

\* A handler in a table is open; one whose timer is due has expired.
Kept == \A f \in Fds : /\ handler[f].inReactor \/ handler[f].inDemux => handler[f].open
                       /\ handler[f].due => handler[f].hit

\* taskQue exists while its handlers are dispatched, and keeps them open.
HeldOpen ==
    \A l \in Loops : /\ pend[l] \subseteq held[l]
                     /\ held[l] # {} => pc[l] \in Dispatching
                     /\ \A f \in held[l] : handler[f].open

\* OnTimer runs for a handler in taskQue that has expired.
Served == \A l \in Loops : pc[l] \in Serving => cur[l] \in held[l] /\ handler[cur[l]].hit

HoldInv == TypeOK /\ Kept /\ HeldOpen /\ Served

-----------------------------------------------------------------------------
(* The tables of Timer.                                                    *)

Well(i) == entries[i].interval \in Intervals /\ entries[i].fd \in Fds

\* Identifiers that were not given out yet have no entry.
Given == \A i \in Ids : (entries[i].on => i < nextId) /\ (i < nextId => Well(i))

\* Every registered event has its timer (see DescriptorsMatchEvents).
Timed ==
    \A i \in Ids : entries[i].on =>
        /\ handler[entries[i].fd].inReactor
        /\ handler[entries[i].fd].once = entries[i].once
        /\ timers[entries[i].fd] = entries[i].interval
        /\ entries[i].interval \in keys

\* A one-shot event has a descriptor of its own.
OwnFd ==
    \A i, j \in Ids :
        entries[i].on /\ entries[j].on /\ i # j /\ entries[i].fd = entries[j].fd
            => ~entries[i].once

\* What OnTimer visits are entries of one interval, and what it erases are
\* one-shot ones among them.
Visited ==
    \A l \in Loops :
        /\ \A i \in snap[l] \cup gone[l] : i < nextId
        /\ \A i, j \in snap[l] \cup gone[l] : entries[i].interval = entries[j].interval
        /\ \A i \in gone[l] : entries[i].once

\* Until a loop has run CleanUp, an open timer serves a registered event of
\* its interval, or is waiting in some taskQue to be destroyed.
Listed(f) == \E i \in Ids : entries[i].on /\ entries[i].interval = timers[f]
InTask(f) == \E l \in Loops : f \in held[l]

Used ==
    ~CleanedUp => \A f \in Fds :
        /\ handler[f].inReactor = handler[f].inDemux
        /\ handler[f].open /\ handler[f].timer =>
               IF handler[f].inReactor THEN Listed(f) ELSE InTask(f)

MatchInv == Given /\ Timed /\ OwnFd /\ Visited /\ Used

-----------------------------------------------------------------------------
(* The operators on handlers.                                              *)

\* What DisableAll with UpdateEventHandler changes of a handler.
LEMMA DisableFacts ==
    ASSUME NEW h \in Handlers
    PROVE  /\ Disable(h) \in Handlers
           /\ Disable(h).open = h.open /\ Disable(h).once = h.once
           /\ Disable(h).due = h.due /\ Disable(h).hit = h.hit
           /\ Disable(h).timer = h.timer /\ Disable(h).inReactor = h.inReactor
           /\ Disable(h).inDemux = ~h.inDemux
<1>1. h.events \in BOOLEAN /\ h.inDemux \in BOOLEAN
    BY DEF Handlers
<1>2. Disable(h) = [h EXCEPT !.events = FALSE, !.inDemux = ~h.inDemux]
    BY DEF Disable
<1>3. ASSUME NEW b \in BOOLEAN
      PROVE  LET g == [h EXCEPT !.events = FALSE, !.inDemux = b]
             IN  /\ g \in Handlers
                 /\ g.open = h.open /\ g.once = h.once /\ g.due = h.due /\ g.hit = h.hit
                 /\ g.timer = h.timer /\ g.inReactor = h.inReactor /\ g.inDemux = b
    BY DEF Handlers
<1>4. CASE h.inDemux
  <2>1. Disable(h) = [h EXCEPT !.events = FALSE, !.inDemux = FALSE]
    BY <1>1, <1>2, <1>4
  <2> QED
    BY <1>1, <1>3, <1>4, <2>1
<1>5. CASE ~h.inDemux
  <2>1. Disable(h) = [h EXCEPT !.events = FALSE, !.inDemux = TRUE]
    BY <1>1, <1>2, <1>5
  <2> QED
    BY <1>1, <1>3, <1>5, <2>1
<1> QED
    BY <1>1, <1>4, <1>5, Zenon

\* What CancelTimer changes of a handler of the reactor.
LEMMA CancelOne ==
    ASSUME NEW h \in Handlers
    PROVE  LET g == [Disable(h) EXCEPT !.inReactor = FALSE]
           IN  /\ g \in Handlers /\ ~g.inReactor
               /\ g.open = h.open /\ g.once = h.once /\ g.timer = h.timer
               /\ g.due = h.due /\ g.hit = h.hit
               /\ g.inDemux = ~h.inDemux
<1>1. ASSUME NEW d \in Handlers
      PROVE  LET g == [d EXCEPT !.inReactor = FALSE]
             IN  /\ g \in Handlers /\ ~g.inReactor
                 /\ g.open = d.open /\ g.once = d.once /\ g.timer = d.timer
                 /\ g.due = d.due /\ g.hit = d.hit /\ g.inDemux = d.inDemux
    BY DEF Handlers
<1> DEFINE dd == Disable(h)
           g  == [dd EXCEPT !.inReactor = FALSE]
<1>2. /\ dd \in Handlers
      /\ dd.open = h.open /\ dd.once = h.once /\ dd.timer = h.timer
      /\ dd.due = h.due /\ dd.hit = h.hit /\ dd.inDemux = ~h.inDemux
    BY DisableFacts
<1>3. /\ g \in Handlers /\ ~g.inReactor
      /\ g.open = dd.open /\ g.once = dd.once /\ g.timer = dd.timer
      /\ g.due = dd.due /\ g.hit = dd.hit /\ g.inDemux = dd.inDemux
  <2> HIDE DEF dd
  <2> QED
    BY <1>1, <1>2
<1> HIDE DEF g, dd
<1>4. /\ g \in Handlers /\ ~g.inReactor
      /\ g.open = h.open /\ g.once = h.once /\ g.timer = h.timer
      /\ g.due = h.due /\ g.hit = h.hit /\ g.inDemux = ~h.inDemux
    BY <1>2, <1>3
<1> QED
    BY <1>4 DEF g, dd

\* CancelTimer for a set of descriptors.
LEMMA CancelFacts ==
    ASSUME NEW hs \in [Fds -> Handlers], NEW fs
    PROVE  /\ CancelTimers(hs, fs) \in [Fds -> Handlers]
           /\ \A f \in Fds :
                /\ CancelTimers(hs, fs)[f].open = hs[f].open
                /\ CancelTimers(hs, fs)[f].once = hs[f].once
                /\ CancelTimers(hs, fs)[f].timer = hs[f].timer
                /\ CancelTimers(hs, fs)[f].due = hs[f].due
                /\ CancelTimers(hs, fs)[f].hit = hs[f].hit
                /\ CancelTimers(hs, fs)[f].inReactor <=> hs[f].inReactor /\ f \notin fs
                /\ f \in fs /\ hs[f].inReactor =>
                       CancelTimers(hs, fs)[f].inDemux = ~hs[f].inDemux
                /\ f \notin fs \/ ~hs[f].inReactor =>
                       CancelTimers(hs, fs)[f].inDemux = hs[f].inDemux
<1>1. \A f \in Fds : hs[f] \in Handlers
    OBVIOUS
<1>2. \A f \in Fds : f \in fs /\ hs[f].inReactor =>
          CancelTimers(hs, fs)[f] = [Disable(hs[f]) EXCEPT !.inReactor = FALSE]
    BY DEF CancelTimers
<1>3. \A f \in Fds : ~(f \in fs /\ hs[f].inReactor) => CancelTimers(hs, fs)[f] = hs[f]
    BY DEF CancelTimers
<1>4. ASSUME NEW f \in Fds
      PROVE  LET g == CancelTimers(hs, fs)[f]
             IN  /\ g \in Handlers
                 /\ g.open = hs[f].open /\ g.once = hs[f].once /\ g.timer = hs[f].timer
                 /\ g.due = hs[f].due /\ g.hit = hs[f].hit
                 /\ g.inReactor <=> hs[f].inReactor /\ f \notin fs
                 /\ f \in fs /\ hs[f].inReactor => g.inDemux = ~hs[f].inDemux
                 /\ f \notin fs \/ ~hs[f].inReactor => g.inDemux = hs[f].inDemux
  <2>1. CASE f \in fs /\ hs[f].inReactor
    <3> DEFINE c == [Disable(hs[f]) EXCEPT !.inReactor = FALSE]
    <3>1. /\ c \in Handlers /\ ~c.inReactor
          /\ c.open = hs[f].open /\ c.once = hs[f].once /\ c.timer = hs[f].timer
          /\ c.due = hs[f].due /\ c.hit = hs[f].hit /\ c.inDemux = ~hs[f].inDemux
        BY <1>1, CancelOne
    <3>2. CancelTimers(hs, fs)[f] = c
        BY <1>2, <2>1
    <3> HIDE DEF c
    <3> QED
        BY <2>1, <3>1, <3>2
  <2>2. CASE ~(f \in fs /\ hs[f].inReactor)
    BY <1>1, <1>3, <2>2
  <2> QED
    BY <2>1, <2>2
<1>5. CancelTimers(hs, fs) \in [Fds -> Handlers]
  <2>1. CancelTimers(hs, fs) = [f \in Fds |-> CancelTimers(hs, fs)[f]]
    BY DEF CancelTimers
  <2> QED
    BY <1>4, <2>1
<1> QED
    BY <1>1, <1>4, <1>5, Zenon

\* The fields of a destroyed handler.
LEMMA ClosedFacts ==
    /\ Closed \in Handlers
    /\ ~Closed.open /\ ~Closed.due /\ ~Closed.inReactor /\ ~Closed.inDemux
BY DEF Closed, Handlers

\* Handlers are destroyed when nothing refers to them, and kept otherwise.
LEMMA ReapedFacts ==
    ASSUME NEW hs \in [Fds -> Handlers], NEW tasks
    PROVE  /\ Reaped(hs, tasks) \in [Fds -> Handlers]
           /\ \A f \in Fds :
                /\ hs[f].inReactor \/ hs[f].inDemux \/ (\E l \in Loops : f \in tasks[l])
                       => Reaped(hs, tasks)[f] = hs[f]
                /\ ~hs[f].inReactor /\ ~hs[f].inDemux /\ (\A l \in Loops : f \notin tasks[l])
                       => Reaped(hs, tasks)[f] = Closed
BY ClosedFacts DEF Reaped

\* A new timer.
LEMMA ScheduledFacts ==
    ASSUME NEW once \in BOOLEAN, NEW isTimer \in BOOLEAN
    PROVE  LET h == Scheduled(once, isTimer)
           IN  /\ h \in Handlers /\ h.open /\ h.inReactor /\ h.inDemux /\ ~h.due
               /\ h.once = once /\ h.timer = isTimer
BY DEF Scheduled, Handlers

-----------------------------------------------------------------------------
(* Erase: what is left of the entries, the descriptors that go with the    *)
(* entries, and those whose timers are cancelled.                          *)
Left(ids) == [i \in Ids |-> [entries[i] EXCEPT !.on = @ /\ i \notin ids]]
OwnFds(ids) == {entries[i].fd : i \in {j \in ids : entries[j].once}}
Cancelled(ids, interval) ==
    IF ListOf(interval, Left(ids)) = {} THEN OwnFds(ids) \cup FdsOf(interval) ELSE OwnFds(ids)

\* The entries that are left are as they were.
LEMMA LeftFacts ==
    ASSUME TypeOK, NEW ids
    PROVE  /\ Left(ids) \in [Ids -> Entries]
           /\ \A i \in Ids : /\ Left(ids)[i].on <=> entries[i].on /\ i \notin ids
                             /\ Left(ids)[i].interval = entries[i].interval
                             /\ Left(ids)[i].once = entries[i].once
                             /\ Left(ids)[i].fd = entries[i].fd
<1>1. ASSUME NEW e \in Entries, NEW b \in BOOLEAN
      PROVE  LET g == [e EXCEPT !.on = b]
             IN  /\ g \in Entries /\ g.on = b
                 /\ g.interval = e.interval /\ g.once = e.once /\ g.fd = e.fd
    BY DEF Entries
<1>2. ASSUME NEW i \in Ids
      PROVE  /\ Left(ids)[i] \in Entries
             /\ Left(ids)[i].on <=> entries[i].on /\ i \notin ids
             /\ Left(ids)[i].interval = entries[i].interval
             /\ Left(ids)[i].once = entries[i].once
             /\ Left(ids)[i].fd = entries[i].fd
  <2>1. entries[i] \in Entries /\ entries[i].on \in BOOLEAN
    BY DEF TypeOK, Entries
  <2>2. Left(ids)[i] = [entries[i] EXCEPT !.on = entries[i].on /\ i \notin ids]
    BY DEF Left
  <2>3. CASE entries[i].on /\ i \notin ids
    <3>1. Left(ids)[i] = [entries[i] EXCEPT !.on = TRUE]
        BY <2>1, <2>2, <2>3
    <3> QED
        BY <1>1, <2>1, <2>3, <3>1
  <2>4. CASE ~(entries[i].on /\ i \notin ids)
    <3>1. Left(ids)[i] = [entries[i] EXCEPT !.on = FALSE]
        BY <2>1, <2>2, <2>4
    <3> QED
        BY <1>1, <2>1, <2>4, <3>1
  <2> QED
    BY <2>3, <2>4
<1>3. Left(ids) = [i \in Ids |-> Left(ids)[i]]
    BY DEF Left
<1> QED
    BY <1>2, <1>3

\* Erase, in those terms: a descriptor is closed when nothing holds it any
\* more, and otherwise loses its place in the tables if it is cancelled.
LEMMA EraseFacts ==
    ASSUME TypeOK, NEW ids \in SUBSET Ids, NEW interval, Erase(ids, interval)
    PROVE  /\ entries' = Left(ids)
           /\ keys' = IF ListOf(interval, Left(ids)) = {} THEN keys \ {interval} ELSE keys
           /\ timers' \in [Fds -> Intervals \cup {0, None}]
           /\ \A f \in Fds \ OwnFds(ids) : timers'[f] = timers[f]
           /\ handler' \in [Fds -> Handlers]
           /\ \A f \in Fds :
                \/ /\ handler'[f] = Closed /\ ~InTask(f)
                   /\ handler[f].inReactor => f \in Cancelled(ids, interval)
                \/ /\ handler'[f].open = handler[f].open
                   /\ handler'[f].once = handler[f].once
                   /\ handler'[f].timer = handler[f].timer
                   /\ handler'[f].due = handler[f].due
                   /\ handler'[f].hit = handler[f].hit
                   /\ handler'[f].inReactor <=>
                          handler[f].inReactor /\ f \notin Cancelled(ids, interval)
                   /\ f \in Cancelled(ids, interval) /\ handler[f].inReactor =>
                          handler'[f].inDemux = ~handler[f].inDemux
                   /\ f \notin Cancelled(ids, interval) \/ ~handler[f].inReactor =>
                          handler'[f].inDemux = handler[f].inDemux
                   /\ handler'[f].inReactor \/ handler'[f].inDemux \/ InTask(f)
<1> DEFINE all == Cancelled(ids, interval)
           hs  == CancelTimers(handler, all)
<1>1. /\ entries' = Left(ids)
      /\ keys' = IF ListOf(interval, Left(ids)) = {} THEN keys \ {interval} ELSE keys
      /\ timers' = [f \in Fds |-> IF f \in OwnFds(ids) THEN None ELSE timers[f]]
      /\ handler' = Reaped(hs, held)
    BY DEF Erase, Left, OwnFds, Cancelled
<1>2. handler \in [Fds -> Handlers] /\ timers \in [Fds -> Intervals \cup {0, None}]
    BY DEF TypeOK
<1>3. timers' \in [Fds -> Intervals \cup {0, None}]
      /\ \A f \in Fds \ OwnFds(ids) : timers'[f] = timers[f]
    BY <1>1, <1>2
<1>4. hs \in [Fds -> Handlers]
    BY <1>2, CancelFacts
<1>5. handler' \in [Fds -> Handlers]
    BY <1>1, <1>4, ReapedFacts
<1>6. ASSUME NEW f \in Fds
      PROVE  \/ /\ handler'[f] = Closed /\ ~InTask(f)
                /\ handler[f].inReactor => f \in all
             \/ /\ handler'[f].open = handler[f].open
                /\ handler'[f].once = handler[f].once
                /\ handler'[f].timer = handler[f].timer
                /\ handler'[f].due = handler[f].due
                /\ handler'[f].hit = handler[f].hit
                /\ handler'[f].inReactor <=> handler[f].inReactor /\ f \notin all
                /\ f \in all /\ handler[f].inReactor =>
                       handler'[f].inDemux = ~handler[f].inDemux
                /\ f \notin all \/ ~handler[f].inReactor =>
                       handler'[f].inDemux = handler[f].inDemux
                /\ handler'[f].inReactor \/ handler'[f].inDemux \/ InTask(f)
  <2>1. /\ hs[f].open = handler[f].open /\ hs[f].once = handler[f].once
        /\ hs[f].timer = handler[f].timer
        /\ hs[f].due = handler[f].due /\ hs[f].hit = handler[f].hit
        /\ hs[f].inReactor <=> handler[f].inReactor /\ f \notin all
        /\ f \in all /\ handler[f].inReactor => hs[f].inDemux = ~handler[f].inDemux
        /\ f \notin all \/ ~handler[f].inReactor => hs[f].inDemux = handler[f].inDemux
    BY <1>2, CancelFacts
  <2> HIDE DEF hs, all
  <2>2. CASE hs[f].inReactor \/ hs[f].inDemux \/ InTask(f)
    <3>1. handler'[f] = hs[f]
        BY <1>1, <1>4, <2>2, ReapedFacts DEF InTask
    <3> QED
        BY <2>1, <2>2, <3>1
  <2>3. CASE ~(hs[f].inReactor \/ hs[f].inDemux \/ InTask(f))
    <3>1. handler'[f] = Closed
        BY <1>1, <1>4, <2>3, ReapedFacts DEF InTask
    <3> QED
        BY <2>1, <2>3, <3>1
  <2> QED
    BY <2>2, <2>3
<1> QED
    BY <1>1, <1>3, <1>5, <1>6

-----------------------------------------------------------------------------
(* The other steps that change handlers.                                   *)

\* Only the state of the timer itself may differ.
Alike(g, h) ==
    /\ g.open = h.open /\ g.once = h.once /\ g.timer = h.timer
    /\ g.inReactor = h.inReactor /\ g.inDemux = h.inDemux

\* Reading the descriptor.
LEMMA HandledFacts ==
    ASSUME TypeOK, NEW f \in Fds, handler' = [handler EXCEPT ![f].due = FALSE]
    PROVE  /\ handler' \in [Fds -> Handlers]
           /\ \A g \in Fds : /\ Alike(handler'[g], handler[g])
                             /\ handler'[g].hit = handler[g].hit
                             /\ handler'[g].due => handler[g].due
<1>1. ASSUME NEW h \in Handlers
      PROVE  LET d == [h EXCEPT !.due = FALSE]
             IN  d \in Handlers /\ Alike(d, h) /\ d.hit = h.hit /\ ~d.due
    BY DEF Handlers, Alike
<1>2. \A g \in Fds : handler[g] \in Handlers
    BY DEF TypeOK
<1>3. handler' = [g \in Fds |-> IF g = f THEN [handler[g] EXCEPT !.due = FALSE] ELSE handler[g]]
    BY DEF TypeOK
<1>4. ASSUME NEW g \in Fds
      PROVE  /\ handler'[g] \in Handlers /\ Alike(handler'[g], handler[g])
             /\ handler'[g].hit = handler[g].hit /\ (handler'[g].due => handler[g].due)
  <2>1. CASE g = f
    <3>1. handler'[g] = [handler[g] EXCEPT !.due = FALSE]
        BY <1>3, <2>1
    <3> QED
        BY <1>1, <1>2, <3>1
  <2>2. CASE g # f
    <3>1. handler'[g] = handler[g]
        BY <1>3, <2>2
    <3> QED
        BY <1>2, <3>1 DEF Alike
  <2> QED
    BY <2>1, <2>2
<1> QED
    BY <1>3, <1>4

\* The expiry of a timer.
LEMMA ExpireFacts ==
    ASSUME TypeOK, NEW f \in Fds, Expire(f)
    PROVE  /\ handler' \in [Fds -> Handlers]
           /\ \A g \in Fds : /\ Alike(handler'[g], handler[g])
                             /\ handler[g].hit => handler'[g].hit
                             /\ handler'[g].due => handler[g].due \/ handler'[g].hit
<1>1. ASSUME NEW h \in Handlers, NEW b \in BOOLEAN
      PROVE  LET d == [h EXCEPT !.due = TRUE, !.hit = TRUE, !.armed = b]
             IN  d \in Handlers /\ Alike(d, h) /\ d.hit
    BY DEF Handlers, Alike
<1>2. \A g \in Fds : handler[g] \in Handlers /\ handler[g].once \in BOOLEAN
    BY DEF TypeOK, Handlers
<1>3. PICK b \in BOOLEAN : b = ~handler[f].once
    OBVIOUS
<1>4. handler' = [handler EXCEPT ![f] = [@ EXCEPT !.due = TRUE, !.hit = TRUE, !.armed = b]]
    BY <1>3 DEF Expire, TypeOK
<1>5. handler' = [g \in Fds |-> IF g = f THEN [handler[g] EXCEPT !.due = TRUE, !.hit = TRUE, !.armed = b]
                                         ELSE handler[g]]
    BY <1>4 DEF TypeOK
<1>6. ASSUME NEW g \in Fds
      PROVE  /\ handler'[g] \in Handlers /\ Alike(handler'[g], handler[g])
             /\ handler[g].hit => handler'[g].hit
             /\ handler'[g].due => handler[g].due \/ handler'[g].hit
  <2>1. CASE g = f
    <3>1. handler'[g] = [handler[g] EXCEPT !.due = TRUE, !.hit = TRUE, !.armed = b]
        BY <1>5, <2>1
    <3>2. PICK h \in Handlers : h = handler[g]
        BY <1>2
    <3> DEFINE d == [h EXCEPT !.due = TRUE, !.hit = TRUE, !.armed = b]
    <3>3. d \in Handlers /\ Alike(d, h) /\ d.hit
        BY <1>1
    <3>4. handler'[g] = d
        BY <3>1, <3>2
    <3> HIDE DEF d
    <3> QED
        BY <3>2, <3>3, <3>4
  <2>2. CASE g # f
    <3>1. handler'[g] = handler[g]
        BY <1>5, <2>2
    <3> QED
        BY <1>2, <3>1 DEF Alike
  <2> QED
    BY <2>1, <2>2
<1> QED
    BY <1>5, <1>6

\* EventReactor::CleanUp keeps the handlers it knows.
LEMMA CleanFacts ==
    ASSUME TypeOK, NEW l \in Loops, CleanUp(l)
    PROVE  /\ handler' \in [Fds -> Handlers]
           /\ \A f \in Fds :
                \/ handler'[f] = Closed /\ ~InTask(f) /\ ~handler[f].inReactor
                \/ /\ handler'[f].open = handler[f].open
                   /\ handler'[f].once = handler[f].once
                   /\ handler'[f].due = handler[f].due
                   /\ handler'[f].hit = handler[f].hit
                   /\ handler'[f].inReactor = handler[f].inReactor
                   /\ handler'[f].inDemux => handler[f].inDemux \/ handler[f].inReactor
<1> DEFINE hs == [f \in Fds |-> IF handler[f].inReactor THEN Disable(handler[f]) ELSE handler[f]]
<1>1. handler' = Reaped(hs, held)
    BY DEF CleanUp
<1>2. \A f \in Fds : handler[f] \in Handlers
    BY DEF TypeOK
<1>3. ASSUME NEW f \in Fds
      PROVE  /\ hs[f] \in Handlers
             /\ hs[f].open = handler[f].open /\ hs[f].once = handler[f].once
             /\ hs[f].due = handler[f].due /\ hs[f].hit = handler[f].hit
             /\ hs[f].inReactor = handler[f].inReactor
             /\ hs[f].inDemux => handler[f].inDemux \/ handler[f].inReactor
  <2>1. CASE handler[f].inReactor
    <3>1. hs[f] = Disable(handler[f])
        BY <2>1
    <3>2. PICK h \in Handlers : h = handler[f]
        BY <1>2
    <3> DEFINE d == Disable(h)
    <3>3. /\ d \in Handlers
          /\ d.open = h.open /\ d.once = h.once /\ d.due = h.due /\ d.hit = h.hit
          /\ d.inReactor = h.inReactor
        BY DisableFacts
    <3>4. hs[f] = d
        BY <3>1, <3>2
    <3> HIDE DEF hs, d
    <3> QED
        BY <2>1, <3>2, <3>3, <3>4
  <2>2. CASE ~handler[f].inReactor
    <3>1. hs[f] = handler[f]
        BY <2>2
    <3> HIDE DEF hs
    <3> QED
        BY <1>2, <2>2, <3>1
  <2> QED
    BY <2>1, <2>2
<1>4. hs \in [Fds -> Handlers]
    BY <1>3
<1> HIDE DEF hs
<1>5. handler' \in [Fds -> Handlers]
    BY <1>1, <1>4, ReapedFacts
<1>6. ASSUME NEW f \in Fds
      PROVE  \/ handler'[f] = Closed /\ ~InTask(f) /\ ~handler[f].inReactor
             \/ handler'[f] = hs[f]
    BY <1>1, <1>3, <1>4, ReapedFacts DEF InTask
<1> QED
    BY <1>3, <1>5, <1>6

\* A new timer on a free descriptor.
LEMMA ScheduleFacts ==
    ASSUME TypeOK, NEW f \in Fds, NEW once \in BOOLEAN, NEW isTimer \in BOOLEAN,
           handler' = [handler EXCEPT ![f] = Scheduled(once, isTimer)]
    PROVE  /\ handler' \in [Fds -> Handlers]
           /\ \A g \in Fds \ {f} : handler'[g] = handler[g]
           /\ handler'[f].open /\ handler'[f].inReactor /\ handler'[f].inDemux
           /\ ~handler'[f].due
           /\ handler'[f].once = once /\ handler'[f].timer = isTimer
BY ScheduledFacts DEF TypeOK

-----------------------------------------------------------------------------
(* Types.                                                                  *)

\* A loop's step changes its own program counter.
LEMMA GotoFacts ==
    ASSUME pc \in [Loops -> Places], NEW l \in Loops, NEW where \in Places, Goto(l, where)
    PROVE  /\ pc' \in [Loops -> Places] /\ pc'[l] = where
           /\ \A k \in Loops \ {l} : pc'[k] = pc[k]
BY DEF Goto

\* The type invariant holds at first.
LEMMA TypeStarts == Init => TypeOK
<1> SUFFICES ASSUME Init PROVE TypeOK
    OBVIOUS
<1>1. handler \in [Fds -> Handlers]
    BY ClosedFacts DEF Init
<1>2. entries \in [Ids -> Entries]
    BY DEF Init, NoEntry, Entries
<1> QED
    BY <1>1, <1>2 DEF Init, TypeOK, Places, Dispatching

\* Every step keeps the type invariant.
LEMMA TypeStep == TypeOK /\ [Next]_vars => TypeOK'
<1> SUFFICES ASSUME TypeOK, [Next]_vars PROVE TypeOK'
    OBVIOUS
<1>0. /\ handler \in [Fds -> Handlers] /\ entries \in [Ids -> Entries]
      /\ timers \in [Fds -> Intervals \cup {0, None}] /\ nextId \in Nat
      /\ pc \in [Loops -> Places]
      /\ ready \in [Loops -> SUBSET Fds] /\ held \in [Loops -> SUBSET Fds]
      /\ pend \in [Loops -> SUBSET Fds] /\ cur \in [Loops -> Fds \cup {None}]
      /\ snap \in [Loops -> SUBSET Ids] /\ gone \in [Loops -> SUBSET Ids]
    BY DEF TypeOK
<1>a. {"start", "check", "poll", "lookup", "leave", "cleanup", "dead", "handle", "ontimer",
       "each", "callback", "erase"} \subseteq Places
    BY DEF Places, Dispatching
<1>1. ASSUME NEW n \in Intervals, NEW once \in BOOLEAN, Register(n, once)
      PROVE  TypeOK'
  <2>1. PICK f \in Fds :
            /\ \/ /\ handler' = [handler EXCEPT ![f] = Scheduled(once, TRUE)]
                  /\ timers' = [timers EXCEPT ![f] = n]
               \/ UNCHANGED <<handler, timers>>
            /\ entries' = [entries EXCEPT ![nextId] =
                              [on |-> TRUE, interval |-> n, once |-> once, fd |-> f]]
    BY <1>1 DEF Register
  <2>2. handler' \in [Fds -> Handlers]
    BY <1>0, <2>1, ScheduleFacts
  <2>3. timers' \in [Fds -> Intervals \cup {0, None}]
    BY <1>0, <2>1
  <2>4. [on |-> TRUE, interval |-> n, once |-> once, fd |-> f] \in Entries
    BY DEF Entries
  <2>5. entries' \in [Ids -> Entries]
    BY <1>0, <2>1, <2>4
  <2>6. nextId' \in Nat
    BY <1>0, <1>1 DEF Register
  <2> QED
    BY <1>0, <1>1, <2>2, <2>3, <2>5, <2>6 DEF Register, loop, TypeOK
<1>2. ASSUME NEW id \in Ids, Unregister(id)
      PROVE  TypeOK'
  <2>1. Erase({id}, entries[id].interval)
    BY <1>2 DEF Unregister
  <2>2. /\ entries' = Left({id}) /\ timers' \in [Fds -> Intervals \cup {0, None}]
        /\ handler' \in [Fds -> Handlers]
    BY <2>1, EraseFacts
  <2>3. entries' \in [Ids -> Entries]
    BY <2>2, LeftFacts
  <2> QED
    BY <1>0, <1>2, <2>2, <2>3 DEF Unregister, loop, TypeOK
<1>3. CASE Control
  <2>1. /\ UNCHANGED <<maps, ready, held, pend, cur, snap, gone>>
        /\ pc' \in [Loops -> Places]
        /\ handler' \in [Fds -> Handlers]
    <3>1. CASE Setup
        BY <1>0, <1>a, <3>1 DEF Setup, maps
    <3>2. CASE ShutdownEmpty
        BY <1>0, <3>2, ScheduleFacts DEF ShutdownEmpty, PseudoTask, maps, loop
    <3>3. ASSUME NEW j \in UseJoin, Shutdown(j)
          PROVE  UNCHANGED <<maps, loop, handler>>
        BY <3>3 DEF Shutdown, maps, loop
    <3>4. CASE ShutdownDetach \/ ShutdownJoin \/ JoinReturns
        BY <1>0, <3>4 DEF ShutdownDetach, ShutdownJoin, JoinReturns, maps, loop
    <3> QED
        BY <1>0, <1>3, <3>1, <3>2, <3>3, <3>4 DEF Control, maps, loop
  <2> QED
    BY <1>0, <2>1 DEF maps, TypeOK
<1>4. ASSUME NEW f \in Fds, Expire(f)
      PROVE  TypeOK'
  <2>1. handler' \in [Fds -> Handlers]
    BY <1>4, ExpireFacts
  <2> QED
    BY <1>0, <1>4, <2>1 DEF Expire, maps, loop, TypeOK
<1>5. ASSUME NEW l \in Loops, LoopStep(l)
      PROVE  TypeOK'
  <2>1. CASE LoopSetUp(l) \/ LoopCheck(l) \/ EpollTimeout(l) \/ LoopLeave(l)
             \/ CallbackDone(l) \/ EntriesDone(l)
    BY <1>0, <1>a, <2>1 DEF LoopSetUp, LoopCheck, EpollTimeout, LoopLeave, CallbackDone,
                            EntriesDone, Goto, maps, TypeOK
  <2>2. CASE EpollWait(l)
    BY <1>0, <1>a, <2>2 DEF EpollWait, Readable, Goto, maps, TypeOK
  <2>3. CASE LookUp(l)
    BY <1>0, <1>a, <2>3 DEF LookUp, Goto, maps, TypeOK
  <2>4. ASSUME NEW f \in Fds, HandleEvents(l, f)
        PROVE  TypeOK'
    <3>1. handler' \in [Fds -> Handlers]
        BY <2>4, HandledFacts DEF HandleEvents
    <3>2. pc' \in [Loops -> Places] /\ cur' \in [Loops -> Fds \cup {None}]
        BY <1>0, <1>a, <2>4 DEF HandleEvents, Goto
    <3> QED
        BY <1>0, <2>4, <3>1, <3>2 DEF HandleEvents, maps, TypeOK
  <2>5. CASE PollingDone(l)
    <3>1. handler' \in [Fds -> Handlers]
        BY <1>0, <2>5, ReapedFacts DEF PollingDone
    <3> QED
        BY <1>0, <1>a, <2>5, <3>1 DEF PollingDone, Goto, maps, TypeOK
  <2>6. CASE OnTimer(l)
    <3>1. /\ timers' = [timers EXCEPT ![cur[l]] = IntervalOf(cur[l])]
          /\ snap' \in [Loops -> SUBSET Ids]
        BY <1>0, <2>6 DEF OnTimer, ListOf
    <3>2. timers' \in [Fds -> Intervals \cup {0, None}]
      <4>1. cur[l] \in Fds => IntervalOf(cur[l]) \in Intervals \cup {0, None}
        BY <1>0 DEF IntervalOf
      <4> QED
        BY <1>0, <3>1, <4>1
    <3> QED
        BY <1>0, <1>a, <2>6, <3>1, <3>2 DEF OnTimer, Goto, TypeOK
  <2>7. ASSUME NEW i \in Ids, NextEntry(l, i)
        PROVE  TypeOK'
    <3>1. snap' \in [Loops -> SUBSET Ids] /\ gone' \in [Loops -> SUBSET Ids]
        BY <1>0, <2>7 DEF NextEntry
    <3>2. pc' \in [Loops -> Places]
        BY <1>0, <1>a, <2>7 DEF NextEntry, Goto
    <3> QED
        BY <1>0, <2>7, <3>1, <3>2 DEF NextEntry, maps, TypeOK
  <2>8. CASE EraseUnusedTimerId(l)
    <3>1. PICK interval \in {entries[i].interval : i \in gone[l]} :
              LET ids == {i \in gone[l] : entries[i].on}
              IN  IF ids # {} THEN Erase(ids, interval)
                  ELSE keys' = keys \cup {interval} /\ UNCHANGED <<handler, entries, timers>>
        BY <2>8 DEF EraseUnusedTimerId
    <3> DEFINE ids == {i \in gone[l] : entries[i].on}
    <3>2. ids \in SUBSET Ids
        BY <1>0
    <3>3. /\ entries' \in [Ids -> Entries] /\ timers' \in [Fds -> Intervals \cup {0, None}]
          /\ handler' \in [Fds -> Handlers]
      <4>1. CASE ids # {}
        <5>1. Erase(ids, interval)
            BY <3>1, <4>1
        <5> HIDE DEF ids
        <5>2. /\ entries' = Left(ids) /\ timers' \in [Fds -> Intervals \cup {0, None}]
              /\ handler' \in [Fds -> Handlers]
            BY <3>2, <5>1, EraseFacts
        <5> QED
            BY <5>2, LeftFacts
      <4>2. CASE ids = {}
        BY <1>0, <3>1, <4>2
      <4> QED
        BY <4>1, <4>2
    <3> QED
        BY <1>0, <1>a, <2>8, <3>3 DEF EraseUnusedTimerId, Goto, TypeOK
  <2>9. CASE CleanUp(l)
    <3>1. handler' \in [Fds -> Handlers]
        BY <2>9, CleanFacts
    <3> QED
        BY <1>0, <1>a, <2>9, <3>1 DEF CleanUp, Goto, maps, TypeOK
  <2> QED
    BY <1>5, <2>1, <2>2, <2>3, <2>4, <2>5, <2>6, <2>7, <2>8, <2>9 DEF LoopStep
<1>6. CASE UNCHANGED vars
    BY <1>0, <1>6 DEF vars, maps, loop, TypeOK
<1> QED
    BY <1>1, <1>2, <1>3, <1>4, <1>5, <1>6 DEF Next, Client

-----------------------------------------------------------------------------
(* The handlers that the loops hold.                                       *)

\* A step that leaves taskQue, and what OnTimer runs for, alone.
LEMMA HoldKept ==
    ASSUME HoldInv, TypeOK', Kept', UNCHANGED <<held, pend, cur>>,
           \A l \in Loops : /\ pc[l] \in Dispatching => pc'[l] \in Dispatching
                            /\ pc'[l] \in Serving => pc[l] \in Serving,
           \A f \in Fds : InTask(f) => /\ handler'[f].open
                                       /\ handler[f].hit => handler'[f].hit
    PROVE  HoldInv'
<1>1. HeldOpen'
  <2> SUFFICES ASSUME NEW l \in Loops
               PROVE  /\ pend[l] \subseteq held[l]
                      /\ held[l] # {} => pc'[l] \in Dispatching
                      /\ \A f \in held[l] : handler'[f].open
    BY DEF HeldOpen
  <2> QED
    BY DEF HoldInv, HeldOpen, InTask, TypeOK
<1>2. Served'
  <2> SUFFICES ASSUME NEW l \in Loops, pc'[l] \in Serving
               PROVE  cur[l] \in held[l] /\ handler'[cur[l]].hit
    BY DEF Served
  <2>1. cur[l] \in held[l] /\ handler[cur[l]].hit /\ cur[l] \in Fds
    BY DEF HoldInv, Served, TypeOK
  <2> QED
    BY <2>1 DEF InTask
<1> QED
    BY <1>1, <1>2 DEF HoldInv

\* Erase keeps the tables' handlers open, and those that a loop holds.
LEMMA EraseHolds ==
    ASSUME HoldInv, NEW ids \in SUBSET Ids, NEW interval, Erase(ids, interval)
    PROVE  /\ Kept'
           /\ \A f \in Fds : InTask(f) => /\ handler'[f].open
                                          /\ handler[f].hit => handler'[f].hit
<1>1. TypeOK /\ Kept /\ HeldOpen
    BY DEF HoldInv
<1>2. ASSUME NEW f \in Fds
      PROVE  /\ handler'[f].inReactor \/ handler'[f].inDemux => handler'[f].open
             /\ handler'[f].due => handler'[f].hit
             /\ InTask(f) => handler'[f].open /\ (handler[f].hit => handler'[f].hit)
  <2>1. InTask(f) => handler[f].open
    BY <1>1 DEF HeldOpen, InTask
  <2>2. /\ handler[f].inReactor \/ handler[f].inDemux => handler[f].open
        /\ handler[f].due => handler[f].hit
    BY <1>1 DEF Kept
  <2>3. CASE handler'[f] = Closed /\ ~InTask(f)
    BY <2>3, ClosedFacts
  <2>4. CASE /\ handler'[f].open = handler[f].open
             /\ handler'[f].due = handler[f].due
             /\ handler'[f].hit = handler[f].hit
             /\ handler'[f].inReactor <=> handler[f].inReactor /\ f \notin Cancelled(ids, interval)
             /\ f \notin Cancelled(ids, interval) \/ ~handler[f].inReactor =>
                    handler'[f].inDemux = handler[f].inDemux
    BY <2>1, <2>2, <2>4
  <2> QED
    BY <1>1, <2>3, <2>4, EraseFacts
<1> QED
    BY <1>2 DEF Kept

\* Every step keeps the invariant of the held handlers.
LEMMA HoldStep == HoldInv /\ [Next]_vars => HoldInv'
<1> SUFFICES ASSUME HoldInv, [Next]_vars PROVE HoldInv'
    OBVIOUS
<1>0. TypeOK /\ Kept /\ HeldOpen /\ Served /\ TypeOK'
    BY TypeStep DEF HoldInv
<1>a. /\ handler \in [Fds -> Handlers] /\ pc \in [Loops -> Places]
      /\ held \in [Loops -> SUBSET Fds] /\ pend \in [Loops -> SUBSET Fds]
      /\ cur \in [Loops -> Fds \cup {None}]
    BY <1>0 DEF TypeOK
<1>b. \A f \in Fds : InTask(f) => handler[f].open
    BY <1>0 DEF HeldOpen, InTask
<1>c. ASSUME NEW f \in Fds, NEW once \in BOOLEAN, NEW isTimer \in BOOLEAN, ~handler[f].open,
             handler' = [handler EXCEPT ![f] = Scheduled(once, isTimer)]
      PROVE  /\ Kept'
             /\ \A g \in Fds : InTask(g) => handler'[g].open /\ (handler[g].hit => handler'[g].hit)
  <2>1. /\ \A g \in Fds \ {f} : handler'[g] = handler[g]
        /\ handler'[f].open /\ ~handler'[f].due
    BY <1>0, <1>c, ScheduleFacts
  <2> QED
    BY <1>0, <1>b, <1>c, <2>1 DEF Kept
<1>1. ASSUME NEW n \in Intervals, NEW once \in BOOLEAN, Register(n, once)
      PROVE  HoldInv'
  <2>1. UNCHANGED <<pc, held, pend, cur>>
    BY <1>1 DEF Register, loop
  <2>2. /\ Kept'
        /\ \A g \in Fds : InTask(g) => handler'[g].open /\ (handler[g].hit => handler'[g].hit)
    <3>1. PICK f \in Fds : IF once \/ GetTimerFd(n) = {}
                           THEN /\ ~handler[f].open
                                /\ handler' = [handler EXCEPT ![f] = Scheduled(once, TRUE)]
                           ELSE UNCHANGED handler
        BY <1>1 DEF Register
    <3>2. CASE once \/ GetTimerFd(n) = {}
        BY <1>c, <3>1, <3>2
    <3>3. CASE ~(once \/ GetTimerFd(n) = {})
        BY <1>0, <1>b, <3>1, <3>3 DEF Kept
    <3> QED
        BY <3>2, <3>3
  <2> QED
    BY <1>0, <2>1, <2>2, HoldKept
<1>2. ASSUME NEW id \in Ids, Unregister(id)
      PROVE  HoldInv'
  <2>1. UNCHANGED <<pc, held, pend, cur>>
    BY <1>2 DEF Unregister, loop
  <2>2. Erase({id}, entries[id].interval)
    BY <1>2 DEF Unregister
  <2>3. {id} \in SUBSET Ids
    OBVIOUS
  <2> QED
    BY <1>0, <2>1, <2>2, <2>3, EraseHolds, HoldKept
<1>3. CASE Control
  <2>1. CASE Setup
    <3>1. UNCHANGED <<handler, held, pend, cur>>
        BY <2>1 DEF Setup
    <3>2. \A l \in Loops : \/ pc'[l] = pc[l]
                           \/ pc[l] = "new" /\ pc'[l] = "start"
        BY <1>a, <2>1 DEF Setup
    <3>3. \A l \in Loops : /\ pc[l] \in Dispatching => pc'[l] \in Dispatching
                           /\ pc'[l] \in Serving => pc[l] \in Serving
        BY <3>2 DEF Dispatching, Serving
    <3>4. Kept'
        BY <1>0, <3>1 DEF Kept
    <3> QED
        BY <1>0, <1>b, <3>1, <3>3, <3>4, HoldKept
  <2>2. CASE ShutdownEmpty
    <3>1. UNCHANGED <<pc, held, pend, cur>>
        BY <2>2 DEF ShutdownEmpty, loop
    <3>2. /\ Kept'
          /\ \A g \in Fds : InTask(g) => handler'[g].open /\ (handler[g].hit => handler'[g].hit)
      <4>1. CASE \E f \in Fds : /\ ~handler[f].open
                                /\ handler' = [handler EXCEPT ![f] = Scheduled(TRUE, FALSE)]
        BY <1>c, <4>1
      <4>2. CASE UNCHANGED handler
        BY <1>0, <1>b, <4>2 DEF Kept
      <4> QED
        BY <2>2, <4>1, <4>2 DEF ShutdownEmpty, PseudoTask
    <3> QED
        BY <1>0, <3>1, <3>2, HoldKept
  <2>3. CASE UNCHANGED <<handler, pc, held, pend, cur>>
    <3>1. Kept'
        BY <1>0, <2>3 DEF Kept
    <3> QED
        BY <1>0, <1>b, <2>3, <3>1, HoldKept
  <2>4. ASSUME NEW j \in UseJoin, Shutdown(j)
        PROVE  UNCHANGED <<handler, pc, held, pend, cur>>
    BY <2>4 DEF Shutdown, loop
  <2>5. CASE ShutdownDetach \/ ShutdownJoin \/ JoinReturns
    BY <2>3, <2>5 DEF ShutdownDetach, ShutdownJoin, JoinReturns, loop
  <2> QED
    BY <1>3, <2>1, <2>2, <2>3, <2>4, <2>5 DEF Control
<1>4. ASSUME NEW f \in Fds, Expire(f)
      PROVE  HoldInv'
  <2>1. UNCHANGED <<pc, held, pend, cur>>
    BY <1>4 DEF Expire, loop
  <2>2. \A g \in Fds : /\ Alike(handler'[g], handler[g])
                       /\ handler[g].hit => handler'[g].hit
                       /\ handler'[g].due => handler[g].due \/ handler'[g].hit
    BY <1>0, <1>4, ExpireFacts
  <2>3. Kept'
    BY <1>0, <2>2 DEF Kept, Alike
  <2>4. \A g \in Fds : InTask(g) => handler'[g].open /\ (handler[g].hit => handler'[g].hit)
    BY <1>b, <2>2 DEF Alike
  <2> QED
    BY <1>0, <2>1, <2>3, <2>4, HoldKept
<1>5. ASSUME NEW l \in Loops, LoopStep(l)
      PROVE  HoldInv'
  <2>1. ASSUME UNCHANGED <<handler, held, pend, cur>>, NEW where \in Places, Goto(l, where),
               pc[l] \in Dispatching => where \in Dispatching,
               where \in Serving => pc[l] \in Serving
        PROVE  HoldInv'
    <3>1. \A k \in Loops : /\ pc[k] \in Dispatching => pc'[k] \in Dispatching
                           /\ pc'[k] \in Serving => pc[k] \in Serving
        BY <1>a, <2>1, GotoFacts
    <3>2. Kept'
        BY <1>0, <2>1 DEF Kept
    <3> QED
        BY <1>0, <1>b, <2>1, <3>1, <3>2, HoldKept
  <2>2. CASE LoopSetUp(l)
    BY <2>1, <2>2 DEF LoopSetUp, Dispatching, Serving, Places
  <2>3. CASE LoopCheck(l)
    BY <2>1, <2>3 DEF LoopCheck, Dispatching, Serving, Places
  <2>4. CASE EpollWait(l)
    BY <2>1, <2>4 DEF EpollWait, Dispatching, Serving, Places
  <2>5. CASE EpollTimeout(l)
    BY <2>1, <2>5 DEF EpollTimeout, Dispatching, Serving, Places
  <2>6. CASE OnTimer(l)
    BY <2>1, <2>6 DEF OnTimer, Dispatching, Serving, Places
  <2>7. CASE CallbackDone(l)
    BY <2>1, <2>7 DEF CallbackDone, Dispatching, Serving, Places
  <2>8. CASE EntriesDone(l)
    BY <2>1, <2>8 DEF EntriesDone, Dispatching, Serving, Places
  <2>9. CASE LoopLeave(l)
    BY <2>1, <2>9 DEF LoopLeave, Dispatching, Serving, Places
  <2>10. ASSUME NEW i \in Ids, NextEntry(l, i)
         PROVE  HoldInv'
    <3>1. CASE MayCall
        BY <2>1, <2>10, <3>1 DEF NextEntry, Dispatching, Serving, Places
    <3>2. CASE ~MayCall
      <4>1. UNCHANGED <<pc, handler, held, pend, cur>>
        BY <2>10, <3>2 DEF NextEntry
      <4>2. Kept'
        BY <1>0, <4>1 DEF Kept
      <4> QED
        BY <1>0, <1>b, <4>1, <4>2, HoldKept
    <3> QED
        BY <3>1, <3>2
  <2>11. CASE LookUp(l)
    <3> DEFINE found == {f \in ready[l] : handler[f].inDemux}
    <3>1. /\ held' = [held EXCEPT ![l] = found] /\ pend' = [pend EXCEPT ![l] = found]
          /\ UNCHANGED <<handler, cur>> /\ Goto(l, "handle")
        BY <2>11 DEF LookUp
    <3>2. pc'[l] = "handle" /\ \A k \in Loops \ {l} : pc'[k] = pc[k]
        BY <1>a, <3>1 DEF Goto
    <3>3. \A f \in found : handler[f].open
        BY <1>0 DEF Kept, TypeOK
    <3> HIDE DEF found
    <3>4. HeldOpen'
        BY <1>0, <1>a, <3>1, <3>2, <3>3 DEF HeldOpen, Dispatching
    <3>5. Served'
        BY <1>0, <1>a, <3>1, <3>2 DEF Served, Serving
    <3> QED
        BY <1>0, <3>1, <3>4, <3>5 DEF HoldInv, Kept
  <2>12. ASSUME NEW f \in Fds, HandleEvents(l, f)
         PROVE  HoldInv'
    <3>1. /\ pc[l] = "handle" /\ f \in pend[l] /\ UNCHANGED held
          /\ pend' = [pend EXCEPT ![l] = @ \ {f}]
          /\ handler' = [handler EXCEPT ![f].due = FALSE]
        BY <2>12 DEF HandleEvents
    <3>2. \A g \in Fds : /\ Alike(handler'[g], handler[g])
                         /\ handler'[g].hit = handler[g].hit
                         /\ handler'[g].due => handler[g].due
        BY <1>0, <3>1, HandledFacts
    <3>3. Kept'
        BY <1>0, <3>2 DEF Kept, Alike
    <3>4. \A k \in Loops : pend'[k] \subseteq held[k]
        BY <1>0, <1>a, <3>1 DEF HeldOpen
    <3>5. \A k \in Loops : \A g \in held[k] : handler'[g].open
        BY <1>0, <1>a, <3>2 DEF HeldOpen, Alike
    <3>6. CASE UNCHANGED <<pc, cur>>
      <4>1. HeldOpen'
        BY <1>0, <3>1, <3>4, <3>5, <3>6 DEF HeldOpen
      <4>2. Served'
        BY <1>0, <1>a, <3>1, <3>2, <3>6 DEF Served
      <4> QED
        BY <1>0, <3>3, <4>1, <4>2 DEF HoldInv
    <3>7. CASE ~Skips(f) /\ Goto(l, "ontimer") /\ cur' = [cur EXCEPT ![l] = f]
      <4>1. /\ pc'[l] = "ontimer" /\ cur'[l] = f
            /\ \A k \in Loops \ {l} : pc'[k] = pc[k] /\ cur'[k] = cur[k]
        BY <1>a, <3>7 DEF Goto
      <4>2. HeldOpen'
        BY <1>0, <3>1, <3>4, <3>5, <4>1 DEF HeldOpen, Dispatching
      <4>3. f \in held[l] /\ handler'[f].hit
        BY <1>0, <3>1, <3>2, <3>7 DEF HeldOpen, Kept, Skips
      <4>4. Served'
        BY <1>0, <1>a, <3>1, <3>2, <4>1, <4>3 DEF Served
      <4> QED
        BY <1>0, <3>3, <4>2, <4>4 DEF HoldInv
    <3> QED
        BY <2>12, <3>6, <3>7 DEF HandleEvents
  <2>13. CASE PollingDone(l)
    <3>1. /\ pc[l] = "handle" /\ pend[l] = {} /\ UNCHANGED <<pend, cur>>
          /\ held' = [held EXCEPT ![l] = {}]
          /\ handler' = Reaped(handler, held')
        BY <2>13 DEF PollingDone
    <3>2. pc'[l] = "check" /\ \A k \in Loops \ {l} : pc'[k] = pc[k]
        BY <1>a, <2>13 DEF PollingDone, Goto
    <3>3. held'[l] = {} /\ \A k \in Loops \ {l} : held'[k] = held[k]
        BY <1>a, <3>1
    <3>4. \A f \in Fds : /\ handler'[f] = Closed \/ handler'[f] = handler[f]
                         /\ (\E k \in Loops : f \in held'[k]) => handler'[f] = handler[f]
      <4>1. ASSUME NEW tasks, NEW f \in Fds
            PROVE  /\ Reaped(handler, tasks)[f] = Closed \/ Reaped(handler, tasks)[f] = handler[f]
                   /\ (\E k \in Loops : f \in tasks[k]) => Reaped(handler, tasks)[f] = handler[f]
        BY DEF Reaped
      <4> QED
        BY <3>1, <4>1
    <3>5. Kept'
        BY <1>0, <3>4, ClosedFacts DEF Kept
    <3>6. HeldOpen'
      <4> SUFFICES ASSUME NEW k \in Loops
                   PROVE  /\ pend'[k] \subseteq held'[k]
                          /\ held'[k] # {} => pc'[k] \in Dispatching
                          /\ \A f \in held'[k] : handler'[f].open
        BY DEF HeldOpen
      <4>1. CASE k = l
        BY <3>1, <3>3, <4>1
      <4>2. CASE k # l
        BY <1>0, <1>a, <3>1, <3>2, <3>3, <3>4, <4>2 DEF HeldOpen
      <4> QED
        BY <4>1, <4>2
    <3>7. Served'
      <4> SUFFICES ASSUME NEW k \in Loops, pc'[k] \in Serving
                   PROVE  cur'[k] \in held'[k] /\ handler'[cur'[k]].hit
        BY DEF Served
      <4>1. k # l
        BY <3>2 DEF Serving
      <4> QED
        BY <1>0, <1>a, <3>1, <3>2, <3>3, <3>4, <4>1 DEF Served
    <3> QED
        BY <1>0, <3>5, <3>6, <3>7 DEF HoldInv
  <2>14. CASE EraseUnusedTimerId(l)
    <3> DEFINE ids == {i \in gone[l] : entries[i].on}
    <3>1. PICK interval \in {entries[i].interval : i \in gone[l]} :
              IF ids # {} THEN Erase(ids, interval) ELSE UNCHANGED <<handler, entries, timers>>
        BY <2>14 DEF EraseUnusedTimerId
    <3>2. ids \in SUBSET Ids
        BY <1>0 DEF TypeOK
    <3>3. UNCHANGED <<held, pend, cur>> /\ pc[l] = "erase" /\ Goto(l, "handle")
        BY <2>14 DEF EraseUnusedTimerId
    <3>4. \A k \in Loops : /\ pc[k] \in Dispatching => pc'[k] \in Dispatching
                           /\ pc'[k] \in Serving => pc[k] \in Serving
        BY <1>a, <3>3 DEF Goto, Dispatching, Serving
    <3>5. /\ Kept'
          /\ \A g \in Fds : InTask(g) => handler'[g].open /\ (handler[g].hit => handler'[g].hit)
      <4>1. CASE Erase(ids, interval)
        <5> HIDE DEF ids
        <5> QED
            BY <3>2, <4>1, EraseHolds
      <4>2. CASE UNCHANGED handler
        BY <1>0, <1>b, <4>2 DEF Kept
      <4> QED
        BY <3>1, <4>1, <4>2
    <3> QED
        BY <1>0, <3>3, <3>4, <3>5, HoldKept
  <2>15. CASE CleanUp(l)
    <3>1. UNCHANGED <<held, pend, cur>> /\ pc[l] = "cleanup" /\ Goto(l, "dead")
        BY <2>15 DEF CleanUp
    <3>2. \A k \in Loops : /\ pc[k] \in Dispatching => pc'[k] \in Dispatching
                           /\ pc'[k] \in Serving => pc[k] \in Serving
        BY <1>a, <3>1 DEF Goto, Dispatching, Serving
    <3>3. ASSUME NEW f \in Fds
          PROVE  /\ handler'[f].inReactor \/ handler'[f].inDemux => handler'[f].open
                 /\ handler'[f].due => handler'[f].hit
                 /\ InTask(f) => handler'[f].open /\ (handler[f].hit => handler'[f].hit)
      <4>1. \/ handler'[f] = Closed /\ ~InTask(f)
            \/ /\ handler'[f].open = handler[f].open
               /\ handler'[f].due = handler[f].due
               /\ handler'[f].hit = handler[f].hit
               /\ handler'[f].inReactor = handler[f].inReactor
               /\ handler'[f].inDemux => handler[f].inDemux \/ handler[f].inReactor
        BY <1>0, <2>15, CleanFacts
      <4>2. /\ handler[f].inReactor \/ handler[f].inDemux => handler[f].open
            /\ handler[f].due => handler[f].hit
            /\ InTask(f) => handler[f].open
        BY <1>0, <1>b DEF Kept
      <4>3. CASE handler'[f] = Closed /\ ~InTask(f)
        BY <4>3, ClosedFacts
      <4>4. CASE /\ handler'[f].open = handler[f].open
                 /\ handler'[f].due = handler[f].due
                 /\ handler'[f].hit = handler[f].hit
                 /\ handler'[f].inReactor = handler[f].inReactor
                 /\ handler'[f].inDemux => handler[f].inDemux \/ handler[f].inReactor
        BY <4>2, <4>4
      <4> QED
        BY <4>1, <4>3, <4>4
    <3>4. Kept'
        BY <3>3 DEF Kept
    <3> QED
        BY <1>0, <3>1, <3>2, <3>3, <3>4, HoldKept
  <2> QED
    BY <1>5, <2>2, <2>3, <2>4, <2>5, <2>6, <2>7, <2>8, <2>9, <2>10, <2>11, <2>12, <2>13,
       <2>14, <2>15 DEF LoopStep
<1>6. CASE UNCHANGED vars
  <2>1. UNCHANGED <<handler, pc, held, pend, cur>>
    BY <1>6 DEF vars, loop
  <2>2. Kept'
    BY <1>0, <2>1 DEF Kept
  <2> QED
    BY <1>0, <1>b, <2>1, <2>2, HoldKept
<1> QED
    BY <1>1, <1>2, <1>3, <1>4, <1>5, <1>6 DEF Next, Client

\* The invariant of the held handlers holds at first.
LEMMA HoldStarts == Init => HoldInv
<1> SUFFICES ASSUME Init PROVE HoldInv
    OBVIOUS
<1>1. \A f \in Fds : handler[f] = Closed
    BY DEF Init
<1>2. Kept
    BY <1>1, ClosedFacts DEF Kept
<1>3. HeldOpen /\ Served
    BY DEF Init, HeldOpen, Served, Serving
<1> QED
    BY <1>2, <1>3, TypeStarts DEF HoldInv

(* A callback runs only for a descriptor whose own timer has expired:      *)
(* TimerEventHandler::TimeOut skips the callback when the read would block *)
(* although the descriptor number was ready for an earlier timer, and      *)
(* taskQue keeps the handler until Polling returns.                        *)
THEOREM CallbacksFollowExpiry == Spec => []CallbackAfterExpiry
<1>1. HoldInv => CallbackAfterExpiry
    BY DEF HoldInv, Served, Serving, CallbackAfterExpiry
<1>2. HoldInv /\ [Next]_vars => HoldInv'
    BY HoldStep
<1> QED
    BY <1>1, <1>2, HoldStarts, PTL DEF Spec

-----------------------------------------------------------------------------
(* The loop threads.                                                       *)

\* A loop thread that is not new and not dead makes a step, and is not new
\* afterwards.
LEMMA LoopMoves ==
    ASSUME pc \in [Loops -> Places], NEW l \in Loops, LoopStep(l)
    PROVE  /\ UNCHANGED <<thread, shut>> /\ pc[l] \notin {"new", "dead"}
           /\ pc' \in [Loops -> Places] /\ pc'[l] # "new"
           /\ \A k \in Loops \ {l} : pc'[k] = pc[k]
<1>1. ASSUME NEW where \in Places \ {"new"}, Goto(l, where)
      PROVE  /\ pc' \in [Loops -> Places] /\ pc'[l] # "new"
             /\ \A k \in Loops \ {l} : pc'[k] = pc[k]
    BY <1>1, GotoFacts
<1>2. {"check", "poll", "lookup", "leave", "cleanup", "dead", "handle", "ontimer",
       "each", "callback", "erase"} \subseteq Places \ {"new"}
    BY DEF Places, Dispatching
<1>3. CASE LoopSetUp(l) \/ LoopCheck(l) \/ EpollWait(l) \/ EpollTimeout(l) \/ LookUp(l)
    BY <1>1, <1>2, <1>3 DEF LoopSetUp, LoopCheck, EpollWait, EpollTimeout, LookUp, flags
<1>4. ASSUME NEW f \in Fds, HandleEvents(l, f)
      PROVE  /\ UNCHANGED <<thread, shut>> /\ pc[l] = "handle"
             /\ pc' = pc \/ Goto(l, "ontimer")
    BY <1>4 DEF HandleEvents, flags
<1>5. ASSUME NEW i \in Ids, NextEntry(l, i)
      PROVE  /\ UNCHANGED <<thread, shut>> /\ pc[l] = "each"
             /\ pc' = pc \/ Goto(l, "callback")
    BY <1>5 DEF NextEntry, flags
<1>6. CASE PollingDone(l) \/ OnTimer(l) \/ CallbackDone(l) \/ EntriesDone(l)
    BY <1>1, <1>2, <1>6 DEF PollingDone, OnTimer, CallbackDone, EntriesDone, flags
<1>7. CASE EraseUnusedTimerId(l) \/ LoopLeave(l) \/ CleanUp(l)
    BY <1>1, <1>2, <1>7 DEF EraseUnusedTimerId, LoopLeave, CleanUp, flags
<1> QED
    BY <1>1, <1>2, <1>3, <1>4, <1>5, <1>6, <1>7 DEF LoopStep

-----------------------------------------------------------------------------
(* Events and descriptors.                                                 *)

\* The facts about a registered event that the proofs below use.
LEMMA EventFacts ==
    ASSUME HoldInv, MatchInv, NEW i \in Ids, entries[i].on
    PROVE  /\ entries[i].interval \in Intervals /\ entries[i].fd \in Fds
           /\ i < nextId /\ entries[i].interval # None
           /\ handler[entries[i].fd].inReactor /\ handler[entries[i].fd].open
           /\ handler[entries[i].fd].once = entries[i].once
           /\ timers[entries[i].fd] = entries[i].interval
           /\ entries[i].interval \in keys
<1>1. i < nextId /\ entries[i].interval \in Intervals /\ entries[i].fd \in Fds
    BY DEF MatchInv, Given, Well
<1>2. entries[i].interval # None
    BY <1>1, TimerConstants
<1>3. /\ handler[entries[i].fd].inReactor
      /\ handler[entries[i].fd].once = entries[i].once
      /\ timers[entries[i].fd] = entries[i].interval
      /\ entries[i].interval \in keys
    BY DEF MatchInv, Timed
<1>4. handler[entries[i].fd].open
    BY <1>1, <1>3 DEF HoldInv, Kept
<1> QED
    BY <1>1, <1>2, <1>3, <1>4

\* A step that registers and erases nothing.
LEMMA MatchKept ==
    ASSUME HoldInv, MatchInv, UNCHANGED <<entries, nextId>>, keys \subseteq keys',
           \A f \in Fds : timers[f] # None => timers'[f] = timers[f],
           \A f \in Fds : handler[f].inReactor =>
               handler'[f].inReactor /\ handler'[f].once = handler[f].once,
           Visited', Used'
    PROVE  MatchInv'
<1>1. Given' /\ OwnFd'
    BY DEF MatchInv, Given, OwnFd, Well
<1>2. Timed'
  <2> SUFFICES ASSUME NEW i \in Ids, entries[i].on
               PROVE  /\ handler'[entries[i].fd].inReactor
                      /\ handler'[entries[i].fd].once = entries[i].once
                      /\ timers'[entries[i].fd] = entries[i].interval
                      /\ entries[i].interval \in keys'
    BY DEF Timed
  <2> QED
    BY EventFacts
<1> QED
    BY <1>1, <1>2 DEF MatchInv

\* Erase takes the timers of the erased entries with it, and of a whole
\* interval when it was its last; the other entries keep theirs.
LEMMA EraseMatches ==
    ASSUME HoldInv, MatchInv, NEW ids \in SUBSET Ids, NEW interval, Erase(ids, interval),
           \A i \in ids : entries[i].on /\ entries[i].interval = interval,
           UNCHANGED <<nextId, held, snap, gone>>, CleanedUp => CleanedUp'
    PROVE  MatchInv'
<1>0. TypeOK /\ Kept
    BY DEF HoldInv
<1>1. /\ entries' = Left(ids)
      /\ keys' = IF ListOf(interval, Left(ids)) = {} THEN keys \ {interval} ELSE keys
      /\ \A f \in Fds \ OwnFds(ids) : timers'[f] = timers[f]
    BY <1>0, EraseFacts
<1>2. \A i \in Ids : /\ entries'[i].on <=> entries[i].on /\ i \notin ids
                     /\ entries'[i].interval = entries[i].interval
                     /\ entries'[i].once = entries[i].once
                     /\ entries'[i].fd = entries[i].fd
    BY <1>0, <1>1, LeftFacts
<1>3. ListOf(interval, Left(ids)) = {i \in Ids : entries'[i].on /\ entries'[i].interval = interval}
    BY <1>1 DEF ListOf
<1>4. Given'
    BY <1>2 DEF MatchInv, Given, Well
<1>5. OwnFd'
    BY <1>2 DEF MatchInv, OwnFd
<1>6. Visited'
  <2> SUFFICES ASSUME NEW l \in Loops
               PROVE  /\ \A i \in snap[l] \cup gone[l] : i < nextId
                      /\ \A i, j \in snap[l] \cup gone[l] :
                             entries'[i].interval = entries'[j].interval
                      /\ \A i \in gone[l] : entries'[i].once
    BY DEF Visited
  <2>1. snap[l] \cup gone[l] \subseteq Ids
    BY <1>0 DEF TypeOK
  <2> QED
    BY <1>2, <2>1 DEF MatchInv, Visited
<1>7. ASSUME NEW i \in Ids, entries'[i].on
      PROVE  entries[i].fd \notin Cancelled(ids, interval) /\ entries[i].fd \notin OwnFds(ids)
  <2>1. entries[i].on /\ i \notin ids
    BY <1>2, <1>7
  <2>2. entries[i].fd \notin OwnFds(ids)
    <3> SUFFICES ASSUME NEW j \in ids, entries[j].once, entries[i].fd = entries[j].fd
                 PROVE  FALSE
        BY DEF OwnFds
    <3>1. j \in Ids /\ j # i /\ entries[j].on
        BY <2>1
    <3> QED
        BY <2>1, <3>1 DEF MatchInv, OwnFd
  <2>3. ListOf(interval, Left(ids)) = {} => entries[i].fd \notin FdsOf(interval)
    <3> SUFFICES ASSUME ListOf(interval, Left(ids)) = {}
                 PROVE  entries[i].fd \notin FdsOf(interval)
        OBVIOUS
    <3>1. entries[i].interval # interval
        BY <1>2, <1>3, <1>7
    <3>2. timers[entries[i].fd] = entries[i].interval
        BY <2>1, EventFacts
    <3> QED
        BY <3>1, <3>2 DEF FdsOf
  <2> QED
    BY <2>2, <2>3 DEF Cancelled
<1>8. Timed'
  <2> SUFFICES ASSUME NEW i \in Ids, entries'[i].on
               PROVE  /\ handler'[entries'[i].fd].inReactor
                      /\ handler'[entries'[i].fd].once = entries'[i].once
                      /\ timers'[entries'[i].fd] = entries'[i].interval
                      /\ entries'[i].interval \in keys'
    BY DEF Timed
  <2>1. entries[i].on
    BY <1>2
  <2>2. PICK f \in Fds : f = entries[i].fd
    BY <2>1, EventFacts
  <2>3. /\ handler[f].inReactor /\ handler[f].once = entries[i].once
        /\ timers[f] = entries[i].interval /\ entries[i].interval \in keys
    BY <2>1, <2>2, EventFacts
  <2>4. f \notin Cancelled(ids, interval) /\ f \notin OwnFds(ids)
    BY <1>7, <2>2
  <2>5. handler'[f].inReactor /\ handler'[f].once = handler[f].once
    BY <1>0, <2>3, <2>4, EraseFacts
  <2>6. timers'[f] = timers[f]
    BY <1>1, <2>4
  <2>7. entries[i].interval \in keys'
    BY <1>1, <1>2, <1>3, <2>3
  <2> QED
    BY <1>2, <2>2, <2>3, <2>5, <2>6, <2>7
<1>9. Used'
  <2> SUFFICES ASSUME ~CleanedUp', NEW f \in Fds
               PROVE  /\ handler'[f].inReactor = handler'[f].inDemux
                      /\ handler'[f].open /\ handler'[f].timer =>
                             IF handler'[f].inReactor THEN Listed(f)' ELSE InTask(f)'
    BY DEF Used
  <2>1. InTask(f)' <=> InTask(f)
    BY DEF InTask
  <2>2. /\ handler[f].inReactor = handler[f].inDemux
        /\ handler[f].open /\ handler[f].timer =>
               IF handler[f].inReactor THEN Listed(f) ELSE InTask(f)
    BY DEF MatchInv, Used
  <2>3. CASE handler'[f] = Closed
    BY <2>3, ClosedFacts DEF Closed
  <2>4. CASE handler'[f] # Closed
    <3>1. /\ handler'[f].open = handler[f].open
          /\ handler'[f].timer = handler[f].timer
          /\ handler'[f].inReactor <=> handler[f].inReactor /\ f \notin Cancelled(ids, interval)
          /\ f \in Cancelled(ids, interval) /\ handler[f].inReactor =>
                 handler'[f].inDemux = ~handler[f].inDemux
          /\ f \notin Cancelled(ids, interval) \/ ~handler[f].inReactor =>
                 handler'[f].inDemux = handler[f].inDemux
          /\ handler'[f].inReactor \/ handler'[f].inDemux \/ InTask(f)
        BY <1>0, <2>4, EraseFacts
    <3>2. /\ handler'[f].inReactor \in BOOLEAN /\ handler'[f].inDemux \in BOOLEAN
          /\ handler[f].inReactor \in BOOLEAN /\ handler[f].inDemux \in BOOLEAN
      <4>1. handler'[f] \in Handlers /\ handler[f] \in Handlers
        BY <1>0, EraseFacts DEF TypeOK
      <4> QED
        BY <4>1 DEF Handlers
    <3>3. handler'[f].inReactor = handler'[f].inDemux
        BY <2>2, <3>1, <3>2
    <3>4. ~handler'[f].inReactor => InTask(f)
        BY <3>1, <3>2, <3>3
    <3>5. ASSUME handler'[f].open, handler'[f].timer, handler'[f].inReactor
          PROVE  Listed(f)'
      <4>1. handler[f].inReactor /\ f \notin Cancelled(ids, interval)
        BY <3>1, <3>5
      <4>2. PICK i \in Ids : entries[i].on /\ entries[i].interval = timers[f]
        BY <2>2, <3>1, <3>5, <4>1 DEF Listed
      <4>3. f \notin OwnFds(ids) /\ timers'[f] = timers[f]
        BY <1>1, <4>1 DEF Cancelled
      <4>4. CASE timers[f] = interval
        <5>1. ListOf(interval, Left(ids)) # {}
            BY <4>1, <4>4 DEF Cancelled, FdsOf
        <5>2. PICK k \in Ids : entries'[k].on /\ entries'[k].interval = interval
            BY <1>3, <5>1
        <5> QED
            BY <4>3, <4>4, <5>2 DEF Listed
      <4>5. CASE timers[f] # interval
        <5>1. i \notin ids
            BY <4>2, <4>5
        <5>2. entries'[i].on /\ entries'[i].interval = timers'[f]
            BY <1>2, <4>2, <4>3, <5>1
        <5> QED
            BY <5>2 DEF Listed
      <4> QED
        BY <4>4, <4>5
    <3> QED
        BY <2>1, <3>2, <3>3, <3>4, <3>5
  <2> QED
    BY <2>3, <2>4
<1> QED
    BY <1>4, <1>5, <1>6, <1>8, <1>9 DEF MatchInv

\* Register: a one-shot event, and the first periodic one of an interval,
\* gets a descriptor that no event has; another periodic one shares it.
LEMMA RegisterMatches ==
    ASSUME HoldInv, MatchInv, NEW n \in Intervals, NEW once \in BOOLEAN, Register(n, once)
    PROVE  MatchInv'
<1>0. TypeOK /\ Kept
    BY DEF HoldInv
<1>1. PICK f \in Fds :
          /\ IF once \/ GetTimerFd(n) = {}
             THEN /\ ~handler[f].open
                  /\ handler' = [handler EXCEPT ![f] = Scheduled(once, TRUE)]
                  /\ timers' = [timers EXCEPT ![f] = n]
             ELSE f \in GetTimerFd(n) /\ UNCHANGED <<handler, timers>>
          /\ entries' = [entries EXCEPT ![nextId] =
                            [on |-> TRUE, interval |-> n, once |-> once, fd |-> f]]
    BY DEF Register
<1>2. /\ nextId \in Ids /\ nextId \in Nat /\ nextId' = nextId + 1 /\ keys' = keys \cup {n}
      /\ UNCHANGED <<pc, held, snap, gone>>
    BY <1>0 DEF Register, loop, TypeOK
<1>3. /\ entries'[nextId].on /\ entries'[nextId].interval = n
      /\ entries'[nextId].once = once /\ entries'[nextId].fd = f
    BY <1>0, <1>1, <1>2 DEF TypeOK
<1>4. \A i \in Ids \ {nextId} : entries'[i] = entries[i]
    BY <1>0, <1>1, <1>2 DEF TypeOK
<1>5. \A i \in Ids : (entries[i].on => i < nextId) /\ (i < nextId => Well(i))
    BY DEF MatchInv, Given
<1>6. \A i \in Ids : i \in Nat
    BY DEF Ids
<1>7. \A i \in Ids : entries[i].on => i # nextId /\ entries'[i] = entries[i]
    BY <1>2, <1>4, <1>5, <1>6
<1>8. Given'
  <2> SUFFICES ASSUME NEW i \in Ids
               PROVE  /\ entries'[i].on => i < nextId'
                      /\ i < nextId' => entries'[i].interval \in Intervals /\ entries'[i].fd \in Fds
    BY DEF Given, Well
  <2>1. CASE i = nextId
    BY <1>2, <1>3, <2>1
  <2>2. CASE i # nextId
    <3>1. entries'[i] = entries[i] /\ i \in Nat
        BY <1>4, <1>6, <2>2
    <3>2. i < nextId' => i < nextId
        BY <1>2, <2>2, <3>1
    <3>3. i < nextId => i < nextId'
        BY <1>2, <3>1
    <3> QED
        BY <1>5, <3>1, <3>2, <3>3 DEF Well
  <2> QED
    BY <2>1, <2>2
<1>9. Visited'
  <2> SUFFICES ASSUME NEW l \in Loops
               PROVE  /\ \A i \in snap[l] \cup gone[l] : i < nextId'
                      /\ \A i, j \in snap[l] \cup gone[l] :
                             entries'[i].interval = entries'[j].interval
                      /\ \A i \in gone[l] : entries'[i].once
    BY <1>2 DEF Visited
  <2>1. \A i \in snap[l] \cup gone[l] : i \in Ids /\ i < nextId
    BY <1>0 DEF TypeOK, MatchInv, Visited
  <2>2. \A i \in snap[l] \cup gone[l] : entries'[i] = entries[i] /\ i < nextId'
    <3> SUFFICES ASSUME NEW i \in snap[l] \cup gone[l]
                 PROVE  entries'[i] = entries[i] /\ i < nextId'
        OBVIOUS
    <3>1. i \in Ids /\ i \in Nat /\ i < nextId
        BY <1>6, <2>1
    <3>2. i # nextId /\ i < nextId'
        BY <1>2, <3>1
    <3> QED
        BY <1>4, <3>1, <3>2
  <2> QED
    BY <2>2 DEF MatchInv, Visited
<1>10. CleanedUp' = CleanedUp
    BY <1>2 DEF CleanedUp
<1>11. \A g \in Fds : InTask(g)' = InTask(g)
    BY <1>2 DEF InTask
<1>12. ASSUME NEW g \in Fds, timers'[g] = timers[g], Listed(g)
       PROVE  Listed(g)'
    BY <1>7, <1>12 DEF Listed
<1>13. CASE once \/ GetTimerFd(n) = {}
  <2>1. /\ ~handler[f].open /\ handler' = [handler EXCEPT ![f] = Scheduled(once, TRUE)]
        /\ timers' = [timers EXCEPT ![f] = n]
    BY <1>1, <1>13
  <2>2. /\ \A g \in Fds \ {f} : handler'[g] = handler[g] /\ timers'[g] = timers[g]
        /\ handler'[f].inReactor /\ handler'[f].inDemux /\ handler'[f].once = once
        /\ timers'[f] = n
    BY <1>0, <2>1, ScheduleFacts DEF TypeOK
  <2>3. \A i \in Ids : entries[i].on => entries[i].fd \in Fds \ {f}
    BY <2>1, EventFacts
  <2>4. Timed'
    <3> SUFFICES ASSUME NEW i \in Ids, entries'[i].on
                 PROVE  /\ handler'[entries'[i].fd].inReactor
                        /\ handler'[entries'[i].fd].once = entries'[i].once
                        /\ timers'[entries'[i].fd] = entries'[i].interval
                        /\ entries'[i].interval \in keys'
        BY DEF Timed
    <3>1. CASE i = nextId
        BY <1>2, <1>3, <2>2, <3>1
    <3>2. CASE i # nextId
      <4>1. entries'[i] = entries[i] /\ entries[i].on
        BY <1>4, <3>2
      <4>2. PICK g \in Fds \ {f} : g = entries[i].fd
        BY <2>3, <4>1
      <4> QED
        BY <1>2, <2>2, <4>1, <4>2, EventFacts
    <3> QED
        BY <3>1, <3>2
  <2>5. OwnFd'
    <3> SUFFICES ASSUME NEW i \in Ids, NEW j \in Ids, entries'[i].on, entries'[j].on, i # j,
                        entries'[i].fd = entries'[j].fd
                 PROVE  ~entries'[i].once
        BY DEF OwnFd
    <3>1. i # nextId /\ j # nextId
        BY <1>3, <1>4, <2>3
    <3> QED
        BY <1>4, <3>1 DEF MatchInv, OwnFd
  <2>6. Used'
    <3> SUFFICES ASSUME ~CleanedUp', NEW g \in Fds
                 PROVE  /\ handler'[g].inReactor = handler'[g].inDemux
                        /\ handler'[g].open /\ handler'[g].timer =>
                               IF handler'[g].inReactor THEN Listed(g)' ELSE InTask(g)'
        BY DEF Used
    <3>1. CASE g = f
      <4>1. Listed(f)'
        BY <1>2, <1>3, <2>2 DEF Listed
      <4>2. handler'[f].inReactor = TRUE /\ handler'[f].inDemux = TRUE
        <5>1. handler'[f] \in Handlers
            BY <1>0, <2>1, ScheduleFacts
        <5> QED
            BY <2>2, <5>1 DEF Handlers
      <4> QED
        BY <3>1, <4>1, <4>2
    <3>2. CASE g # f
      <4>1. handler'[g] = handler[g] /\ timers'[g] = timers[g]
        BY <2>2, <3>2
      <4>2. /\ handler[g].inReactor = handler[g].inDemux
            /\ handler[g].open /\ handler[g].timer =>
                   IF handler[g].inReactor THEN Listed(g) ELSE InTask(g)
        BY <1>10 DEF MatchInv, Used
      <4> QED
        BY <1>11, <1>12, <4>1, <4>2
    <3> QED
        BY <3>1, <3>2
  <2> QED
    BY <1>8, <1>9, <2>4, <2>5, <2>6 DEF MatchInv
<1>14. CASE ~(once \/ GetTimerFd(n) = {})
  <2>1. f \in GetTimerFd(n) /\ UNCHANGED <<handler, timers>> /\ ~once
    BY <1>1, <1>14
  <2>2. PICK k \in Ids : /\ entries[k].on /\ entries[k].interval = n
                         /\ ~entries[k].once /\ entries[k].fd = f
    BY <2>1 DEF GetTimerFd, ListOf
  <2>3. handler[f].inReactor /\ ~handler[f].once /\ timers[f] = n
    BY <2>2, EventFacts
  <2>4. handler[f].once = once
    <3>1. handler[f] \in Handlers
        BY <1>0 DEF TypeOK
    <3> QED
        BY <2>1, <2>3, <3>1 DEF Handlers
  <2>5. Timed'
    <3> SUFFICES ASSUME NEW i \in Ids, entries'[i].on
                 PROVE  /\ handler[entries'[i].fd].inReactor
                        /\ handler[entries'[i].fd].once = entries'[i].once
                        /\ timers[entries'[i].fd] = entries'[i].interval
                        /\ entries'[i].interval \in keys'
        BY <2>1 DEF Timed
    <3>1. CASE i = nextId
        BY <1>2, <1>3, <2>3, <2>4, <3>1
    <3>2. CASE i # nextId
      <4>1. entries'[i] = entries[i] /\ entries[i].on
        BY <1>4, <3>2
      <4> QED
        BY <1>2, <4>1, EventFacts
    <3> QED
        BY <3>1, <3>2
  <2>6. OwnFd'
    <3> SUFFICES ASSUME NEW i \in Ids, NEW j \in Ids, entries'[i].on, entries'[j].on, i # j,
                        entries'[i].fd = entries'[j].fd
                 PROVE  ~entries'[i].once
        BY DEF OwnFd
    <3>1. CASE i = nextId
        BY <1>3, <2>1, <3>1
    <3>2. CASE i # nextId /\ j = nextId
      <4>1. entries'[i] = entries[i] /\ entries[i].on /\ entries[i].fd = f
        BY <1>3, <1>4, <3>2
      <4>2. handler[f].once = entries[i].once
        BY <4>1, EventFacts
      <4> QED
        BY <2>3, <4>1, <4>2
    <3>3. CASE i # nextId /\ j # nextId
        BY <1>4, <3>3 DEF MatchInv, OwnFd
    <3> QED
        BY <3>1, <3>2, <3>3
  <2>7. Used'
    <3> SUFFICES ASSUME ~CleanedUp', NEW g \in Fds
                 PROVE  /\ handler[g].inReactor = handler[g].inDemux
                        /\ handler[g].open /\ handler[g].timer =>
                               IF handler[g].inReactor THEN Listed(g)' ELSE InTask(g)'
        BY <2>1 DEF Used
    <3>1. /\ handler[g].inReactor = handler[g].inDemux
          /\ handler[g].open /\ handler[g].timer =>
                 IF handler[g].inReactor THEN Listed(g) ELSE InTask(g)
        BY <1>10 DEF MatchInv, Used
    <3> QED
        BY <1>11, <1>12, <2>1, <3>1
  <2> QED
    BY <1>8, <1>9, <2>5, <2>6, <2>7 DEF MatchInv
<1> QED
    BY <1>13, <1>14

\* A step that leaves the tables, the places of the handlers in them and
\* taskQue alone.
LEMMA UsedKept ==
    ASSUME Used, UNCHANGED <<entries, timers, held>>, CleanedUp => CleanedUp',
           \A f \in Fds : Alike(handler'[f], handler[f])
    PROVE  Used'
<1> SUFFICES ASSUME ~CleanedUp', NEW f \in Fds
             PROVE  /\ handler'[f].inReactor = handler'[f].inDemux
                    /\ handler'[f].open /\ handler'[f].timer =>
                           IF handler'[f].inReactor THEN Listed(f)' ELSE InTask(f)'
    BY DEF Used
<1>1. Listed(f)' = Listed(f) /\ InTask(f)' = InTask(f)
    BY DEF Listed, InTask
<1>2. /\ handler[f].inReactor = handler[f].inDemux
      /\ handler[f].open /\ handler[f].timer =>
             IF handler[f].inReactor THEN Listed(f) ELSE InTask(f)
    BY DEF Used
<1> QED
    BY <1>1, <1>2 DEF Alike

\* Every step keeps events and descriptors matched.
LEMMA MatchStep == HoldInv /\ MatchInv /\ [Next]_vars => MatchInv'
<1> SUFFICES ASSUME HoldInv, MatchInv, [Next]_vars PROVE MatchInv'
    OBVIOUS
<1>0. /\ TypeOK /\ Kept /\ HeldOpen /\ Served
      /\ Given /\ Timed /\ OwnFd /\ Visited /\ Used
    BY DEF HoldInv, MatchInv
<1>a. /\ handler \in [Fds -> Handlers] /\ pc \in [Loops -> Places]
      /\ held \in [Loops -> SUBSET Fds] /\ snap \in [Loops -> SUBSET Ids]
      /\ gone \in [Loops -> SUBSET Ids] /\ timers \in [Fds -> Intervals \cup {0, None}]
    BY <1>0 DEF TypeOK
<1>b. \A f \in Fds : Alike(handler[f], handler[f])
    BY DEF Alike
<1>c. UNCHANGED <<snap, gone, entries, nextId>> => Visited'
    BY <1>0 DEF Visited
<1>d. ASSUME UNCHANGED <<entries, nextId, timers, held, snap, gone, keys>>, CleanedUp => CleanedUp',
             \A f \in Fds : Alike(handler'[f], handler[f])
      PROVE  MatchInv'
  <2>1. Used'
    BY <1>0, <1>d, UsedKept
  <2>2. \A f \in Fds : handler[f].inReactor =>
            handler'[f].inReactor /\ handler'[f].once = handler[f].once
    BY <1>d DEF Alike
  <2> QED
    BY <1>c, <1>d, <2>1, <2>2, MatchKept
<1>e. CASE UNCHANGED <<handler, maps, held, snap, gone>> /\ (CleanedUp => CleanedUp')
    BY <1>b, <1>d, <1>e DEF maps
<1>1. ASSUME NEW n \in Intervals, NEW once \in BOOLEAN, Register(n, once)
      PROVE  MatchInv'
    BY <1>1, RegisterMatches
<1>2. ASSUME NEW id \in Ids, Unregister(id)
      PROVE  MatchInv'
  <2>1. /\ Erase({id}, entries[id].interval) /\ entries[id].on
        /\ UNCHANGED <<nextId, pc, held, snap, gone>>
    BY <1>2 DEF Unregister, loop
  <2>2. CleanedUp => CleanedUp'
    BY <2>1 DEF CleanedUp
  <2>3. PICK ids \in SUBSET Ids : ids = {id}
    OBVIOUS
  <2>4. Erase(ids, entries[id].interval)
    BY <2>1, <2>3
  <2>5. \A i \in ids : entries[i].on /\ entries[i].interval = entries[id].interval
    BY <2>1, <2>3
  <2> QED
    BY <2>1, <2>2, <2>4, <2>5, EraseMatches
<1>3. CASE Control
  <2>1. CASE Setup
    <3>1. UNCHANGED <<handler, maps, held, snap, gone>>
        BY <2>1 DEF Setup
    <3>2. \A l \in Loops : pc[l] = "dead" => pc'[l] = "dead"
        BY <1>a, <2>1 DEF Setup
    <3>3. CleanedUp => CleanedUp'
        BY <3>2 DEF CleanedUp
    <3> QED
        BY <1>e, <3>1, <3>3
  <2>2. CASE ShutdownEmpty
    <3>1. UNCHANGED <<maps, loop>> /\ (CleanedUp' <=> CleanedUp)
        BY <2>2 DEF ShutdownEmpty, loop, CleanedUp
    <3>2. CASE UNCHANGED handler
        BY <1>e, <3>1, <3>2 DEF loop
    <3>3. CASE \E f \in Fds : /\ ~handler[f].open
                              /\ handler' = [handler EXCEPT ![f] = Scheduled(TRUE, FALSE)]
      <4>1. PICK f \in Fds : /\ ~handler[f].open
                             /\ handler' = [handler EXCEPT ![f] = Scheduled(TRUE, FALSE)]
        BY <3>3
      <4>2. /\ \A g \in Fds \ {f} : handler'[g] = handler[g]
            /\ handler'[f].inReactor /\ handler'[f].inDemux /\ handler'[f].timer = FALSE
            /\ handler'[f] \in Handlers
        BY <1>0, <4>1, ScheduleFacts
      <4>3. handler'[f].inReactor = handler'[f].inDemux
        BY <4>2 DEF Handlers
      <4>4. ~handler[f].inReactor
        BY <1>0, <4>1 DEF Kept
      <4>5. \A g \in Fds : Listed(g)' = Listed(g) /\ InTask(g)' = InTask(g)
        BY <3>1 DEF Listed, InTask, maps, loop
      <4>6. Used'
        BY <1>0, <3>1, <4>2, <4>3, <4>5 DEF Used
      <4>7. \A g \in Fds : handler[g].inReactor =>
                handler'[g].inReactor /\ handler'[g].once = handler[g].once
        BY <4>2, <4>4
      <4> QED
        BY <1>c, <3>1, <4>6, <4>7, MatchKept DEF maps, loop
    <3> QED
        BY <2>2, <3>2, <3>3 DEF ShutdownEmpty, PseudoTask
  <2>3. ASSUME UNCHANGED <<handler, maps, loop>> PROVE MatchInv'
    <3>1. CleanedUp => CleanedUp'
        BY <2>3 DEF CleanedUp, loop
    <3> QED
        BY <1>e, <2>3, <3>1 DEF loop
  <2>4. ASSUME NEW j \in UseJoin, Shutdown(j)
        PROVE  MatchInv'
    BY <2>3, <2>4 DEF Shutdown
  <2>5. CASE ShutdownDetach \/ ShutdownJoin \/ JoinReturns
    BY <2>3, <2>5 DEF ShutdownDetach, ShutdownJoin, JoinReturns
  <2> QED
    BY <1>3, <2>1, <2>2, <2>4, <2>5 DEF Control
<1>4. ASSUME NEW f \in Fds, Expire(f)
      PROVE  MatchInv'
  <2>1. UNCHANGED <<maps, loop>>
    BY <1>4 DEF Expire
  <2>2. \A g \in Fds : Alike(handler'[g], handler[g])
    BY <1>0, <1>4, ExpireFacts
  <2>3. CleanedUp => CleanedUp'
    BY <2>1 DEF CleanedUp, loop
  <2> QED
    BY <1>d, <2>1, <2>2, <2>3 DEF maps, loop
<1>5. ASSUME NEW l \in Loops, LoopStep(l)
      PROVE  MatchInv'
  <2>0. CleanedUp => CleanedUp'
    BY <1>a, <1>5, LoopMoves DEF CleanedUp
  <2>1. CASE LoopSetUp(l) \/ LoopCheck(l) \/ EpollWait(l) \/ EpollTimeout(l) \/ CallbackDone(l)
             \/ EntriesDone(l) \/ LoopLeave(l)
    BY <1>e, <2>0, <2>1 DEF LoopSetUp, LoopCheck, EpollWait, EpollTimeout, CallbackDone,
                            EntriesDone, LoopLeave
  <2>2. CASE LookUp(l)
    <3>1. UNCHANGED <<handler, maps, snap, gone>> /\ \A k \in Loops \ {l} : held'[k] = held[k]
        BY <1>a, <2>2 DEF LookUp
    <3>2. held[l] = {}
        BY <1>0, <2>2 DEF LookUp, HeldOpen, Dispatching
    <3>3. \A f \in Fds : (InTask(f) => InTask(f)') /\ Listed(f)' = Listed(f)
        BY <3>1, <3>2 DEF InTask, Listed, maps
    <3>4. Used'
        BY <1>0, <2>0, <3>1, <3>3 DEF Used
    <3> QED
        BY <1>c, <3>1, <3>4, MatchKept DEF maps
  <2>3. ASSUME NEW f \in Fds, HandleEvents(l, f)
        PROVE  MatchInv'
    <3>1. UNCHANGED <<maps, held, snap, gone>> /\ handler' = [handler EXCEPT ![f].due = FALSE]
        BY <2>3 DEF HandleEvents
    <3>2. \A g \in Fds : Alike(handler'[g], handler[g])
        BY <1>0, <3>1, HandledFacts
    <3> QED
        BY <1>d, <2>0, <3>1, <3>2 DEF maps
  <2>4. CASE PollingDone(l)
    <3>1. UNCHANGED <<maps, snap, gone>> /\ handler' = Reaped(handler, held')
        BY <2>4 DEF PollingDone
    <3>2. ASSUME NEW tasks, NEW f \in Fds
          PROVE  /\ handler[f].inReactor => Reaped(handler, tasks)[f] = handler[f]
                 /\ \/ Reaped(handler, tasks)[f] = Closed
                    \/ /\ Reaped(handler, tasks)[f] = handler[f]
                       /\ \/ handler[f].inReactor \/ handler[f].inDemux
                          \/ \E k \in Loops : f \in tasks[k]
        BY DEF Reaped
    <3>3. \A f \in Fds : /\ handler[f].inReactor => handler'[f] = handler[f]
                         /\ \/ handler'[f] = Closed
                            \/ /\ handler'[f] = handler[f]
                               /\ handler[f].inReactor \/ handler[f].inDemux \/ InTask(f)'
        BY <3>1, <3>2 DEF InTask
    <3>4. Used'
      <4> SUFFICES ASSUME ~CleanedUp', NEW f \in Fds
                   PROVE  /\ handler'[f].inReactor = handler'[f].inDemux
                          /\ handler'[f].open /\ handler'[f].timer =>
                                 IF handler'[f].inReactor THEN Listed(f)' ELSE InTask(f)'
        BY DEF Used
      <4>1. CASE handler'[f] = Closed
        BY <4>1 DEF Closed
      <4>2. CASE /\ handler'[f] = handler[f]
                 /\ handler[f].inReactor \/ handler[f].inDemux \/ InTask(f)'
        <5>1. Listed(f)' = Listed(f)
            BY <3>1 DEF Listed, maps
        <5>2. /\ handler[f].inReactor = handler[f].inDemux
              /\ handler[f].open /\ handler[f].timer =>
                     IF handler[f].inReactor THEN Listed(f) ELSE InTask(f)
            BY <1>0, <2>0 DEF Used
        <5> QED
            BY <4>2, <5>1, <5>2
      <4> QED
        BY <3>3, <4>1, <4>2
    <3> QED
        BY <1>c, <3>1, <3>3, <3>4, MatchKept DEF maps
  <2>5. CASE OnTimer(l)
    <3> DEFINE interval == IntervalOf(cur[l])
    <3>1. /\ timers' = [timers EXCEPT ![cur[l]] = interval]
          /\ keys' = keys \cup {interval}
          /\ snap' = [snap EXCEPT ![l] =
                         {i \in ListOf(interval, entries) : entries[i].fd = cur[l]}]
          /\ gone' = [gone EXCEPT ![l] = {}]
          /\ UNCHANGED <<handler, entries, nextId, held>>
        BY <2>5 DEF OnTimer
    <3>2. \A f \in Fds : timers[f] # None => timers'[f] = timers[f]
        BY <1>a, <3>1 DEF IntervalOf
    <3> HIDE DEF interval
    <3>3. Visited'
      <4>1. \A i \in snap'[l] : i \in Ids /\ entries[i].on /\ entries[i].interval = interval
        BY <1>a, <3>1 DEF ListOf
      <4>2. gone'[l] = {} /\ \A k \in Loops \ {l} : snap'[k] = snap[k] /\ gone'[k] = gone[k]
        BY <1>a, <3>1
      <4>3. \A i \in snap'[l] : i < nextId
        BY <1>0, <4>1 DEF Given
      <4> QED
        BY <1>0, <3>1, <4>1, <4>2, <4>3 DEF Visited
    <3>4. \A f \in Fds : (Listed(f) => Listed(f)') /\ InTask(f)' = InTask(f)
      <4>1. \A f \in Fds : InTask(f)' = InTask(f)
        BY <3>1 DEF InTask
      <4>2. ASSUME NEW f \in Fds, Listed(f)
            PROVE  Listed(f)'
        <5>1. PICK i \in Ids : entries[i].on /\ entries[i].interval = timers[f]
            BY <4>2 DEF Listed
        <5>2. timers[f] # None
            BY <5>1, EventFacts
        <5> QED
            BY <3>1, <3>2, <5>1, <5>2 DEF Listed
      <4> QED
        BY <4>1, <4>2
    <3>5. Used'
        BY <1>0, <2>0, <3>1, <3>4 DEF Used
    <3> QED
        BY <3>1, <3>2, <3>3, <3>5, MatchKept
  <2>6. ASSUME NEW i \in Ids, NextEntry(l, i)
        PROVE  MatchInv'
    <3>1. /\ i \in snap[l] /\ snap' = [snap EXCEPT ![l] = @ \ {i}]
          /\ gone' = IF entries[i].once THEN [gone EXCEPT ![l] = @ \cup {i}] ELSE gone
          /\ UNCHANGED <<handler, maps, held>>
        BY <2>6 DEF NextEntry
    <3>2. /\ snap'[l] \cup gone'[l] \subseteq snap[l] \cup gone[l]
          /\ \A j \in gone'[l] : j \in gone[l] \/ (j = i /\ entries[i].once)
          /\ \A k \in Loops \ {l} : snap'[k] = snap[k] /\ gone'[k] = gone[k]
        BY <1>a, <3>1
    <3>3. Visited'
      <4> SUFFICES ASSUME NEW k \in Loops
                   PROVE  /\ \A j \in snap'[k] \cup gone'[k] : j < nextId
                          /\ \A j, m \in snap'[k] \cup gone'[k] :
                                 entries[j].interval = entries[m].interval
                          /\ \A j \in gone'[k] : entries[j].once
        BY <3>1 DEF Visited, maps
      <4>1. CASE k = l
        BY <1>0, <3>2, <4>1 DEF Visited
      <4>2. CASE k # l
        BY <1>0, <3>2, <4>2 DEF Visited
      <4> QED
        BY <4>1, <4>2
    <3>4. Used'
        BY <1>0, <1>b, <2>0, <3>1, UsedKept DEF maps
    <3> QED
        BY <3>1, <3>3, <3>4, MatchKept DEF maps
  <2>7. CASE EraseUnusedTimerId(l)
    <3> DEFINE all == {i \in gone[l] : entries[i].on}
    <3>1. PICK interval \in {entries[i].interval : i \in gone[l]} :
              IF all # {} THEN Erase(all, interval)
              ELSE keys' = keys \cup {interval} /\ UNCHANGED <<handler, entries, timers>>
        BY <2>7 DEF EraseUnusedTimerId
    <3>2. UNCHANGED <<nextId, held, snap, gone>>
        BY <2>7 DEF EraseUnusedTimerId
    <3>3. CASE all # {}
      <4>1. PICK ids \in SUBSET Ids : ids = all
        BY <1>a
      <4>2. Erase(ids, interval)
        BY <3>1, <3>3, <4>1
      <4>3. \A i \in ids : entries[i].on /\ entries[i].interval = interval
        BY <1>0, <4>1 DEF Visited
      <4> QED
        BY <2>0, <3>2, <4>2, <4>3, EraseMatches
    <3>4. CASE all = {}
      <4>1. keys' = keys \cup {interval} /\ UNCHANGED <<handler, entries, timers>>
        BY <3>1, <3>4
      <4>2. Used'
        BY <1>0, <1>b, <2>0, <3>2, <4>1, UsedKept
      <4> QED
        BY <1>c, <3>2, <4>1, <4>2, MatchKept
    <3> QED
        BY <3>3, <3>4
  <2>8. CASE CleanUp(l)
    <3>1. UNCHANGED <<maps, snap, gone>> /\ pc'[l] = "dead"
        BY <1>a, <2>8 DEF CleanUp, Goto
    <3>2. Used'
        BY <3>1 DEF Used, CleanedUp
    <3>3. \A f \in Fds : handler[f].inReactor =>
              handler'[f].inReactor /\ handler'[f].once = handler[f].once
        BY <1>0, <2>8, CleanFacts
    <3> QED
        BY <1>c, <3>1, <3>2, <3>3, MatchKept DEF maps
  <2> QED
    BY <1>5, <2>1, <2>2, <2>3, <2>4, <2>5, <2>6, <2>7, <2>8 DEF LoopStep
<1>6. CASE UNCHANGED vars
  <2>1. CleanedUp => CleanedUp'
    BY <1>6 DEF vars, loop, CleanedUp
  <2> QED
    BY <1>e, <1>6, <2>1 DEF vars, loop
<1> QED
    BY <1>1, <1>2, <1>3, <1>4, <1>5, <1>6 DEF Next, Client

(* Every registered event has a timer that leads OnTimer to it, a handler  *)
(* that a loop has picked is open until it is handled, and no descriptor   *)
(* outlives the events: Register, Unregister and EraseUnusedTimerId keep   *)
(* timers_, timerToEntries_, intervalToTimers_ and the reactor's lists in  *)
(* step, whichever loops run OnTimer meanwhile.                            *)
THEOREM EventsHaveTimers == Spec => []DescriptorsMatchEvents
<1>1. Init => HoldInv /\ MatchInv
  <2> SUFFICES ASSUME Init PROVE MatchInv
    BY HoldStarts
  <2>1. \A i \in Ids : ~entries[i].on /\ i >= nextId
    <3>1. \A i \in Ids : entries[i] = NoEntry
        BY DEF Init
    <3>2. nextId = 1 /\ \A i \in Ids : i \in Nat /\ i >= 1
        BY DEF Init, Ids
    <3> QED
        BY <3>1, <3>2 DEF NoEntry
  <2>2. \A f \in Fds : handler[f] = Closed
    BY DEF Init
  <2>3. Given /\ Timed /\ OwnFd
    BY <2>1 DEF Given, Timed, OwnFd, Ids, Init
  <2>4. Visited
    BY DEF Init, Visited
  <2>5. Used
    <3>1. \A f \in Fds : handler[f].open = FALSE /\ handler[f].inReactor = FALSE
                          /\ handler[f].inDemux = FALSE
        BY <2>2 DEF Closed
    <3> QED
        BY <3>1 DEF Used
  <2> QED
    BY <2>3, <2>4, <2>5 DEF MatchInv
<1>2. HoldInv /\ MatchInv => DescriptorsMatchEvents
  <2> SUFFICES ASSUME HoldInv, MatchInv PROVE DescriptorsMatchEvents
    OBVIOUS
  <2>1. \A i \in Ids : entries[i].on =>
            /\ handler[entries[i].fd].inReactor
            /\ handler[entries[i].fd].once = entries[i].once
            /\ timers[entries[i].fd] = entries[i].interval
            /\ entries[i].interval \in keys
    BY DEF MatchInv, Timed
  <2>2. \A l \in Loops : \A f \in held[l] : handler[f].open
    BY DEF HoldInv, HeldOpen
  <2>3. ASSUME \A i \in Ids : ~entries[i].on,
               \A l \in Loops : held[l] = {} /\ pc[l] # "dead"
        PROVE  \A f \in Fds : ~(handler[f].open /\ handler[f].timer)
    BY <2>3 DEF MatchInv, Used, CleanedUp, Listed, InTask
  <2> QED
    BY <2>1, <2>2, <2>3 DEF DescriptorsMatchEvents
<1>3. HoldInv /\ MatchInv /\ [Next]_vars => (HoldInv /\ MatchInv)'
    BY HoldStep, MatchStep
<1> QED
    BY <1>1, <1>2, <1>3, PTL DEF Spec
==============================================================================
