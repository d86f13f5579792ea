-------------------------------- MODULE Timer --------------------------------
(***************************************************************************)
(* Utils::Timer (base/src/timer.cpp) together with what it is built on:    *)
(* EventReactor, EventDemultiplexer, TimerEventHandler and EventHandler    *)
(* (base/src/event_*.cpp, base/src/timer_event_handler.cpp).               *)
(*                                                                         *)
(* Actors: clients that Register and Unregister at any time (a callback    *)
(* may too), one control thread that calls Setup and Shutdown, and the     *)
(* loop threads that Setup creates, several of them once one was detached. *)
(* A critical section of Timer::mutex_ is one action, with the reactor and *)
(* demultiplexer calls it makes under their own locks.  epoll and timerfd  *)
(* are external: a descriptor is due once its time has come, and stays     *)
(* ready until it is read.  File descriptor numbers are reused.            *)
(***************************************************************************)
EXTENDS Integers, FiniteSets

CONSTANTS
    Fds,            \* descriptor numbers
    Intervals,      \* intervals of timed events, 0 not among them
    Loops,          \* identities of loop threads
    MaxTimers,      \* bound: registrations, hence timer ids
    Timeouts,       \* subset of BOOLEAN: whether timeoutMs_ may be -1
    UseJoin,        \* subset of BOOLEAN: arguments of Shutdown
    None            \* no descriptor, no interval, no thread

ASSUME TimerConstants ==
    /\ MaxTimers \in Nat /\ Timeouts \subseteq BOOLEAN /\ UseJoin \subseteq BOOLEAN
    /\ 0 \notin Intervals /\ None \notin Intervals \cup Loops \cup Fds

Ids == 1..MaxTimers

VARIABLES
    handler,        \* descriptor -> TimerEventHandler (see Handlers)
    entries,        \* timerToEntries_: id -> [on, interval, once, fd]
    keys,           \* the intervals with a list in intervalToTimers_
    timers,         \* timers_: descriptor -> interval, or None
    nextId,         \* the static timerId of Register
    forever,        \* timeoutMs_ = -1, given to the constructor
    loopReady, switch,
    thread,         \* thread_: the joinable loop thread, or None
    pc,             \* loop thread -> where it is
    ready,          \* loop thread -> descriptors epoll_wait returned
    held,           \* loop thread -> handlers in taskQue
    pend,           \* loop thread -> those not handled yet
    cur,            \* loop thread -> descriptor OnTimer runs for
    snap,           \* loop thread -> ids of entryList not visited yet
    gone,           \* loop thread -> onceIdsUnused
    job,            \* loop thread -> id whose callback it runs, or 0
    ctl,            \* control thread: "idle", "off", "join"
    joins,          \* the useJoin of the running Shutdown
    quiet,          \* a blocking Shutdown returned, and no Setup since
    detached        \* ghost: the loop threads that Shutdown detached

maps  == <<entries, keys, timers, nextId>>
flags == <<forever, loopReady, switch, thread>>
loop  == <<pc, ready, held, pend, cur, snap, gone, job>>
shut  == <<ctl, joins, quiet, detached>>
vars  == <<handler, maps, flags, loop, shut>>

Handlers == [open : BOOLEAN, once : BOOLEAN, armed : BOOLEAN, due : BOOLEAN,
             hit : BOOLEAN,             \* ghost: it has expired before
             timer : BOOLEAN,           \* its callback is OnTimer
             inReactor : BOOLEAN,       \* in timerEventHandlers_
             inDemux : BOOLEAN,         \* in eventHandlers_, known to epoll
             events : BOOLEAN]          \* READ_EVENT enabled

Closed == [open |-> FALSE, once |-> FALSE, armed |-> FALSE, due |-> FALSE, hit |-> FALSE,
           timer |-> FALSE, inReactor |-> FALSE, inDemux |-> FALSE, events |-> FALSE]
NoEntry == [on |-> FALSE, interval |-> None, once |-> FALSE, fd |-> None]

Init ==
    /\ forever \in Timeouts
    /\ handler = [f \in Fds |-> Closed]
    /\ entries = [i \in Ids |-> NoEntry] /\ keys = {}
    /\ timers = [f \in Fds |-> None] /\ nextId = 1
    /\ loopReady = FALSE /\ switch = FALSE /\ thread = None
    /\ pc = [l \in Loops |-> "new"]
    /\ ready = [l \in Loops |-> {}] /\ held = ready /\ pend = ready
    /\ cur = [l \in Loops |-> None]
    /\ snap = ready /\ gone = ready /\ job = [l \in Loops |-> 0]
    /\ ctl = "idle" /\ joins = TRUE /\ quiet = FALSE /\ detached = {}

-----------------------------------------------------------------------------
(* Handlers.                                                               *)

\* ScheduleTimer: timerfd_create, timerfd_settime, EnableRead, push_back.
Scheduled(once, isTimer) ==
    [open |-> TRUE, once |-> once, armed |-> TRUE, due |-> FALSE, hit |-> FALSE,
     timer |-> isTimer, inReactor |-> TRUE, inDemux |-> TRUE, events |-> TRUE]

\* DisableAll and UpdateEventHandler: a handler the demultiplexer knows is
\* removed, any other one is added, without events.
Disable(h) == [h EXCEPT !.events = FALSE, !.inDemux = ~@]

\* CancelTimer for every descriptor of a set.  The timer is not disarmed.
CancelTimers(hs, fs) ==
    [f \in Fds |-> IF f \in fs /\ hs[f].inReactor
                   THEN [Disable(hs[f]) EXCEPT !.inReactor = FALSE] ELSE hs[f]]

\* Handlers that no table and no taskQue refers to are destroyed.
Reaped(hs, tasks) ==
    [f \in Fds |-> IF \/ hs[f].inReactor \/ hs[f].inDemux
                      \/ \E l \in Loops : f \in tasks[l]
                   THEN hs[f] ELSE Closed]

FdsOf(interval) == {f \in Fds : timers[f] = interval}
ListOf(interval, es) == {i \in Ids : es[i].on /\ es[i].interval = interval}

-----------------------------------------------------------------------------
(* Clients.                                                                *)

\* GetTimerFd: the descriptor that the periodic events of interval share.
GetTimerFd(interval) == {entries[i].fd : i \in {j \in ListOf(interval, entries) : ~entries[j].once}}

Register(interval, once) ==
    /\ nextId \in Ids
    /\ \E f \in Fds :
          /\ IF once \/ GetTimerFd(interval) = {}
             THEN /\ ~handler[f].open
                  /\ handler' = [handler EXCEPT ![f] = Scheduled(once, TRUE)]
                  /\ timers' = [timers EXCEPT ![f] = interval]
             ELSE f \in GetTimerFd(interval) /\ UNCHANGED <<handler, timers>>
          /\ entries' = [entries EXCEPT ![nextId] =
                            [on |-> TRUE, interval |-> interval, once |-> once, fd |-> f]]
    /\ keys' = keys \cup {interval}
    /\ nextId' = nextId + 1
    /\ UNCHANGED <<flags, loop, shut>>

\* Entries ids of one interval are erased, with the descriptors of the
\* one-shot ones; when the list is empty every descriptor of the interval
\* is cancelled (DoUnregister), and its entry in timers_ stays.
EraseKeepFds(ids, interval) ==
    LET left == [i \in Ids |-> [entries[i] EXCEPT !.on = @ /\ i \notin ids]]
        own  == {entries[i].fd : i \in {j \in ids : entries[j].once}}
        last == ListOf(interval, left) = {}
    IN  /\ entries' = left
        /\ keys' = IF last THEN keys \ {interval} ELSE keys
        /\ timers' = [f \in Fds |-> IF f \in own THEN None ELSE timers[f]]
        /\ handler' = Reaped(CancelTimers(handler, own), held)

EraseAllFds(ids, interval) ==
    LET left == [i \in Ids |-> [entries[i] EXCEPT !.on = @ /\ i \notin ids]]
        own  == {entries[i].fd : i \in ids}
        last == ListOf(interval, left) = {}
    IN  /\ entries' = left
        /\ keys' = IF last THEN keys \ {interval} ELSE keys
        /\ timers' = [f \in Fds |-> IF f \in own THEN None ELSE timers[f]]
        /\ handler' = Reaped(CancelTimers(handler, own \cup FdsOf(interval)), held)

Erase(ids, interval) ==
    LET left == [i \in Ids |-> [entries[i] EXCEPT !.on = @ /\ i \notin ids]]
        own  == {entries[i].fd : i \in {j \in ids : entries[j].once}}
        last == ListOf(interval, left) = {}
        all  == IF last THEN own \cup FdsOf(interval) ELSE own
    IN  /\ entries' = left
        /\ keys' = IF last THEN keys \ {interval} ELSE keys
        /\ timers' = [f \in Fds |-> IF f \in own THEN None ELSE timers[f]]
        /\ handler' = Reaped(CancelTimers(handler, all), held)

Unregister(id) ==
    /\ entries[id].on
    /\ Erase({id}, entries[id].interval)
    /\ UNCHANGED <<nextId, flags, loop, shut>>

-----------------------------------------------------------------------------
(* The control thread.                                                     *)

Setup ==
    /\ ctl = "idle" /\ thread = None
    /\ \E l \in Loops :
          /\ pc[l] = "new"
          /\ pc' = [pc EXCEPT ![l] = "start"]
          /\ thread' = l
    /\ switch' = TRUE /\ quiet' = FALSE
    /\ UNCHANGED <<forever, handler, maps, loopReady, ready, held, pend, cur, snap, gone, job,
                   ctl, joins, detached>>

Shutdown(useJoin) ==
    /\ ctl = "idle" /\ thread # None
    /\ switch' = FALSE
    /\ ctl' = "off" /\ joins' = useJoin
    /\ UNCHANGED <<forever, handler, maps, loopReady, thread, loop, quiet, detached>>

\* epoll_wait without a timeout and nothing registered: a pseudo-task is
\* scheduled (if a descriptor is left) and the thread is detached.
PseudoTaskDisarmed == [Scheduled(TRUE, FALSE) EXCEPT !.armed = FALSE]
PseudoTask == Scheduled(TRUE, FALSE)

ShutdownEmpty ==
    /\ ctl = "off" /\ forever /\ keys = {}
    /\ \/ \E f \in Fds : /\ ~handler[f].open
                         /\ handler' = [handler EXCEPT ![f] = PseudoTask]
       \/ (\A f \in Fds : handler[f].open) /\ UNCHANGED handler
    /\ thread' = None /\ detached' = detached \cup {thread}
    /\ ctl' = "idle" /\ quiet' = joins
    /\ UNCHANGED <<forever, maps, loopReady, switch, loop, joins>>

ShutdownDetach ==
    /\ ctl = "off" /\ ~(forever /\ keys = {}) /\ ~joins
    /\ thread' = None /\ detached' = detached \cup {thread}
    /\ ctl' = "idle"
    /\ UNCHANGED <<forever, handler, maps, loopReady, switch, loop, joins, quiet>>

ShutdownJoin ==
    /\ ctl = "off" /\ ~(forever /\ keys = {}) /\ joins
    /\ ctl' = "join"
    /\ UNCHANGED <<handler, maps, flags, loop, joins, quiet, detached>>

\* thread_.join() returns once the loop thread has ended.
JoinReturns ==
    /\ ctl = "join" /\ pc[thread] = "dead"
    /\ thread' = None /\ ctl' = "idle" /\ quiet' = TRUE
    /\ UNCHANGED <<forever, handler, maps, loopReady, switch, loop, joins, detached>>

-----------------------------------------------------------------------------
(* A loop thread: MainLoop, RunLoop, Polling, TimeOut, OnTimer.            *)

Goto(l, where) == pc' = [pc EXCEPT ![l] = where]

LoopSetUp(l) ==
    /\ pc[l] = "start"
    /\ loopReady' = TRUE
    /\ Goto(l, "check")
    /\ UNCHANGED <<forever, handler, maps, switch, thread, ready, held, pend, cur, snap, gone, job, shut>>

KeepsRunningReady == loopReady
KeepsRunning == loopReady /\ switch

LoopCheck(l) ==
    /\ pc[l] = "check"
    /\ Goto(l, IF KeepsRunning THEN "poll" ELSE "leave")
    /\ UNCHANGED <<handler, maps, flags, ready, held, pend, cur, snap, gone, job, shut>>

Readable == {f \in Fds : handler[f].inDemux /\ handler[f].events /\ handler[f].due}

EpollWait(l) ==
    /\ pc[l] = "poll" /\ Readable # {}
    /\ ready' = [ready EXCEPT ![l] = Readable]
    /\ Goto(l, "lookup")
    /\ UNCHANGED <<handler, maps, flags, held, pend, cur, snap, gone, job, shut>>

EpollTimeout(l) ==
    /\ pc[l] = "poll" /\ Readable = {} /\ ~forever
    /\ Goto(l, "check")
    /\ UNCHANGED <<handler, maps, flags, ready, held, pend, cur, snap, gone, job, shut>>

\* taskQue: the handlers the descriptors have by now, which need not be
\* the ones whose timers made them ready.
LookUp(l) ==
    /\ pc[l] = "lookup"
    /\ LET found == {f \in ready[l] : handler[f].inDemux}
       IN  held' = [held EXCEPT ![l] = found] /\ pend' = [pend EXCEPT ![l] = found]
    /\ ready' = [ready EXCEPT ![l] = {}]
    /\ Goto(l, "handle")
    /\ UNCHANGED <<handler, maps, flags, cur, snap, gone, job, shut>>

\* TimeOut: a read that would block (EAGAIN) skips the callback.
SkipsNever(f) == FALSE
Skips(f) == ~handler[f].due

HandleEvents(l, f) ==
    /\ pc[l] = "handle" /\ f \in pend[l]
    /\ pend' = [pend EXCEPT ![l] = @ \ {f}]
    /\ handler' = [handler EXCEPT ![f].due = FALSE]
    /\ IF Skips(f) \/ ~handler[f].timer
       THEN UNCHANGED <<pc, cur>>
       ELSE Goto(l, "ontimer") /\ cur' = [cur EXCEPT ![l] = f]
    /\ UNCHANGED <<maps, flags, ready, held, snap, gone, job, shut>>

\* Polling returns, and taskQue with it.
PollingDone(l) ==
    /\ pc[l] = "handle" /\ pend[l] = {}
    /\ held' = [held EXCEPT ![l] = {}]
    /\ handler' = Reaped(handler, held')
    /\ Goto(l, "check")
    /\ UNCHANGED <<maps, flags, ready, pend, cur, snap, gone, job, shut>>

\* The map accesses by operator[] insert what is missing.
IntervalOf(f) == IF timers[f] = None THEN 0 ELSE timers[f]

OnTimer(l) ==
    /\ pc[l] = "ontimer"
    /\ LET f == cur[l]
           interval == IntervalOf(f)
       IN  /\ timers' = [timers EXCEPT ![f] = interval]
           /\ keys' = keys \cup {interval}
           /\ snap' = [snap EXCEPT ![l] = {i \in ListOf(interval, entries) : entries[i].fd = f}]
    /\ gone' = [gone EXCEPT ![l] = {}]
    /\ Goto(l, "each")
    /\ UNCHANGED <<handler, entries, nextId, flags, ready, held, pend, cur, job, shut>>

\* An erased entry is still visited through the copied list.
MayCall == loopReady /\ switch

NextEntry(l, i) ==
    /\ pc[l] = "each" /\ i \in snap[l]
    /\ snap' = [snap EXCEPT ![l] = @ \ {i}]
    /\ gone' = IF entries[i].once THEN [gone EXCEPT ![l] = @ \cup {i}] ELSE gone
    /\ IF MayCall
       THEN /\ Goto(l, "callback")
            /\ job' = [job EXCEPT ![l] = i]
       ELSE UNCHANGED <<pc, job>>
    /\ UNCHANGED <<handler, maps, flags, ready, held, pend, cur, shut>>

CallbackDone(l) ==
    /\ pc[l] = "callback"
    /\ job' = [job EXCEPT ![l] = 0]
    /\ Goto(l, "each")
    /\ UNCHANGED <<handler, maps, flags, ready, held, pend, cur, snap, gone, shut>>

EntriesDone(l) ==
    /\ pc[l] = "each" /\ snap[l] = {}
    /\ Goto(l, IF gone[l] = {} THEN "handle" ELSE "erase")
    /\ UNCHANGED <<handler, maps, flags, ready, held, pend, cur, snap, gone, job, shut>>

\* EraseUnusedTimerId: interval is the local of OnTimer, which is that of
\* the entries it visited.
EraseUnusedTimerId(l) ==
    /\ pc[l] = "erase"
    /\ \E interval \in {entries[i].interval : i \in gone[l]} :
          LET ids == {i \in gone[l] : entries[i].on}
          IN  IF ids # {} THEN Erase(ids, interval)
              ELSE keys' = keys \cup {interval} /\ UNCHANGED <<handler, entries, timers>>
    /\ Goto(l, "handle")
    /\ UNCHANGED <<nextId, flags, ready, held, pend, cur, snap, gone, job, shut>>

LoopLeave(l) ==
    /\ pc[l] = "leave"
    /\ loopReady' = FALSE
    /\ Goto(l, "cleanup")
    /\ UNCHANGED <<forever, handler, maps, switch, thread, ready, held, pend, cur, snap, gone, job, shut>>

\* EventReactor::CleanUp: every handler is disabled and kept.
CleanUp(l) ==
    /\ pc[l] = "cleanup"
    /\ handler' = Reaped([f \in Fds |-> IF handler[f].inReactor THEN Disable(handler[f])
                                         ELSE handler[f]], held)
    /\ Goto(l, "dead")
    /\ UNCHANGED <<maps, flags, ready, held, pend, cur, snap, gone, job, shut>>

(* The kernel: a timer expires; a one-shot one does so once.               *)
Expire(f) ==
    /\ handler[f].armed /\ ~handler[f].due
    /\ handler' = [handler EXCEPT ![f].due = TRUE, ![f].hit = TRUE,
                                  ![f].armed = ~handler[f].once]
    /\ UNCHANGED <<maps, flags, loop, shut>>

-----------------------------------------------------------------------------
LoopStep(l) ==
    \/ LoopSetUp(l) \/ LoopCheck(l) \/ EpollWait(l) \/ EpollTimeout(l) \/ LookUp(l)
    \/ \E f \in Fds : HandleEvents(l, f)
    \/ PollingDone(l) \/ OnTimer(l)
    \/ \E i \in Ids : NextEntry(l, i)
    \/ CallbackDone(l) \/ EntriesDone(l) \/ EraseUnusedTimerId(l)
    \/ LoopLeave(l) \/ CleanUp(l)

Control ==
    \/ Setup
    \/ \E j \in UseJoin : Shutdown(j)
    \/ ShutdownEmpty \/ ShutdownDetach \/ ShutdownJoin \/ JoinReturns

Client ==
    \/ \E n \in Intervals, once \in BOOLEAN : Register(n, once)
    \/ \E id \in Ids : Unregister(id)

Next ==
    \/ \E l \in Loops : LoopStep(l)
    \/ Control \/ Client
    \/ \E f \in Fds : Expire(f)

Spec == Init /\ [][Next]_vars

(* The loop threads are scheduled, time passes for every armed timer, and  *)
(* a Shutdown that has begun goes on.  Nothing makes clients act.          *)
FairSpec ==
    /\ Spec
    /\ \A l \in Loops : WF_vars(LoopStep(l))
    /\ \A f \in Fds : WF_vars(Expire(f))
    /\ WF_vars(ShutdownEmpty \/ ShutdownDetach \/ ShutdownJoin \/ JoinReturns)

-----------------------------------------------------------------------------
(* A callback runs only for a timer that has really expired, never because *)
(* its descriptor number was ready for an earlier timer (the EAGAIN case   *)
(* of TimerEventHandler::TimeOut).                                         *)
CallbackAfterExpiry ==
    \A l \in Loops : pc[l] = "callback" => handler[cur[l]].hit

(* Events and timer descriptors match.  Every registered event has a       *)
(* timer: its descriptor is open, belongs to a handler of the reactor, and *)
(* timers_ leads OnTimer from it to the list of the event's interval,      *)
(* although periodic events share descriptors and timers_ keeps entries of *)
(* closed ones.  The handlers a loop has picked keep theirs open until     *)
(* they are handled.  And none outlives the events: when nothing is        *)
(* registered and no task is being handled, every one is closed.           *)
(* Unregister leaves the descriptor of the last periodic event open while  *)
(* one-shot events of the same interval remain, so DoUnregister has to     *)
(* find it later.  (Once a loop has run CleanUp this no longer holds: see  *)
(* EventsAreCalled.)                                                       *)
DescriptorsMatchEvents ==
    /\ \A i \in Ids : entries[i].on =>
           LET f == entries[i].fd
           IN  /\ handler[f].inReactor /\ handler[f].once = entries[i].once
               /\ timers[f] = entries[i].interval
               /\ entries[i].interval \in keys
    /\ \A l \in Loops : \A f \in held[l] : handler[f].open
    /\ (/\ \A i \in Ids : ~entries[i].on
        /\ \A l \in Loops : held[l] = {} /\ pc[l] # "dead")
       => \A f \in Fds : ~(handler[f].open /\ handler[f].timer)

(* timer.h:85-87: "In blocking mode, the timer will be shut down only      *)
(* after all running events in the timer have finished."  The code waits   *)
(* only for the loop in thread_ and only when it joins, so two schedules   *)
(* violate it.  With a timeout of -1 Shutdown(true) detaches the loop when *)
(* nothing is registered, although the callback of the event that was      *)
(* unregistered last may be running.  And a loop that Shutdown(false)      *)
(* detached is switched on again by the next Setup; it serves events       *)
(* beside the new one, and the next Shutdown(true) does not wait for it.   *)
ShutdownWaits == quiet => \A l \in Loops : job[l] = 0

(* A loop thread that Shutdown detached ends, unless it is switched on     *)
(* again.  With a timeout of -1 epoll_wait has to be ended by the pseudo-  *)
(* task that Shutdown schedules (timer.cpp:63-65), which comes after       *)
(* SwitchOff and so cannot be used up by a loop that goes on.  It must     *)
(* still be known to epoll: a closed descriptor keeps its entry in         *)
(* timers_, the pseudo-task may get the same number, and DoUnregister of   *)
(* that old interval cancels it with the rest.                             *)
Waking == \E f \in Fds : handler[f].open /\ ~handler[f].timer /\ handler[f].inDemux
Ends(l) == pc[l] = "dead" \/ switch

DetachedLoopsEnd ==
    \A l \in Loops : (l \in detached /\ (forever => Waking)) ~> (Ends(l) \/ (forever /\ ~Waking))

(* An event that stays registered while the timer stays switched on is     *)
(* called.  Only the first loop is meant: CleanUp leaves the descriptors   *)
(* disabled, and a second Setup (timer.h:42-44) does not enable them.      *)
Called(i) == \E l \in Loops : job[l] = i
CleanedUp == \E l \in Loops : pc[l] = "dead"

EventsAreCalled ==
    \A i \in Ids :
        (entries[i].on /\ switch) ~> (Called(i) \/ ~entries[i].on \/ ~switch \/ CleanedUp)

(* A Shutdown returns, except a blocking one of a loop whose epoll_wait    *)
(* has no timeout and no timer left to end it.                             *)
ShutdownReturns == (ctl = "off" /\ ~forever) ~> (ctl = "idle")
==============================================================================
