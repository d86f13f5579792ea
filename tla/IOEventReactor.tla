---------------------------- MODULE IOEventReactor ----------------------------
(***************************************************************************)
(* IOEventReactor, IOEventHandler and IOEventEpoll (base/src/              *)
(* io_event_reactor.cpp, io_event_handler.cpp, io_event_epoll.cpp): one    *)
(* list of handlers per descriptor, the union of their events cached in    *)
(* the slot and registered with epoll, and a loop that polls and calls.    *)
(*                                                                         *)
(* A critical section is one step, except that the three parts of          *)
(* UpdateToDemultiplexer ("mask", "ctl", "store") are steps of their own:  *)
(* UpdateHandler runs them without the mutex.  Calls on one handler do not *)
(* overlap, and its descriptor does not change; both are rules of use.     *)
(***************************************************************************)
EXTENDS Integers, Sequences, FiniteSets

CONSTANTS Handlers, Apps,
          FdOf,         \* handler -> fd_
          Events,       \* handler -> the events it is first constructed with
          Masks,        \* the events a handler may be constructed with
          Conditions,   \* what may become true of a descriptor, as epoll flags
          InitFdNums,   \* INIT_FD_NUMS
          MaxFd,        \* MAX_FD, the largest descriptor a handler may have
          CountMod,     \* 2^w for the width w of count_
          MaxCalls,     \* bound: calls of the applications
          MaxFaults,    \* bound: failures of system calls, handlers destroyed linked
          MaxArrivals   \* bound: conditions that arise

Fds == 0 .. 2 * MaxFd - 1   \* up to the largest size the table grows to
None == "none"
Unregistered == {"unregistered"}
Loop == "loop"

ASSUME ReactorConstants ==
    /\ FdOf \in [Handlers -> 0 .. MaxFd] /\ Events \in [Handlers -> Masks]
    /\ {InitFdNums, MaxFd, CountMod, MaxCalls, MaxFaults, MaxArrivals} \subseteq Nat
    /\ InitFdNums \in 1 .. 2 * MaxFd /\ CountMod > MaxCalls + 1
    /\ None \notin Handlers /\ {None, Loop} \intersect Apps = {}

VARIABLES list,      \* fd -> the handlers linked behind the head, front first
          events,    \* handler -> events_
          active,    \* handler -> enabled_
          slot,      \* fd -> ioHandlers_[fd].events
          size,      \* ioHandlers_.size()
          count,     \* count_
          interest,  \* interestFds_
          kernel,    \* fd -> epoll's registration, a set of flags, or Unregistered
          mutex,     \* the threads that hold mutex_
          call,      \* application thread -> the call it is in
          loop,      \* the thread in Run
          flags,     \* [ready |-> loopReady_, enabled |-> enabled_]
          timeout,   \* of Run: "infinite" or "finite"
          ready,     \* fd -> the conditions that hold
          trouble,   \* fds on which one of the events below happened
          stopped,   \* handlers whose Stop or destructor has returned
          late,      \* handler -> callbacks run since then
          budget     \* [calls, faults, arrivals] left

objects == <<list, events, active, slot, size, count>>
epoll   == <<interest, kernel>>
world   == <<flags, timeout, ready>>
ghosts  == <<trouble, stopped, late>>
vars    == <<objects, epoll, mutex, call, loop, world, ghosts, budget>>

Idle == [op |-> "idle", h |-> None, fds |-> <<>>, step |-> "none", mask |-> {}]

Init ==
    /\ list = [f \in Fds |-> <<>>] /\ slot = [f \in Fds |-> {}]
    /\ events = Events
    /\ active = [h \in Handlers |-> FALSE]
    /\ size = InitFdNums /\ count = 0
    /\ interest = {} /\ kernel = [f \in Fds |-> Unregistered]
    /\ mutex = {} /\ call = [t \in Apps |-> Idle]
    /\ loop = [pc |-> "out", got |-> {}, tasks |-> <<>>]
    /\ flags = [ready |-> TRUE, enabled |-> TRUE]
    /\ timeout \in {"infinite", "finite"}
    /\ ready = [f \in Fds |-> {}]
    /\ trouble = {} /\ stopped = {} /\ late = [h \in Handlers |-> 0]
    /\ budget = [calls |-> MaxCalls, faults |-> MaxFaults, arrivals |-> MaxArrivals]

-----------------------------------------------------------------------------
(* IOEventEpoll: the two translations of events.                           *)
Reactor2Epoll(m) ==
    (IF "READ" \in m THEN {"IN", "PRI"} ELSE {})
        \union (IF "WRITE" \in m THEN {"OUT"} ELSE {})
        \union (IF "ERROR" \in m THEN {"ERR"} ELSE {})

Epoll2Reactor(e) ==
    (IF "HUP" \in e /\ "IN" \notin e THEN {"CLOSE"} ELSE {})
        \union (IF "ERR" \in e THEN {"ERROR"} ELSE {})
        \union (IF e \intersect {"IN", "PRI", "RDHUP"} # {} THEN {"READ"} ELSE {})
        \union (IF "OUT" \in e THEN {"WRITE"} ELSE {})

\* epoll reports what is registered, and always HUP and ERR.
Reported(f) ==
    IF kernel[f] = Unregistered THEN {} ELSE ready[f] \intersect (kernel[f] \union {"HUP", "ERR"})

\* The operation ModifyEvents asks for; epoll refuses to add what is there and
\* to change what is not.
CtlOp(f, m) == IF f \notin interest THEN "ADD" ELSE IF m = {} THEN "DEL" ELSE "MOD"
Refused(f, m) == (CtlOp(f, m) = "ADD") # (kernel[f] = Unregistered)

OperateEpoll(f, m) ==
    LET op == CtlOp(f, m)
    IN  /\ kernel' = [kernel EXCEPT ![f] = IF op = "DEL" THEN Unregistered ELSE Reactor2Epoll(m)]
        /\ interest' = IF op = "DEL" THEN interest \ {f} ELSE interest \union {f}

-----------------------------------------------------------------------------
Linked(h) == \E i \in DOMAIN list[FdOf[h]] : list[FdOf[h]][i] = h
Busy(h) == \E t \in Apps : call[t].h = h
Spend(what) == budget[what] > 0 /\ budget' = [budget EXCEPT ![what] = @ - 1]

\* The elements of s that are in K, in their order.
Kept(s, K) ==
    LET kept[i \in 0 .. Len(s)] ==
            IF i = 0 THEN <<>>
            ELSE IF s[i] \in K THEN Append(kept[i - 1], s[i]) ELSE kept[i - 1]
    IN  kept[Len(s)]

InsertNodeFront(h) == [list EXCEPT ![FdOf[h]] = <<h>> \o @]
RemoveNode(h) == [list EXCEPT ![FdOf[h]] = Kept(@, Handlers \ {h})]

UnionBehindFirst(f) == UNION {events[list[f][i]] : i \in DOMAIN list[f] \ {1}}
\* emask of UpdateToDemultiplexer
Union(f) == UNION {events[list[f][i]] : i \in DOMAIN list[f]}

Covered(h) == events[h] \subseteq slot[FdOf[h]]

\* EnableRead, EnableWrite, DisableWrite, DisableAll.
Edits(m) == {m \union {"READ"}, m \union {"WRITE"}, m \ {"WRITE"}, {}}

\* Threads other than t between the mask and the store of descriptor f.
Syncing(t, f) == {u \in Apps \ {t} : call[u].step \in {"mask", "ctl", "store"}
                                     /\ call[u].fds # <<>> /\ Head(call[u].fds) = f}
Overlap(t, f) == IF Syncing(t, f) # {} THEN {f} ELSE {}

CountKept(n) == n
CountUp(n) == (n + 1) % CountMod
CountDown(n) == (n + CountMod - 1) % CountMod

Step(t, s) == call' = [call EXCEPT ![t].step = s]
Return(t) == call' = [call EXCEPT ![t] = Idle]
UnlockOnSuccess(t, ok) == mutex' = IF ok THEN mutex \ {t} ELSE mutex
Unlock(t, ok) == mutex' = mutex \ {t}

Enter(t, op, h, fds, step) ==
    /\ call[t] = Idle /\ Spend("calls")
    /\ call' = [call EXCEPT ![t] = [op |-> op, h |-> h, fds |-> fds,
                                     step |-> step, mask |-> {}]]

-----------------------------------------------------------------------------
(* Start, and Update of a handler that is not linked: AddHandler.          *)
Start(t, h) ==
    /\ ~Busy(h) /\ ~Linked(h)
    /\ Enter(t, "add", h, <<FdOf[h]>>, "lock")
    /\ UNCHANGED <<objects, epoll, mutex, loop, world, ghosts>>

AddHandler(t) ==
    LET h == call[t].h
        f == FdOf[h]
    IN  /\ call[t].op = "add" /\ call[t].step = "lock" /\ mutex = {}
        /\ size' = IF f > size - 1 THEN f * 2 ELSE size
        /\ list' = InsertNodeFront(h)
        /\ stopped' = stopped \ {h} /\ late' = [late EXCEPT ![h] = 0]
        /\ trouble' = trouble \union Overlap(t, f)
        /\ \/ /\ Covered(h)
              /\ active' = [active EXCEPT ![h] = TRUE] /\ count' = CountUp(count)
              /\ Return(t) /\ UNCHANGED mutex
           \/ /\ ~Covered(h)
              /\ mutex' = {t} /\ Step(t, "mask")
              /\ UNCHANGED <<active, count>>
        /\ UNCHANGED <<events, slot, epoll, loop, world, budget>>

(* Update of a linked handler: no mutex.                                   *)
Update(t, h) ==
    /\ ~Busy(h) /\ Linked(h)
    /\ Enter(t, "upd", h, <<FdOf[h]>>, "mask")
    /\ \E m \in Edits(events[h]) : events' = [events EXCEPT ![h] = m]
    /\ trouble' = trouble \union Overlap(t, FdOf[h])
    /\ UNCHANGED <<list, active, slot, size, count, epoll, mutex, loop, world, stopped, late>>

(* Stop: RemoveHandler clears enabled_ before it takes the mutex.          *)
Stop(t, h) ==
    /\ ~Busy(h)
    /\ Enter(t, "rem", h, <<FdOf[h]>>, "lock")
    /\ active' = [active EXCEPT ![h] = FALSE]
    /\ UNCHANGED <<list, events, slot, size, count, epoll, mutex, loop, world, ghosts>>

RemoveHandler(t) ==
    LET h == call[t].h
        f == FdOf[h]
    IN  /\ call[t].op = "rem" /\ call[t].step = "lock" /\ mutex = {}
        /\ \/ /\ ~Linked(h)
              /\ active' = [active EXCEPT ![h] = TRUE]
              /\ Return(t) /\ UNCHANGED <<list, mutex, trouble>>
           \/ /\ Linked(h)
              /\ list' = RemoveNode(h)
              /\ mutex' = {t} /\ Step(t, "mask")
              /\ trouble' = trouble \union Overlap(t, f)
              /\ UNCHANGED active
        /\ UNCHANGED <<events, slot, size, count, epoll, loop, world, stopped, late, budget>>

(* Clean and CleanUp, here <<>>: DoClean for one descriptor or for all.    *)
Clean(t) ==
    /\ \E fds \in {<<FdOf[h]>> : h \in Handlers} \union {<<>>} :
           Enter(t, "clean", None, fds, "lock")
    /\ UNCHANGED <<objects, epoll, mutex, loop, world, ghosts>>

\* Clean of a descriptor the table does not reach yet reads outside it, which
\* is undefined; here it finds nothing, and the descriptor counts as in trouble.
LockToClean(t) ==
    LET fds == IF call[t].fds = <<>> THEN [i \in 1 .. size |-> i - 1] ELSE call[t].fds
    IN  /\ call[t].op = "clean" /\ call[t].step = "lock" /\ mutex = {}
        /\ mutex' = {t}
        /\ call' = [call EXCEPT ![t].fds = fds, ![t].step = "clean"]
        /\ trouble' = trouble \union {f \in {Head(fds)} : f >= size}
        /\ UNCHANGED <<objects, epoll, loop, world, stopped, late, budget>>

DoClean(t) ==
    LET f == Head(call[t].fds)
    IN  /\ call[t].step = "clean" /\ call[t].fds # <<>>
        /\ list' = [list EXCEPT ![f] = <<>>]
        /\ active' = [h \in Handlers |-> active[h] /\ ~(FdOf[h] = f /\ Linked(h))]
        /\ IF list[f] = <<>>
           THEN /\ call' = [call EXCEPT ![t].fds = Tail(@), ![t].step = "clean"]
                /\ UNCHANGED trouble
           ELSE Step(t, "mask") /\ trouble' = trouble \union Overlap(t, f)
        /\ UNCHANGED <<events, slot, size, count, epoll, mutex, loop, world, stopped, late,
                       budget>>

CleanDone(t) ==
    /\ call[t].step = "clean" /\ call[t].fds = <<>>
    /\ Return(t) /\ Unlock(t, TRUE)
    /\ UNCHANGED <<objects, epoll, loop, world, ghosts, budget>>

-----------------------------------------------------------------------------
(* What the callers of UpdateToDemultiplexer do with its result.           *)
Finish(t, ok) ==
    LET c == call[t]
    IN  /\ IF c.op = "clean"
           THEN call' = [call EXCEPT ![t].fds = Tail(@), ![t].step = "clean"] /\ UNCHANGED mutex
           ELSE Return(t) /\ Unlock(t, ok)
        /\ active' = CASE c.op = "add" /\ ok   -> [active EXCEPT ![c.h] = TRUE]
                       [] c.op = "rem" /\ ~ok  -> [active EXCEPT ![c.h] = TRUE]
                       [] OTHER -> active
        /\ count' = CASE c.op = "add" /\ ok -> CountUp(count)
                      [] c.op = "rem" /\ ok -> CountDown(count)
                      [] OTHER -> count
        /\ stopped' = IF c.op = "rem" /\ ok THEN stopped \union {c.h} ELSE stopped
        /\ UNCHANGED late

(* UpdateToDemultiplexer: the mask, the system call, the store.            *)
ComputeMask(t) ==
    LET f == Head(call[t].fds)
    IN  /\ call[t].step = "mask"
        /\ \/ Union(f) = slot[f] /\ Finish(t, TRUE)
           \/ /\ Union(f) # slot[f]
              /\ call' = [call EXCEPT ![t].step = "ctl", ![t].mask = Union(f)]
              /\ UNCHANGED <<mutex, active, count, stopped, late>>
        /\ UNCHANGED <<list, events, slot, size, epoll, loop, world, trouble, budget>>

ModifyEvents(t) ==
    LET f == Head(call[t].fds)
        m == call[t].mask
    IN  /\ call[t].step = "ctl"
        /\ \/ /\ ~Refused(f, m) /\ OperateEpoll(f, m) /\ Step(t, "store")
              /\ UNCHANGED <<mutex, active, count, trouble, stopped, late, budget>>
           \/ /\ IF Refused(f, m) THEN UNCHANGED budget ELSE Spend("faults")
              /\ trouble' = trouble \union {f}
              /\ Finish(t, FALSE)
              /\ UNCHANGED epoll
        /\ UNCHANGED <<list, events, slot, size, loop, world>>

StoreMask(t) ==
    /\ call[t].step = "store"
    /\ slot' = [slot EXCEPT ![Head(call[t].fds)] = call[t].mask]
    /\ Finish(t, TRUE)
    /\ UNCHANGED <<list, events, size, epoll, loop, world, trouble, budget>>

(* ~IOEventHandler of a linked handler: it unlinks itself, without the     *)
(* mutex and without telling the reactor.  Another is constructed in its   *)
(* place.                                                                  *)
Destroy(h) ==
    LET f == FdOf[h]
    IN  /\ ~Busy(h) /\ Linked(h) /\ Spend("faults")
        /\ list' = RemoveNode(h)
        /\ active' = [active EXCEPT ![h] = FALSE]
        /\ \E m \in Masks : events' = [events EXCEPT ![h] = m]
        /\ stopped' = stopped \union {h}
        /\ trouble' = trouble \union Overlap(None, f)
        /\ UNCHANGED <<slot, size, count, epoll, mutex, call, loop, world, late>>

(* The application closes a descriptor none of whose handlers is linked,   *)
(* and its number comes back from the next open: epoll forgets it.         *)
CloseAndReopen(f) ==
    /\ list[f] = <<>> /\ Syncing(None, f) = {} /\ kernel[f] # Unregistered
    /\ kernel' = [kernel EXCEPT ![f] = Unregistered]
    /\ ready' = [ready EXCEPT ![f] = {}]
    /\ trouble' = IF f \in interest THEN trouble \union {f} ELSE trouble
    /\ UNCHANGED <<objects, interest, mutex, call, loop, flags, timeout, stopped, late, budget>>

-----------------------------------------------------------------------------
(* Run.                                                                    *)
At(pc) == loop.pc = pc
Goto(pc) == loop' = [loop EXCEPT !.pc = pc]

Run ==
    /\ At("out") /\ flags.ready /\ Goto("top")
    /\ UNCHANGED <<objects, epoll, mutex, call, world, ghosts, budget>>

LoopTop ==
    /\ At("top")
    /\ \/ ~flags.ready /\ Goto("out")
       \/ flags.ready /\ flags.enabled
          /\ Goto(IF timeout = "infinite" THEN "lock" ELSE "poll")
    /\ UNCHANGED <<objects, epoll, mutex, call, world, ghosts, budget>>

\* With an infinite timeout the mutex is held over the poll.
LockToPoll ==
    /\ At("lock") /\ mutex = {}
    /\ \/ count = 0 /\ Goto("top") /\ UNCHANGED mutex
       \/ count # 0 /\ Goto("poll") /\ mutex' = {Loop}
    /\ UNCHANGED <<objects, epoll, call, world, ghosts, budget>>

ReadyFds == {f \in Fds : Reported(f) # {}}

Polling ==
    /\ At("poll")
    /\ \/ /\ ReadyFds # {}
          /\ loop' = [loop EXCEPT !.pc = "handle",
                          !.got = {<<f, Epoll2Reactor(Reported(f))>> : f \in ReadyFds}]
       \/ ReadyFds = {} /\ timeout = "finite" /\ Goto("top")
    /\ mutex' = mutex \ {Loop}
    /\ UNCHANGED <<objects, epoll, call, world, ghosts, budget>>

PollFails ==
    /\ At("poll") /\ Spend("faults")
    /\ Goto("top") /\ mutex' = mutex \ {Loop}
    /\ UNCHANGED <<objects, epoll, call, world, ghosts>>

Collect(f, e) ==
    Kept(list[f], {h \in Handlers : active[h] /\ events[h] \intersect e # {}})

\* HandleAll goes on, or Run with its next round.
Handle(got, tasks) ==
    loop' = [pc |-> IF got = {} /\ tasks = <<>> THEN "top" ELSE "handle",
             got |-> got, tasks |-> tasks]

HandleEvents ==
    /\ At("handle") /\ loop.tasks = <<>> /\ mutex = {}
    /\ \E g \in loop.got :
           Handle(loop.got \ {g}, IF slot[g[1]] \intersect g[2] = {} THEN <<>>
                                  ELSE Collect(g[1], g[2]))
    /\ UNCHANGED <<objects, epoll, mutex, call, world, ghosts, budget>>

RestStays(q) == q
Rest(q) == Tail(q)

\* A callback reads or writes until nothing is left to do on its descriptor.
Execute ==
    /\ At("handle") /\ loop.tasks # <<>>
    /\ LET h == Head(loop.tasks)
       IN  /\ late' = IF h \in stopped THEN [late EXCEPT ![h] = @ + 1] ELSE late
           /\ ready' = [ready EXCEPT ![FdOf[h]] = {}]
    /\ Handle(loop.got, Rest(loop.tasks))
    /\ UNCHANGED <<objects, epoll, mutex, call, flags, timeout, trouble, stopped, budget>>

(* EnableHandling, DisableHandling, Terminate and SetUp: atomic stores.    *)
Control ==
    /\ Spend("calls")
    /\ \E f \in [ready : BOOLEAN, enabled : BOOLEAN] :
           /\ (f.ready = flags.ready) # (f.enabled = flags.enabled)
           /\ flags' = f
    /\ UNCHANGED <<objects, epoll, mutex, call, loop, timeout, ready, ghosts>>

Arrive ==
    /\ Spend("arrivals")
    /\ \E f \in {FdOf[h] : h \in Handlers}, c \in Conditions :
           ready' = [ready EXCEPT ![f] = @ \union {c}]
    /\ UNCHANGED <<objects, epoll, mutex, call, loop, flags, timeout, ghosts>>

-----------------------------------------------------------------------------
Locked(t) == AddHandler(t) \/ RemoveHandler(t) \/ LockToClean(t)
Inside(t) == ComputeMask(t) \/ ModifyEvents(t) \/ StoreMask(t) \/ DoClean(t) \/ CleanDone(t)
LoopStep  == Run \/ LoopTop \/ LockToPoll \/ Polling \/ HandleEvents \/ Execute

Next ==
    \/ \E t \in Apps : \/ \E h \in Handlers : Start(t, h) \/ Update(t, h) \/ Stop(t, h)
                       \/ Clean(t) \/ Locked(t) \/ Inside(t)
    \/ \E h \in Handlers : Destroy(h) \/ CloseAndReopen(FdOf[h])
    \/ LoopStep \/ PollFails \/ Control \/ Arrive

Spec == Init /\ [][Next]_vars

\* Threads run; one that wants the mutex gets it if it is free again and again.
FairSpec ==
    /\ Spec
    /\ WF_vars(LoopStep)
    /\ \A t \in Apps : SF_vars(Locked(t)) /\ WF_vars(Inside(t))

-----------------------------------------------------------------------------
(* A handler that Start or Update reported as started is registered with   *)
(* epoll for all its events: neither the shortcut of AddHandler for events *)
(* the slot has already, nor the removal of a neighbour on the same        *)
(* descriptor, leaves it out, and its slot exists.  Four things end this   *)
(* for a descriptor: an epoll_ctl that failed, an UpdateHandler that       *)
(* overlapped another call, a close while interestFds_ still named it, and *)
(* a Clean before the table reached it.                                    *)
Registered ==
    \A h \in Handlers :
        LET f == FdOf[h]
        IN  Linked(h) /\ active[h] /\ ~Busy(h) /\ f \notin trouble =>
                /\ f < size
                /\ events[h] \subseteq slot[f]
                /\ events[h] # {} => kernel[f] # Unregistered /\ Reactor2Epoll(events[h]) \subseteq kernel[f]

(* After Stop has returned, or the handler is gone, its callback runs at   *)
(* most once more: the copy that HandleEvents took before.                 *)
LateOnce == \A h \in Handlers : late[h] <= 1

Wanted(h) ==
    LET e == ready[FdOf[h]] \intersect (Reactor2Epoll(events[h]) \union {"HUP", "ERR"})
    IN  Epoll2Reactor(e) \intersect events[h] # {}

Due(h) ==
    /\ flags.ready /\ flags.enabled /\ ~At("out") /\ trouble = {}
    /\ Linked(h) /\ active[h] /\ ~Busy(h) /\ Wanted(h)

(* While the loop runs and is enabled, a condition a started handler asked *)
(* for is dealt with, whatever other handlers come and go on the           *)
(* descriptor, with either timeout.                                        *)
CallbacksDue == \A h \in Handlers : Due(h) ~> ~Due(h)

\* The loop sleeps in epoll with the mutex and there is nothing to wake it.
Asleep == At("poll") /\ timeout = "infinite" /\ ReadyFds = {}

(* A call that waits for the mutex gets it, unless the loop sleeps in an   *)
(* infinite poll: nothing else, no error path of another call either,      *)
(* keeps the mutex for good.                                               *)
CallsReturn == \A t \in Apps : call[t].step = "lock" ~> (call[t].step # "lock" \/ Asleep)
=============================================================================
