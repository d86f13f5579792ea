------------------------ MODULE SafeBlockQueueTracking ------------------------
(***************************************************************************)
(* SafeBlockQueueTracking (base/include/safe_block_queue.h): the queue and *)
(* a count of unfinished tasks, for Join to wait on.  The count is atomic, *)
(* but Push raises it before it takes the mutex, while OneTaskDone loads   *)
(* and stores it in two steps under the mutex; holder is the thread        *)
(* between those two steps.                                                *)
(***************************************************************************)
EXTENDS SafeBlockQueue

VARIABLES unfinishedTaskCount,
          holder,      \* the consumers inside OneTaskDone, at most one
          unfinished,  \* the local variable of OneTaskDone
          join,        \* "idle", "join" contending, "asleep" or "joined"
          raced        \* a Push raised the count inside OneTaskDone

trackVars == <<queueVars, unfinishedTaskCount, holder, unfinished, join, raced>>

Free == holder = {}

InitTracking ==
    /\ InitQueue
    /\ unfinishedTaskCount = 0 /\ holder = {} /\ unfinished = 0 /\ join = "idle"
    /\ raced = FALSE

Same == UNCHANGED <<holder, unfinished, join, raced>>

(* Push: the count goes up before the mutex is taken.                      *)
TrackPush(p) ==
    /\ Push(p)
    /\ unfinishedTaskCount' = unfinishedTaskCount + 1
    /\ raced' = (raced \/ ~Free)
    /\ UNCHANGED <<holder, unfinished, join>>

TrackPushLocked(p) ==
    /\ Free /\ (PushWait(p) \/ PushInsert(p))
    /\ UNCHANGED unfinishedTaskCount /\ Same

(* PushNoWait: under the mutex.                                            *)
TrackPushNoWait(p) ==
    /\ Free /\ PushNoWait(p)
    /\ unfinishedTaskCount' = unfinishedTaskCount + 1
    /\ Same

TrackPop(c) ==
    /\ \/ Pop(c)
       \/ Free /\ (PopWait(c) \/ PopRemove(c) \/ PopNotWait(c))
    /\ UNCHANGED unfinishedTaskCount /\ Same

TrackWakeup(t) ==
    /\ SpuriousWakeup(t)
    /\ UNCHANGED unfinishedTaskCount /\ Same

(* OneTaskDone: load, then notify_all and store; too many calls change     *)
(* nothing.                                                                *)
DoneLoad(c) ==
    /\ Free /\ pc[c] = "work"
    /\ holder' = {c}
    /\ unfinished' = unfinishedTaskCount - 1
    /\ UNCHANGED <<queueVars, unfinishedTaskCount, join, raced>>

StoreQuietly(n) ==
    /\ unfinishedTaskCount' = IF n < 0 THEN unfinishedTaskCount ELSE n
    /\ UNCHANGED join
Store(n) ==
    /\ unfinishedTaskCount' = IF n < 0 THEN unfinishedTaskCount ELSE n
    /\ join' = IF n = 0 /\ join = "asleep" THEN "join" ELSE join

DoneStore(c) ==
    /\ holder = {c}
    /\ Store(unfinished)
    /\ Finish(c)
    /\ holder' = {} /\ unfinished' = 0
    /\ UNCHANGED raced

(* Join.                                                                   *)
DoneOnWakeup == TRUE
AllDone == unfinishedTaskCount = 0

Join ==
    /\ join \in {"idle", "joined"} /\ join' = "join"
    /\ UNCHANGED <<queueVars, unfinishedTaskCount, holder, unfinished, raced>>

JoinCheck ==
    /\ join = "join" /\ Free
    /\ join' = IF AllDone THEN "joined" ELSE "asleep"
    /\ UNCHANGED <<queueVars, unfinishedTaskCount, holder, unfinished, raced>>

JoinSpurious ==
    /\ join = "asleep" /\ join' = "join"
    /\ UNCHANGED <<queueVars, unfinishedTaskCount, holder, unfinished, raced>>

TrackNext ==
    \/ \E p \in Producers : TrackPush(p) \/ TrackPushLocked(p) \/ TrackPushNoWait(p)
    \/ \E c \in Consumers : TrackPop(c) \/ DoneLoad(c) \/ DoneStore(c)
    \/ \E t \in Threads : TrackWakeup(t)
    \/ Join \/ JoinCheck \/ JoinSpurious

TrackSpec == InitTracking /\ [][TrackNext]_trackVars

\* Threads that are inside a call go on; consumers come back and finish tasks.
TrackFairness ==
    /\ \A p \in Producers : WF_trackVars(TrackPushLocked(p))
    /\ \A c \in Consumers : WF_trackVars(TrackPop(c)) /\ SF_trackVars(DoneLoad(c))
                            /\ WF_trackVars(DoneStore(c))
    /\ WF_trackVars(JoinCheck)

FairTrackSpec == TrackSpec /\ TrackFairness

-----------------------------------------------------------------------------
\* No accepted task is queued or being worked on.
NothingLeft == queueT = <<>> /\ In(Consumers, "work") = {}

(* safe_block_queue.h:255-258: Join returns only when nothing is left ("If *)
(* there is any task not completed, the current thread will be blocked     *)
(* even if it is just woken up").                                          *)
JoinBlocksOnAny == [][join = "join" /\ join' = "joined" => NothingLeft]_trackVars

(* Join keeps that promise unless a Push has raised the count between the  *)
(* load and the store of a OneTaskDone: no other order of calls breaks it. *)
JoinWaitsForAll == [][join = "join" /\ join' = "joined" /\ ~raced => NothingLeft]_trackVars

(* Nobody waits for ever: a producer blocked in Push gets its element in,  *)
(* and once producers have no more tasks a Join in progress returns, as    *)
(* the OneTaskDone that brings the count to 0 notifies                     *)
(* (safe_block_queue.h:247).                                               *)
WaitersReturn ==
    /\ PushCompletes
    /\ join = "join" ~> (join = "joined" \/ \E p \in Producers : sent[p] < MaxItems)
=============================================================================
