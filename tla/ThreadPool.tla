------------------------------ MODULE ThreadPool ------------------------------
(***************************************************************************)
(* ThreadPool (base/src/thread_pool.cpp): workers that take tasks from a   *)
(* bounded deque, producers that add them, an owner that starts and stops  *)
(* the pool.                                                               *)
(*                                                                         *)
(* A critical section under mutex_ is one action; running_ and threads_    *)
(* are also read without it.  Workers sleep on hasTaskToDo_ ("asleep"),    *)
(* producers on acceptNewTask_ ("blocked").                                *)
(***************************************************************************)
EXTENDS Integers, Sequences, FiniteSets, Functions

CONSTANTS Workers, Producers,
          Limits,      \* values SetMaxTaskNum is called with; 0 is no limit
          MaxTasks     \* bound: tasks each producer adds

PoolValues ==
    /\ Limits \subseteq Nat /\ Limits # {}
    /\ MaxTasks \in Nat
    /\ Workers \intersect Producers = {}

VARIABLES running, started, maxTaskNum, tasks,
          pc,       \* worker or producer -> where it is
          cur,      \* worker -> task it runs
          added,    \* producer -> number of tasks it handed over
          done,     \* tasks in the order they were completed
          owner     \* "idle", "joining" inside Stop, "stopped"

vars == <<running, started, maxTaskNum, tasks, pc, cur, added, done, owner>>

In(S, state) == {t \in S : pc[t] = state}
NoTask == <<>>

Init ==
    /\ running = FALSE /\ started = FALSE /\ maxTaskNum = 0 /\ tasks = <<>>
    /\ pc = [t \in Workers \union Producers |-> IF t \in Workers THEN "none" ELSE "idle"]
    /\ cur = [w \in Workers |-> NoTask]
    /\ added = [p \in Producers |-> 0]
    /\ done = <<>> /\ owner = "idle"

WakeNone(t, next, S, asleep, awake) == pc' = [pc EXCEPT ![t] = next]

\* t goes on as `next' and notifies one thread that is `asleep'.
WakeOne(t, next, S, asleep, awake) ==
    \/ In(S, asleep) = {} /\ pc' = [pc EXCEPT ![t] = next]
    \/ \E u \in In(S, asleep) : pc' = [pc EXCEPT ![t] = next, ![u] = awake]

-----------------------------------------------------------------------------
(* ThreadPool::Start; a second call is refused, threads_ is never emptied. *)
Start ==
    /\ ~started /\ owner = "idle"
    /\ started' = TRUE /\ running' = TRUE
    /\ pc' = [t \in DOMAIN pc |-> IF t \in Workers THEN "check" ELSE pc[t]]
    /\ UNCHANGED <<maxTaskNum, tasks, cur, added, done, owner>>

(* ThreadPool::SetMaxTaskNum, at any time: it takes no lock and notifies   *)
(* nobody.                                                                 *)
SetMaxTaskNum(n) ==
    /\ maxTaskNum # n
    /\ maxTaskNum' = n
    /\ UNCHANGED <<running, started, tasks, pc, cur, added, done, owner>>

(* ThreadPool::Stop: tell the workers, then join each of them.             *)
NotWokenByStop(state) == state
WokenByStop(state) == IF state = "asleep" THEN "sched" ELSE state

Stop ==
    /\ started /\ owner = "idle"
    /\ running' = FALSE
    /\ pc' = [t \in DOMAIN pc |-> WokenByStop(pc[t])]
    /\ owner' = "joining"
    /\ UNCHANGED <<started, maxTaskNum, tasks, cur, added, done>>

Joined ==
    /\ owner = "joining" /\ In(Workers, "exited") = Workers
    /\ owner' = "stopped"
    /\ UNCHANGED <<running, started, maxTaskNum, tasks, pc, cur, added, done>>

-----------------------------------------------------------------------------
(* ThreadPool::AddTask: run in place before Start, else queue it.          *)
AddTask(p) ==
    /\ pc[p] = "idle" /\ added[p] < MaxTasks /\ owner = "idle"
    /\ IF started
       THEN pc' = [pc EXCEPT ![p] = "add"] /\ UNCHANGED <<added, done>>
       ELSE /\ done' = Append(done, <<p, added[p] + 1>>)
            /\ added' = [added EXCEPT ![p] = @ + 1]
            /\ UNCHANGED pc
    /\ UNCHANGED <<running, started, maxTaskNum, tasks, cur, owner>>

Overloaded == maxTaskNum > 0 /\ Len(tasks) >= maxTaskNum

AddWait(p) ==
    /\ pc[p] = "add" /\ Overloaded
    /\ pc' = [pc EXCEPT ![p] = "blocked"]
    /\ UNCHANGED <<running, started, maxTaskNum, tasks, cur, added, done, owner>>

AddQueue(p) ==
    /\ pc[p] = "add" /\ ~Overloaded
    /\ tasks' = Append(tasks, <<p, added[p] + 1>>)
    /\ added' = [added EXCEPT ![p] = @ + 1]
    /\ WakeOne(p, "idle", Workers, "asleep", "sched")
    /\ UNCHANGED <<running, started, maxTaskNum, cur, done, owner>>

-----------------------------------------------------------------------------
(* ThreadPool::WorkInThread: while (running_), read without the mutex.     *)
WorkCheck(w) ==
    /\ pc[w] = "check"
    /\ pc' = [pc EXCEPT ![w] = IF running THEN "sched" ELSE "exited"]
    /\ UNCHANGED <<running, started, maxTaskNum, tasks, cur, added, done, owner>>

(* ThreadPool::ScheduleTask.                                               *)
ScheduleWait(w) ==
    /\ pc[w] = "sched" /\ tasks = <<>> /\ running
    /\ pc' = [pc EXCEPT ![w] = "asleep"]
    /\ UNCHANGED <<running, started, maxTaskNum, tasks, cur, added, done, owner>>

\* tasks_.pop_front()
FirstKept(q) == q
WithoutFirst(q) == Tail(q)

ScheduleTake(w) ==
    /\ pc[w] = "sched" /\ tasks # <<>>
    /\ tasks' = WithoutFirst(tasks)
    /\ cur' = [cur EXCEPT ![w] = Head(tasks)]
    /\ IF maxTaskNum > 0
       THEN WakeOne(w, "run", Producers, "blocked", "add")
       ELSE pc' = [pc EXCEPT ![w] = "run"]
    /\ UNCHANGED <<running, started, maxTaskNum, added, done, owner>>

ScheduleNone(w) ==
    /\ pc[w] = "sched" /\ tasks = <<>> /\ ~running
    /\ pc' = [pc EXCEPT ![w] = "check"]
    /\ UNCHANGED <<running, started, maxTaskNum, tasks, cur, added, done, owner>>

RunTask(w) ==
    /\ pc[w] = "run"
    /\ done' = Append(done, cur[w])
    /\ cur' = [cur EXCEPT ![w] = NoTask]
    /\ pc' = [pc EXCEPT ![w] = "check"]
    /\ UNCHANGED <<running, started, maxTaskNum, tasks, added, owner>>

SpuriousWakeup(t) ==
    /\ pc[t] \in {"asleep", "blocked"}
    /\ pc' = [pc EXCEPT ![t] = IF pc[t] = "asleep" THEN "sched" ELSE "add"]
    /\ UNCHANGED <<running, started, maxTaskNum, tasks, cur, added, done, owner>>

Work(w) == WorkCheck(w) \/ ScheduleWait(w) \/ ScheduleTake(w) \/ ScheduleNone(w) \/ RunTask(w)

Next ==
    \/ Start \/ Stop \/ Joined
    \/ \E n \in Limits : SetMaxTaskNum(n)
    \/ \E p \in Producers : AddTask(p) \/ AddWait(p) \/ AddQueue(p)
    \/ \E w \in Workers : Work(w)
    \/ \E t \in DOMAIN pc : SpuriousWakeup(t)

\* Threads of the pool and threads inside AddTask run on; tasks terminate;
\* the owner starts the pool.  No fairness for spurious wakeups.
Fairness ==
    /\ \A w \in Workers : WF_vars(Work(w))
    /\ \A p \in Producers : WF_vars(AddWait(p) \/ AddQueue(p))
    /\ WF_vars(Joined)

Spec     == Init /\ [][Next]_vars
FairSpec == Spec /\ Fairness

-----------------------------------------------------------------------------
\* Tasks handed over, and where they are.
Accepted == UNION {{<<p, i>> : i \in 1..added[p]} : p \in Producers}
Running  == {cur[w] : w \in Workers} \ {NoTask}

(* Every accepted task is in exactly one place: queued, being run by one   *)
(* worker, or completed once, also while the pool stops.                   *)
EachTaskOnce ==
    /\ Accepted = Range(tasks) \union Running \union Range(done)
    /\ Cardinality(Accepted) =
          Len(tasks) + Cardinality(In(Workers, "run")) + Len(done)

(* A task that AddTask accepted is run, and AddTask itself returns though  *)
(* the queue was full and SetMaxTaskNum raises and lowers the limit, with  *)
(* two exceptions: the owner stops the pool (Stop leaves the queued tasks, *)
(* and whoever waits for room, behind), or the limit is taken away while   *)
(* the call waits (ScheduleTask then notifies no producer any more).       *)
TasksRun == \A p \in Producers :
    pc[p] = "add" ~> \/ pc[p] = "idle" /\ Accepted \subseteq Range(done)
                     \/ owner # "idle"
                     \/ pc[p] = "blocked" /\ maxTaskNum = 0

(* Stop returns: every worker notices running_ and can be joined.          *)
StopReturns == owner = "joining" ~> owner = "stopped"
=============================================================================
