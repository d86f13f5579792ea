-------------------------------- MODULE Thread --------------------------------
(***************************************************************************)
(* Thread (base/src/thread_ex.cpp): an object that runs Run() in a loop in *)
(* a detached child thread, and the callers that start it and notify it to *)
(* exit.  Each critical section under lock_ is one action.  A child is     *)
(* numbered by the Start that created it, because one may still be on its  *)
(* way out when the next one is started.                                   *)
(***************************************************************************)
EXTENDS Integers, FiniteSets

CONSTANTS Callers,
          MaxStarts     \* bound: successful calls of Start

ThreadValues == MaxStarts \in Nat

VARIABLES running, exitPending, status,
          thread,     \* thread_: the child's number, 0 is INVALID_PTHREAD_T
          child,      \* child -> where it is in ThreadStart
          result,     \* child -> what Run() returned
          caller,     \* caller -> "idle", or waiting in NotifyExitSync
          answer,     \* caller -> what its last NotifyExitSync returned
          refused     \* a child got WOULD_BLOCK from NotifyExitSync

vars == <<running, exitPending, status, thread, child, result, caller, answer, refused>>

Children == 1..MaxStarts
Created == Cardinality({k \in Children : child[k] # "none"})

Init ==
    /\ running = FALSE /\ exitPending = FALSE /\ status = "OK" /\ thread = 0
    /\ child = [k \in Children |-> "none"]
    /\ result = [k \in Children |-> FALSE]
    /\ caller = [c \in Callers |-> "idle"]
    /\ answer = [c \in Callers |-> "none"] /\ refused = FALSE

-----------------------------------------------------------------------------
(* Thread::Start: refused while running; pthread_create may fail.          *)
NotStartedAlways == TRUE
NotStarted == ~running

Start(c) ==
    /\ caller[c] = "idle" /\ NotStarted /\ Created < MaxStarts
    /\ status' = "OK" /\ exitPending' = FALSE /\ running' = TRUE
    /\ thread' = Created + 1
    /\ child' = [child EXCEPT ![Created + 1] = "first"]
    /\ UNCHANGED <<result, caller, answer, refused>>

StartFails(c) ==
    /\ caller[c] = "idle" /\ NotStarted
    /\ status' = "UNKNOWN_ERROR" /\ exitPending' = FALSE /\ running' = FALSE
    /\ thread' = 0
    /\ UNCHANGED <<child, result, caller, answer, refused>>

(* Thread::NotifyExitSync from another thread.                             *)
Return(c) ==
    /\ exitPending' = FALSE
    /\ caller' = [caller EXCEPT ![c] = "idle"]
    /\ answer' = [answer EXCEPT ![c] = status]

ExitedOnWakeup == TRUE
Exited == ~running

NotifyExitSync(c) ==
    /\ caller[c] = "idle"
    /\ IF running
       THEN exitPending' = TRUE /\ caller' = [caller EXCEPT ![c] = "asleep"] /\ UNCHANGED answer
       ELSE Return(c)
    /\ UNCHANGED <<running, status, thread, child, result, refused>>

SyncWakes(c) ==
    /\ caller[c] = "awake"
    /\ IF Exited
       THEN Return(c)
       ELSE caller' = [caller EXCEPT ![c] = "asleep"] /\ UNCHANGED <<exitPending, answer>>
    /\ UNCHANGED <<running, status, thread, child, result, refused>>

SpuriousWakeup(c) ==
    /\ caller[c] = "asleep"
    /\ caller' = [caller EXCEPT ![c] = "awake"]
    /\ UNCHANGED <<running, exitPending, status, thread, child, result, answer, refused>>

(* Thread::NotifyExitAsync.                                                *)
NotifyExitAsync(c) ==
    /\ caller[c] = "idle" /\ ~exitPending
    /\ exitPending' = TRUE
    /\ UNCHANGED <<running, status, thread, child, result, caller, answer, refused>>

-----------------------------------------------------------------------------
(* Thread::ThreadStart: the first round asks ReadyToWork and IsExitPending *)
(* before Run; a round that does not run counts as Run returning false.    *)
FirstRound(k) ==
    /\ child[k] = "first"
    /\ \E ready \in BOOLEAN :
          child' = [child EXCEPT ![k] = IF ready /\ ~exitPending THEN "run" ELSE "end"]
    /\ result' = [result EXCEPT ![k] = FALSE]
    /\ UNCHANGED <<running, exitPending, status, thread, caller, answer, refused>>

(* NotifyExitSync called inside Run(): thread_, read without lock_, is     *)
(* compared with the caller.  A child that does not recognise itself would *)
(* sleep for ever.                                                         *)
SelfNotifyExitSync(k) ==
    /\ child[k] = "run"
    /\ IF thread = k
       THEN refused' = TRUE /\ UNCHANGED child
       ELSE child' = [child EXCEPT ![k] = "stuck"] /\ UNCHANGED refused
    /\ UNCHANGED <<running, exitPending, status, thread, result, caller, answer>>

RunReturns(k) ==
    /\ child[k] = "run"
    /\ \E b \in BOOLEAN : result' = [result EXCEPT ![k] = b]
    /\ child' = [child EXCEPT ![k] = "end"]
    /\ UNCHANGED <<running, exitPending, status, thread, caller, answer, refused>>

\* The end of a round, under lock_: leave, or go round again.
MustLeave(k) == ~result[k] \/ exitPending

WokenNone(state) == state
Woken(state) == IF state = "asleep" THEN "awake" ELSE state

RoundEnds(k) ==
    /\ child[k] = "end"
    /\ IF MustLeave(k)
       THEN /\ exitPending' = TRUE /\ running' = FALSE /\ thread' = 0
            /\ caller' = [c \in Callers |-> Woken(caller[c])]
            /\ child' = [child EXCEPT ![k] = "left"]
       ELSE /\ child' = [child EXCEPT ![k] = "run"]
            /\ UNCHANGED <<exitPending, running, thread, caller>>
    /\ UNCHANGED <<status, result, answer, refused>>

-----------------------------------------------------------------------------
Child(k) == FirstRound(k) \/ RunReturns(k) \/ RoundEnds(k)

Next ==
    \/ \E c \in Callers : \/ Start(c) \/ StartFails(c)
                          \/ NotifyExitSync(c) \/ SyncWakes(c) \/ SpuriousWakeup(c)
                          \/ NotifyExitAsync(c)
    \/ \E k \in Children : Child(k) \/ SelfNotifyExitSync(k)

\* The child runs and Run() returns; a woken caller gets the lock.
Fairness ==
    /\ \A k \in Children : WF_vars(Child(k))
    /\ \A c \in Callers : WF_vars(SyncWakes(c))

Spec     == Init /\ [][Next]_vars
FairSpec == Spec /\ Fairness

-----------------------------------------------------------------------------
Live == {k \in Children : child[k] \in {"first", "run", "end"}}

(* At most one child executes Run(), and running_ and thread_ tell which:  *)
(* a new one is started only after the old one has left its last round.    *)
(* A child that calls NotifyExitSync on itself is therefore recognised,    *)
(* after any number of restarts, and never sleeps on its own exit.         *)
OneChild ==
    /\ Live = IF running THEN {thread} ELSE {}
    /\ \A k \in Children : child[k] # "stuck"

(* thread_ex.h:80-84: a NotifyExitSync that had to wait returns only when  *)
(* no child is running any more.                                           *)
SyncMeansExited ==
    [][\A c \in Callers : caller[c] = "awake" /\ caller'[c] = "idle" => Live = {}]_vars

(* thread_ex.h:83-84: the caller of NotifyExitSync is "blocked until this  *)
(* Thread object exits": once the child is told, the caller comes back,    *)
(* unless a new Start comes before it has woken up.  That one takes back   *)
(* exitPending_ and sets running_ again, and the caller then waits for a   *)
(* child that was not told to exit.                                        *)
SyncReturns ==
    \A c \in Callers, n \in Children :
        (caller[c] = "asleep" /\ exitPending /\ Created = n) ~>
            (caller[c] = "idle" \/ Created > n)
=============================================================================
