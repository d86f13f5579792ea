------------------------------- MODULE Observer -------------------------------
(***************************************************************************)
(* Observable and its observers (base/src/observer.cpp).                   *)
(*                                                                         *)
(* A subject changes its data, calls SetChanged() and NotifyObservers();   *)
(* an observer's Update reads the data.  SetChanged takes no lock, so      *)
(* NotifyObservers is cut where it may come between.  version stands for   *)
(* the subject's data.                                                     *)
(***************************************************************************)
EXTENDS Naturals

CONSTANTS Subjects,     \* threads that change the data and notify
          Observers,
          MaxVersion    \* bound: changes of the data

VARIABLES obs,       \* obs
          changed,   \* changed_
          holder,    \* who holds mutex_
          version,   \* the subject's data
          seen,      \* observer -> the data its last Update read
          pc,        \* subject -> where it is
          arrLocal   \* subject -> observers it still has to update

vars == <<obs, changed, holder, version, seen, pc, arrLocal>>
None == "none"

Init ==
    /\ obs \in SUBSET Observers /\ changed = FALSE /\ holder = None
    /\ version = 0 /\ seen = [o \in Observers |-> 0]
    /\ pc = [t \in Subjects |-> "idle"] /\ arrLocal = [t \in Subjects |-> {}]

-----------------------------------------------------------------------------
\* NotifyObservers: the copy is taken and the flag cleared before any Update.
LateOrder == <<"test", "update", "clear">>
Order == <<"test", "clear", "update">>
After(step) == IF step = Order[1] THEN Order[2] ELSE IF step = Order[2] THEN Order[3] ELSE "idle"

Goto(t, step) == pc' = [pc EXCEPT ![t] = step]

\* The subject's own code.
Change(t) ==
    /\ pc[t] = "idle" /\ version < MaxVersion
    /\ version' = version + 1 /\ Goto(t, "set")
    /\ UNCHANGED <<obs, changed, holder, seen, arrLocal>>

SetChanged(t) ==
    /\ pc[t] = "set"
    /\ changed' = TRUE /\ Goto(t, "test")
    /\ UNCHANGED <<obs, holder, version, seen, arrLocal>>

\* Takes the mutex and reads changed_.
Test(t) ==
    /\ pc[t] = "test" /\ holder = None
    /\ \/ ~changed /\ Goto(t, "idle") /\ UNCHANGED <<holder, arrLocal>>
       \/ changed /\ holder' = t /\ arrLocal' = [arrLocal EXCEPT ![t] = obs] /\ Goto(t, After("test"))
    /\ UNCHANGED <<obs, changed, version, seen>>

\* ClearChanged, and the mutex is free again.
ClearChanged(t) ==
    /\ pc[t] = "clear"
    /\ changed' = FALSE /\ holder' = None /\ Goto(t, After("clear"))
    /\ UNCHANGED <<obs, version, seen, arrLocal>>

\* std::set orders the observers by address: any order.
Update(t) ==
    /\ pc[t] = "update"
    /\ \/ /\ arrLocal[t] = {} /\ Goto(t, After("update")) /\ UNCHANGED <<seen, arrLocal>>
       \/ \E o \in arrLocal[t] :
              /\ seen' = [seen EXCEPT ![o] = version]
              /\ arrLocal' = [arrLocal EXCEPT ![t] = @ \ {o}]
              /\ UNCHANGED pc
    /\ UNCHANGED <<obs, changed, holder, version>>

(* AddObserver, RemoveObserver and RemoveAllObservers, from any thread and *)
(* from an Update.  One who comes late reads the data itself.              *)
AddObserver(o) ==
    /\ holder = None /\ o \notin obs
    /\ obs' = obs \union {o} /\ seen' = [seen EXCEPT ![o] = version]
    /\ UNCHANGED <<changed, holder, version, pc, arrLocal>>

RemoveObserver(o) ==
    /\ holder = None /\ o \in obs /\ obs' = obs \ {o}
    /\ UNCHANGED <<changed, holder, version, seen, pc, arrLocal>>

RemoveAllObservers ==
    /\ holder = None /\ obs # {} /\ obs' = {}
    /\ UNCHANGED <<changed, holder, version, seen, pc, arrLocal>>

Step(t) == Change(t) \/ SetChanged(t) \/ Test(t) \/ ClearChanged(t) \/ Update(t)
Next ==
    \/ \E t \in Subjects : Step(t)
    \/ \E o \in Observers : AddObserver(o) \/ RemoveObserver(o)
    \/ RemoveAllObservers

-----------------------------------------------------------------------------
(* Once no subject is inside a call, every registered observer has read    *)
(* the last change: a subject that finds the flag cleared may return, as   *)
(* the Updates of whoever cleared it are still to come, even when its      *)
(* SetChanged fell between the other's test of the flag and ClearChanged   *)
(* (observer.cpp:72, observer.cpp:82).                                     *)
NoChangeMissed ==
    (\A t \in Subjects : pc[t] = "idle") => \A o \in obs : seen[o] = version
=============================================================================
