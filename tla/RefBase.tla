------------------------------- MODULE RefBase -------------------------------
(***************************************************************************)
(* Reference counting of one RefBase object: its RefCounter, the           *)
(* WeakRefCounters created for it, and the sptr / wptr handles through     *)
(* which threads own it (base/src/refbase.cpp, base/include/refbase.h).    *)
(*                                                                         *)
(* One action per access to shared memory.  A thread runs an operation as  *)
(* a stack todo[t] of steps still to take: a step pops itself and pushes   *)
(* the steps of the function it calls, which is how the nested calls       *)
(* DecStrongRef -> callback_ -> ~RefBase -> DecRefCount are interleaved    *)
(* with the other threads.  cur[t] is the local variable curCount.         *)
(***************************************************************************)
EXTENDS Integers, Sequences, FiniteSets

CONSTANTS
    Threads,        \* threads that own references
    Wrcs,           \* identities of WeakRefCounter objects
    MaxOps,         \* bound: operations that create a reference
    Lifetimes,      \* subset of BOOLEAN: may the owner call ExtendObjectLifetime
    CanPromote,     \* subset of BOOLEAN: what the virtual CanPromote() may return
    IpcThreads      \* threads that use AttemptAcquire/CheckIsAttemptAcquireSet

INITIAL_PRIMARY_VALUE == 268435456   \* 1 << 28

\* One thread uses the IPC calls, whose thread safety refbase.h:523-530 leaves
\* to the caller, and there are fewer references than the value that marks an
\* object nobody referenced yet.
ASSUME RefBaseConstants ==
    /\ IsFiniteSet(Threads) /\ IsFiniteSet(Wrcs)
    /\ MaxOps \in Nat /\ MaxOps + 1 < INITIAL_PRIMARY_VALUE
    /\ Lifetimes \subseteq BOOLEAN
    /\ CanPromote \subseteq BOOLEAN /\ CanPromote # {}
    /\ IpcThreads \subseteq Threads /\ \A t, u \in IpcThreads : t = u

VARIABLES
    atomicStrong, atomicWeak, atomicRefCount, atomicAttempt, extended,
    callback,       \* callback_ # nullptr
    object,         \* the RefBase object is allocated
    counter,        \* the RefCounter is allocated
    wrc,            \* WeakRefCounter -> [state, weak]
    raw,            \* {t}: thread t holds the pointer returned by new; {} later
    sptrs,          \* thread -> number of sptr it owns
    wptrs,          \* thread -> WeakRefCounter -> number of wptr it owns
    acquired,       \* strong references taken by AttemptAcquire/AttemptIncStrong
    todo, cur, tgt, \* stack of steps, curCount, WeakRefCounter operated on
    op,             \* which caller of AttemptIncStrongRef is running
    firstCalls,     \* calls of OnFirstStrongRef so far
    lastCalls,      \* calls of OnLastStrongRef so far
    ops

counts == <<atomicStrong, atomicWeak, atomicRefCount, atomicAttempt, extended>>
memory == <<callback, object, counter, wrc>>
owners == <<raw, sptrs, wptrs, acquired>>
hooks  == <<firstCalls, lastCalls>>
vars   == <<counts, memory, owners, todo, cur, tgt, op, hooks, ops>>

Steps == {"IncWeak", "IncStrongLoad", "IncStrongAdd", "SubInitial", "OnFirst",
          "GotSptr", "DecStrongLoad", "DecStrongSub", "OnLast", "CallCallback",
          "DtorRemove", "DtorCheck", "FreeObject", "DecRefLoad", "DecRefSub",
          "FreeCounter", "DecWeakLoad", "DecWeakSub", "LastWeak",
          "WrcNew", "WrcInc", "GotWptr", "WrcDec", "FreeWrc",
          "AttLoad", "AttReload", "AttLoop", "AttCanPromote", "AttAdd", "AttEnd",
          "TestPtr", "GetRefPtr", "SetAttempt", "DropOld",
          "AttSLoad", "AttSLoop", "CheckAttempt", "ClearAttempt"}

\* Steps that dereference the RefCounter, and steps that dereference the object.
CounterSteps == Steps \ {"OnFirst", "GotSptr", "OnLast", "FreeObject", "GotWptr",
                         "DropOld", "WrcInc", "WrcDec", "FreeWrc"}
ObjectSteps  == {"OnFirst", "OnLast", "DtorRemove", "DtorCheck", "FreeObject",
                 "AttCanPromote", "WrcNew"}
WrcSteps     == {"WrcInc", "WrcDec", "FreeWrc", "TestPtr", "GetRefPtr"}

\* The sum of f, as the number of pairs of an owner and one of its handles.
Total(f) == Cardinality(UNION {{x} \X (1..f[x]) : x \in DOMAIN f})
WptrsOn(w) == Total([t \in Threads |-> wptrs[t][w]])
LiveWrcs == {w \in Wrcs : wrc[w].state = "live"}
Quiescent == \A t \in Threads : todo[t] = <<>>

At(t, step)   == todo[t] # <<>> /\ Head(todo[t]) = step
Call(t, body) == todo' = [todo EXCEPT ![t] = body \o Tail(@)]
Begin(t, body) == todo[t] = <<>> /\ todo' = [todo EXCEPT ![t] = body]
SetCur(t, n)  == cur' = [cur EXCEPT ![t] = n]
Spend         == ops < MaxOps /\ ops' = ops + 1

-----------------------------------------------------------------------------
(* RefBase::RefBase: a new object, whose address only its creator has.     *)
Init ==
    /\ atomicStrong = INITIAL_PRIMARY_VALUE
    /\ atomicWeak = 0 /\ atomicRefCount = 1 /\ atomicAttempt = 0
    /\ extended = FALSE
    /\ callback = TRUE /\ object = TRUE /\ counter = TRUE
    /\ wrc = [w \in Wrcs |-> [state |-> "unused", weak |-> 0]]
    /\ \E t \in Threads : raw = {t}
    /\ sptrs = [t \in Threads |-> 0]
    /\ wptrs = [t \in Threads |-> [w \in Wrcs |-> 0]]
    /\ acquired = 0
    /\ todo = [t \in Threads |-> <<>>]
    /\ cur = [t \in Threads |-> 0]
    /\ \E w \in Wrcs : tgt = [t \in Threads |-> w]
    /\ op = [t \in Threads |-> "none"]
    /\ firstCalls = 0 /\ lastCalls = 0 /\ ops = 0

(* The owner extends the lifetime before it publishes the object.          *)
ExtendObjectLifetime(t) ==
    /\ TRUE \in Lifetimes /\ t \in raw /\ todo[t] = <<>> /\ ~extended
    /\ extended' = TRUE
    /\ UNCHANGED <<atomicStrong, atomicWeak, atomicRefCount, atomicAttempt, memory,
                   owners, todo, cur, tgt, op, hooks, ops>>

-----------------------------------------------------------------------------
(* The operations a thread may start.                                      *)

\* RefBase::IncStrongRef and DecStrongRef.
IncStrongRef == <<"IncWeak", "IncStrongLoad">>
DecStrongRef == <<"DecStrongLoad", "DecWeakLoad">>

(* sptr(T *other), sptr(const sptr&): IncStrongRef by a pointer that is   *)
(* kept valid by the creator or by an sptr of this thread.                 *)
CopySptr(t) ==
    /\ \/ t \in raw /\ UNCHANGED ops
       \/ sptrs[t] > 0 /\ Spend
    /\ Begin(t, IncStrongRef \o <<"GotSptr">>)
    /\ raw' = raw \ {t}
    /\ UNCHANGED <<counts, memory, sptrs, wptrs, acquired, cur, tgt, op, hooks>>

\* The documented use of the IPC calls (refbase.h:523-530): the thread that
\* acquired gives the bare reference back while it still has an sptr.
MayLetGo(t) == t \in IpcThreads => acquired = 0 \/ sptrs[t] > 1

(* sptr(sptr&&): ownership moves without touching the counter.             *)
MoveSptr(t, u) ==
    /\ t # u /\ sptrs[t] > 0 /\ MayLetGo(t) /\ todo[t] = <<>> /\ todo[u] = <<>>
    /\ sptrs' = [sptrs EXCEPT ![t] = @ - 1, ![u] = @ + 1]
    /\ UNCHANGED <<counts, memory, raw, wptrs, acquired, todo, cur, tgt, op, hooks, ops>>

(* ~sptr, sptr::clear.                                                     *)
DropSptr(t) ==
    /\ sptrs[t] > 0 /\ MayLetGo(t)
    /\ sptrs' = [sptrs EXCEPT ![t] = @ - 1]
    /\ Begin(t, DecStrongRef)
    /\ UNCHANGED <<counts, memory, raw, wptrs, acquired, cur, tgt, op, hooks, ops>>

\* operator=(const sptr&): the new reference comes before the old one goes,
\* as both may be the only one.
AssignedLast == DecStrongRef \o IncStrongRef \o <<"GotSptr">>
Assigned == IncStrongRef \o DecStrongRef \o <<"GotSptr">>

AssignSptr(t) ==
    /\ sptrs[t] > 0 /\ Spend
    /\ sptrs' = [sptrs EXCEPT ![t] = @ - 1]
    /\ Begin(t, Assigned)
    /\ UNCHANGED <<counts, memory, raw, wptrs, acquired, cur, tgt, op, hooks>>

(* sptr = wptr: what the sptr had goes first, and the object may go with   *)
(* it before it is asked for again.                                        *)
AssignSptrFromWptr(t, w) ==
    /\ wptrs[t][w] > 0 /\ Spend
    /\ \/ /\ sptrs[t] > 0 /\ MayLetGo(t)
          /\ sptrs' = [sptrs EXCEPT ![t] = @ - 1]
          /\ Begin(t, DecStrongRef \o <<"TestPtr">>)
       \/ Begin(t, <<"TestPtr">>) /\ UNCHANGED sptrs
    /\ tgt' = [tgt EXCEPT ![t] = w]
    /\ UNCHANGED <<counts, memory, raw, wptrs, acquired, cur, op, hooks>>

\* CreateWeakRef, then IncWeakRefCount on the new WeakRefCounter.
NewWptr == <<"WrcNew", "WrcInc", "GotWptr">>

\* operator= of a wptr of t: the old WeakRefCounter loses a wptr at the end.
Assigns(t, body) ==
    (\E w \in Wrcs : wptrs[t][w] > 0) /\ Begin(t, body \o <<"DropOld">>)

(* wptr(T *other), wptr(const sptr&), = : a new WeakRefCounter.            *)
MakeWptr(t, w) ==
    /\ (t \in raw /\ acquired = 0) \/ sptrs[t] > 0
    /\ wrc[w].state = "unused"
    /\ Spend
    /\ Begin(t, NewWptr) \/ Assigns(t, NewWptr)
    /\ wrc' = [wrc EXCEPT ![w].state = "live"]
    /\ tgt' = [tgt EXCEPT ![t] = w]
    /\ raw' = raw \ {t}
    /\ UNCHANGED <<counts, callback, object, counter, sptrs, wptrs, acquired, cur, op, hooks>>

(* wptr(const wptr&), = .                                                  *)
CopyWptr(t, w) ==
    /\ wptrs[t][w] > 0
    /\ Spend
    /\ LET body == <<"WrcInc", "GotWptr">> IN Begin(t, body) \/ Assigns(t, body)
    /\ tgt' = [tgt EXCEPT ![t] = w]
    /\ UNCHANGED <<counts, memory, owners, cur, op, hooks>>

(* The enclosing object of a wptr changes hands.                           *)
HandWptr(t, u, w) ==
    /\ t # u /\ wptrs[t][w] > 0 /\ todo[t] = <<>> /\ todo[u] = <<>>
    /\ wptrs' = [wptrs EXCEPT ![t][w] = @ - 1, ![u][w] = @ + 1]
    /\ UNCHANGED <<counts, memory, raw, sptrs, acquired, todo, cur, tgt, op, hooks, ops>>

(* ~wptr.                                                                  *)
DropWptr(t, w) ==
    /\ wptrs[t][w] > 0
    /\ wptrs' = [wptrs EXCEPT ![t][w] = @ - 1]
    /\ Begin(t, <<"WrcDec">>)
    /\ tgt' = [tgt EXCEPT ![t] = w]
    /\ UNCHANGED <<counts, memory, raw, sptrs, acquired, cur, op, hooks, ops>>

(* wptr::promote: sptr(WeakRefCounter*, bool).                             *)
Promote(t, w) ==
    /\ wptrs[t][w] > 0
    /\ Spend
    /\ Begin(t, <<"AttLoad">>)
    /\ tgt' = [tgt EXCEPT ![t] = w]
    /\ UNCHANGED <<counts, memory, owners, cur, op, hooks>>

(* RefBase::AttemptAcquire, on a new object or one an sptr keeps alive.    *)
AttemptAcquire(t) ==
    /\ t \in IpcThreads /\ (t \in raw \/ sptrs[t] > 0)
    /\ Spend
    /\ Begin(t, <<"AttLoad">>)
    /\ op' = [op EXCEPT ![t] = "acquire"]
    /\ UNCHANGED <<counts, memory, owners, cur, tgt, hooks>>

(* RefBase::AttemptIncStrong (IPC).                                        *)
AttemptIncStrong(t) ==
    /\ t \in IpcThreads /\ sptrs[t] > 0
    /\ Spend
    /\ Begin(t, <<"IncWeak", "AttSLoad">>)
    /\ UNCHANGED <<counts, memory, owners, cur, tgt, op, hooks>>

(* RefBase::CheckIsAttemptAcquireSet.                                      *)
CheckIsAttemptAcquireSet(t) ==
    /\ t \in IpcThreads /\ sptrs[t] > 0 /\ acquired > 0
    /\ Begin(t, <<"CheckAttempt">>)
    /\ UNCHANGED <<counts, memory, owners, cur, tgt, op, hooks, ops>>

-----------------------------------------------------------------------------
(* RefCounter::IncWeakRefCount.                                            *)
IncWeak(t) ==
    /\ At(t, "IncWeak")
    /\ atomicWeak' = atomicWeak + 1
    /\ Call(t, <<>>)
    /\ UNCHANGED <<atomicStrong, atomicRefCount, atomicAttempt, extended, memory,
                   owners, cur, tgt, op, hooks, ops>>

(* RefCounter::IncStrongRefCount.                                          *)
IncStrongLoad(t) ==
    /\ At(t, "IncStrongLoad")
    /\ SetCur(t, atomicStrong)
    /\ Call(t, IF atomicStrong >= 0 THEN <<"IncStrongAdd">> ELSE <<>>)
    /\ UNCHANGED <<counts, memory, owners, tgt, op, hooks, ops>>

\* curCount == INITIAL_PRIMARY_VALUE: normalise the count, report the first one.
AfterIncStrongReport(count) ==
    IF count = INITIAL_PRIMARY_VALUE THEN <<"SubInitial", "OnFirst">> ELSE <<"OnFirst">>
AfterIncStrong(count) ==
    IF count = INITIAL_PRIMARY_VALUE THEN <<"SubInitial", "OnFirst">> ELSE <<>>

IncStrongAdd(t) ==
    /\ At(t, "IncStrongAdd")
    /\ SetCur(t, atomicStrong)
    /\ atomicStrong' = atomicStrong + 1
    /\ Call(t, AfterIncStrong(atomicStrong))
    /\ UNCHANGED <<atomicWeak, atomicRefCount, atomicAttempt, extended, memory,
                   owners, tgt, op, hooks, ops>>

(* atomicStrong_.fetch_sub(INITIAL_PRIMARY_VALUE), after the first ++.     *)
SubInitial(t) ==
    /\ At(t, "SubInitial")
    /\ atomicStrong' = atomicStrong - INITIAL_PRIMARY_VALUE
    /\ Call(t, <<>>)
    /\ UNCHANGED <<atomicWeak, atomicRefCount, atomicAttempt, extended, memory,
                   owners, cur, tgt, op, hooks, ops>>

(* RefBase::OnFirstStrongRef, OnLastStrongRef.                             *)
OnFirst(t) ==
    /\ At(t, "OnFirst")
    /\ firstCalls' = firstCalls + 1
    /\ Call(t, <<>>)
    /\ UNCHANGED <<counts, memory, owners, cur, tgt, op, lastCalls, ops>>

OnLast(t) ==
    /\ At(t, "OnLast")
    /\ lastCalls' = lastCalls + 1
    /\ Call(t, IF extended THEN <<>> ELSE <<"CallCallback">>)
    /\ UNCHANGED <<counts, memory, owners, cur, tgt, op, firstCalls, ops>>

(* The constructor of sptr returns: the thread owns one more.              *)
GotSptr(t) ==
    /\ At(t, "GotSptr")
    /\ sptrs' = [sptrs EXCEPT ![t] = @ + 1]
    /\ SetCur(t, 0)
    /\ Call(t, <<>>)
    /\ UNCHANGED <<counts, memory, raw, wptrs, acquired, tgt, op, hooks, ops>>

(* RefCounter::DecStrongRefCount: never below the initial value, never     *)
(* below zero as far as the load can tell.                                 *)
DecStrongLoad(t) ==
    /\ At(t, "DecStrongLoad")
    /\ Call(t, IF atomicStrong # INITIAL_PRIMARY_VALUE /\ atomicStrong > 0
               THEN <<"DecStrongSub">> ELSE <<>>)
    /\ UNCHANGED <<counts, memory, owners, cur, tgt, op, hooks, ops>>

(* In DecStrongRef the count before the decrement, 1, runs the last-       *)
(* reference hook; CheckIsAttemptAcquireSet ignores it.                    *)
IsLastStrong(t) == atomicStrong = 1 /\ op[t] # "check"

DecStrongSub(t) ==
    /\ At(t, "DecStrongSub")
    /\ atomicStrong' = atomicStrong - 1
    /\ Call(t, IF IsLastStrong(t) THEN <<"OnLast">> ELSE <<>>)
    /\ UNCHANGED <<atomicWeak, atomicRefCount, atomicAttempt, extended, memory,
                   owners, cur, tgt, op, hooks, ops>>

(* if (callback_) callback_(): delete this.                                *)
CallCallback(t) ==
    /\ At(t, "CallCallback")
    /\ Call(t, IF callback THEN <<"DtorRemove", "DtorCheck", "FreeObject">> ELSE <<>>)
    /\ UNCHANGED <<counts, memory, owners, cur, tgt, op, hooks, ops>>

(* RefBase::~RefBase.                                                      *)
DtorRemove(t) ==
    /\ At(t, "DtorRemove")
    /\ callback' = FALSE
    /\ Call(t, <<>>)
    /\ UNCHANGED <<counts, object, counter, wrc, owners, cur, tgt, op, hooks, ops>>

DtorCheck(t) ==
    /\ At(t, "DtorCheck")
    /\ Call(t, IF (extended /\ atomicWeak = 0) \/ atomicStrong = INITIAL_PRIMARY_VALUE
               THEN <<"DecRefLoad">> ELSE <<>>)
    /\ UNCHANGED <<counts, memory, owners, cur, tgt, op, hooks, ops>>

FreeObject(t) ==
    /\ At(t, "FreeObject")
    /\ object' = FALSE
    /\ Call(t, <<>>)
    /\ UNCHANGED <<counts, callback, counter, wrc, owners, cur, tgt, op, hooks, ops>>

(* RefCounter::DecRefCount.                                                *)
DecRefLoad(t) ==
    /\ At(t, "DecRefLoad")
    /\ Call(t, IF atomicRefCount > 0 THEN <<"DecRefSub">> ELSE <<>>)
    /\ UNCHANGED <<counts, memory, owners, cur, tgt, op, hooks, ops>>

DecRefSub(t) ==
    /\ At(t, "DecRefSub")
    /\ atomicRefCount' = atomicRefCount - 1
    /\ Call(t, IF atomicRefCount = 1 THEN <<"FreeCounter">> ELSE <<>>)
    /\ UNCHANGED <<atomicStrong, atomicWeak, atomicAttempt, extended, memory,
                   owners, cur, tgt, op, hooks, ops>>

FreeCounter(t) ==
    /\ At(t, "FreeCounter")
    /\ counter' = FALSE
    /\ Call(t, <<>>)
    /\ UNCHANGED <<counts, callback, object, wrc, owners, cur, tgt, op, hooks, ops>>

(* RefCounter::DecWeakRefCount.                                            *)
DecWeakLoad(t) ==
    /\ At(t, "DecWeakLoad")
    /\ Call(t, IF atomicWeak > 0 THEN <<"DecWeakSub">> ELSE <<>>)
    /\ SetCur(t, 0)
    /\ op' = [op EXCEPT ![t] = "none"]
    /\ UNCHANGED <<counts, memory, owners, tgt, hooks, ops>>

DecWeakSub(t) ==
    /\ At(t, "DecWeakSub")
    /\ atomicWeak' = atomicWeak - 1
    /\ Call(t, IF atomicWeak = 1 THEN <<"LastWeak">> ELSE <<>>)
    /\ UNCHANGED <<atomicStrong, atomicRefCount, atomicAttempt, extended, memory,
                   owners, cur, tgt, op, hooks, ops>>

\* Nobody will release a strong reference that never was: the weak one deletes.
WeakDeletesExtended == extended
WeakDeletes == extended \/ atomicStrong = INITIAL_PRIMARY_VALUE

LastWeak(t) ==
    /\ At(t, "LastWeak")
    /\ Call(t, IF WeakDeletes THEN <<"CallCallback">> ELSE <<"DecRefLoad">>)
    /\ UNCHANGED <<counts, memory, owners, cur, tgt, op, hooks, ops>>

-----------------------------------------------------------------------------
(* WeakRefCounter: constructor, IncWeakRefCount, DecWeakRefCount and the   *)
(* destructor it runs when the last wptr goes.                             *)
WrcNew(t) ==
    /\ At(t, "WrcNew")
    /\ atomicRefCount' = atomicRefCount + 1
    /\ Call(t, <<>>)
    /\ UNCHANGED <<atomicStrong, atomicWeak, atomicAttempt, extended, memory,
                   owners, cur, tgt, op, hooks, ops>>

WrcInc(t) ==
    /\ At(t, "WrcInc")
    /\ wrc' = [wrc EXCEPT ![tgt[t]].weak = @ + 1]
    /\ Call(t, IF wrc[tgt[t]].weak = 0 THEN <<"IncWeak">> ELSE <<>>)
    /\ UNCHANGED <<counts, callback, object, counter, owners, cur, tgt, op, hooks, ops>>

GotWptr(t) ==
    /\ At(t, "GotWptr")
    /\ wptrs' = [wptrs EXCEPT ![t][tgt[t]] = @ + 1]
    /\ Call(t, <<>>)
    /\ UNCHANGED <<counts, memory, raw, sptrs, acquired, cur, tgt, op, hooks, ops>>

WrcDec(t) ==
    /\ At(t, "WrcDec")
    /\ wrc' = [wrc EXCEPT ![tgt[t]].weak = @ - 1]
    /\ Call(t, IF wrc[tgt[t]].weak = 1 THEN <<"DecWeakLoad", "FreeWrc">> ELSE <<>>)
    /\ UNCHANGED <<counts, callback, object, counter, owners, cur, tgt, op, hooks, ops>>

DropOld(t) ==
    /\ At(t, "DropOld")
    /\ \E w \in Wrcs :
          /\ wptrs[t][w] > 0
          /\ wptrs' = [wptrs EXCEPT ![t][w] = @ - 1]
          /\ tgt' = [tgt EXCEPT ![t] = w]
    /\ Call(t, <<"WrcDec">>)
    /\ UNCHANGED <<counts, memory, raw, sptrs, acquired, cur, op, hooks, ops>>

FreeWrc(t) ==
    /\ At(t, "FreeWrc")
    /\ wrc' = [wrc EXCEPT ![tgt[t]].state = "deleted"]
    /\ Call(t, <<"DecRefLoad">>)
    /\ UNCHANGED <<counts, callback, object, counter, owners, cur, tgt, op, hooks, ops>>

-----------------------------------------------------------------------------
(* RefCounter::AttemptIncStrongRef.                                        *)
AttLoad(t) ==
    /\ At(t, "AttLoad")
    /\ SetCur(t, atomicStrong)
    /\ op' = [op EXCEPT ![t] = IF @ = "acquire" THEN @ ELSE "promote"]
    /\ Call(t, <<"IncWeak", "AttLoop">>)
    /\ UNCHANGED <<counts, memory, owners, tgt, hooks, ops>>

\* Both while loops: a strong count that can be raised without asking.
MayRaise(t) == cur[t] > 0 /\ (cur[t] # INITIAL_PRIMARY_VALUE \/ ~extended)

AttCas(t) ==
    /\ At(t, "AttLoop") /\ MayRaise(t)
    /\ atomicStrong = cur[t]
    /\ atomicStrong' = atomicStrong + 1
    /\ Call(t, <<"AttEnd">>)
    /\ UNCHANGED <<atomicWeak, atomicRefCount, atomicAttempt, extended, memory,
                   owners, cur, tgt, op, hooks, ops>>

\* compare_exchange_weak may fail spuriously.
AttCasFail(t) ==
    /\ At(t, "AttLoop") /\ MayRaise(t)
    /\ Call(t, <<"AttReload">>)
    /\ UNCHANGED <<counts, memory, owners, cur, tgt, op, hooks, ops>>

AttReload(t) ==
    /\ At(t, "AttReload")
    /\ SetCur(t, atomicStrong)
    /\ Call(t, <<"AttLoop">>)
    /\ UNCHANGED <<counts, memory, owners, tgt, op, hooks, ops>>

AttExit(t) ==
    /\ At(t, "AttLoop") /\ ~MayRaise(t)
    /\ Call(t, IF extended THEN <<"AttCanPromote">> ELSE <<"AttEnd">>)
    /\ UNCHANGED <<counts, memory, owners, cur, tgt, op, hooks, ops>>

\* A refused promotion returns at once.
AttCanPromote(t) ==
    /\ At(t, "AttCanPromote")
    /\ \E yes \in CanPromote :
          /\ Call(t, IF yes THEN <<"AttAdd">> ELSE <<>>)
          /\ op' = IF yes THEN op ELSE [op EXCEPT ![t] = "none"]
          /\ cur' = IF yes THEN cur ELSE [cur EXCEPT ![t] = 0]
    /\ UNCHANGED <<counts, memory, owners, tgt, hooks, ops>>

AttAdd(t) ==
    /\ At(t, "AttAdd")
    /\ SetCur(t, atomicStrong)
    /\ atomicStrong' = atomicStrong + 1
    /\ Call(t, <<"AttEnd">>)
    /\ UNCHANGED <<atomicWeak, atomicRefCount, atomicAttempt, extended, memory,
                   owners, tgt, op, hooks, ops>>

\* ATTEMPT_SUCCESS, and what the caller does with the answer.  Only the
\* callers in RefBase look at outCount; WeakRefCounter drops it.
AttemptFailedKeepWeak == <<>>
AttemptFailed == <<"DecWeakLoad">>

Destroyed(count) == count < 0 \/ (~extended /\ count = 0)

AttEnd(t) ==
    /\ At(t, "AttEnd")
    /\ LET fromInitial == cur[t] = INITIAL_PRIMARY_VALUE
           dead == Destroyed(cur[t])
           sub  == IF fromInitial THEN <<"SubInitial">> ELSE <<>>
       IN  Call(t, CASE dead -> AttemptFailed
                     [] ~dead /\ op[t] = "promote" -> sub \o <<"GetRefPtr">>
                     [] ~dead /\ op[t] = "acquire" ->
                            sub \o <<"SetAttempt">>
                                \o IF fromInitial THEN <<"OnFirst">> ELSE <<>>)
    /\ SetCur(t, 0)
    /\ UNCHANGED <<counts, memory, owners, tgt, op, hooks, ops>>

(* other != nullptr: WeakRefCounter::GetRefPtr again.                      *)
TestPtr(t) ==
    /\ At(t, "TestPtr")
    /\ Call(t, IF callback THEN <<"AttLoad">> ELSE <<>>)
    /\ UNCHANGED <<counts, memory, owners, cur, tgt, op, hooks, ops>>

(* WeakRefCounter::GetRefPtr: the promoted sptr takes the cookie, or null. *)
GetRefPtr(t) ==
    /\ At(t, "GetRefPtr")
    /\ Call(t, IF callback THEN <<"GotSptr">> ELSE <<>>)
    /\ op' = [op EXCEPT ![t] = "none"]
    /\ UNCHANGED <<counts, memory, owners, cur, tgt, hooks, ops>>

(* RefCounter::SetAttemptAcquire: the caller now owns a bare reference.    *)
SetAttempt(t) ==
    /\ At(t, "SetAttempt")
    /\ atomicAttempt' = atomicAttempt + 1
    /\ acquired' = acquired + 1
    /\ op' = [op EXCEPT ![t] = "none"]
    /\ Call(t, <<>>)
    /\ UNCHANGED <<atomicStrong, atomicWeak, atomicRefCount, extended, memory,
                   raw, sptrs, wptrs, cur, tgt, hooks, ops>>

(* RefCounter::AttemptIncStrong, after its IncWeakRefCount.                *)
AttSTry(count) == IF count > 0 THEN <<"AttSLoop">> ELSE <<"DecWeakLoad">>

AttSLoad(t) ==
    /\ At(t, "AttSLoad")
    /\ SetCur(t, atomicStrong)
    /\ Call(t, AttSTry(atomicStrong))
    /\ UNCHANGED <<counts, memory, owners, tgt, op, hooks, ops>>

AttSCas(t) ==
    /\ At(t, "AttSLoop")
    /\ atomicStrong = cur[t]
    /\ atomicStrong' = atomicStrong + 1
    /\ SetCur(t, 0)
    /\ Call(t, <<"SetAttempt">>)
    /\ UNCHANGED <<atomicWeak, atomicRefCount, atomicAttempt, extended, memory,
                   owners, tgt, op, hooks, ops>>

\* A failed exchange loads the current value into curCount.
AttSCasFail(t) ==
    /\ At(t, "AttSLoop")
    /\ atomicStrong # cur[t]
    /\ SetCur(t, atomicStrong)
    /\ Call(t, AttSTry(atomicStrong))
    /\ UNCHANGED <<counts, memory, owners, tgt, op, hooks, ops>>

(* CheckIsAttemptAcquireSet: give the bare reference back.                 *)
CheckAttempt(t) ==
    /\ At(t, "CheckAttempt")
    /\ Call(t, IF atomicAttempt > 0 THEN <<"ClearAttempt">> ELSE <<>>)
    /\ UNCHANGED <<counts, memory, owners, cur, tgt, op, hooks, ops>>

ClearAttempt(t) ==
    /\ At(t, "ClearAttempt")
    /\ atomicAttempt' = atomicAttempt - 1
    /\ acquired' = acquired - 1
    /\ op' = [op EXCEPT ![t] = "check"]
    /\ Call(t, DecStrongRef)
    /\ UNCHANGED <<atomicStrong, atomicWeak, atomicRefCount, extended, memory,
                   raw, sptrs, wptrs, cur, tgt, hooks, ops>>

-----------------------------------------------------------------------------
StartOp(t) ==
    \/ ExtendObjectLifetime(t) \/ CopySptr(t) \/ DropSptr(t) \/ AssignSptr(t)
    \/ AttemptAcquire(t) \/ AttemptIncStrong(t) \/ CheckIsAttemptAcquireSet(t)
    \/ \E u \in Threads : MoveSptr(t, u)
    \/ \E w \in Wrcs : MakeWptr(t, w)
    \/ \E w \in Wrcs : CopyWptr(t, w)
    \/ \E w \in Wrcs : DropWptr(t, w)
    \/ \E w \in Wrcs : Promote(t, w) \/ AssignSptrFromWptr(t, w)
    \/ \E w \in Wrcs, u \in Threads : HandWptr(t, u, w)

RunOp(t) ==
    \/ IncWeak(t) \/ IncStrongLoad(t) \/ IncStrongAdd(t) \/ SubInitial(t)
    \/ OnFirst(t) \/ OnLast(t) \/ GotSptr(t)
    \/ DecStrongLoad(t) \/ DecStrongSub(t) \/ CallCallback(t)
    \/ DtorRemove(t) \/ DtorCheck(t) \/ FreeObject(t)
    \/ DecRefLoad(t) \/ DecRefSub(t) \/ FreeCounter(t)
    \/ DecWeakLoad(t) \/ DecWeakSub(t) \/ LastWeak(t)
    \/ WrcNew(t) \/ WrcInc(t) \/ GotWptr(t) \/ WrcDec(t) \/ DropOld(t) \/ FreeWrc(t)
    \/ AttLoad(t) \/ AttCas(t) \/ AttCasFail(t) \/ AttReload(t) \/ AttExit(t)
    \/ AttCanPromote(t) \/ AttAdd(t) \/ AttEnd(t) \/ TestPtr(t) \/ GetRefPtr(t)
    \/ SetAttempt(t) \/ AttSLoad(t) \/ AttSCas(t) \/ AttSCasFail(t)
    \/ CheckAttempt(t) \/ ClearAttempt(t)

NoHandles == /\ raw = {} /\ acquired = 0
             /\ \A t \in Threads : sptrs[t] = 0 /\ \A w \in Wrcs : wptrs[t][w] = 0

(* Every handle is gone: nobody can reach the object any more.             *)
Terminated == NoHandles /\ Quiescent /\ UNCHANGED vars

Next == (\E t \in Threads : StartOp(t) \/ RunOp(t)) \/ Terminated

Spec == Init /\ [][Next]_vars

-----------------------------------------------------------------------------
(* No step of any thread dereferences, or frees again, a RefBase object,   *)
(* a RefCounter or a WeakRefCounter that a step of another thread has      *)
(* already freed (the delete this of RefPtrCallback, DecRefCount and       *)
(* WeakRefCounter::DecWeakRefCount).  While any thread owns an sptr, or a  *)
(* bare reference from AttemptAcquire, the object is not being destroyed   *)
(* (refbase.h:61-63), and a promotion that AttemptIncStrongRef granted     *)
(* never yields a null sptr.                                               *)
NoUseAfterFree ==
    /\ \A t \in Threads : todo[t] # <<>> =>
           LET s == Head(todo[t])
           IN  /\ s \in CounterSteps => counter
               /\ s \in ObjectSteps => object
               /\ s \in WrcSteps => wrc[tgt[t]].state = "live"
               /\ s = "GetRefPtr" => callback
    /\ Total(sptrs) + acquired > 0 => object /\ callback

(* What the comments on the counters (refbase.h:273-275) say, whenever no  *)
(* operation is in flight: strong references, strong + WeakRefCounters,    *)
(* WeakRefCounters + 1.                                                    *)
CountsExact ==
    Quiescent /\ counter =>
        /\ atomicStrong \in {Total(sptrs) + acquired, INITIAL_PRIMARY_VALUE}
        /\ atomicStrong = INITIAL_PRIMARY_VALUE => Total(sptrs) + acquired = 0
        /\ atomicWeak = Total(sptrs) + acquired + Cardinality(LiveWrcs)
        /\ atomicRefCount = Cardinality(LiveWrcs) + 1
        /\ \A w \in LiveWrcs : wrc[w].weak = WptrsOn(w)

(* When the last handle is gone the object, its counter and every          *)
(* WeakRefCounter have been freed.                                         *)
NoLeak ==
    NoHandles /\ Quiescent => ~object /\ ~counter /\ LiveWrcs = {}

(* An object of normal lifetime that was ever strongly referenced is freed *)
(* after exactly one OnLastStrongRef, however the last releases of several *)
(* threads interleave.                                                     *)
HooksOnce ==
    /\ ~extended => lastCalls <= 1
    /\ ~extended /\ ~object /\ atomicStrong = 0 => lastCalls = 1
    /\ firstCalls <= 1
=============================================================================
