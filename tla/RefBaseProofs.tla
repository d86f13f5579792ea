--------------------------- MODULE RefBaseProofs ---------------------------
(***************************************************************************)
(* The promises of RefBase for any number of threads, references and       *)
(* WeakRefCounters: the object, its RefCounter and its WeakRefCounters are *)
(* not used after they are freed, the counters are exact, the hooks run    *)
(* once, and nothing leaks.  One lemma per action shows that it preserves  *)
(* the invariant of RefBaseInduction.                                      *)
(***************************************************************************)
EXTENDS RefBaseInduction


-----------------------------------------------------------------------------
(* The steps.                                                              *)

\* RefCounter::DecStrongRefCount, the decrement: the thread that takes the
\* last reference owns OnLast.
LEMMA DecStrongSubKeeps ==
    ASSUME RefBaseConstants, Inv, NEW t \in Threads, DecStrongSub(t)
    PROVE  Inv'
<1> DEFINE last == IsLastStrong(t)
<1>1. /\ At(t, "DecStrongSub") /\ atomicStrong' = atomicStrong - 1
      /\ Call(t, IF last THEN <<"OnLast">> ELSE <<>>)
      /\ UNCHANGED <<atomicWeak, atomicRefCount, atomicAttempt, extended, memory,
                     owners, cur, tgt, op, hooks, ops>>
    BY DEF DecStrongSub
<1>2. Goes(t, "DecStrongSub", IF last THEN {"OnLast"} ELSE {})
  <2>1. "DecStrongSub" \in Steps /\ "OnLast" \in Steps
        /\ Below("DecStrongSub") \subseteq Below("OnLast")
    BY BelowIs DEF Steps
  <2> QED
    BY <1>1, <2>1, Goes0, Goes1 DEF Inv
<1>3. PICK e \in WeakSets : /\ pend[t] = {"DecStrongSub"} \union e
                            /\ pend'[t] = (IF last THEN {"OnLast"} ELSE {}) \union e
    BY <1>2, UnderIs DEF Goes
<1> HIDE DEF last
<1>4. Stacked' /\ Same(t)
    BY <1>1, <1>2 DEF Goes, Same, owners
<1>5. /\ UNCHANGED <<gains, tries, wgains, wdrops, owing, lasts, bases, refdrops, freeing,
                     comings, onfirst, stripped>>
      /\ t \in drops /\ t \notin drops' /\ t \in wdrops /\ t \notin owing
      /\ onlast' = IF last THEN onlast \union {t} ELSE onlast
      /\ dying' = IF last /\ ~extended THEN dying \union {t} ELSE dying
    BY <1>1, <1>3, <1>4, ThreadSets DEF Moved, WeakSets, drops, gains, tries, wgains, wdrops, owing,
       lasts, bases, refdrops, freeing, comings, onfirst, onlast, dying, stripped, Adding, Trying,
       Destroyed
<1>6. /\ strong'[t] = strong[t] - 1 /\ claims'[t] = claims[t] - 1
      /\ weak'[t] = weak[t] /\ refs'[t] = refs[t]
      /\ strong[t] \in Nat /\ claims[t] \in Nat /\ weak[t] \in Nat
      /\ strong[t] > 0 /\ weak[t] > 0 /\ strong[t] > sptrs[t]
  <2>1. sptrs' = sptrs /\ sptrs[t] \in Nat
    BY <1>1 DEF owners, Inv, TypeOK
  <2> QED
    BY <1>5, <2>1 DEF strong, claims, weak, refs, One
<1>7. /\ atomicStrong \in Nat /\ atomicStrong > 0 /\ atomicStrong # INITIAL_PRIMARY_VALUE
      /\ lowered \in Nat /\ lowered >= strong[t] /\ lowered < INITIAL_PRIMARY_VALUE
      /\ \A u \in Threads : u # t => strong[t] + strong[u] <= lowered
      /\ \A u \in Threads : strong[u] \in Nat
      /\ atomicWeak > 0
  <2>1. atomicStrong \in Nat /\ acquired \in Nat /\ atomicWeak \in Nat
    BY DEF Inv, TypeOK
  <2> QED
    BY <1>6, <2>1, StrongFacts, WeakFacts
<1>8. last <=> atomicStrong = 1
  <2>1. op[t] = "check" => sptrs[t] > 0
    BY DEF Inv, Locals, TagInv, TagOf
  <2>2. sptrs[t] > 0 => lowered > 1
    BY <1>6, <1>7 DEF Inv, TypeOK
  <2>3. lowered > 1 => atomicStrong # 1
    BY <1>7, InitialIs DEF lowered
  <2> QED
    BY <2>1, <2>2, <2>3 DEF last, IsLastStrong
<1>9. TypeOK'
    BY <1>1, <1>7 DEF Inv, TypeOK, memory, owners, hooks
<1>10. lowered' = lowered - 1
       /\ (atomicStrong' > INITIAL_PRIMARY_VALUE <=> atomicStrong > INITIAL_PRIMARY_VALUE)
  <2>1. atomicStrong > INITIAL_PRIMARY_VALUE => lowered > 1
    <3>1. SUFFICES ASSUME atomicStrong > INITIAL_PRIMARY_VALUE PROVE lowered > 1
      OBVIOUS
    <3>2. PICK u \in owing : u # t /\ u \in Threads
      BY <1>5, <3>1 DEF Inv, Counts, OwingInv, owing
    <3>3. strong[u] > 0
      BY <3>2, StrongFacts
    <3> QED
      BY <1>6, <1>7, <3>2, <3>3
  <2> QED
    BY <1>1, <1>7, <2>1, InitialIs DEF lowered
<1>11. Alive /\ Alive'
    BY <1>1, <1>5, <1>7 DEF Alive, owners
<1>12. WrcSame(t)
    BY <1>1, <1>3 DEF WrcSame, WeakSets, memory, owners
<1>13. Counts'
  <2>0. /\ acquired \in Nat /\ acquired' = acquired /\ ops \in Int /\ ops' = ops /\ raw' = raw
        /\ atomicWeak \in Nat /\ atomicWeak' = atomicWeak
        /\ atomicRefCount \in Nat /\ atomicRefCount' = atomicRefCount
    BY <1>1 DEF owners, Inv, TypeOK
  <2>1. StrongInv'
    <3>1. lowered' = lowered + (acquired' - acquired) + (strong'[t] - strong[t])
      BY <2>0, <1>6, <1>7, <1>10
    <3> QED
      BY <1>4, <1>9, <3>1, StrongStep
  <2>2. OwingInv'
    BY <1>5, <1>10 DEF Inv, Counts, OwingInv
  <2>3. BoundInv'
    <3>1. claims'[t] + acquired' + One(raw' # {}) - ops' <= claims[t] + acquired + One(raw # {}) - ops
      BY <2>0, <1>6 DEF One
    <3> QED
      BY <1>4, <1>9, <3>1, BoundStep
  <2>4. readies' = readies /\ builts' = builts /\ readies \in Nat /\ builts \in Nat
    BY <1>4, <1>12, WrcStep
  <2>5. WeakInv'
    <3>1. atomicWeak' = atomicWeak + (acquired' - acquired) + (weak'[t] - weak[t]) + (readies' - readies)
      BY <2>0, <2>4, <1>6
    <3> QED
      BY <1>4, <1>9, <2>4, <3>1, WeakStep
  <2>7. RefInv'
    <3>1. Held' = Held
      BY <1>5, <1>11 DEF Held
    <3>2. refs[t] \in Nat /\ One(Held) \in Nat
      BY DEF refs, One
    <3>3. atomicRefCount' = atomicRefCount + (refs'[t] - refs[t]) + (builts' - builts)
                                 + (One(Held') - One(Held))
      BY <2>0, <2>4, <1>6, <3>1, <3>2
    <3>4. (atomicRefCount = reffed + builts + One(Held))'
      BY <1>4, <1>9, <2>4, <3>3, RefStep
    <3> QED
      BY <1>5, <1>11, <3>4 DEF Inv, Counts, RefInv
  <2>6. WrcInv'
    BY <1>4, <1>12, WrcStep
  <2> QED
    BY <2>1, <2>2, <2>3, <2>5, <2>6, <2>7 DEF Counts
<1>14. Memory'
  <2>1. object /\ dying = {} /\ ~Gone /\ bases = {} /\ lasts = {}
    BY <1>7, <1>11, LifeFacts
  <2>2. LifeInv'
    <3>1. Gone' <=> last /\ ~extended
      BY <1>1, <1>7, <1>8, <1>11 DEF Gone
    <3> QED
      BY <1>1, <1>5, <2>1, <3>1 DEF LifeInv, Unique, memory
  <2>3. CallbackInv'
    BY <1>1, <1>5 DEF Inv, Memory, CallbackInv, memory
  <2>4. CounterInv'
    BY <1>1, <1>5 DEF Inv, Memory, CounterInv, memory
  <2>5. HookInv'
    <3>1. atomicStrong' # INITIAL_PRIMARY_VALUE
      BY <1>1, <1>7, <1>10, InitialIs DEF lowered
    <3>2. ~extended => onlast = {} /\ lastCalls = 0
      BY <1>7 DEF Inv, Memory, HookInv, One, TypeOK
    <3> QED
      BY <1>1, <1>5, <1>7, <1>8, <3>1, <3>2 DEF Inv, Memory, HookInv, hooks, One, Unique
  <2> QED
    BY <2>2, <2>3, <2>4, <2>5 DEF Memory
<1>15. Locals'
  <2>1. RawInv' /\ raw = {}
    BY <1>1, <1>3, RawStep DEF owners
  <2>2. TagInv'
    <3>1. TagOf(t)
      BY DEF Inv, Locals, TagInv
    <3>2. TagOf(t)'
      BY <1>1, <1>3, <3>1 DEF TagOf, WeakSets, Trying, owners
    <3> QED
      BY <1>1, <1>4, <3>2, TagStep DEF owners
  <2>3. BackInv'
    <3>1. BackOf(t)
      BY DEF Inv, Locals, BackInv
    <3>2. BackOf(t)'
      BY <1>1, <1>3, <3>1 DEF BackOf, WeakSets, Adding, owners, memory
    <3>3. \A u \in Threads : u # t /\ pend[u] # {} => ~Only(u)
      BY <1>3, NotOnly
    <3>4. acquired' >= acquired /\ wrc' = wrc
      BY <1>1 DEF owners, memory, Inv, TypeOK
    <3> QED
      BY <1>4, <1>9, <3>2, <3>3, <3>4, BackStep
  <2> QED
    BY <2>1, <2>2, <2>3 DEF Locals
<1> QED
    BY <1>4, <1>9, <1>13, <1>14, <1>15 DEF Inv

\* A step that leaves the counters, the memory and the references as they are.
LEMMA QuietKeeps ==
    ASSUME RefBaseConstants, Inv, NEW t \in Threads, NEW s \in Steps, NEW B, Goes(t, s, B),
           Same(t), TypeOK', WrcSame(t),
           UNCHANGED <<counts, memory, owners, hooks, ops>>,
           UNCHANGED <<gains, drops, owing, lasts, bases, refdrops, freeing, onlast, onfirst, dying,
                       stripped>>,
           t \in tries' => t \in tries, weak'[t] = weak[t], Alive' <=> Alive,
           t \in raw => /\ pend'[t] \subseteq RawSteps
                        /\ op'[t] = "none" => pend'[t] \subseteq {"OnFirst"},
           TagOf(t)', BackOf(t)'
    PROVE  Inv'
<1>1. Stacked' /\ Knows(t)
    BY DEF Goes, Knows
<1>3. /\ UNCHANGED <<raw, acquired, sptrs, wptrs, wrc, atomicStrong, atomicWeak, atomicRefCount,
                       callback, object, counter>>
      /\ acquired \in Nat /\ ops \in Int
    BY DEF owners, counts, memory, Inv, TypeOK
<1>2. Counts' /\ Memory'
  <2>1. WrcInv' /\ readies' = readies /\ builts' = builts
    BY WrcStep
  <2>2. strong' = strong /\ strong[t] \in Nat
    BY <1>3, Frames, Parts DEF Inv
  <2>3. claims'[t] <= claims[t] /\ claims[t] \in Nat /\ claims'[t] \in Nat
    BY <2>2 DEF claims, One
  <2>4. claims'[t] + One(raw' # {}) - ops' <= claims[t] + One(raw # {}) - ops
    BY <1>3, <2>3 DEF One
  <2>5. owing \subseteq gains'
    BY DEF Inv, Counts, OwingInv
  <2>6. CallbackInv' /\ HookInv'
    BY <1>3, Frames DEF Same
  <2> QED
    BY <1>3, <2>1, <2>2, <2>4, <2>5, <2>6, QuietStep
<1>4. t \in raw => atomicStrong > 0
    BY DEF Inv, Locals, RawInv, Only
<1>5. Locals'
    BY <1>1, <1>3, <1>4, LocalsStep
<1> QED
    BY <1>1, <1>2, <1>5 DEF Inv

\* The only thread that knows of the object stays that.
LEMMA OnlyStays ==
    ASSUME NEW t \in Threads, Same(t), UNCHANGED <<sptrs, wptrs>>, atomicStrong' > 0
    PROVE  Only(t) => Only(t)'
BY DEF Only, Same


\* RefCounter::IncStrongRefCount, the load: only local to the thread.
LEMMA IncStrongLoadKeeps ==
    ASSUME RefBaseConstants, Inv, NEW t \in Threads, IncStrongLoad(t)
    PROVE  Inv'
<1>1. /\ At(t, "IncStrongLoad") /\ Call(t, <<"IncStrongAdd">>)
          /\ cur' = [cur EXCEPT ![t] = atomicStrong]
      /\ UNCHANGED <<counts, memory, owners, tgt, op, hooks, ops>>
    BY DEF IncStrongLoad, SetCur, Inv, TypeOK
<1>2. Goes(t, "IncStrongLoad", {"IncStrongAdd"}) /\ "IncStrongLoad" \in Steps
  <2>1. "IncStrongLoad" \in Steps /\ "IncStrongAdd" \in Steps
    BY DEF Steps
  <2>4. Below("IncStrongLoad") \subseteq Below("IncStrongAdd")
    BY BelowIs DEF Last
  <2> QED
    BY <1>1, <2>1, <2>4, Goes1 DEF Inv
<1>3. PICK e \in GotSets : pend[t] = {"IncStrongLoad"} \union e
           /\ pend'[t] = {"IncStrongAdd"} \union e
    BY <1>2, UnderIs DEF Goes
<1>4. TypeOK' /\ Same(t)
  <2>1. cur' \in [Threads -> Nat] /\ \A u \in Threads : u # t => cur'[u] = cur[u]
    BY <1>1 DEF Inv, TypeOK
  <2> QED
    BY <1>1, <1>2, <2>1 DEF Inv, TypeOK, Goes, Same, counts, memory, owners, hooks
<1>5. /\ UNCHANGED <<gains, drops, wgains, wdrops, owing, lasts, bases, refdrops, freeing,
            comings, onlast, onfirst, dying, stripped>>
      /\ t \in tries' => t \in tries
    BY <1>1, <1>3, <1>4, ThreadSets DEF Moved, GotSets, drops, gains, tries, wgains, wdrops, owing,
       lasts, bases, refdrops, freeing, comings, onfirst, onlast, dying, stripped, Adding, Trying,
       Destroyed
<1>6. WrcSame(t)
    BY <1>1, <1>3 DEF WrcSame, GotSets, memory, owners
<1>7. t \notin raw
    BY <1>3 DEF Inv, Locals, RawInv
<1>8. TagOf(t)'
  <2>1. TagOf(t)
    BY DEF Inv, Locals, TagInv
  <2>9. tgt \in [Threads -> Wrcs] /\ cur \in [Threads -> Nat]
        /\ op \in [Threads -> {"none", "promote", "acquire", "check"}]
    BY DEF Inv, TypeOK
  <2> QED
    BY <1>1, <1>3, <2>1, <2>9 DEF TagOf, GotSets, Trying, owners, counts
<1>9. BackOf(t)'
  <2>1. BackOf(t)
    BY DEF Inv, Locals, BackInv
  <2>2. Only(t) => Only(t)'
    BY <1>1, <1>4, OnlyStays DEF Only, owners, counts
  <2> QED
    BY <1>1, <1>3, <2>1, <2>2 DEF BackOf, GotSets, Adding, owners, memory
<1>10. weak'[t] = weak[t] /\ (Alive' <=> Alive)
    BY <1>1, <1>5, Frames DEF owners, counts, Inv
<1> QED
    BY <1>1, <1>2, <1>4, <1>5, <1>6, <1>7, <1>8, <1>9, <1>10, QuietKeeps

\* RefCounter::DecStrongRefCount, the early return: the thread owns a
\* reference, so the count is not 0.
LEMMA DecStrongLoadKeeps ==
    ASSUME RefBaseConstants, Inv, NEW t \in Threads, DecStrongLoad(t)
    PROVE  Inv'
<1>0. atomicStrong # INITIAL_PRIMARY_VALUE /\ atomicStrong > 0
  <2>1. At(t, "DecStrongLoad") /\ "DecStrongLoad" \in Steps /\ Stacked
    BY DEF DecStrongLoad, Steps, Inv
  <2>2. t \in drops
    BY <2>1, AtPend DEF drops
  <2>3. strong[t] > 0 /\ acquired \in Nat
    BY <2>2 DEF strong, One, Inv, TypeOK
  <2> QED
    BY <2>3, StrongFacts
<1>1. /\ At(t, "DecStrongLoad") /\ Call(t, <<"DecStrongSub">>)
      /\ UNCHANGED <<counts, memory, owners, cur, tgt, op, hooks, ops>>
    BY <1>0 DEF DecStrongLoad
<1>2. Goes(t, "DecStrongLoad", {"DecStrongSub"}) /\ "DecStrongLoad" \in Steps
  <2>1. "DecStrongLoad" \in Steps /\ "DecStrongSub" \in Steps
    BY DEF Steps
  <2>4. Below("DecStrongLoad") \subseteq Below("DecStrongSub")
    BY BelowIs DEF Last
  <2> QED
    BY <1>1, <2>1, <2>4, Goes1 DEF Inv
<1>3. PICK e \in WeakSets : pend[t] = {"DecStrongLoad"} \union e
           /\ pend'[t] = {"DecStrongSub"} \union e
    BY <1>2, UnderIs DEF Goes
<1>4. TypeOK' /\ Same(t)
    BY <1>1, <1>2 DEF Inv, TypeOK, Goes, Same, counts, memory, owners, hooks
<1>5. /\ UNCHANGED <<gains, drops, wgains, wdrops, owing, lasts, bases, refdrops, freeing,
            comings, onlast, onfirst, dying, stripped>>
      /\ t \in tries' => t \in tries
    BY <1>1, <1>3, <1>4, ThreadSets DEF Moved, WeakSets, drops, gains, tries, wgains, wdrops, owing,
       lasts, bases, refdrops, freeing, comings, onfirst, onlast, dying, stripped, Adding, Trying,
       Destroyed
<1>6. WrcSame(t)
    BY <1>1, <1>3 DEF WrcSame, WeakSets, memory, owners
<1>7. t \notin raw
    BY <1>3 DEF Inv, Locals, RawInv
<1>8. TagOf(t)'
  <2>1. TagOf(t)
    BY DEF Inv, Locals, TagInv
  <2>9. tgt \in [Threads -> Wrcs] /\ cur \in [Threads -> Nat]
        /\ op \in [Threads -> {"none", "promote", "acquire", "check"}]
    BY DEF Inv, TypeOK
  <2> QED
    BY <1>1, <1>3, <2>1, <2>9 DEF TagOf, WeakSets, Trying, owners, counts
<1>9. BackOf(t)'
  <2>1. BackOf(t)
    BY DEF Inv, Locals, BackInv
  <2>2. Only(t) => Only(t)'
    BY <1>1, <1>4, OnlyStays DEF Only, owners, counts
  <2> QED
    BY <1>1, <1>3, <2>1, <2>2 DEF BackOf, WeakSets, Adding, owners, memory
<1>10. weak'[t] = weak[t] /\ (Alive' <=> Alive)
    BY <1>1, <1>5, Frames DEF owners, counts, Inv
<1> QED
    BY <1>1, <1>2, <1>4, <1>5, <1>6, <1>7, <1>8, <1>9, <1>10, QuietKeeps

\* RefCounter::callback_: the object is deleted by the thread that found it
\* dead, and by no other.
LEMMA CallCallbackKeeps ==
    ASSUME RefBaseConstants, Inv, NEW t \in Threads, CallCallback(t)
    PROVE  Inv'
<1>0. callback
  <2>1. At(t, "CallCallback") /\ "CallCallback" \in Steps /\ Stacked
    BY DEF CallCallback, Steps, Inv
  <2>2. PICK e \in EndSets \union WeakSets : pend[t] = {"CallCallback"} \union e
    BY <2>1, AtPend, UnderIs
  <2>3. t \in dying /\ t \notin stripped
    BY <2>2 DEF dying, stripped, EndSets, WeakSets
  <2>4. stripped \subseteq dying
    BY DEF stripped, dying
  <2> QED
    BY <2>3, <2>4 DEF Inv, Memory, LifeInv, CallbackInv, Unique
<1>1. /\ At(t, "CallCallback") /\ Call(t, <<"DtorRemove", "DtorCheck", "FreeObject">>)
      /\ UNCHANGED <<counts, memory, owners, cur, tgt, op, hooks, ops>>
    BY <1>0 DEF CallCallback
<1>2. Goes(t, "CallCallback", {"DtorRemove", "DtorCheck", "FreeObject"}) /\ "CallCallback" \in Steps
  <2>1. "CallCallback" \in Steps /\ "DtorRemove" \in Steps /\ "DtorCheck" \in Steps
        /\ "FreeObject" \in Steps
    BY DEF Steps
  <2>4. /\ Below("CallCallback") \subseteq Below("FreeObject")
        /\ \A r \in Below("CallCallback") : <<"FreeObject">> \o r \in Below("DtorCheck")
        /\ \A r \in Below("CallCallback")
              : <<"DtorCheck">> \o (<<"FreeObject">> \o r) \in Below("DtorRemove")
    BY BelowIs DEF Last, Freed
  <2> QED
    BY <1>1, <2>1, <2>4, Goes3 DEF Inv
<1>3. PICK e \in (EndSets \union WeakSets) : pend[t] = {"CallCallback"} \union e
           /\ pend'[t] = {"DtorRemove", "DtorCheck", "FreeObject"} \union e
    BY <1>2, UnderIs DEF Goes
<1>4. TypeOK' /\ Same(t)
    BY <1>1, <1>2 DEF Inv, TypeOK, Goes, Same, counts, memory, owners, hooks
<1>5. /\ UNCHANGED <<gains, drops, wgains, wdrops, owing, lasts, bases, refdrops, freeing,
            comings, onlast, onfirst, dying, stripped>>
      /\ t \in tries' => t \in tries
    BY <1>1, <1>3, <1>4, ThreadSets
    DEF Moved, EndSets, WeakSets, drops, gains, tries, wgains, wdrops, owing,
       lasts, bases, refdrops, freeing, comings, onfirst, onlast, dying, stripped, Adding, Trying,
       Destroyed
<1>6. WrcSame(t)
    BY <1>1, <1>3 DEF WrcSame, EndSets, WeakSets, memory, owners
<1>7. t \notin raw
    BY <1>3 DEF Inv, Locals, RawInv
<1>8. TagOf(t)'
  <2>1. TagOf(t)
    BY DEF Inv, Locals, TagInv
  <2>9. tgt \in [Threads -> Wrcs] /\ cur \in [Threads -> Nat]
        /\ op \in [Threads -> {"none", "promote", "acquire", "check"}]
    BY DEF Inv, TypeOK
  <2> QED
    BY <1>1, <1>3, <2>1, <2>9 DEF TagOf, EndSets, WeakSets, Trying, owners, counts
<1>9. BackOf(t)'
  <2>1. BackOf(t)
    BY DEF Inv, Locals, BackInv
  <2>2. Only(t) => Only(t)'
    BY <1>1, <1>4, OnlyStays DEF Only, owners, counts
  <2> QED
    BY <1>1, <1>3, <2>1, <2>2 DEF BackOf, EndSets, WeakSets, Adding, owners, memory
<1>10. weak'[t] = weak[t] /\ (Alive' <=> Alive)
    BY <1>1, <1>5, Frames DEF owners, counts, Inv
<1> QED
    BY <1>1, <1>2, <1>4, <1>5, <1>6, <1>7, <1>8, <1>9, <1>10, QuietKeeps

\* RefCounter::DecRefCount, the early return: the thread owns a count, so it
\* is not 0.
LEMMA DecRefLoadKeeps ==
    ASSUME RefBaseConstants, Inv, NEW t \in Threads, DecRefLoad(t)
    PROVE  Inv'
<1>0. atomicRefCount > 0
  <2>1. At(t, "DecRefLoad") /\ "DecRefLoad" \in Steps /\ Stacked
    BY DEF DecRefLoad, Steps, Inv
  <2>2. t \in refdrops
    BY <2>1, AtPend DEF refdrops
  <2> QED
    BY <2>2, LifeFacts
<1>1. /\ At(t, "DecRefLoad") /\ Call(t, <<"DecRefSub">>)
      /\ UNCHANGED <<counts, memory, owners, cur, tgt, op, hooks, ops>>
    BY <1>0 DEF DecRefLoad
<1>2. Goes(t, "DecRefLoad", {"DecRefSub"}) /\ "DecRefLoad" \in Steps
  <2>1. "DecRefLoad" \in Steps /\ "DecRefSub" \in Steps
    BY DEF Steps
  <2>4. Below("DecRefLoad") \subseteq Below("DecRefSub")
    BY BelowIs DEF Last
  <2> QED
    BY <1>1, <2>1, <2>4, Goes1 DEF Inv
<1>3. PICK e \in (EndSets \union FreeSets) : pend[t] = {"DecRefLoad"} \union e
           /\ pend'[t] = {"DecRefSub"} \union e
    BY <1>2, UnderIs DEF Goes
<1>4. TypeOK' /\ Same(t)
    BY <1>1, <1>2 DEF Inv, TypeOK, Goes, Same, counts, memory, owners, hooks
<1>5. /\ UNCHANGED <<gains, drops, wgains, wdrops, owing, lasts, bases, refdrops, freeing,
            comings, onlast, onfirst, dying, stripped>>
      /\ t \in tries' => t \in tries
    BY <1>1, <1>3, <1>4, ThreadSets
    DEF Moved, EndSets, FreeSets, drops, gains, tries, wgains, wdrops, owing,
       lasts, bases, refdrops, freeing, comings, onfirst, onlast, dying, stripped, Adding, Trying,
       Destroyed
<1>6. WrcSame(t)
    BY <1>1, <1>3 DEF WrcSame, EndSets, FreeSets, memory, owners
<1>7. t \notin raw
    BY <1>3 DEF Inv, Locals, RawInv
<1>8. TagOf(t)'
  <2>1. TagOf(t)
    BY DEF Inv, Locals, TagInv
  <2>9. tgt \in [Threads -> Wrcs] /\ cur \in [Threads -> Nat]
        /\ op \in [Threads -> {"none", "promote", "acquire", "check"}]
    BY DEF Inv, TypeOK
  <2> QED
    BY <1>1, <1>3, <2>1, <2>9 DEF TagOf, EndSets, FreeSets, Trying, owners, counts
<1>9. BackOf(t)'
  <2>1. BackOf(t)
    BY DEF Inv, Locals, BackInv
  <2>2. Only(t) => Only(t)'
    BY <1>1, <1>4, OnlyStays DEF Only, owners, counts
  <2> QED
    BY <1>1, <1>3, <2>1, <2>2 DEF BackOf, EndSets, FreeSets, Adding, owners, memory
<1>10. weak'[t] = weak[t] /\ (Alive' <=> Alive)
    BY <1>1, <1>5, Frames DEF owners, counts, Inv
<1> QED
    BY <1>1, <1>2, <1>4, <1>5, <1>6, <1>7, <1>8, <1>9, <1>10, QuietKeeps

\* RefCounter::DecWeakRefCount, the early return: the thread owns a weak
\* reference, so the count is not 0.
LEMMA DecWeakLoadKeeps ==
    ASSUME RefBaseConstants, Inv, NEW t \in Threads, DecWeakLoad(t)
    PROVE  Inv'
<1>0. atomicWeak > 0
  <2>1. At(t, "DecWeakLoad") /\ "DecWeakLoad" \in Steps /\ Stacked
    BY DEF DecWeakLoad, Steps, Inv
  <2>2. t \in wdrops
    BY <2>1, AtPend DEF wdrops
  <2>3. weak[t] > 0 /\ acquired \in Nat /\ atomicWeak \in Nat
    BY <2>2 DEF weak, One, Inv, TypeOK
  <2> QED
    BY <2>3, WeakFacts
<1>1. /\ At(t, "DecWeakLoad") /\ Call(t, <<"DecWeakSub">>) /\ cur' = [cur EXCEPT ![t] = 0]
          /\ op' = [op EXCEPT ![t] = "none"]
      /\ UNCHANGED <<counts, memory, owners, tgt, hooks, ops>>
    BY <1>0 DEF DecWeakLoad, SetCur
<1>2. Goes(t, "DecWeakLoad", {"DecWeakSub"}) /\ "DecWeakLoad" \in Steps
  <2>1. "DecWeakLoad" \in Steps /\ "DecWeakSub" \in Steps
    BY DEF Steps
  <2>4. Below("DecWeakLoad") \subseteq Below("DecWeakSub")
    BY BelowIs DEF Last
  <2> QED
    BY <1>1, <2>1, <2>4, Goes1 DEF Inv
<1>3. PICK e \in EndSets : pend[t] = {"DecWeakLoad"} \union e /\ pend'[t] = {"DecWeakSub"} \union e
    BY <1>2, UnderIs DEF Goes
<1>4. TypeOK' /\ Same(t)
  <2>1. /\ cur' \in [Threads -> Nat] /\ \A u \in Threads : u # t => cur'[u] = cur[u]
        /\ op' \in [Threads -> {"none", "promote", "acquire", "check"}]
        /\ \A u \in Threads : u # t => op'[u] = op[u]
    BY <1>1 DEF Inv, TypeOK
  <2> QED
    BY <1>1, <1>2, <2>1 DEF Inv, TypeOK, Goes, Same, counts, memory, owners, hooks
<1>5. /\ UNCHANGED <<gains, drops, wgains, wdrops, owing, lasts, bases, refdrops, freeing,
            comings, onlast, onfirst, dying, stripped>>
      /\ t \in tries' => t \in tries
    BY <1>1, <1>3, <1>4, ThreadSets DEF Moved, EndSets, drops, gains, tries, wgains, wdrops, owing,
       lasts, bases, refdrops, freeing, comings, onfirst, onlast, dying, stripped, Adding, Trying,
       Destroyed
<1>6. WrcSame(t)
    BY <1>1, <1>3 DEF WrcSame, EndSets, memory, owners
<1>7. t \notin raw
    BY <1>3 DEF Inv, Locals, RawInv
<1>8. TagOf(t)'
  <2>1. TagOf(t)
    BY DEF Inv, Locals, TagInv
  <2>9. tgt \in [Threads -> Wrcs] /\ cur \in [Threads -> Nat]
        /\ op \in [Threads -> {"none", "promote", "acquire", "check"}]
    BY DEF Inv, TypeOK
  <2> QED
    BY <1>1, <1>3, <2>1, <2>9 DEF TagOf, EndSets, Trying, owners, counts
<1>9. BackOf(t)'
  <2>1. BackOf(t)
    BY DEF Inv, Locals, BackInv
  <2>2. Only(t) => Only(t)'
    BY <1>1, <1>4, OnlyStays DEF Only, owners, counts
  <2> QED
    BY <1>1, <1>3, <2>1, <2>2 DEF BackOf, EndSets, Adding, owners, memory
<1>10. weak'[t] = weak[t] /\ (Alive' <=> Alive)
    BY <1>1, <1>5, Frames DEF owners, counts, Inv
<1> QED
    BY <1>1, <1>2, <1>4, <1>5, <1>6, <1>7, <1>8, <1>9, <1>10, QuietKeeps

\* AttemptIncStrongRef, the failed exchange: the thread reloads and changes
\* nothing else.
LEMMA AttCasFailKeeps ==
    ASSUME RefBaseConstants, Inv, NEW t \in Threads, AttCasFail(t)
    PROVE  Inv'
<1>1. /\ At(t, "AttLoop") /\ Call(t, <<"AttReload">>)
      /\ UNCHANGED <<counts, memory, owners, cur, tgt, op, hooks, ops>>
    BY DEF AttCasFail
<1>2. Goes(t, "AttLoop", {"AttReload"}) /\ "AttLoop" \in Steps
  <2>1. "AttLoop" \in Steps /\ "AttReload" \in Steps
    BY DEF Steps
  <2>4. Below("AttLoop") \subseteq Below("AttReload")
    BY BelowIs DEF Last
  <2> QED
    BY <1>1, <2>1, <2>4, Goes1 DEF Inv
<1>3. pend[t] = {"AttLoop"} /\ pend'[t] = {"AttReload"}
  <2>1. Under("AttLoop") = {{}}
    BY UnderIs DEF Last
  <2> QED
    BY <1>2, <2>1 DEF Goes
<1>4. TypeOK' /\ Same(t)
    BY <1>1, <1>2 DEF Inv, TypeOK, Goes, Same, counts, memory, owners, hooks
<1>5. /\ UNCHANGED <<gains, drops, wgains, wdrops, owing, lasts, bases, refdrops, freeing,
            comings, onlast, onfirst, dying, stripped>>
      /\ t \in tries' => t \in tries
    BY <1>1, <1>3, <1>4, ThreadSets DEF Moved, drops, gains, tries, wgains, wdrops, owing,
       lasts, bases, refdrops, freeing, comings, onfirst, onlast, dying, stripped, Adding, Trying,
       Destroyed
<1>6. WrcSame(t)
    BY <1>1, <1>3 DEF WrcSame, memory, owners
<1>7. t \in raw => /\ pend'[t] \subseteq RawSteps
                   /\ op'[t] = "none" => pend'[t] \subseteq {"OnFirst"}
    BY <1>1, <1>3 DEF Inv, Locals, RawInv, RawSteps, TypeOK
<1>8. TagOf(t)'
  <2>1. TagOf(t)
    BY DEF Inv, Locals, TagInv
  <2>9. tgt \in [Threads -> Wrcs] /\ cur \in [Threads -> Nat]
        /\ op \in [Threads -> {"none", "promote", "acquire", "check"}]
    BY DEF Inv, TypeOK
  <2> QED
    BY <1>1, <1>3, <2>1, <2>9 DEF TagOf, Trying, owners, counts
<1>9. BackOf(t)'
  <2>1. BackOf(t)
    BY DEF Inv, Locals, BackInv
  <2>2. Only(t) => Only(t)'
    BY <1>1, <1>4, OnlyStays DEF Only, owners, counts
  <2> QED
    BY <1>1, <1>3, <2>1, <2>2 DEF BackOf, Adding, owners, memory
<1>10. weak'[t] = weak[t] /\ (Alive' <=> Alive)
    BY <1>1, <1>5, Frames DEF owners, counts, Inv
<1> QED
    BY <1>1, <1>2, <1>4, <1>5, <1>6, <1>7, <1>8, <1>9, <1>10, QuietKeeps

\* A thread that has the raw pointer or an sptr finds the strong count raised.
LEMMA NeededStrong ==
    ASSUME RefBaseConstants, Inv, NEW t \in Threads, t \in raw \/ sptrs[t] > 0
    PROVE  atomicStrong > 0
<1>1. t \in raw => atomicStrong > 0
    BY DEF Inv, Locals, RawInv, Only
<1>2. sptrs[t] > 0 => strong[t] > 0
    BY DEF strong, One, Inv, TypeOK
<1>3. acquired \in Nat
    BY DEF Inv, TypeOK
<1> QED
    BY <1>1, <1>2, <1>3, StrongFacts

\* AttemptIncStrongRef, the reloaded count: local to the thread.
LEMMA AttReloadKeeps ==
    ASSUME RefBaseConstants, Inv, NEW t \in Threads, AttReload(t)
    PROVE  Inv'
<1>1. /\ At(t, "AttReload") /\ Call(t, <<"AttLoop">>) /\ cur' = [cur EXCEPT ![t] = atomicStrong]
      /\ UNCHANGED <<counts, memory, owners, tgt, op, hooks, ops>>
    BY DEF AttReload, SetCur
<1>2. Goes(t, "AttReload", {"AttLoop"}) /\ "AttReload" \in Steps
  <2>1. "AttReload" \in Steps /\ "AttLoop" \in Steps
    BY DEF Steps
  <2>4. Below("AttReload") \subseteq Below("AttLoop")
    BY BelowIs DEF Last
  <2> QED
    BY <1>1, <2>1, <2>4, Goes1 DEF Inv
<1>3. pend[t] = {"AttReload"} /\ pend'[t] = {"AttLoop"}
  <2>1. Under("AttReload") = {{}}
    BY UnderIs DEF Last
  <2> QED
    BY <1>2, <2>1 DEF Goes
<1>4. TypeOK' /\ Same(t)
  <2>1. cur' \in [Threads -> Nat] /\ \A u \in Threads : u # t => cur'[u] = cur[u]
    BY <1>1 DEF Inv, TypeOK
  <2> QED
    BY <1>1, <1>2, <2>1 DEF Inv, TypeOK, Goes, Same, counts, memory, owners, hooks
<1>5. /\ UNCHANGED <<gains, drops, wgains, wdrops, owing, lasts, bases, refdrops, freeing,
            comings, onlast, onfirst, dying, stripped>>
      /\ t \in tries' => t \in tries
    BY <1>1, <1>3, <1>4, ThreadSets DEF Moved, drops, gains, tries, wgains, wdrops, owing,
       lasts, bases, refdrops, freeing, comings, onfirst, onlast, dying, stripped, Adding, Trying,
       Destroyed
<1>6. WrcSame(t)
    BY <1>1, <1>3 DEF WrcSame, memory, owners
<1>7. t \in raw => /\ pend'[t] \subseteq RawSteps
                   /\ op'[t] = "none" => pend'[t] \subseteq {"OnFirst"}
    BY <1>1, <1>3 DEF Inv, Locals, RawInv, RawSteps, TypeOK
<1>8. TagOf(t)'
  <2>1. TagOf(t)
    BY DEF Inv, Locals, TagInv
  <2>2. op[t] = "acquire" => atomicStrong > 0
    BY <2>1, NeededStrong DEF TagOf
  <2>9. tgt \in [Threads -> Wrcs] /\ cur \in [Threads -> Nat]
        /\ op \in [Threads -> {"none", "promote", "acquire", "check"}]
    BY DEF Inv, TypeOK
  <2> QED
    BY <1>1, <1>3, <2>1, <2>9, <2>2 DEF TagOf, Trying, owners, counts
<1>9. BackOf(t)'
  <2>1. BackOf(t)
    BY DEF Inv, Locals, BackInv
  <2>2. Only(t) => Only(t)'
    BY <1>1, <1>4, OnlyStays DEF Only, owners, counts
  <2> QED
    BY <1>1, <1>3, <2>1, <2>2 DEF BackOf, Adding, owners, memory
<1>10. weak'[t] = weak[t] /\ (Alive' <=> Alive)
    BY <1>1, <1>5, Frames DEF owners, counts, Inv
<1> QED
    BY <1>1, <1>2, <1>4, <1>5, <1>6, <1>7, <1>8, <1>9, <1>10, QuietKeeps

\* AttemptIncStrongRef leaves its loop on an object with an extended life and
\* goes on to ask it.
LEMMA AttExitAsksKeeps ==
    ASSUME RefBaseConstants, Inv, NEW t \in Threads, AttExit(t), extended
    PROVE  Inv'
<1>1. /\ At(t, "AttLoop") /\ Call(t, <<"AttCanPromote">>)
      /\ UNCHANGED <<counts, memory, owners, cur, tgt, op, hooks, ops>>
    BY DEF AttExit
<1>2. Goes(t, "AttLoop", {"AttCanPromote"}) /\ "AttLoop" \in Steps
  <2>1. "AttLoop" \in Steps /\ "AttCanPromote" \in Steps
    BY DEF Steps
  <2>4. Below("AttLoop") \subseteq Below("AttCanPromote")
    BY BelowIs DEF Last
  <2> QED
    BY <1>1, <2>1, <2>4, Goes1 DEF Inv
<1>3. pend[t] = {"AttLoop"} /\ pend'[t] = {"AttCanPromote"}
  <2>1. Under("AttLoop") = {{}}
    BY UnderIs DEF Last
  <2> QED
    BY <1>2, <2>1 DEF Goes
<1>4. TypeOK' /\ Same(t)
    BY <1>1, <1>2 DEF Inv, TypeOK, Goes, Same, counts, memory, owners, hooks
<1>5. /\ UNCHANGED <<gains, drops, wgains, wdrops, owing, lasts, bases, refdrops, freeing,
            comings, onlast, onfirst, dying, stripped>>
      /\ t \in tries' => t \in tries
    BY <1>1, <1>3, <1>4, ThreadSets DEF Moved, drops, gains, tries, wgains, wdrops, owing,
       lasts, bases, refdrops, freeing, comings, onfirst, onlast, dying, stripped, Adding, Trying,
       Destroyed
<1>6. WrcSame(t)
    BY <1>1, <1>3 DEF WrcSame, memory, owners
<1>7. t \in raw => /\ pend'[t] \subseteq RawSteps
                   /\ op'[t] = "none" => pend'[t] \subseteq {"OnFirst"}
    BY <1>1, <1>3 DEF Inv, Locals, RawInv, RawSteps, TypeOK
<1>8. TagOf(t)'
  <2>1. TagOf(t)
    BY DEF Inv, Locals, TagInv
  <2>9. tgt \in [Threads -> Wrcs] /\ cur \in [Threads -> Nat]
        /\ op \in [Threads -> {"none", "promote", "acquire", "check"}]
    BY DEF Inv, TypeOK
  <2> QED
    BY <1>1, <1>3, <2>1, <2>9 DEF TagOf, Trying, owners, counts
<1>9. BackOf(t)'
  <2>1. BackOf(t)
    BY DEF Inv, Locals, BackInv
  <2>2. Only(t) => Only(t)'
    BY <1>1, <1>4, OnlyStays DEF Only, owners, counts
  <2> QED
    BY <1>1, <1>3, <2>1, <2>2 DEF BackOf, Adding, owners, memory
<1>10. weak'[t] = weak[t] /\ (Alive' <=> Alive)
    BY <1>1, <1>5, Frames DEF owners, counts, Inv
<1> QED
    BY <1>1, <1>2, <1>4, <1>5, <1>6, <1>7, <1>8, <1>9, <1>10, QuietKeeps

\* AttemptIncStrongRef leaves its loop on an object that is dead: the attempt
\* is going to fail.
LEMMA AttExitFailsKeeps ==
    ASSUME RefBaseConstants, Inv, NEW t \in Threads, AttExit(t), ~extended
    PROVE  Inv'
<1>0. cur[t] = 0 /\ cur' = cur /\ ~extended'
    BY DEF AttExit, MayRaise, Inv, TypeOK, counts
<1>1. /\ At(t, "AttLoop") /\ Call(t, <<"AttEnd">>)
      /\ UNCHANGED <<counts, memory, owners, cur, tgt, op, hooks, ops>>
    BY <1>0 DEF AttExit
<1>2. Goes(t, "AttLoop", {"AttEnd"}) /\ "AttLoop" \in Steps
  <2>1. "AttLoop" \in Steps /\ "AttEnd" \in Steps
    BY DEF Steps
  <2>4. Below("AttLoop") \subseteq Below("AttEnd")
    BY BelowIs DEF Last
  <2> QED
    BY <1>1, <2>1, <2>4, Goes1 DEF Inv
<1>3. pend[t] = {"AttLoop"} /\ pend'[t] = {"AttEnd"}
  <2>1. Under("AttLoop") = {{}}
    BY UnderIs DEF Last
  <2> QED
    BY <1>2, <2>1 DEF Goes
<1>4. TypeOK' /\ Same(t)
    BY <1>1, <1>2 DEF Inv, TypeOK, Goes, Same, counts, memory, owners, hooks
<1>5. /\ UNCHANGED <<gains, drops, wgains, wdrops, owing, lasts, bases, refdrops, freeing,
            comings, onlast, onfirst, dying, stripped>>
      /\ t \in tries' => t \in tries
    BY <1>1, <1>3, <1>4, <1>0, InitialIs, ThreadSets
    DEF Moved, drops, gains, tries, wgains, wdrops, owing,
       lasts, bases, refdrops, freeing, comings, onfirst, onlast, dying, stripped, Adding, Trying,
       Destroyed
<1>6. WrcSame(t)
    BY <1>1, <1>3 DEF WrcSame, memory, owners
<1>7. t \in raw => /\ pend'[t] \subseteq RawSteps
                   /\ op'[t] = "none" => pend'[t] \subseteq {"OnFirst"}
    BY <1>1, <1>3 DEF Inv, Locals, RawInv, RawSteps, TypeOK
<1>8. TagOf(t)'
  <2>1. TagOf(t)
    BY DEF Inv, Locals, TagInv
  <2>9. tgt \in [Threads -> Wrcs] /\ cur \in [Threads -> Nat]
        /\ op \in [Threads -> {"none", "promote", "acquire", "check"}]
    BY DEF Inv, TypeOK
  <2> QED
    BY <1>1, <1>3, <2>1, <2>9, <1>0 DEF TagOf, Trying, owners, counts
<1>9. BackOf(t)'
  <2>1. BackOf(t)
    BY DEF Inv, Locals, BackInv
  <2>2. Only(t) => Only(t)'
    BY <1>1, <1>4, OnlyStays DEF Only, owners, counts
  <2> QED
    BY <1>1, <1>3, <2>1, <2>2 DEF BackOf, Adding, owners, memory
<1>10. weak'[t] = weak[t] /\ (Alive' <=> Alive)
    BY <1>1, <1>5, Frames DEF owners, counts, Inv
<1> QED
    BY <1>1, <1>2, <1>4, <1>5, <1>6, <1>7, <1>8, <1>9, <1>10, QuietKeeps

\* AttemptIncStrongRef leaves its loop.
LEMMA AttExitKeeps ==
    ASSUME RefBaseConstants, Inv, NEW t \in Threads, AttExit(t)
    PROVE  Inv'
BY AttExitAsksKeeps, AttExitFailsKeeps

\* CanPromote() says yes.
LEMMA PromotesKeeps ==
    ASSUME RefBaseConstants, Inv, NEW t \in Threads, At(t, "AttCanPromote"), Call(t, <<"AttAdd">>),
           UNCHANGED <<counts, memory, owners, cur, tgt, op, hooks, ops>>
    PROVE  Inv'
<1>1. /\ At(t, "AttCanPromote") /\ Call(t, <<"AttAdd">>)
      /\ UNCHANGED <<counts, memory, owners, cur, tgt, op, hooks, ops>>
    OBVIOUS
<1>2. Goes(t, "AttCanPromote", {"AttAdd"}) /\ "AttCanPromote" \in Steps
  <2>1. "AttCanPromote" \in Steps /\ "AttAdd" \in Steps
    BY DEF Steps
  <2>4. Below("AttCanPromote") \subseteq Below("AttAdd")
    BY BelowIs DEF Last
  <2> QED
    BY <1>1, <2>1, <2>4, Goes1 DEF Inv
<1>3. pend[t] = {"AttCanPromote"} /\ pend'[t] = {"AttAdd"}
  <2>1. Under("AttCanPromote") = {{}}
    BY UnderIs DEF Last
  <2> QED
    BY <1>2, <2>1 DEF Goes
<1>4. TypeOK' /\ Same(t)
    BY <1>1, <1>2 DEF Inv, TypeOK, Goes, Same, counts, memory, owners, hooks
<1>5. /\ UNCHANGED <<gains, drops, wgains, wdrops, owing, lasts, bases, refdrops, freeing,
            comings, onlast, onfirst, dying, stripped>>
      /\ t \in tries' => t \in tries
    BY <1>1, <1>3, <1>4, ThreadSets DEF Moved, drops, gains, tries, wgains, wdrops, owing,
       lasts, bases, refdrops, freeing, comings, onfirst, onlast, dying, stripped, Adding, Trying,
       Destroyed
<1>6. WrcSame(t)
    BY <1>1, <1>3 DEF WrcSame, memory, owners
<1>7. t \in raw => /\ pend'[t] \subseteq RawSteps
                   /\ op'[t] = "none" => pend'[t] \subseteq {"OnFirst"}
    BY <1>1, <1>3 DEF Inv, Locals, RawInv, RawSteps, TypeOK
<1>8. TagOf(t)'
  <2>1. TagOf(t)
    BY DEF Inv, Locals, TagInv
  <2>9. tgt \in [Threads -> Wrcs] /\ cur \in [Threads -> Nat]
        /\ op \in [Threads -> {"none", "promote", "acquire", "check"}]
    BY DEF Inv, TypeOK
  <2> QED
    BY <1>1, <1>3, <2>1, <2>9 DEF TagOf, Trying, owners, counts
<1>9. BackOf(t)'
  <2>1. BackOf(t)
    BY DEF Inv, Locals, BackInv
  <2>2. Only(t) => Only(t)'
    BY <1>1, <1>4, OnlyStays DEF Only, owners, counts
  <2> QED
    BY <1>1, <1>3, <2>1, <2>2 DEF BackOf, Adding, owners, memory
<1>10. weak'[t] = weak[t] /\ (Alive' <=> Alive)
    BY <1>1, <1>5, Frames DEF owners, counts, Inv
<1> QED
    BY <1>1, <1>2, <1>4, <1>5, <1>6, <1>7, <1>8, <1>9, <1>10, QuietKeeps

\* WeakRefCounter::GetRefPtr finds the object before its destructor: the
\* promotion is attempted.
LEMMA TestPtrYesKeeps ==
    ASSUME RefBaseConstants, Inv, NEW t \in Threads, TestPtr(t), callback
    PROVE  Inv'
<1>1. /\ At(t, "TestPtr") /\ Call(t, <<"AttLoad">>)
      /\ UNCHANGED <<counts, memory, owners, cur, tgt, op, hooks, ops>>
    BY DEF TestPtr
<1>2. Goes(t, "TestPtr", {"AttLoad"}) /\ "TestPtr" \in Steps
  <2>1. "TestPtr" \in Steps /\ "AttLoad" \in Steps
    BY DEF Steps
  <2>4. Below("TestPtr") \subseteq Below("AttLoad")
    BY BelowIs DEF Last
  <2> QED
    BY <1>1, <2>1, <2>4, Goes1 DEF Inv
<1>3. pend[t] = {"TestPtr"} /\ pend'[t] = {"AttLoad"}
  <2>1. Under("TestPtr") = {{}}
    BY UnderIs DEF Last
  <2> QED
    BY <1>2, <2>1 DEF Goes
<1>4. TypeOK' /\ Same(t)
    BY <1>1, <1>2 DEF Inv, TypeOK, Goes, Same, counts, memory, owners, hooks
<1>5. /\ UNCHANGED <<gains, drops, wgains, wdrops, owing, lasts, bases, refdrops, freeing,
            comings, onlast, onfirst, dying, stripped>>
      /\ t \in tries' => t \in tries
    BY <1>1, <1>3, <1>4, ThreadSets DEF Moved, drops, gains, tries, wgains, wdrops, owing,
       lasts, bases, refdrops, freeing, comings, onfirst, onlast, dying, stripped, Adding, Trying,
       Destroyed
<1>6. WrcSame(t)
    BY <1>1, <1>3 DEF WrcSame, memory, owners
<1>7. t \notin raw
    BY <1>3 DEF Inv, Locals, RawInv
<1>8. TagOf(t)'
  <2>1. TagOf(t)
    BY DEF Inv, Locals, TagInv
  <2>9. tgt \in [Threads -> Wrcs] /\ cur \in [Threads -> Nat]
        /\ op \in [Threads -> {"none", "promote", "acquire", "check"}]
    BY DEF Inv, TypeOK
  <2> QED
    BY <1>1, <1>3, <2>1, <2>9 DEF TagOf, Trying, owners, counts
<1>9. BackOf(t)'
  <2>1. BackOf(t)
    BY DEF Inv, Locals, BackInv
  <2>2. Only(t) => Only(t)'
    BY <1>1, <1>4, OnlyStays DEF Only, owners, counts
  <2> QED
    BY <1>1, <1>3, <2>1, <2>2 DEF BackOf, Adding, owners, memory
<1>10. weak'[t] = weak[t] /\ (Alive' <=> Alive)
    BY <1>1, <1>5, Frames DEF owners, counts, Inv
<1> QED
    BY <1>1, <1>2, <1>4, <1>5, <1>6, <1>7, <1>8, <1>9, <1>10, QuietKeeps

\* WeakRefCounter::GetRefPtr finds the object destroyed: no promotion is
\* attempted.
LEMMA TestPtrNoKeeps ==
    ASSUME RefBaseConstants, Inv, NEW t \in Threads, TestPtr(t), ~callback
    PROVE  Inv'
<1>1. /\ At(t, "TestPtr") /\ Call(t, <<>>)
      /\ UNCHANGED <<counts, memory, owners, cur, tgt, op, hooks, ops>>
    BY DEF TestPtr
<1>2. Goes(t, "TestPtr", {}) /\ "TestPtr" \in Steps
  <2>1. "TestPtr" \in Steps
    BY DEF Steps
  <2> QED
    BY <1>1, <2>1, Goes0 DEF Inv
<1>3. pend[t] = {"TestPtr"} /\ pend'[t] = {}
  <2>1. Under("TestPtr") = {{}}
    BY UnderIs DEF Last
  <2> QED
    BY <1>2, <2>1 DEF Goes
<1>4. TypeOK' /\ Same(t)
    BY <1>1, <1>2 DEF Inv, TypeOK, Goes, Same, counts, memory, owners, hooks
<1>5. /\ UNCHANGED <<gains, drops, wgains, wdrops, owing, lasts, bases, refdrops, freeing,
            comings, onlast, onfirst, dying, stripped>>
      /\ t \in tries' => t \in tries
    BY <1>1, <1>3, <1>4, ThreadSets DEF Moved, drops, gains, tries, wgains, wdrops, owing,
       lasts, bases, refdrops, freeing, comings, onfirst, onlast, dying, stripped, Adding, Trying,
       Destroyed
<1>6. WrcSame(t)
    BY <1>1, <1>3 DEF WrcSame, memory, owners
<1>7. t \notin raw
    BY <1>3 DEF Inv, Locals, RawInv
<1>8. TagOf(t)'
  <2>1. TagOf(t)
    BY DEF Inv, Locals, TagInv
  <2>9. tgt \in [Threads -> Wrcs] /\ cur \in [Threads -> Nat]
        /\ op \in [Threads -> {"none", "promote", "acquire", "check"}]
    BY DEF Inv, TypeOK
  <2> QED
    BY <1>1, <1>3, <2>1, <2>9 DEF TagOf, Trying, owners, counts
<1>9. BackOf(t)'
  <2>1. BackOf(t)
    BY DEF Inv, Locals, BackInv
  <2>2. Only(t) => Only(t)'
    BY <1>1, <1>4, OnlyStays DEF Only, owners, counts
  <2> QED
    BY <1>1, <1>3, <2>1, <2>2 DEF BackOf, Adding, owners, memory
<1>10. weak'[t] = weak[t] /\ (Alive' <=> Alive)
    BY <1>1, <1>5, Frames DEF owners, counts, Inv
<1> QED
    BY <1>1, <1>2, <1>4, <1>5, <1>6, <1>7, <1>8, <1>9, <1>10, QuietKeeps

\* WeakRefCounter::GetRefPtr reads the RefCounter only.
LEMMA TestPtrKeeps ==
    ASSUME RefBaseConstants, Inv, NEW t \in Threads, TestPtr(t)
    PROVE  Inv'
BY TestPtrYesKeeps, TestPtrNoKeeps

\* WeakRefCounter::GetRefPtr after a promotion: the reference keeps the
\* object, so the pointer is not null.
LEMMA GetRefPtrKeeps ==
    ASSUME RefBaseConstants, Inv, NEW t \in Threads, GetRefPtr(t)
    PROVE  Inv'
<1>0. callback
  <2>1. At(t, "GetRefPtr") /\ "GetRefPtr" \in Steps /\ Stacked
    BY DEF GetRefPtr, Steps, Inv
  <2>2. pend[t] = {"GetRefPtr"}
    BY <2>1, AtPend, UnderIs DEF Last
  <2>3. t \in gains /\ t \in wgains
    BY <2>2 DEF gains, wgains
  <2>4. strong[t] > 0 /\ weak[t] > 0 /\ acquired \in Nat /\ atomicWeak \in Nat
    BY <2>3 DEF strong, weak, One, Inv, TypeOK
  <2>5. atomicStrong > 0 /\ Alive
    BY <2>4, StrongFacts, WeakFacts DEF Alive
  <2> QED
    BY <2>5, LifeFacts
<1>1. /\ At(t, "GetRefPtr") /\ Call(t, <<"GotSptr">>) /\ op' = [op EXCEPT ![t] = "none"]
      /\ UNCHANGED <<counts, memory, owners, cur, tgt, hooks, ops>>
    BY <1>0 DEF GetRefPtr
<1>2. Goes(t, "GetRefPtr", {"GotSptr"}) /\ "GetRefPtr" \in Steps
  <2>1. "GetRefPtr" \in Steps /\ "GotSptr" \in Steps
    BY DEF Steps
  <2>4. Below("GetRefPtr") \subseteq Below("GotSptr")
    BY BelowIs DEF Last
  <2> QED
    BY <1>1, <2>1, <2>4, Goes1 DEF Inv
<1>3. pend[t] = {"GetRefPtr"} /\ pend'[t] = {"GotSptr"}
  <2>1. Under("GetRefPtr") = {{}}
    BY UnderIs DEF Last
  <2> QED
    BY <1>2, <2>1 DEF Goes
<1>4. TypeOK' /\ Same(t)
  <2>1. /\ op' \in [Threads -> {"none", "promote", "acquire", "check"}]
        /\ \A u \in Threads : u # t => op'[u] = op[u]
    BY <1>1 DEF Inv, TypeOK
  <2> QED
    BY <1>1, <1>2, <2>1 DEF Inv, TypeOK, Goes, Same, counts, memory, owners, hooks
<1>5. /\ UNCHANGED <<gains, drops, wgains, wdrops, owing, lasts, bases, refdrops, freeing,
            comings, onlast, onfirst, dying, stripped>>
      /\ t \in tries' => t \in tries
    BY <1>1, <1>3, <1>4, ThreadSets DEF Moved, drops, gains, tries, wgains, wdrops, owing,
       lasts, bases, refdrops, freeing, comings, onfirst, onlast, dying, stripped, Adding, Trying,
       Destroyed
<1>6. WrcSame(t)
    BY <1>1, <1>3 DEF WrcSame, memory, owners
<1>7. t \notin raw
    BY <1>3 DEF Inv, Locals, RawInv
<1>8. TagOf(t)'
  <2>1. TagOf(t)
    BY DEF Inv, Locals, TagInv
  <2>9. tgt \in [Threads -> Wrcs] /\ cur \in [Threads -> Nat]
        /\ op \in [Threads -> {"none", "promote", "acquire", "check"}]
    BY DEF Inv, TypeOK
  <2> QED
    BY <1>1, <1>3, <2>1, <2>9 DEF TagOf, Trying, owners, counts
<1>9. BackOf(t)'
  <2>1. BackOf(t)
    BY DEF Inv, Locals, BackInv
  <2>2. Only(t) => Only(t)'
    BY <1>1, <1>4, OnlyStays DEF Only, owners, counts
  <2> QED
    BY <1>1, <1>3, <2>1, <2>2 DEF BackOf, Adding, owners, memory
<1>10. weak'[t] = weak[t] /\ (Alive' <=> Alive)
    BY <1>1, <1>5, Frames DEF owners, counts, Inv
<1> QED
    BY <1>1, <1>2, <1>4, <1>5, <1>6, <1>7, <1>8, <1>9, <1>10, QuietKeeps

\* AttemptIncStrong, the load: local to the thread.
LEMMA AttSLoadKeeps ==
    ASSUME RefBaseConstants, Inv, NEW t \in Threads, AttSLoad(t)
    PROVE  Inv'
<1>0. atomicStrong > 0
  <2>1. At(t, "AttSLoad") /\ "AttSLoad" \in Steps /\ Stacked
    BY DEF AttSLoad, Steps, Inv
  <2>2. "AttSLoad" \in pend[t]
    BY <2>1, AtPend
  <2>3. sptrs[t] > 0
    BY <2>2 DEF Inv, Locals, BackInv, BackOf
  <2> QED
    BY <2>3, NeededStrong
<1>1. /\ At(t, "AttSLoad") /\ Call(t, <<"AttSLoop">>) /\ cur' = [cur EXCEPT ![t] = atomicStrong]
      /\ UNCHANGED <<counts, memory, owners, tgt, op, hooks, ops>>
    BY <1>0 DEF AttSLoad, SetCur, AttSTry
<1>2. Goes(t, "AttSLoad", {"AttSLoop"}) /\ "AttSLoad" \in Steps
  <2>1. "AttSLoad" \in Steps /\ "AttSLoop" \in Steps
    BY DEF Steps
  <2>4. Below("AttSLoad") \subseteq Below("AttSLoop")
    BY BelowIs DEF Last
  <2> QED
    BY <1>1, <2>1, <2>4, Goes1 DEF Inv
<1>3. pend[t] = {"AttSLoad"} /\ pend'[t] = {"AttSLoop"}
  <2>1. Under("AttSLoad") = {{}}
    BY UnderIs DEF Last
  <2> QED
    BY <1>2, <2>1 DEF Goes
<1>4. TypeOK' /\ Same(t)
  <2>1. cur' \in [Threads -> Nat] /\ \A u \in Threads : u # t => cur'[u] = cur[u]
    BY <1>1 DEF Inv, TypeOK
  <2> QED
    BY <1>1, <1>2, <2>1 DEF Inv, TypeOK, Goes, Same, counts, memory, owners, hooks
<1>5. /\ UNCHANGED <<gains, drops, wgains, wdrops, owing, lasts, bases, refdrops, freeing,
            comings, onlast, onfirst, dying, stripped>>
      /\ t \in tries' => t \in tries
    BY <1>1, <1>3, <1>4, ThreadSets DEF Moved, drops, gains, tries, wgains, wdrops, owing,
       lasts, bases, refdrops, freeing, comings, onfirst, onlast, dying, stripped, Adding, Trying,
       Destroyed
<1>6. WrcSame(t)
    BY <1>1, <1>3 DEF WrcSame, memory, owners
<1>7. t \notin raw
    BY <1>3 DEF Inv, Locals, RawInv
<1>8. TagOf(t)'
  <2>1. TagOf(t)
    BY DEF Inv, Locals, TagInv
  <2>9. tgt \in [Threads -> Wrcs] /\ cur \in [Threads -> Nat]
        /\ op \in [Threads -> {"none", "promote", "acquire", "check"}]
    BY DEF Inv, TypeOK
  <2> QED
    BY <1>1, <1>3, <2>1, <2>9 DEF TagOf, Trying, owners, counts
<1>9. BackOf(t)'
  <2>1. BackOf(t)
    BY DEF Inv, Locals, BackInv
  <2>2. Only(t) => Only(t)'
    BY <1>1, <1>4, OnlyStays DEF Only, owners, counts
  <2> QED
    BY <1>1, <1>3, <2>1, <2>2 DEF BackOf, Adding, owners, memory
<1>10. weak'[t] = weak[t] /\ (Alive' <=> Alive)
    BY <1>1, <1>5, Frames DEF owners, counts, Inv
<1> QED
    BY <1>1, <1>2, <1>4, <1>5, <1>6, <1>7, <1>8, <1>9, <1>10, QuietKeeps

\* AttemptIncStrong, the failed exchange: the thread tries again.
LEMMA AttSCasFailKeeps ==
    ASSUME RefBaseConstants, Inv, NEW t \in Threads, AttSCasFail(t)
    PROVE  Inv'
<1>0. atomicStrong > 0
  <2>1. At(t, "AttSLoop") /\ "AttSLoop" \in Steps /\ Stacked
    BY DEF AttSCasFail, Steps, Inv
  <2>2. "AttSLoop" \in pend[t]
    BY <2>1, AtPend
  <2>3. sptrs[t] > 0
    BY <2>2 DEF Inv, Locals, BackInv, BackOf
  <2> QED
    BY <2>3, NeededStrong
<1>1. /\ At(t, "AttSLoop") /\ Call(t, <<"AttSLoop">>) /\ cur' = [cur EXCEPT ![t] = atomicStrong]
      /\ UNCHANGED <<counts, memory, owners, tgt, op, hooks, ops>>
    BY <1>0 DEF AttSCasFail, SetCur, AttSTry
<1>2. Goes(t, "AttSLoop", {"AttSLoop"}) /\ "AttSLoop" \in Steps
  <2>1. "AttSLoop" \in Steps /\ "AttSLoop" \in Steps
    BY DEF Steps
  <2>4. Below("AttSLoop") \subseteq Below("AttSLoop")
    BY BelowIs DEF Last
  <2> QED
    BY <1>1, <2>1, <2>4, Goes1 DEF Inv
<1>3. pend[t] = {"AttSLoop"} /\ pend'[t] = {"AttSLoop"}
  <2>1. Under("AttSLoop") = {{}}
    BY UnderIs DEF Last
  <2> QED
    BY <1>2, <2>1 DEF Goes
<1>4. TypeOK' /\ Same(t)
  <2>1. cur' \in [Threads -> Nat] /\ \A u \in Threads : u # t => cur'[u] = cur[u]
    BY <1>1 DEF Inv, TypeOK
  <2> QED
    BY <1>1, <1>2, <2>1 DEF Inv, TypeOK, Goes, Same, counts, memory, owners, hooks
<1>5. /\ UNCHANGED <<gains, drops, wgains, wdrops, owing, lasts, bases, refdrops, freeing,
            comings, onlast, onfirst, dying, stripped>>
      /\ t \in tries' => t \in tries
    BY <1>1, <1>3, <1>4, ThreadSets DEF Moved, drops, gains, tries, wgains, wdrops, owing,
       lasts, bases, refdrops, freeing, comings, onfirst, onlast, dying, stripped, Adding, Trying,
       Destroyed
<1>6. WrcSame(t)
    BY <1>1, <1>3 DEF WrcSame, memory, owners
<1>7. t \notin raw
    BY <1>3 DEF Inv, Locals, RawInv
<1>8. TagOf(t)'
  <2>1. TagOf(t)
    BY DEF Inv, Locals, TagInv
  <2>9. tgt \in [Threads -> Wrcs] /\ cur \in [Threads -> Nat]
        /\ op \in [Threads -> {"none", "promote", "acquire", "check"}]
    BY DEF Inv, TypeOK
  <2> QED
    BY <1>1, <1>3, <2>1, <2>9 DEF TagOf, Trying, owners, counts
<1>9. BackOf(t)'
  <2>1. BackOf(t)
    BY DEF Inv, Locals, BackInv
  <2>2. Only(t) => Only(t)'
    BY <1>1, <1>4, OnlyStays DEF Only, owners, counts
  <2> QED
    BY <1>1, <1>3, <2>1, <2>2 DEF BackOf, Adding, owners, memory
<1>10. weak'[t] = weak[t] /\ (Alive' <=> Alive)
    BY <1>1, <1>5, Frames DEF owners, counts, Inv
<1> QED
    BY <1>1, <1>2, <1>4, <1>5, <1>6, <1>7, <1>8, <1>9, <1>10, QuietKeeps

\* CheckIsAttemptAcquireSet: read by the one thread that sets and clears it.
LEMMA CheckAttemptKeeps ==
    ASSUME RefBaseConstants, Inv, NEW t \in Threads, CheckAttempt(t)
    PROVE  Inv'
<1>0. atomicAttempt > 0
  <2>1. At(t, "CheckAttempt") /\ "CheckAttempt" \in Steps /\ Stacked
    BY DEF CheckAttempt, Steps, Inv
  <2>2. "CheckAttempt" \in pend[t]
    BY <2>1, AtPend
  <2>3. acquired > 0
    BY <2>2 DEF Inv, Locals, BackInv, BackOf
  <2> QED
    BY <2>3 DEF Inv, TypeOK
<1>1. /\ At(t, "CheckAttempt") /\ Call(t, <<"ClearAttempt">>)
      /\ UNCHANGED <<counts, memory, owners, cur, tgt, op, hooks, ops>>
    BY <1>0 DEF CheckAttempt
<1>2. Goes(t, "CheckAttempt", {"ClearAttempt"}) /\ "CheckAttempt" \in Steps
  <2>1. "CheckAttempt" \in Steps /\ "ClearAttempt" \in Steps
    BY DEF Steps
  <2>4. Below("CheckAttempt") \subseteq Below("ClearAttempt")
    BY BelowIs DEF Last
  <2> QED
    BY <1>1, <2>1, <2>4, Goes1 DEF Inv
<1>3. pend[t] = {"CheckAttempt"} /\ pend'[t] = {"ClearAttempt"}
  <2>1. Under("CheckAttempt") = {{}}
    BY UnderIs DEF Last
  <2> QED
    BY <1>2, <2>1 DEF Goes
<1>4. TypeOK' /\ Same(t)
    BY <1>1, <1>2 DEF Inv, TypeOK, Goes, Same, counts, memory, owners, hooks
<1>5. /\ UNCHANGED <<gains, drops, wgains, wdrops, owing, lasts, bases, refdrops, freeing,
            comings, onlast, onfirst, dying, stripped>>
      /\ t \in tries' => t \in tries
    BY <1>1, <1>3, <1>4, ThreadSets DEF Moved, drops, gains, tries, wgains, wdrops, owing,
       lasts, bases, refdrops, freeing, comings, onfirst, onlast, dying, stripped, Adding, Trying,
       Destroyed
<1>6. WrcSame(t)
    BY <1>1, <1>3 DEF WrcSame, memory, owners
<1>7. t \notin raw
    BY <1>3 DEF Inv, Locals, RawInv
<1>8. TagOf(t)'
  <2>1. TagOf(t)
    BY DEF Inv, Locals, TagInv
  <2>9. tgt \in [Threads -> Wrcs] /\ cur \in [Threads -> Nat]
        /\ op \in [Threads -> {"none", "promote", "acquire", "check"}]
    BY DEF Inv, TypeOK
  <2> QED
    BY <1>1, <1>3, <2>1, <2>9 DEF TagOf, Trying, owners, counts
<1>9. BackOf(t)'
  <2>1. BackOf(t)
    BY DEF Inv, Locals, BackInv
  <2>2. Only(t) => Only(t)'
    BY <1>1, <1>4, OnlyStays DEF Only, owners, counts
  <2> QED
    BY <1>1, <1>3, <2>1, <2>2 DEF BackOf, Adding, owners, memory
<1>10. weak'[t] = weak[t] /\ (Alive' <=> Alive)
    BY <1>1, <1>5, Frames DEF owners, counts, Inv
<1> QED
    BY <1>1, <1>2, <1>4, <1>5, <1>6, <1>7, <1>8, <1>9, <1>10, QuietKeeps

\* AttemptIncStrongRef, the load: the thread raises atomicWeak next, kept by
\* its wptr or its own reference.
LEMMA AttLoadKeeps ==
    ASSUME RefBaseConstants, Inv, NEW t \in Threads, AttLoad(t)
    PROVE  Inv'
<1>1. /\ At(t, "AttLoad") /\ Call(t, <<"IncWeak", "AttLoop">>)
          /\ cur' = [cur EXCEPT ![t] = atomicStrong]
              /\ op' = [op EXCEPT ![t] = IF @ = "acquire" THEN @ ELSE "promote"]
      /\ UNCHANGED <<counts, memory, owners, tgt, hooks, ops>>
    BY DEF AttLoad, SetCur
<1>2. Goes(t, "AttLoad", {"IncWeak", "AttLoop"}) /\ "AttLoad" \in Steps
  <2>1. "AttLoad" \in Steps /\ "IncWeak" \in Steps /\ "AttLoop" \in Steps
    BY DEF Steps
  <2>2. \A r \in Below("AttLoad") : r = <<>>
    BY BelowIs DEF Last
  <2>3. <<"AttLoop">> \o <<>> = <<"AttLoop">>
    OBVIOUS
  <2>4. /\ Below("AttLoad") \subseteq Below("AttLoop")
        /\ \A r \in Below("AttLoad") : <<"AttLoop">> \o r \in Below("IncWeak")
    BY <2>2, <2>3, BelowIs DEF Last
  <2> QED
    BY <1>1, <2>1, <2>4, Goes2 DEF Inv
<1>3. pend[t] = {"AttLoad"} /\ pend'[t] = {"IncWeak", "AttLoop"}
  <2>1. Under("AttLoad") = {{}}
    BY UnderIs DEF Last
  <2> QED
    BY <1>2, <2>1 DEF Goes
<1>4. TypeOK' /\ Same(t)
  <2>1. /\ cur' \in [Threads -> Nat] /\ \A u \in Threads : u # t => cur'[u] = cur[u]
        /\ op' \in [Threads -> {"none", "promote", "acquire", "check"}]
        /\ \A u \in Threads : u # t => op'[u] = op[u]
    BY <1>1 DEF Inv, TypeOK
  <2> QED
    BY <1>1, <1>2, <2>1 DEF Inv, TypeOK, Goes, Same, counts, memory, owners, hooks
<1>5. /\ UNCHANGED <<gains, drops, wgains, wdrops, owing, lasts, bases, refdrops, freeing,
            onlast, onfirst, dying, stripped>>
      /\ t \in tries' => t \in tries
    BY <1>1, <1>3, <1>4, ThreadSets DEF Moved, drops, gains, tries, wgains, wdrops, owing,
       lasts, bases, refdrops, freeing, comings, onfirst, onlast, dying, stripped, Adding, Trying,
       Destroyed
<1>6. WrcSame(t)
    BY <1>1, <1>3 DEF WrcSame, memory, owners
<1>7. t \in raw => /\ pend'[t] \subseteq RawSteps
                   /\ op'[t] = "none" => pend'[t] \subseteq {"OnFirst"}
    BY <1>1, <1>3 DEF Inv, Locals, RawInv, RawSteps, TypeOK
<1>8. TagOf(t)'
  <2>1. TagOf(t)
    BY DEF Inv, Locals, TagInv
  <2>2. op[t] = "acquire" => atomicStrong > 0
    BY <2>1, NeededStrong DEF TagOf
  <2>9. tgt \in [Threads -> Wrcs] /\ cur \in [Threads -> Nat]
        /\ op \in [Threads -> {"none", "promote", "acquire", "check"}]
    BY DEF Inv, TypeOK
  <2> QED
    BY <1>1, <1>3, <2>1, <2>9, <2>2 DEF TagOf, Trying, owners, counts
<1>9. BackOf(t)'
  <2>1. BackOf(t)
    BY DEF Inv, Locals, BackInv
  <2>2. Only(t) => Only(t)'
    BY <1>1, <1>4, OnlyStays DEF Only, owners, counts
  <2> QED
    BY <1>1, <1>3, <2>1, <2>2 DEF BackOf, Adding, owners, memory
<1>10. weak'[t] = weak[t]
    BY <1>1, <1>5, Frames DEF owners, counts, Inv
<1>11. Alive' <=> Alive
  <2>1. TagOf(t)
    BY DEF Inv, Locals, TagInv
  <2>2. t \in raw \/ sptrs[t] > 0 \/ wptrs[t][tgt[t]] > 0
    BY <1>3, <2>1 DEF TagOf
  <2>3. sptrs[t] > 0 => weak[t] > 0
    BY DEF weak, One, Inv, TypeOK
  <2>4. acquired \in Nat /\ atomicWeak \in Nat /\ tgt[t] \in Wrcs /\ wptrs[t][tgt[t]] \in Nat
    BY DEF Inv, TypeOK
  <2>5. wptrs[t][tgt[t]] > 0 => on[tgt[t]][t] > 0
    BY <2>4, WeakFacts
  <2>6. Alive
    BY <2>2, <2>3, <2>4, <2>5, WeakFacts DEF Alive
  <2>7. t \in comings'
    BY <1>3 DEF comings
  <2> QED
    BY <2>6, <2>7 DEF Alive
<1> QED
    BY <1>1, <1>2, <1>4, <1>5, <1>6, <1>7, <1>8, <1>9, <1>10, <1>11, QuietKeeps

\* A step that raises atomicStrong for a new reference.
LEMMA RaiseKeeps ==
    ASSUME RefBaseConstants, Inv, NEW t \in Threads, NEW s \in Steps, NEW B, Goes(t, s, B),
           Same(t), TypeOK', WrcSame(t),
           Alive, atomicStrong > 0 \/ extended, atomicStrong' = atomicStrong + 1,
           UNCHANGED <<atomicWeak, atomicRefCount, memory, owners, hooks, ops>>,
           UNCHANGED <<drops, wgains, wdrops, lasts, bases, refdrops, freeing, comings, onlast,
                       dying, stripped>>,
           t \notin gains, t \in gains', t \in tries, t \notin tries', t \notin owing,
           t \in owing' <=> atomicStrong = INITIAL_PRIMARY_VALUE,
           t \notin onfirst, t \in onfirst' => atomicStrong = INITIAL_PRIMARY_VALUE,
           t \in raw => /\ pend'[t] \subseteq RawSteps
                        /\ op'[t] = "none" => pend'[t] \subseteq {"OnFirst"},
           TagOf(t)', BackOf(t)'
    PROVE  Inv'
<1>1. Stacked' /\ Knows(t)
    BY DEF Goes, Knows
<1>2. Counts' /\ Memory'
    BY RaiseStep
<1>3. /\ UNCHANGED <<raw, acquired, sptrs, wptrs, wrc>> /\ acquired \in Nat /\ atomicStrong' > 0
    BY DEF owners, memory, Inv, TypeOK
<1>4. Locals'
    BY <1>1, <1>3, LocalsStep
<1> QED
    BY <1>1, <1>2, <1>4 DEF Inv

\* RefCounter::IncStrongRefCount, the increment: a first reference leaves the
\* thread owing the initial value.
LEMMA IncStrongAddKeeps ==
    ASSUME RefBaseConstants, Inv, NEW t \in Threads, IncStrongAdd(t)
    PROVE  Inv'
<1>1. /\ At(t, "IncStrongAdd") /\ Call(t, AfterIncStrong(atomicStrong))
          /\ cur' = [cur EXCEPT ![t] = atomicStrong]
      /\ atomicStrong' = atomicStrong + 1
      /\ UNCHANGED <<atomicWeak, atomicRefCount, atomicAttempt, extended, memory, owners,
            tgt, op, hooks, ops>>
    BY DEF IncStrongAdd, SetCur
<1>2. Goes(t, "IncStrongAdd", (IF atomicStrong = INITIAL_PRIMARY_VALUE THEN {"SubInitial",
         "OnFirst"} ELSE {})) /\ "IncStrongAdd" \in Steps
  <2>1. "IncStrongAdd" \in Steps /\ "SubInitial" \in Steps /\ "OnFirst" \in Steps
    BY DEF Steps
  <2>2. /\ Below("IncStrongAdd") \subseteq Below("OnFirst")
        /\ \A r \in Below("IncStrongAdd") : <<"OnFirst">> \o r \in Below("SubInitial")
    BY BelowIs
  <2>3. CASE atomicStrong = INITIAL_PRIMARY_VALUE
    <3>1. Call(t, <<"SubInitial", "OnFirst">>)
      BY <1>1, <2>3 DEF AfterIncStrong
    <3> QED
      BY <1>1, <2>1, <2>2, <2>3, <3>1, Goes2 DEF Inv
  <2>4. CASE atomicStrong # INITIAL_PRIMARY_VALUE
    <3>1. Call(t, <<>>)
      BY <1>1, <2>4 DEF AfterIncStrong
    <3> QED
      BY <1>1, <2>1, <2>4, <3>1, Goes0 DEF Inv
  <2> QED
    BY <2>3, <2>4
<1>3. PICK e \in GotSets : pend[t] = {"IncStrongAdd"} \union e
           /\ pend'[t] = (IF atomicStrong = INITIAL_PRIMARY_VALUE THEN {"SubInitial",
                 "OnFirst"} ELSE {}) \union e
    BY <1>2, UnderIs DEF Goes
<1>4. TypeOK' /\ Same(t)
  <2>1. cur' \in [Threads -> Nat] /\ \A u \in Threads : u # t => cur'[u] = cur[u]
    BY <1>1 DEF Inv, TypeOK
  <2>2. atomicStrong' \in Nat
    BY <1>1 DEF Inv, TypeOK
  <2> QED
    BY <1>1, <1>2, <2>1, <2>2 DEF Inv, TypeOK, Goes, Same, memory, owners, hooks
<1>5. TagOf(t) /\ BackOf(t)
    BY DEF Inv, Locals, TagInv, BackInv
<1>6. atomicStrong > 0
  <2>1. sptrs[t] > 0 \/ "DecStrongLoad" \in pend[t] \/ Only(t)
    BY <1>3, <1>5 DEF BackOf, Adding
  <2>2. "DecStrongLoad" \in pend[t] => strong[t] > 0
    BY DEF strong, drops, One, Inv, TypeOK
  <2>3. acquired \in Nat
    BY DEF Inv, TypeOK
  <2> QED
    BY <2>1, <2>2, <2>3, NeededStrong, StrongFacts DEF Only
<1>7. /\ UNCHANGED <<drops, wgains, wdrops, lasts, bases, refdrops, freeing, comings, onlast,
                     dying, stripped>>
      /\ t \notin gains /\ t \in gains' /\ t \in tries /\ t \notin tries' /\ t \notin owing
      /\ t \in owing' <=> atomicStrong = INITIAL_PRIMARY_VALUE
      /\ t \notin onfirst /\ (t \in onfirst' => atomicStrong = INITIAL_PRIMARY_VALUE)
      /\ t \in wgains
    BY <1>1, <1>3, <1>4, <1>6, ThreadSets
    DEF Moved, GotSets, drops, gains, tries, wgains, wdrops, owing,
       lasts, bases, refdrops, freeing, comings, onfirst, onlast, dying, stripped, Adding, Trying,
       Destroyed
<1>8. WrcSame(t)
    BY <1>1, <1>3 DEF WrcSame, GotSets, memory, owners
<1>9. Alive
  <2>1. weak[t] > 0 /\ acquired \in Nat /\ atomicWeak \in Nat
    BY <1>7 DEF weak, One, Inv, TypeOK
  <2> QED
    BY <2>1, WeakFacts DEF Alive
<1>10. t \notin raw
    BY <1>3 DEF Inv, Locals, RawInv
<1>11. TagOf(t)'
  <2>1. cur \in [Threads -> Nat]
    BY DEF Inv, TypeOK
  <2> QED
    BY <1>1, <1>3, <1>5, <1>6, <2>1 DEF TagOf, GotSets, Trying, owners
<1>12. BackOf(t)'
    BY <1>1, <1>3, <1>5, <1>6 DEF BackOf, GotSets, Adding, owners, memory
<1> QED
    BY <1>1, <1>2, <1>4, <1>6, <1>7, <1>8, <1>9, <1>10, <1>11, <1>12, RaiseKeeps

\* AttemptIncStrongRef, the exchange: a reference is added to a count that
\* was not 0, so the object lives.
LEMMA AttCasKeeps ==
    ASSUME RefBaseConstants, Inv, NEW t \in Threads, AttCas(t)
    PROVE  Inv'
<1>1. /\ At(t, "AttLoop") /\ Call(t, <<"AttEnd">>)
      /\ atomicStrong' = atomicStrong + 1
      /\ UNCHANGED <<atomicWeak, atomicRefCount, atomicAttempt, extended, memory, owners,
            cur, tgt, op, hooks, ops>>
    BY DEF AttCas, SetCur, MayRaise
<1>2. Goes(t, "AttLoop", {"AttEnd"}) /\ "AttLoop" \in Steps
  <2>1. /\ "AttLoop" \in Steps /\ "AttEnd" \in Steps
        /\ Below("AttLoop") \subseteq Below("AttEnd")
    BY BelowIs DEF Steps, Last
  <2> QED
    BY <1>1, <2>1, Goes1 DEF Inv
<1>3. pend[t] = {"AttLoop"} /\ pend'[t] = {"AttEnd"}
  <2>1. Under("AttLoop") = {{}}
    BY UnderIs DEF Last
  <2> QED
    BY <1>2, <2>1 DEF Goes
<1>4. TypeOK' /\ Same(t)
  <2>2. atomicStrong' \in Nat
    BY <1>1 DEF Inv, TypeOK
  <2> QED
    BY <1>1, <1>2, <2>2 DEF Inv, TypeOK, Goes, Same, memory, owners, hooks
<1>5. TagOf(t) /\ BackOf(t)
    BY DEF Inv, Locals, TagInv, BackInv
<1>6. /\ atomicStrong > 0 /\ cur[t] = atomicStrong /\ cur' = cur
      /\ atomicStrong \in Nat
    BY DEF AttCas, MayRaise, Inv, TypeOK
<1>7. /\ UNCHANGED <<drops, wgains, wdrops, lasts, bases, refdrops, freeing, comings, onlast,
                     dying, stripped>>
      /\ t \notin gains /\ t \in gains' /\ t \in tries /\ t \notin tries' /\ t \notin owing
      /\ t \in owing' <=> atomicStrong = INITIAL_PRIMARY_VALUE
      /\ t \notin onfirst /\ (t \in onfirst' => atomicStrong = INITIAL_PRIMARY_VALUE)
      /\ t \in wgains
    BY <1>1, <1>3, <1>4, <1>6, ThreadSets DEF Moved, drops, gains, tries, wgains, wdrops, owing,
       lasts, bases, refdrops, freeing, comings, onfirst, onlast, dying, stripped, Adding, Trying,
       Destroyed
<1>8. WrcSame(t)
    BY <1>1, <1>3 DEF WrcSame, memory, owners
<1>9. Alive
  <2>1. weak[t] > 0 /\ acquired \in Nat /\ atomicWeak \in Nat
    BY <1>7 DEF weak, One, Inv, TypeOK
  <2> QED
    BY <2>1, WeakFacts DEF Alive
<1>10. t \in raw => /\ pend'[t] \subseteq RawSteps
                    /\ op'[t] = "none" => pend'[t] \subseteq {"OnFirst"}
    BY <1>1, <1>3 DEF Inv, Locals, RawInv, RawSteps, TypeOK
<1>11. TagOf(t)'
  <2>1. cur \in [Threads -> Nat]
    BY DEF Inv, TypeOK
  <2> QED
    BY <1>1, <1>3, <1>5, <1>6, <2>1 DEF TagOf, Trying, owners
<1>12. BackOf(t)'
    BY <1>1, <1>3, <1>5, <1>6 DEF BackOf, Adding, owners, memory
<1> QED
    BY <1>1, <1>2, <1>4, <1>6, <1>7, <1>8, <1>9, <1>10, <1>11, <1>12, RaiseKeeps

\* AttemptIncStrongRef, the increment after CanPromote: on an object with an
\* extended life.
LEMMA AttAddKeeps ==
    ASSUME RefBaseConstants, Inv, NEW t \in Threads, AttAdd(t)
    PROVE  Inv'
<1>1. /\ At(t, "AttAdd") /\ Call(t, <<"AttEnd">>) /\ cur' = [cur EXCEPT ![t] = atomicStrong]
      /\ atomicStrong' = atomicStrong + 1
      /\ UNCHANGED <<atomicWeak, atomicRefCount, atomicAttempt, extended, memory, owners,
            tgt, op, hooks, ops>>
    BY DEF AttAdd, SetCur
<1>2. Goes(t, "AttAdd", {"AttEnd"}) /\ "AttAdd" \in Steps
  <2>1. /\ "AttAdd" \in Steps /\ "AttEnd" \in Steps
        /\ Below("AttAdd") \subseteq Below("AttEnd")
    BY BelowIs DEF Steps, Last
  <2> QED
    BY <1>1, <2>1, Goes1 DEF Inv
<1>3. pend[t] = {"AttAdd"} /\ pend'[t] = {"AttEnd"}
  <2>1. Under("AttAdd") = {{}}
    BY UnderIs DEF Last
  <2> QED
    BY <1>2, <2>1 DEF Goes
<1>4. TypeOK' /\ Same(t)
  <2>1. cur' \in [Threads -> Nat] /\ \A u \in Threads : u # t => cur'[u] = cur[u]
    BY <1>1 DEF Inv, TypeOK
  <2>2. atomicStrong' \in Nat
    BY <1>1 DEF Inv, TypeOK
  <2> QED
    BY <1>1, <1>2, <2>1, <2>2 DEF Inv, TypeOK, Goes, Same, memory, owners, hooks
<1>5. TagOf(t) /\ BackOf(t)
    BY DEF Inv, Locals, TagInv, BackInv
<1>6. /\ extended /\ extended' /\ atomicStrong \in Nat /\ cur'[t] = atomicStrong
      /\ op[t] = "acquire" => atomicStrong > 0
  <2>1. extended /\ (op[t] = "acquire" => t \in raw \/ sptrs[t] > 0)
    BY <1>3, <1>5 DEF TagOf
  <2> QED
    BY <1>1, <2>1, NeededStrong DEF Inv, TypeOK
<1>7. /\ UNCHANGED <<drops, wgains, wdrops, lasts, bases, refdrops, freeing, comings, onlast,
                     dying, stripped>>
      /\ t \notin gains /\ t \in gains' /\ t \in tries /\ t \notin tries' /\ t \notin owing
      /\ t \in owing' <=> atomicStrong = INITIAL_PRIMARY_VALUE
      /\ t \notin onfirst /\ (t \in onfirst' => atomicStrong = INITIAL_PRIMARY_VALUE)
      /\ t \in wgains
    BY <1>1, <1>3, <1>4, <1>6, ThreadSets DEF Moved, drops, gains, tries, wgains, wdrops, owing,
       lasts, bases, refdrops, freeing, comings, onfirst, onlast, dying, stripped, Adding, Trying,
       Destroyed
<1>8. WrcSame(t)
    BY <1>1, <1>3 DEF WrcSame, memory, owners
<1>9. Alive
  <2>1. weak[t] > 0 /\ acquired \in Nat /\ atomicWeak \in Nat
    BY <1>7 DEF weak, One, Inv, TypeOK
  <2> QED
    BY <2>1, WeakFacts DEF Alive
<1>10. t \in raw => /\ pend'[t] \subseteq RawSteps
                    /\ op'[t] = "none" => pend'[t] \subseteq {"OnFirst"}
    BY <1>1, <1>3 DEF Inv, Locals, RawInv, RawSteps, TypeOK
<1>11. TagOf(t)'
  <2>1. cur \in [Threads -> Nat]
    BY DEF Inv, TypeOK
  <2> QED
    BY <1>1, <1>3, <1>5, <1>6, <2>1 DEF TagOf, Trying, owners
<1>12. BackOf(t)'
    BY <1>1, <1>3, <1>5, <1>6 DEF BackOf, Adding, owners, memory
<1> QED
    BY <1>1, <1>2, <1>4, <1>6, <1>7, <1>8, <1>9, <1>10, <1>11, <1>12, RaiseKeeps

\* AttemptIncStrong, the exchange: the new reference is counted on its way to
\* SetAttemptAcquire.
LEMMA AttSCasKeeps ==
    ASSUME RefBaseConstants, Inv, NEW t \in Threads, AttSCas(t)
    PROVE  Inv'
<1>1. /\ At(t, "AttSLoop") /\ Call(t, <<"SetAttempt">>) /\ cur' = [cur EXCEPT ![t] = 0]
      /\ atomicStrong' = atomicStrong + 1
      /\ UNCHANGED <<atomicWeak, atomicRefCount, atomicAttempt, extended, memory, owners,
            tgt, op, hooks, ops>>
    BY DEF AttSCas, SetCur
<1>2. Goes(t, "AttSLoop", {"SetAttempt"}) /\ "AttSLoop" \in Steps
  <2>1. /\ "AttSLoop" \in Steps /\ "SetAttempt" \in Steps
        /\ Below("AttSLoop") \subseteq Below("SetAttempt")
    BY BelowIs DEF Steps, Last
  <2> QED
    BY <1>1, <2>1, Goes1 DEF Inv
<1>3. pend[t] = {"AttSLoop"} /\ pend'[t] = {"SetAttempt"}
  <2>1. Under("AttSLoop") = {{}}
    BY UnderIs DEF Last
  <2> QED
    BY <1>2, <2>1 DEF Goes
<1>4. TypeOK' /\ Same(t)
  <2>1. cur' \in [Threads -> Nat] /\ \A u \in Threads : u # t => cur'[u] = cur[u]
    BY <1>1 DEF Inv, TypeOK
  <2>2. atomicStrong' \in Nat
    BY <1>1 DEF Inv, TypeOK
  <2> QED
    BY <1>1, <1>2, <2>1, <2>2 DEF Inv, TypeOK, Goes, Same, memory, owners, hooks
<1>5. TagOf(t) /\ BackOf(t)
    BY DEF Inv, Locals, TagInv, BackInv
<1>6. atomicStrong > 0 /\ atomicStrong # INITIAL_PRIMARY_VALUE
  <2>1. sptrs[t] > 0
    BY <1>3, <1>5 DEF BackOf
  <2>2. strong[t] > 0 /\ acquired \in Nat
    BY <2>1 DEF strong, One, Inv, TypeOK
  <2> QED
    BY <2>2, StrongFacts
<1>7. /\ UNCHANGED <<drops, wgains, wdrops, lasts, bases, refdrops, freeing, comings, onlast,
                     dying, stripped>>
      /\ t \notin gains /\ t \in gains' /\ t \in tries /\ t \notin tries' /\ t \notin owing
      /\ t \in owing' <=> atomicStrong = INITIAL_PRIMARY_VALUE
      /\ t \notin onfirst /\ (t \in onfirst' => atomicStrong = INITIAL_PRIMARY_VALUE)
      /\ t \in wgains
    BY <1>1, <1>3, <1>4, <1>6, ThreadSets DEF Moved, drops, gains, tries, wgains, wdrops, owing,
       lasts, bases, refdrops, freeing, comings, onfirst, onlast, dying, stripped, Adding, Trying,
       Destroyed
<1>8. WrcSame(t)
    BY <1>1, <1>3 DEF WrcSame, memory, owners
<1>9. Alive
  <2>1. weak[t] > 0 /\ acquired \in Nat /\ atomicWeak \in Nat
    BY <1>7 DEF weak, One, Inv, TypeOK
  <2> QED
    BY <2>1, WeakFacts DEF Alive
<1>10. t \notin raw
    BY <1>3 DEF Inv, Locals, RawInv
<1>11. TagOf(t)'
  <2>1. cur \in [Threads -> Nat]
    BY DEF Inv, TypeOK
  <2> QED
    BY <1>1, <1>3, <1>5, <1>6, <2>1 DEF TagOf, Trying, owners
<1>12. BackOf(t)'
    BY <1>1, <1>3, <1>5, <1>6 DEF BackOf, Adding, owners, memory
<1> QED
    BY <1>1, <1>2, <1>4, <1>6, <1>7, <1>8, <1>9, <1>10, <1>11, <1>12, RaiseKeeps

\* AttemptIncStrongRef, the end: the initial value is owed by at most one
\* thread.
LEMMA AttEndKeeps ==
    ASSUME RefBaseConstants, Inv, NEW t \in Threads, AttEnd(t)
    PROVE  Inv'
<1> DEFINE first == cur[t] = INITIAL_PRIMARY_VALUE
           dead  == Destroyed(cur[t])
           rest  == IF dead THEN {"DecWeakLoad"}
                    ELSE (IF first THEN {"SubInitial"} ELSE {})
                         \union (IF op[t] = "promote" THEN {"GetRefPtr"} ELSE {"SetAttempt"})
                         \union (IF op[t] # "promote" /\ first THEN {"OnFirst"} ELSE {})
<1>1. /\ At(t, "AttEnd") /\ cur' = [cur EXCEPT ![t] = 0]
      /\ UNCHANGED <<counts, memory, owners, tgt, op, hooks, ops>>
    BY DEF AttEnd, SetCur
<1>2. /\ "AttEnd" \in Steps /\ "DecWeakLoad" \in Steps /\ "SubInitial" \in Steps
      /\ "GetRefPtr" \in Steps /\ "SetAttempt" \in Steps /\ "OnFirst" \in Steps
    BY DEF Steps
<1>3. Stacked /\ Under("AttEnd") = {{}} /\ pend[t] = {"AttEnd"}
  <2>1. Under("AttEnd") = {{}}
    BY UnderIs DEF Last
  <2> QED
    BY <1>1, <1>2, <2>1, AtPend DEF Inv
<1>4. TagOf(t) /\ BackOf(t) /\ cur[t] \in Nat /\ INITIAL_PRIMARY_VALUE > 1
    BY InitialIs DEF Inv, Locals, TagInv, BackInv, TypeOK
<1>5. op[t] \in {"promote", "acquire"} /\ (op[t] = "acquire" => ~dead)
    BY <1>3, <1>4 DEF TagOf, Trying, Destroyed
<1>6. first => ~dead
    BY <1>4 DEF Destroyed
<1>7. Call(t, IF dead THEN <<"DecWeakLoad">>
              ELSE IF op[t] = "promote"
              THEN IF first THEN <<"SubInitial", "GetRefPtr">> ELSE <<"GetRefPtr">>
              ELSE IF first THEN <<"SubInitial", "SetAttempt", "OnFirst">> ELSE <<"SetAttempt">>)
  <2>0. \A a, b, c \in Steps : /\ <<a>> \o <<b>> = <<a, b>>
                                /\ <<>> \o <<a>> = <<a>> /\ (<<>> \o <<a>>) \o <<>> = <<a>>
                                /\ (<<a>> \o <<b>>) \o <<c>> = <<a, b, c>>
    <3>1. SUFFICES ASSUME NEW a \in Steps, NEW b \in Steps, NEW c \in Steps
                   PROVE  /\ <<a>> \o <<b>> = <<a, b>>
                          /\ <<>> \o <<a>> = <<a>> /\ (<<>> \o <<a>>) \o <<>> = <<a>>
                          /\ (<<a>> \o <<b>>) \o <<c>> = <<a, b, c>>
      OBVIOUS
    <3>5. <<a, b, c>> = <<a>> \o <<b, c>>
      BY Tuples
    <3>7. ASSUME NEW x \in Steps, NEW y \in Steps
          PROVE  <<x>> \in Seq(Steps) /\ <<x, y>> = <<x>> \o <<y>>
      BY Tuples
    <3>6. <<a>> \in Seq(Steps) /\ <<a, b>> = <<a>> \o <<b>>
          /\ <<b>> \in Seq(Steps) /\ <<c>> \in Seq(Steps) /\ <<b, c>> = <<b>> \o <<c>>
      BY <3>7
    <3>2. /\ <<a>> \in Seq(Steps) /\ <<b>> \in Seq(Steps) /\ <<c>> \in Seq(Steps)
          /\ <<a, b>> = <<a>> \o <<b>> /\ <<a, b, c>> = <<a>> \o <<b, c>>
              /\ <<b, c>> = <<b>> \o <<c>>
      BY <3>5, <3>6
    <3>3. (<<a>> \o <<b>>) \o <<c>> = <<a>> \o (<<b>> \o <<c>>)
      BY <3>2, ConcatAssociative
    <3>4. <<>> \o <<a>> = <<a>> /\ <<a>> \o <<>> = <<a>>
      BY <3>2, ConcatEmptySeq
    <3> QED
      BY <3>2, <3>3, <3>4
  <2>1. /\ <<"SubInitial">> \o <<"GetRefPtr">> = <<"SubInitial", "GetRefPtr">>
        /\ <<>> \o <<"GetRefPtr">> = <<"GetRefPtr">>
        /\ <<"SubInitial">> \o <<"SetAttempt">> \o <<"OnFirst">> = <<"SubInitial",
              "SetAttempt", "OnFirst">>
        /\ <<>> \o <<"SetAttempt">> \o <<>> = <<"SetAttempt">>
    BY <1>2, <2>0
  <2> QED
    BY <1>5, <2>1 DEF AttEnd, AttemptFailed
<1> HIDE DEF first, dead
<1>8. Goes(t, "AttEnd", rest)
  <2>1. /\ Below("AttEnd") = {<<>>} /\ <<>> \in Below("DecWeakLoad") /\ <<>> \in Below("GetRefPtr")
        /\ <<>> \in Below("SetAttempt") /\ <<>> \in Below("OnFirst")
        /\ <<"GetRefPtr">> \in Below("SubInitial")
        /\ <<"OnFirst">> \in Below("SetAttempt")
        /\ <<"SetAttempt", "OnFirst">> \in Below("SubInitial")
    BY BelowIs DEF Last, Ends
  <2>2. /\ <<"GetRefPtr">> \o <<>> = <<"GetRefPtr">> /\ <<"OnFirst">> \o <<>> = <<"OnFirst">>
        /\ <<"SetAttempt">> \o <<"OnFirst">> = <<"SetAttempt", "OnFirst">>
    BY <1>2, Tuples
  <2>3. CASE dead
    <3>1. Goes(t, "AttEnd", {"DecWeakLoad"})
      BY <1>1, <1>2, <1>3, <1>7, <2>1, <2>3, Goes1
    <3> QED
      BY <2>3, <3>1
  <2>4. CASE ~dead /\ op[t] = "promote" /\ first
    <3>1. Goes(t, "AttEnd", {"SubInitial", "GetRefPtr"})
      BY <1>1, <1>2, <1>3, <1>7, <2>1, <2>2, <2>4, Goes2
    <3> QED
      BY <2>4, <3>1 DEF Goes
  <2>5. CASE ~dead /\ op[t] = "promote" /\ ~first
    <3>1. Goes(t, "AttEnd", {"GetRefPtr"})
      BY <1>1, <1>2, <1>3, <1>7, <2>1, <2>5, Goes1
    <3> QED
      BY <2>5, <3>1 DEF Goes
  <2>6. CASE ~dead /\ op[t] # "promote" /\ first
    <3>1. Goes(t, "AttEnd", {"SubInitial", "SetAttempt", "OnFirst"})
      BY <1>1, <1>2, <1>3, <1>7, <2>1, <2>2, <2>6, Goes3
    <3> QED
      BY <2>6, <3>1 DEF Goes
  <2>7. CASE ~dead /\ op[t] # "promote" /\ ~first
    <3>1. Goes(t, "AttEnd", {"SetAttempt"})
      BY <1>1, <1>2, <1>3, <1>7, <2>1, <2>7, Goes1
    <3> QED
      BY <2>7, <3>1 DEF Goes
  <2> QED
    BY <2>3, <2>4, <2>5, <2>6, <2>7
<1>9. pend'[t] = rest
    BY <1>3, <1>8 DEF Goes
<1>10. TypeOK' /\ Same(t)
  <2>1. cur' \in [Threads -> Nat] /\ \A u \in Threads : u # t => cur'[u] = cur[u]
    BY <1>1 DEF Inv, TypeOK
  <2> QED
    BY <1>1, <1>8, <2>1 DEF Inv, TypeOK, Goes, Same, counts, memory, owners, hooks
<1>11. /\ UNCHANGED <<gains, drops, owing, lasts, bases, refdrops, freeing, comings, onlast,
             onfirst,
                      dying, stripped>>
       /\ t \in tries' => t \in tries
       /\ t \in wgains /\ t \notin wdrops
       /\ IF dead THEN t \notin wgains' /\ t \in wdrops' ELSE t \in wgains' /\ t \notin wdrops'
    BY <1>1, <1>3, <1>5, <1>6, <1>9, <1>10, ThreadSets
    DEF Moved, drops, gains, tries, wgains, wdrops,
       owing, lasts, bases, refdrops, freeing, comings, onfirst, onlast, dying, stripped,
          Adding, Trying,
       first, dead
<1>12. weak'[t] = weak[t] /\ (Alive' <=> Alive)
  <2>1. sptrs' = sptrs /\ sptrs[t] \in Nat /\ UNCHANGED <<raw, atomicWeak>>
    BY <1>1 DEF owners, counts, Inv, TypeOK
  <2> QED
    BY <1>11, <2>1 DEF weak, One, Alive
<1>13. WrcSame(t)
    BY <1>1, <1>3, <1>9 DEF WrcSame, memory, owners
<1>14. t \in raw => /\ pend'[t] \subseteq RawSteps
                    /\ op'[t] = "none" => pend'[t] \subseteq {"OnFirst"}
  <2>1. t \in raw => op[t] # "promote"
    <3>1. ASSUME t \in raw PROVE wptrs[t][tgt[t]] = 0 /\ tgt[t] \in Wrcs
      BY <3>1 DEF Inv, TypeOK, Locals, RawInv, Only
    <3> QED
      BY <1>3, <1>4, <3>1 DEF TagOf
  <2> QED
    BY <1>1, <1>5, <1>9, <2>1 DEF RawSteps
<1>15. TagOf(t)'
    BY <1>1, <1>3, <1>4, <1>5, <1>9 DEF TagOf, Trying, owners
<1>16. BackOf(t)'
    BY <1>1, <1>3, <1>4, <1>5, <1>9 DEF BackOf, TagOf, Adding, owners, memory
<1> QED
    BY <1>1, <1>2, <1>8, <1>10, <1>11, <1>12, <1>13, <1>14, <1>15, <1>16, QuietKeeps

\* RefBase::OnFirstStrongRef runs in the thread that took the first
\* reference, once.
LEMMA OnFirstKeeps ==
    ASSUME RefBaseConstants, Inv, NEW t \in Threads, OnFirst(t)
    PROVE  Inv'
<1>1. /\ At(t, "OnFirst")
      /\ firstCalls' = firstCalls + 1 /\ Call(t, <<>>)
      /\ UNCHANGED <<counts, memory, owners, cur, tgt, op, lastCalls, ops>>
    BY DEF OnFirst
<1>2. Goes(t, "OnFirst", {}) /\ "OnFirst" \in Steps
  <2>1. "OnFirst" \in Steps
    BY DEF Steps
  <2> QED
    BY <1>1, <2>1, Goes0 DEF Inv
<1>3. PICK e \in ({{}} \union GotSets) : pend[t] = {"OnFirst"} \union e /\ pend'[t] = {} \union e
    BY <1>2, UnderIs DEF Goes
<1>4. TypeOK' /\ Same(t)
  <2>1. firstCalls' \in Nat
    BY <1>1 DEF Inv, TypeOK
  <2> QED
    BY <1>1, <1>2, <2>1 DEF Inv, TypeOK, Goes, Same, counts, memory, owners
<1>5. TagOf(t) /\ BackOf(t)
    BY DEF Inv, Locals, TagInv, BackInv
<1>6. /\ UNCHANGED <<gains, drops, tries, wgains, wdrops, owing, lasts, bases, refdrops, freeing,
                     comings, onlast, dying, stripped>>
      /\ t \in onfirst /\ t \notin onfirst' /\ onfirst' = onfirst \ {t}
    BY <1>1, <1>3, <1>4, ThreadSets DEF Moved, GotSets, drops, gains, tries, wgains, wdrops, owing,
       lasts, bases, refdrops, freeing, comings, onfirst, onlast, dying, stripped, Adding, Trying,
       Destroyed
<1>7. /\ UNCHANGED <<raw, atomicStrong, atomicWeak, atomicRefCount, callback, object, counter,
                     acquired, sptrs, wptrs, wrc, extended, lastCalls>>
      /\ acquired \in Nat /\ atomicStrong \in Nat
    BY <1>1 DEF counts, memory, owners, Inv, TypeOK
<1>8. WrcSame(t)
    BY <1>1, <1>3, <1>7 DEF WrcSame, GotSets
<1>9. Counts' /\ Memory'
  <2>1. WrcInv' /\ readies' = readies /\ builts' = builts
    BY <1>4, <1>8, WrcStep
  <2>2. strong' = strong /\ weak' = weak /\ (Alive' <=> Alive) /\ CallbackInv'
    BY <1>6, <1>7, Frames
  <2>3. claims' = claims
    BY <1>6, <2>2 DEF claims
  <2>4. claims'[t] + One(raw' # {}) - ops' <= claims[t] + One(raw # {}) - ops
    <3>1. claims[t] \in Nat /\ ops \in Int /\ ops' = ops
      <4>1. claims[t] \in Nat
        BY Parts DEF Inv
      <4>2. ops \in Int /\ ops' = ops
        BY <1>1 DEF Inv, TypeOK
      <4> QED
        BY <4>1, <4>2
    <3> QED
      BY <1>7, <2>3, <3>1 DEF One
  <2>5. HookInv'
    <3>1. HookInv /\ firstCalls \in Nat /\ lastCalls \in Nat
      BY DEF Inv, Memory, TypeOK
    <3>2. onfirst = {t} /\ onfirst' = {}
      BY <1>6, <3>1 DEF HookInv, Unique
    <3>3. firstCalls' + One(onfirst' # {}) <= One(atomicStrong' # INITIAL_PRIMARY_VALUE)
          /\ Unique(onfirst')
      BY <1>1, <1>7, <3>1, <3>2 DEF HookInv, One, Unique
    <3> QED
      BY <1>6, <1>7, <3>1, <3>3 DEF HookInv
  <2>6. owing \subseteq gains'
    BY <1>6 DEF Inv, Counts, OwingInv
  <2> QED
    BY <1>4, <1>6, <1>7, <2>1, <2>2, <2>4, <2>5, <2>6, QuietStep
<1>10. Locals'
  <2>1. Knows(t)
    BY <1>3 DEF Knows
  <2>2. TagOf(t)'
    BY <1>1, <1>3, <1>5, <1>7 DEF TagOf, GotSets, Trying
  <2>3. BackOf(t)'
    BY <1>1, <1>3, <1>5, <1>7 DEF BackOf, GotSets, Adding
  <2>4. t \in raw => /\ pend'[t] \subseteq RawSteps /\ atomicStrong > 0
                     /\ op'[t] = "none" => pend'[t] \subseteq {"OnFirst"}
    BY <1>1, <1>3 DEF Inv, Locals, RawInv, RawSteps, Only, GotSets
  <2> QED
    BY <1>4, <1>7, <2>1, <2>2, <2>3, <2>4, LocalsStep
<1> QED
    BY <1>2, <1>4, <1>9, <1>10 DEF Inv, Goes

\* RefBase::OnLastStrongRef runs in the thread that gave the last reference
\* back, once.
LEMMA OnLastKeeps ==
    ASSUME RefBaseConstants, Inv, NEW t \in Threads, OnLast(t)
    PROVE  Inv'
<1>1. /\ At(t, "OnLast")
      /\ lastCalls' = lastCalls + 1 /\ Call(t, IF extended THEN <<>> ELSE <<"CallCallback">>)
      /\ UNCHANGED <<counts, memory, owners, cur, tgt, op, firstCalls, ops>>
    BY DEF OnLast
<1>2. Goes(t, "OnLast", (IF extended THEN {} ELSE {"CallCallback"})) /\ "OnLast" \in Steps
  <2>1. "OnLast" \in Steps /\ "CallCallback" \in Steps
    BY DEF Steps
  <2>4. /\ Below("OnLast") \subseteq Below("CallCallback")
    BY BelowIs DEF Last, Ends, Weaks, Freed
  <2>5. CASE ~extended
    BY <1>1, <2>1, <2>4, <2>5, Goes1 DEF Inv
  <2>6. CASE ~(~extended)
    BY <1>1, <2>1, <2>4, <2>6, Goes0 DEF Inv
  <2> QED
    BY <2>5, <2>6
<1>3. PICK e \in WeakSets : pend[t] = {"OnLast"} \union e
           /\ pend'[t] = (IF extended THEN {} ELSE {"CallCallback"}) \union e
    BY <1>2, UnderIs DEF Goes
<1>4. TypeOK' /\ Same(t)
  <2>1. lastCalls' \in Nat
    BY <1>1 DEF Inv, TypeOK
  <2> QED
    BY <1>1, <1>2, <2>1 DEF Inv, TypeOK, Goes, Same, counts, memory, owners
<1>5. TagOf(t) /\ BackOf(t)
    BY DEF Inv, Locals, TagInv, BackInv
<1>6. /\ UNCHANGED <<gains, drops, tries, wgains, wdrops, owing, lasts, bases, refdrops, freeing,
                     comings, onfirst, dying, stripped>>
      /\ t \in onlast /\ onlast' = onlast \ {t}
    BY <1>1, <1>3, <1>4, ThreadSets DEF Moved, WeakSets, drops, gains, tries, wgains, wdrops, owing,
       lasts, bases, refdrops, freeing, comings, onfirst, onlast, dying, stripped, Adding, Trying,
       Destroyed, Same
<1>7. /\ UNCHANGED <<raw, atomicStrong, atomicWeak, atomicRefCount, callback, object,
                     counter, acquired, sptrs, wptrs, wrc, extended, firstCalls>>
      /\ acquired \in Nat /\ atomicStrong \in Nat
    BY <1>1 DEF counts, memory, owners, Inv, TypeOK
<1>8. WrcSame(t)
    BY <1>1, <1>3, <1>7 DEF WrcSame, WeakSets
<1>9. Counts' /\ Memory'
  <2>1. WrcInv' /\ readies' = readies /\ builts' = builts
    BY <1>4, <1>8, WrcStep
  <2>2. strong' = strong /\ weak' = weak
    BY <1>6, <1>7, Frames
  <2>3. claims' = claims
    BY <1>6, <2>2 DEF claims
  <2>4. claims'[t] + One(raw' # {}) - ops' <= claims[t] + One(raw # {}) - ops
    <3>1. claims[t] \in Nat /\ ops \in Int /\ ops' = ops
      <4>1. claims[t] \in Nat
        BY Parts DEF Inv
      <4>2. ops \in Int /\ ops' = ops
        BY <1>1 DEF Inv, TypeOK
      <4> QED
        BY <4>1, <4>2
    <3> QED
      BY <1>7, <2>3, <3>1 DEF One
  <2>5. Alive' <=> Alive
    BY <1>6, <1>7, Frames
  <2>6. owing \subseteq gains'
    BY <1>6 DEF Inv, Counts, OwingInv
  <2>7. CallbackInv'
    BY <1>6, <1>7, Frames
  <2>8. HookInv'
    <3>1. HookInv /\ firstCalls \in Nat /\ lastCalls \in Nat
      BY DEF Inv, Memory, TypeOK
    <3>2. ~extended => onlast = {t} /\ onlast' = {}
      BY <1>6, <3>1 DEF HookInv, Unique
    <3>3. ~extended => Unique(onlast') /\ lastCalls' + One(onlast' # {}) = One(atomicStrong' = 0)
      BY <1>1, <1>7, <3>1, <3>2 DEF HookInv, One, Unique
    <3> QED
      BY <1>6, <1>7, <3>1, <3>3 DEF HookInv
  <2> QED
    BY <1>4, <1>6, <1>7, <2>1, <2>2, <2>4, <2>5, <2>6, <2>7, <2>8, QuietStep
<1>10. Locals'
  <2>1. Knows(t)
    BY <1>3 DEF Knows
  <2>2. TagOf(t)'
    BY <1>1, <1>3, <1>5, <1>7 DEF TagOf, Trying, WeakSets
  <2>3. BackOf(t)'
    BY <1>1, <1>3, <1>5, <1>7 DEF BackOf, Adding, WeakSets
  <2>4. t \notin raw
    BY <1>3 DEF Inv, Locals, RawInv
  <2> QED
    BY <1>4, <1>7, <2>1, <2>2, <2>3, <2>4, LocalsStep
<1> QED
    BY <1>2, <1>4, <1>9, <1>10 DEF Inv, Goes

\* RefBase::~RefBase removes the callback, and nobody reaches the object
\* afterwards.
LEMMA DtorRemoveKeeps ==
    ASSUME RefBaseConstants, Inv, NEW t \in Threads, DtorRemove(t)
    PROVE  Inv'
<1>1. /\ At(t, "DtorRemove")
      /\ callback' = FALSE /\ Call(t, <<>>)
      /\ UNCHANGED <<counts, object, counter, wrc, owners, cur, tgt, op, hooks, ops>>
    BY DEF DtorRemove
<1>2. Goes(t, "DtorRemove", {}) /\ "DtorRemove" \in Steps
  <2>1. "DtorRemove" \in Steps
    BY DEF Steps
  <2> QED
    BY <1>1, <2>1, Goes0 DEF Inv
<1>3. PICK e \in DtorSets : pend[t] = {"DtorRemove"} \union e /\ pend'[t] = {} \union e
    BY <1>2, UnderIs DEF Goes
<1>4. TypeOK' /\ Same(t)
    BY <1>1, <1>2 DEF Inv, TypeOK, Goes, Same, counts, owners, hooks
<1>5. TagOf(t) /\ BackOf(t)
    BY DEF Inv, Locals, TagInv, BackInv
<1>6. /\ UNCHANGED <<gains, drops, tries, wgains, wdrops, owing, lasts, bases, refdrops, freeing,
                     comings, onfirst, onlast, dying>>
      /\ t \in stripped'
    BY <1>1, <1>3, <1>4, ThreadSets DEF Moved, DtorSets, drops, gains, tries, wgains, wdrops, owing,
       lasts, bases, refdrops, freeing, comings, onfirst, onlast, dying, stripped, Adding, Trying,
       Destroyed
<1>7. /\ UNCHANGED <<raw, atomicStrong, atomicWeak, atomicRefCount, object, counter,
                     acquired, sptrs, wptrs, wrc, extended, firstCalls, lastCalls>>
      /\ acquired \in Nat /\ atomicStrong \in Nat
    BY <1>1 DEF counts, owners, hooks, Inv, TypeOK
<1>8. WrcSame(t)
    BY <1>1, <1>3, <1>7 DEF WrcSame, DtorSets
<1>9. Counts' /\ Memory'
  <2>1. WrcInv' /\ readies' = readies /\ builts' = builts
    BY <1>4, <1>8, WrcStep
  <2>2. strong' = strong /\ weak' = weak
    BY <1>6, <1>7, Frames
  <2>3. claims' = claims
    BY <1>6, <2>2 DEF claims
  <2>4. claims'[t] + One(raw' # {}) - ops' <= claims[t] + One(raw # {}) - ops
    <3>1. claims[t] \in Nat /\ ops \in Int /\ ops' = ops
      <4>1. claims[t] \in Nat
        BY Parts DEF Inv
      <4>2. ops \in Int /\ ops' = ops
        BY <1>1 DEF Inv, TypeOK
      <4> QED
        BY <4>1, <4>2
    <3> QED
      BY <1>7, <2>3, <3>1 DEF One
  <2>5. Alive' <=> Alive
    BY <1>6, <1>7, Frames
  <2>6. owing \subseteq gains'
    BY <1>6 DEF Inv, Counts, OwingInv
  <2>7. CallbackInv'
    BY <1>1, <1>6 DEF CallbackInv
  <2>8. HookInv'
    BY <1>4, <1>6, <1>7, Frames DEF Same, hooks
  <2> QED
    BY <1>4, <1>6, <1>7, <2>1, <2>2, <2>4, <2>5, <2>6, <2>7, <2>8, QuietStep
<1>10. Locals'
  <2>1. Knows(t)
    BY <1>3 DEF Knows
  <2>2. TagOf(t)'
    BY <1>1, <1>3, <1>5, <1>7 DEF TagOf, Trying, DtorSets
  <2>3. BackOf(t)'
    BY <1>1, <1>3, <1>5, <1>7 DEF BackOf, Adding, DtorSets
  <2>4. t \notin raw
    BY <1>3 DEF Inv, Locals, RawInv
  <2> QED
    BY <1>4, <1>7, <2>1, <2>2, <2>3, <2>4, LocalsStep
<1> QED
    BY <1>2, <1>4, <1>9, <1>10 DEF Inv, Goes

\* An sptr is complete: the reference under way becomes a handle.
LEMMA GotSptrKeeps ==
    ASSUME RefBaseConstants, Inv, NEW t \in Threads, GotSptr(t)
    PROVE  Inv'
<1>1. /\ At(t, "GotSptr")
      /\ sptrs' = [sptrs EXCEPT ![t] = @ + 1] /\ cur' = [cur EXCEPT ![t] = 0] /\ Call(t, <<>>)
      /\ UNCHANGED <<counts, memory, raw, wptrs, acquired, tgt, op, hooks, ops>>
    BY DEF GotSptr, SetCur
<1>2. Goes(t, "GotSptr", {}) /\ "GotSptr" \in Steps
  <2>1. "GotSptr" \in Steps
    BY DEF Steps
  <2> QED
    BY <1>1, <2>1, Goes0 DEF Inv
<1>3. pend[t] = {"GotSptr"} /\ pend'[t] = {}
  <2>1. Under("GotSptr") = {{}}
    BY UnderIs DEF Last
  <2> QED
    BY <1>2, <2>1 DEF Goes
<1>4. TypeOK' /\ Same(t)
  <2>1. /\ sptrs' \in [Threads -> Nat] /\ cur' \in [Threads -> Nat]
        /\ \A u \in Threads : u # t => sptrs'[u] = sptrs[u] /\ cur'[u] = cur[u]
        /\ sptrs[t] \in Nat /\ sptrs'[t] = sptrs[t] + 1
    BY <1>1 DEF Inv, TypeOK
  <2> QED
    BY <1>1, <1>2, <2>1 DEF Inv, TypeOK, Goes, Same, counts, memory, hooks
<1>5. TagOf(t) /\ BackOf(t)
    BY DEF Inv, Locals, TagInv, BackInv
<1>6. /\ UNCHANGED <<drops, tries, wdrops, owing, lasts, bases, refdrops, freeing,
                     comings, onfirst, onlast, dying, stripped>>
      /\ t \in gains /\ t \notin gains' /\ t \in wgains /\ t \notin wgains'
      /\ t \notin owing /\ gains' = gains \ {t}
    BY <1>1, <1>3, <1>4, ThreadSets DEF Moved, drops, gains, tries, wgains, wdrops, owing,
       lasts, bases, refdrops, freeing, comings, onfirst, onlast, dying, stripped, Adding, Trying,
       Destroyed
<1>7. /\ UNCHANGED <<raw, atomicStrong, atomicWeak, atomicRefCount, callback, object,
                     counter, acquired, wptrs, wrc, extended, firstCalls, lastCalls>>
      /\ acquired \in Nat /\ sptrs[t] \in Nat /\ sptrs'[t] = sptrs[t] + 1
    BY <1>1 DEF counts, memory, hooks, Inv, TypeOK
<1>8. WrcSame(t)
    BY <1>1, <1>3, <1>7 DEF WrcSame
<1>9. Counts' /\ Memory'
  <2>1. WrcInv' /\ readies' = readies /\ builts' = builts
    BY <1>4, <1>8, WrcStep
  <2>2. strong'[t] = strong[t] /\ weak'[t] = weak[t]
    BY <1>6, <1>7 DEF strong, weak, One
  <2>3. claims'[t] = claims[t]
    BY <1>6, <2>2 DEF claims
  <2>4. claims'[t] + One(raw' # {}) - ops' <= claims[t] + One(raw # {}) - ops
    <3>1. claims[t] \in Nat /\ ops \in Int /\ ops' = ops
      <4>1. claims[t] \in Nat
        BY Parts DEF Inv
      <4>2. ops \in Int /\ ops' = ops
        BY <1>1 DEF Inv, TypeOK
      <4> QED
        BY <4>1, <4>2
    <3> QED
      BY <1>7, <2>3, <3>1 DEF One
  <2>5. Alive' <=> Alive
    BY <1>6, <1>7, Frames
  <2>6. owing \subseteq gains'
    BY <1>6 DEF Inv, Counts, OwingInv
  <2>7. CallbackInv'
    BY <1>6, <1>7, Frames
  <2>8. HookInv'
    BY <1>4, <1>6, <1>7, Frames DEF Same, hooks
  <2> QED
    BY <1>4, <1>6, <1>7, <2>1, <2>2, <2>4, <2>5, <2>6, <2>7, <2>8, QuietStep
<1>10. Locals'
  <2>1. Knows(t)
    BY <1>3 DEF Knows
  <2>2. TagOf(t)'
    BY <1>1, <1>3, <1>5, <1>7 DEF TagOf, Trying
  <2>3. BackOf(t)'
    BY <1>1, <1>3, <1>5, <1>7 DEF BackOf, Adding
  <2>4. t \notin raw
    BY <1>3 DEF Inv, Locals, RawInv
  <2> QED
    BY <1>4, <1>7, <2>1, <2>2, <2>3, <2>4, LocalsStep
<1> QED
    BY <1>2, <1>4, <1>9, <1>10 DEF Inv, Goes

\* RefCounter::SetAttemptAcquire: the acquired reference is counted.
LEMMA SetAttemptKeeps ==
    ASSUME RefBaseConstants, Inv, NEW t \in Threads, SetAttempt(t)
    PROVE  Inv'
<1>1. /\ At(t, "SetAttempt")
      /\ atomicAttempt' = atomicAttempt + 1 /\ acquired' = acquired + 1
      /\ op' = [op EXCEPT ![t] = "none"] /\ Call(t, <<>>)
      /\ UNCHANGED <<atomicStrong, atomicWeak, atomicRefCount, extended, memory,
                     raw, sptrs, wptrs, cur, tgt, hooks, ops>>
    BY DEF SetAttempt
<1>2. Goes(t, "SetAttempt", {}) /\ "SetAttempt" \in Steps
  <2>1. "SetAttempt" \in Steps
    BY DEF Steps
  <2> QED
    BY <1>1, <2>1, Goes0 DEF Inv
<1>3. PICK e \in {{}, {"OnFirst"}} : pend[t] = {"SetAttempt"} \union e /\ pend'[t] = {} \union e
    BY <1>2, UnderIs DEF Goes
<1>4. TypeOK' /\ Same(t)
  <2>1. /\ op' \in [Threads -> {"none", "promote", "acquire", "check"}]
        /\ acquired' \in Nat /\ atomicAttempt' = acquired'
        /\ \A u \in Threads : u # t => op'[u] = op[u]
    BY <1>1 DEF Inv, TypeOK
  <2> QED
    BY <1>1, <1>2, <2>1 DEF Inv, TypeOK, Goes, Same, memory, hooks
<1>5. TagOf(t) /\ BackOf(t)
    BY DEF Inv, Locals, TagInv, BackInv
<1>6. /\ UNCHANGED <<drops, tries, wdrops, owing, lasts, bases, refdrops, freeing, comings,
                     onfirst, onlast, dying, stripped>>
      /\ t \in gains /\ t \in wgains /\ t \notin wgains' /\ t \notin owing
      /\ t \notin gains' /\ gains' = gains \ {t}
    BY <1>1, <1>3, <1>4, ThreadSets DEF Moved, drops, gains, tries, wgains, wdrops, owing,
       lasts, bases, refdrops, freeing, comings, onfirst, onlast, dying, stripped, Adding, Trying,
       Destroyed
<1>7. /\ UNCHANGED <<raw, atomicStrong, atomicWeak, atomicRefCount, callback, object,
                     counter, sptrs, wptrs, wrc, extended, firstCalls, lastCalls>>
      /\ acquired \in Nat /\ acquired' = acquired + 1 /\ sptrs[t] \in Nat /\ op'[t] = "none"
    BY <1>1 DEF memory, hooks, Inv, TypeOK
<1>8. WrcSame(t)
    BY <1>1, <1>3, <1>7 DEF WrcSame
<1>9. Counts' /\ Memory'
  <2>1. WrcInv' /\ readies' = readies /\ builts' = builts /\ readies \in Nat /\ builts \in Nat
    BY <1>4, <1>8, WrcStep
  <2>2. acquired' + strong'[t] = acquired + strong[t]
    BY <1>6, <1>7 DEF strong, One
  <2>3. claims'[t] + acquired' + One(raw' # {}) - ops' <= claims[t] + acquired + One(raw # {}) - ops
    <3>1. ops \in Int /\ ops' = ops
      BY <1>1 DEF Inv, TypeOK
    <3>2. claims'[t] + acquired' = claims[t] + acquired /\ claims[t] \in Nat /\ claims'[t] \in Nat
      BY <1>6, <1>7 DEF claims, strong, One
    <3> QED
      BY <1>7, <3>1, <3>2 DEF One
  <2>4. acquired' + weak'[t] + readies' = acquired + weak[t] + readies
    BY <1>6, <1>7, <2>1 DEF weak, One
  <2>20. Alive' <=> Alive
    BY <1>6, <1>7, Frames
  <2>21. Unique(bases') /\ (bases' # {} => ~Alive')
    BY <1>6, <2>20 DEF Inv, Counts, RefInv
  <2>22. refs'[t] + builts' + One(Held') = refs[t] + builts + One(Held)
    <3>1. refs' = refs /\ Held' = Held /\ refs[t] \in Nat
      BY <1>6, <2>20 DEF refs, Held, One
    <3> QED
      BY <2>1, <3>1
  <2>23. owing \subseteq gains'
    BY <1>6 DEF Inv, Counts, OwingInv
  <2>24. LifeInv'
    BY <1>4, <1>6, <1>7, <2>20 DEF Same, Inv, Memory, LifeInv, Gone, WeakDeletes
  <2>25. CallbackInv'
    BY <1>6, <1>7, Frames
  <2>26. HookInv'
    BY <1>4, <1>6, <1>7, Frames DEF Same, hooks
  <2> QED
    BY <1>4, <1>6, <1>7, <2>1, <2>2, <2>3, <2>4, <2>21, <2>22, <2>23, <2>24, <2>25, <2>26, StillStep
<1>10. Locals'
  <2>1. Knows(t)
    BY <1>3 DEF Knows
  <2>2. TagOf(t)'
    BY <1>1, <1>3, <1>5, <1>7 DEF TagOf, Trying
  <2>3. BackOf(t)'
    BY <1>1, <1>3, <1>5, <1>7 DEF BackOf, Adding
  <2>4. t \in raw => /\ pend'[t] \subseteq RawSteps /\ atomicStrong' > 0
                     /\ op'[t] = "none" => pend'[t] \subseteq {"OnFirst"}
    BY <1>1, <1>3, <1>7 DEF Inv, Locals, RawInv, RawSteps, Only
  <2> QED
    BY <1>4, <1>7, <2>1, <2>2, <2>3, <2>4, LocalsStep
<1> QED
    BY <1>2, <1>4, <1>9, <1>10 DEF Inv, Goes

\* RefCounter::ClearAttemptAcquire: the acquired reference is no longer
\* counted.
LEMMA ClearAttemptKeeps ==
    ASSUME RefBaseConstants, Inv, NEW t \in Threads, ClearAttempt(t)
    PROVE  Inv'
<1>1. /\ At(t, "ClearAttempt")
      /\ atomicAttempt' = atomicAttempt - 1 /\ acquired' = acquired - 1
      /\ op' = [op EXCEPT ![t] = "check"] /\ Call(t, <<"DecStrongLoad", "DecWeakLoad">>)
      /\ UNCHANGED <<atomicStrong, atomicWeak, atomicRefCount, extended, memory,
                     raw, sptrs, wptrs, cur, tgt, hooks, ops>>
    BY DEF ClearAttempt, DecStrongRef
<1>2. Goes(t, "ClearAttempt", {"DecStrongLoad", "DecWeakLoad"}) /\ "ClearAttempt" \in Steps
  <2>1. "ClearAttempt" \in Steps /\ "DecStrongLoad" \in Steps /\ "DecWeakLoad" \in Steps
    BY DEF Steps
  <2>2. \A r \in Below("ClearAttempt") : r = <<>>
    BY BelowIs DEF Last
  <2>3. <<"DecWeakLoad">> \o <<>> = <<"DecWeakLoad">>
    BY <2>1, Tuples
  <2>4. /\ Below("ClearAttempt") \subseteq Below("DecWeakLoad")
        /\ \A r \in Below("ClearAttempt") : <<"DecWeakLoad">> \o r \in Below("DecStrongLoad")
    BY <2>2, <2>3, BelowIs DEF Last, Ends, Weaks
  <2> QED
    BY <1>1, <2>1, <2>4, Goes2 DEF Inv
<1>3. pend[t] = {"ClearAttempt"} /\ pend'[t] = {"DecStrongLoad", "DecWeakLoad"}
  <2>1. Under("ClearAttempt") = {{}}
    BY UnderIs DEF Last
  <2> QED
    BY <1>2, <2>1 DEF Goes
<1>4. TypeOK' /\ Same(t)
  <2>1. /\ op' \in [Threads -> {"none", "promote", "acquire", "check"}]
        /\ acquired' \in Nat /\ atomicAttempt' = acquired'
        /\ \A u \in Threads : u # t => op'[u] = op[u]
    <3>1. acquired > 0
      BY <1>3 DEF Inv, Locals, BackInv, BackOf
    <3> QED
      BY <1>1, <3>1 DEF Inv, TypeOK
  <2> QED
    BY <1>1, <1>2, <2>1 DEF Inv, TypeOK, Goes, Same, memory, hooks
<1>5. TagOf(t) /\ BackOf(t)
    BY DEF Inv, Locals, TagInv, BackInv
<1>6. /\ UNCHANGED <<gains, tries, wgains, owing, lasts, bases, refdrops, freeing, comings,
                     onfirst, onlast, dying, stripped>>
      /\ t \notin drops /\ t \in drops' /\ t \notin wdrops /\ t \in wdrops'
    BY <1>1, <1>3, <1>4, ThreadSets DEF Moved, drops, gains, tries, wgains, wdrops, owing,
       lasts, bases, refdrops, freeing, comings, onfirst, onlast, dying, stripped, Adding, Trying,
       Destroyed
<1>7. /\ UNCHANGED <<raw, atomicStrong, atomicWeak, atomicRefCount, callback, object,
                     counter, sptrs, wptrs, wrc, extended, firstCalls, lastCalls>>
      /\ acquired \in Nat /\ acquired' = acquired - 1 /\ sptrs[t] \in Nat /\ op'[t] = "check"
    BY <1>1 DEF memory, hooks, Inv, TypeOK
<1>8. WrcSame(t)
    BY <1>1, <1>3, <1>7 DEF WrcSame
<1>9. Counts' /\ Memory'
  <2>1. WrcInv' /\ readies' = readies /\ builts' = builts /\ readies \in Nat /\ builts \in Nat
    BY <1>4, <1>8, WrcStep
  <2>2. acquired' + strong'[t] = acquired + strong[t]
    BY <1>6, <1>7 DEF strong, One
  <2>3. claims'[t] + acquired' + One(raw' # {}) - ops' <= claims[t] + acquired + One(raw # {}) - ops
    <3>1. ops \in Int /\ ops' = ops
      BY <1>1 DEF Inv, TypeOK
    <3>2. claims'[t] + acquired' = claims[t] + acquired /\ claims[t] \in Nat /\ claims'[t] \in Nat
      BY <1>6, <1>7 DEF claims, strong, One
    <3> QED
      BY <1>7, <3>1, <3>2 DEF One
  <2>4. acquired' + weak'[t] + readies' = acquired + weak[t] + readies
    BY <1>6, <1>7, <2>1 DEF weak, One
  <2>20. Alive' <=> Alive
    BY <1>6, <1>7, Frames
  <2>21. Unique(bases') /\ (bases' # {} => ~Alive')
    BY <1>6, <2>20 DEF Inv, Counts, RefInv
  <2>22. refs'[t] + builts' + One(Held') = refs[t] + builts + One(Held)
    <3>1. refs' = refs /\ Held' = Held /\ refs[t] \in Nat
      BY <1>6, <2>20 DEF refs, Held, One
    <3> QED
      BY <2>1, <3>1
  <2>23. owing \subseteq gains'
    BY <1>6 DEF Inv, Counts, OwingInv
  <2>24. LifeInv'
    BY <1>4, <1>6, <1>7, <2>20 DEF Same, Inv, Memory, LifeInv, Gone, WeakDeletes
  <2>25. CallbackInv'
    BY <1>6, <1>7, Frames
  <2>26. HookInv'
    BY <1>4, <1>6, <1>7, Frames DEF Same, hooks
  <2> QED
    BY <1>4, <1>6, <1>7, <2>1, <2>2, <2>3, <2>4, <2>21, <2>22, <2>23, <2>24, <2>25, <2>26, StillStep
<1>10. Locals'
  <2>1. Knows(t)
    BY <1>3 DEF Knows
  <2>5. t \in IpcThreads /\ sptrs[t] > 0
    BY <1>3, <1>5 DEF BackOf
  <2>2. TagOf(t)'
    BY <1>1, <1>3, <1>5, <1>7, <2>5 DEF TagOf, Trying
  <2>3. BackOf(t)'
    BY <1>1, <1>3, <1>5, <1>7 DEF BackOf, Adding
  <2>4. t \notin raw
    BY <1>3 DEF Inv, Locals, RawInv
  <2> QED
    BY <1>4, <1>7, <2>1, <2>2, <2>3, <2>4, <2>5, LocalsStep
<1> QED
    BY <1>2, <1>4, <1>9, <1>10 DEF Inv, Goes

\* RefBase::~RefBase gives the count of the object back when no weak
\* reference is left to do so.
LEMMA DtorCheckKeeps ==
    ASSUME RefBaseConstants, Inv, NEW t \in Threads, DtorCheck(t)
    PROVE  Inv'
<1> DEFINE lets == (extended /\ atomicWeak = 0) \/ atomicStrong = INITIAL_PRIMARY_VALUE
<1>1. /\ At(t, "DtorCheck")
      /\ Call(t, IF lets THEN <<"DecRefLoad">> ELSE <<>>)
      /\ UNCHANGED <<counts, memory, owners, cur, tgt, op, hooks, ops>>
    BY DEF DtorCheck
<1> HIDE DEF lets
<1>2. Goes(t, "DtorCheck", (IF lets THEN {"DecRefLoad"} ELSE {})) /\ "DtorCheck" \in Steps
  <2>1. "DtorCheck" \in Steps /\ "DecRefLoad" \in Steps
    BY DEF Steps
  <2>4. /\ Below("DtorCheck") \subseteq Below("DecRefLoad")
    BY BelowIs DEF Last, Ends, Weaks, Freed
  <2>5. CASE lets
    BY <1>1, <2>1, <2>4, <2>5, Goes1 DEF Inv
  <2>6. CASE ~(lets)
    BY <1>1, <2>1, <2>4, <2>6, Goes0 DEF Inv
  <2> QED
    BY <2>5, <2>6
<1>3. PICK e \in FreeSets : pend[t] = {"DtorCheck"} \union e
           /\ pend'[t] = (IF lets THEN {"DecRefLoad"} ELSE {}) \union e
    BY <1>2, UnderIs DEF Goes
<1>4. TypeOK' /\ Same(t)
    BY <1>1, <1>2 DEF Inv, TypeOK, Goes, Same, counts, memory, owners, hooks
<1>5. TagOf(t) /\ BackOf(t)
    BY DEF Inv, Locals, TagInv, BackInv
<1>6. /\ UNCHANGED <<gains, drops, tries, wgains, wdrops, owing, lasts, freeing, comings,
                     onfirst, onlast, dying, stripped>>
      /\ t \in dying /\ t \notin lasts /\ t \notin refdrops /\ (t \in refdrops' <=> lets)
      /\ t \notin bases' /\ bases' = bases \ {t} /\ (t \notin bases => t \in wdrops)
    BY <1>1, <1>3, <1>4, ThreadSets DEF Moved, FreeSets, drops, gains, tries, wgains, wdrops, owing,
       lasts, bases, refdrops, freeing, comings, onfirst, onlast, dying, stripped, Adding, Trying,
       Destroyed
<1>7. /\ UNCHANGED <<raw, atomicStrong, atomicWeak, atomicRefCount, callback, object, counter,
                     acquired, sptrs, wptrs, wrc, extended, firstCalls, lastCalls>>
      /\ acquired \in Nat /\ atomicStrong \in Nat /\ atomicWeak \in Nat /\ sptrs[t] \in Nat
    BY <1>1 DEF counts, memory, owners, hooks, Inv, TypeOK
<1>8. WrcSame(t)
    BY <1>1, <1>3, <1>7 DEF WrcSame, FreeSets
<1>11. lets <=> t \in bases
  <2>1. CASE t \in bases
    <3>1. ~Alive /\ WeakDeletes
      BY <1>6, <2>1 DEF Inv, Counts, RefInv, Memory, LifeInv
    <3> QED
      BY <1>7, <2>1, <3>1 DEF Alive, WeakDeletes, lets
  <2>2. CASE t \notin bases
    <3>1. weak[t] > 0
      BY <1>6, <1>7, <2>2 DEF weak, One
    <3>2. atomicWeak > 0
      BY <1>7, <3>1, WeakFacts
    <3>3. Gone /\ Alive
      BY <1>6, <3>2 DEF Inv, Memory, LifeInv, Alive
    <3>4. atomicStrong = 0
      BY <3>3 DEF Gone
    <3> QED
      BY <1>7, <2>2, <3>2, <3>4, InitialIs DEF lets
  <2> QED
    BY <2>1, <2>2
<1>9. Counts' /\ Memory'
  <2>1. WrcInv' /\ readies' = readies /\ builts' = builts /\ readies \in Nat /\ builts \in Nat
    BY <1>4, <1>8, WrcStep
  <2>2. acquired' + strong'[t] = acquired + strong[t]
    <3>1. strong' = strong /\ strong[t] \in Nat
      BY <1>6, <1>7, Frames, Parts DEF Inv
    <3> QED
      BY <1>7, <3>1
  <2>3. claims'[t] + acquired' + One(raw' # {}) - ops' <= claims[t] + acquired + One(raw # {}) - ops
    <3>1. claims' = claims
      BY <1>6, <1>7, Frames DEF claims
    <3>2. claims[t] \in Nat
      BY Parts DEF Inv
    <3>3. ops \in Int /\ ops' = ops
      BY <1>1 DEF Inv, TypeOK
    <3> QED
      BY <1>7, <3>1, <3>2, <3>3 DEF One
  <2>4. acquired' + weak'[t] + readies' = acquired + weak[t] + readies
    <3>1. weak' = weak /\ weak[t] \in Nat
      BY <1>6, <1>7, Frames, Parts DEF Inv
    <3> QED
      BY <1>7, <2>1, <3>1
  <2>20. Alive' <=> Alive
    BY <1>6, <1>7, Frames
  <2>21. Unique(bases') /\ (bases' # {} => ~Alive')
    BY <1>6, <2>20 DEF Inv, Counts, RefInv, Unique
  <2>22. refs'[t] + builts' + One(Held') = refs[t] + builts + One(Held)
    <3>1. CASE t \in bases
      <4>1. bases' = {} /\ ~Alive /\ refs[t] = 0 /\ refs'[t] = 1
        BY <1>6, <1>11, <3>1 DEF Inv, Counts, RefInv, Unique, refs, One
      <4>2. One(Held) = 1 /\ One(Held') = 0
        BY <2>20, <3>1, <4>1 DEF Held, One
      <4> QED
        BY <2>1, <4>1, <4>2
    <3>2. CASE t \notin bases
      <4>1. bases' = bases /\ refs[t] = 0 /\ refs'[t] = 0
        BY <1>6, <1>11, <3>2 DEF refs, One
      <4>2. One(Held') = One(Held)
        BY <2>20, <4>1 DEF Held, One
      <4> QED
        BY <2>1, <4>1, <4>2
    <3> QED
      BY <3>1, <3>2
  <2>23. owing \subseteq gains'
    BY <1>6 DEF Inv, Counts, OwingInv
  <2>24. LifeInv'
    BY <1>4, <1>6, <1>7, <2>20 DEF Same, Inv, Memory, LifeInv, Gone, WeakDeletes
  <2>25. CallbackInv'
    BY <1>6, <1>7, Frames
  <2>26. HookInv'
    BY <1>4, <1>6, <1>7, Frames DEF Same, hooks
  <2> QED
    BY <1>4, <1>6, <1>7, <2>1, <2>2, <2>3, <2>4, <2>21, <2>22, <2>23, <2>24, <2>25, <2>26, StillStep
<1>10. Locals'
  <2>1. Knows(t)
    BY <1>3 DEF Knows
  <2>2. TagOf(t)'
    BY <1>1, <1>3, <1>5, <1>7 DEF TagOf, Trying, FreeSets
  <2>3. BackOf(t)'
    BY <1>1, <1>3, <1>5, <1>7 DEF BackOf, Adding, FreeSets
  <2>4. t \notin raw
    BY <1>3 DEF Inv, Locals, RawInv
  <2> QED
    BY <1>4, <1>7, <2>1, <2>2, <2>3, <2>4, LocalsStep
<1> QED
    BY <1>2, <1>4, <1>9, <1>10 DEF Inv, Goes

\* The memory of the object is freed by the one thread that deletes it.
LEMMA FreeObjectKeeps ==
    ASSUME RefBaseConstants, Inv, NEW t \in Threads, FreeObject(t)
    PROVE  Inv'
<1>1. /\ At(t, "FreeObject")
      /\ object' = FALSE /\ Call(t, <<>>)
      /\ UNCHANGED <<counts, callback, counter, wrc, owners, cur, tgt, op, hooks, ops>>
    BY DEF FreeObject
<1>2. Goes(t, "FreeObject", {}) /\ "FreeObject" \in Steps
  <2>1. "FreeObject" \in Steps
    BY DEF Steps
  <2> QED
    BY <1>1, <2>1, Goes0 DEF Inv
<1>3. PICK e \in (EndSets \union WeakSets) : pend[t] = {"FreeObject"} \union e
           /\ pend'[t] = {} \union e
    BY <1>2, UnderIs DEF Goes
<1>4. TypeOK' /\ Same(t)
    BY <1>1, <1>2 DEF Inv, TypeOK, Goes, Same, counts, owners, hooks
<1>5. TagOf(t) /\ BackOf(t)
    BY DEF Inv, Locals, TagInv, BackInv
<1>6. /\ UNCHANGED <<gains, drops, tries, wgains, wdrops, owing, lasts, bases, refdrops,
            freeing, comings,
                     onfirst, onlast>>
      /\ t \in dying /\ dying' = dying \ {t} /\ t \in stripped
    BY <1>1, <1>3, <1>4, ThreadSets
    DEF Moved, EndSets, WeakSets, drops, gains, tries, wgains, wdrops, owing,
       lasts, bases, refdrops, freeing, comings, onfirst, onlast, dying, stripped, Adding, Trying,
       Destroyed
<1>7. /\ UNCHANGED <<raw, atomicStrong, atomicWeak, atomicRefCount, callback, counter,
                     acquired, sptrs, wptrs, wrc, extended, firstCalls, lastCalls>>
      /\ acquired \in Nat /\ atomicStrong \in Nat
    BY <1>1 DEF counts, owners, hooks, Inv, TypeOK
<1>8. WrcSame(t)
    BY <1>1, <1>3, <1>7 DEF WrcSame, EndSets, WeakSets
<1>9. Counts' /\ Memory'
  <2>1. WrcInv' /\ readies' = readies /\ builts' = builts /\ readies \in Nat /\ builts \in Nat
    BY <1>4, <1>8, WrcStep
  <2>2. acquired' + strong'[t] = acquired + strong[t]
    <3>1. strong' = strong /\ strong[t] \in Nat
      BY <1>6, <1>7, Frames, Parts DEF Inv
    <3> QED
      BY <1>7, <3>1
  <2>3. claims'[t] + acquired' + One(raw' # {}) - ops' <= claims[t] + acquired + One(raw # {}) - ops
    <3>1. claims' = claims
      BY <1>6, <1>7, Frames DEF claims
    <3>2. claims[t] \in Nat
      BY Parts DEF Inv
    <3>3. ops \in Int /\ ops' = ops
      BY <1>1 DEF Inv, TypeOK
    <3> QED
      BY <1>7, <3>1, <3>2, <3>3 DEF One
  <2>4. acquired' + weak'[t] + readies' = acquired + weak[t] + readies
    <3>1. weak' = weak /\ weak[t] \in Nat
      BY <1>6, <1>7, Frames, Parts DEF Inv
    <3> QED
      BY <1>7, <2>1, <3>1
  <2>20. Alive' <=> Alive
    BY <1>6, <1>7, Frames
  <2>21. Unique(bases') /\ (bases' # {} => ~Alive')
    BY <1>6, <2>20 DEF Inv, Counts, RefInv
  <2>22. refs'[t] + builts' + One(Held') = refs[t] + builts + One(Held)
    <3>1. refs' = refs /\ Held' = Held /\ refs[t] \in Nat
      BY <1>6, <2>20 DEF refs, Held, One
    <3> QED
      BY <2>1, <3>1
  <2>23. owing \subseteq gains'
    BY <1>6 DEF Inv, Counts, OwingInv
  <2>24. LifeInv'
    <3>1. LifeInv
      BY DEF Inv, Memory
    <3>2. dying' = {} /\ Gone /\ ~(lasts # {} /\ WeakDeletes)
      BY <1>6, <3>1 DEF LifeInv, Unique
    <3>3. Gone' /\ (WeakDeletes' <=> WeakDeletes)
      BY <1>7, <2>20, <3>2 DEF Gone, WeakDeletes
    <3> QED
      BY <1>1, <1>6, <3>1, <3>2, <3>3 DEF LifeInv, Unique
  <2>25. CallbackInv'
    BY <1>1, <1>6, <1>7 DEF Inv, Memory, CallbackInv
  <2>26. HookInv'
    BY <1>4, <1>6, <1>7, Frames DEF Same, hooks
  <2> QED
    BY <1>4, <1>6, <1>7, <2>1, <2>2, <2>3, <2>4, <2>21, <2>22, <2>23, <2>24, <2>25, <2>26, StillStep
<1>10. Locals'
  <2>1. Knows(t)
    BY <1>3 DEF Knows
  <2>2. TagOf(t)'
    BY <1>1, <1>3, <1>5, <1>7 DEF TagOf, Trying, EndSets, WeakSets
  <2>3. BackOf(t)'
    BY <1>1, <1>3, <1>5, <1>7 DEF BackOf, Adding, EndSets, WeakSets
  <2>4. t \notin raw
    BY <1>3 DEF Inv, Locals, RawInv
  <2> QED
    BY <1>4, <1>7, <2>1, <2>2, <2>3, <2>4, LocalsStep
<1> QED
    BY <1>2, <1>4, <1>9, <1>10 DEF Inv, Goes

\* RefCounter::DecWeakRefCount, the last weak reference: deletes the object
\* or gives its count back.
LEMMA LastWeakKeeps ==
    ASSUME RefBaseConstants, Inv, NEW t \in Threads, LastWeak(t)
    PROVE  Inv'
<1>1. /\ At(t, "LastWeak")
      /\ Call(t, IF WeakDeletes THEN <<"CallCallback">> ELSE <<"DecRefLoad">>)
      /\ UNCHANGED <<counts, memory, owners, cur, tgt, op, hooks, ops>>
    BY DEF LastWeak
<1>2. Goes(t, "LastWeak", (IF WeakDeletes THEN {"CallCallback"} ELSE {"DecRefLoad"}))
      /\ "LastWeak" \in Steps
  <2>1. "LastWeak" \in Steps /\ "CallCallback" \in Steps /\ "DecRefLoad" \in Steps
    BY DEF Steps
  <2>4. /\ Below("LastWeak") \subseteq Below("CallCallback")
        /\ Below("LastWeak") \subseteq Below("DecRefLoad")
    BY BelowIs DEF Last, Ends, Weaks, Freed
  <2>5. CASE WeakDeletes
    BY <1>1, <2>1, <2>4, <2>5, Goes1 DEF Inv
  <2>6. CASE ~(WeakDeletes)
    BY <1>1, <2>1, <2>4, <2>6, Goes1 DEF Inv
  <2> QED
    BY <2>5, <2>6
<1>3. PICK e \in EndSets : pend[t] = {"LastWeak"} \union e
           /\ pend'[t] = (IF WeakDeletes THEN {"CallCallback"} ELSE {"DecRefLoad"}) \union e
    BY <1>2, UnderIs DEF Goes
<1>4. TypeOK' /\ Same(t)
    BY <1>1, <1>2 DEF Inv, TypeOK, Goes, Same, counts, memory, owners, hooks
<1>5. TagOf(t) /\ BackOf(t)
    BY DEF Inv, Locals, TagInv, BackInv
<1>6. /\ UNCHANGED <<gains, drops, tries, wgains, wdrops, owing, freeing, comings, onfirst, onlast,
                     stripped>>
      /\ t \in lasts /\ lasts' = lasts \ {t} /\ t \in bases /\ t \notin refdrops
      /\ bases' = (IF WeakDeletes THEN bases ELSE bases \ {t})
      /\ dying' = (IF WeakDeletes THEN dying \union {t} ELSE dying)
      /\ (t \in refdrops' <=> ~WeakDeletes)
    BY <1>1, <1>3, <1>4, ThreadSets DEF Moved, EndSets, drops, gains, tries, wgains, wdrops, owing,
       lasts, bases, refdrops, freeing, comings, onfirst, onlast, dying, stripped, Adding, Trying,
       Destroyed
<1>7. /\ UNCHANGED <<raw, atomicStrong, atomicWeak, atomicRefCount, callback, object, counter,
                     acquired, sptrs, wptrs, wrc, extended, firstCalls, lastCalls>>
      /\ acquired \in Nat /\ atomicStrong \in Nat
    BY <1>1 DEF counts, memory, owners, hooks, Inv, TypeOK
<1>8. WrcSame(t)
    BY <1>1, <1>3, <1>7 DEF WrcSame, EndSets
<1>11. /\ bases = {t} /\ lasts = {t} /\ ~Alive /\ (WeakDeletes' <=> WeakDeletes)
       /\ WeakDeletes => dying = {} /\ object /\ Gone
  <2>1. bases = {t} /\ ~Alive
    BY <1>6 DEF Inv, Counts, RefInv, Unique
  <2>2. lasts = {t}
    BY <1>6, <2>1, LifeFacts
  <2>3. WeakDeletes' <=> WeakDeletes
    BY <1>7 DEF WeakDeletes
  <2>4. WeakDeletes => dying = {} /\ object /\ Gone
    BY <2>2 DEF Inv, Memory, LifeInv
  <2> QED
    BY <2>1, <2>2, <2>3, <2>4
<1>9. Counts' /\ Memory'
  <2>1. WrcInv' /\ readies' = readies /\ builts' = builts /\ readies \in Nat /\ builts \in Nat
    BY <1>4, <1>8, WrcStep
  <2>2. acquired' + strong'[t] = acquired + strong[t]
    <3>1. strong' = strong /\ strong[t] \in Nat
      BY <1>6, <1>7, Frames, Parts DEF Inv
    <3> QED
      BY <1>7, <3>1
  <2>3. claims'[t] + acquired' + One(raw' # {}) - ops' <= claims[t] + acquired + One(raw # {}) - ops
    <3>1. claims' = claims
      BY <1>6, <1>7, Frames DEF claims
    <3>2. claims[t] \in Nat
      BY Parts DEF Inv
    <3>3. ops \in Int /\ ops' = ops
      BY <1>1 DEF Inv, TypeOK
    <3> QED
      BY <1>7, <3>1, <3>2, <3>3 DEF One
  <2>4. acquired' + weak'[t] + readies' = acquired + weak[t] + readies
    <3>1. weak' = weak /\ weak[t] \in Nat
      BY <1>6, <1>7, Frames, Parts DEF Inv
    <3> QED
      BY <1>7, <2>1, <3>1
  <2>20. Alive' <=> Alive
    BY <1>6, <1>7, Frames
  <2>21. Unique(bases') /\ (bases' # {} => ~Alive')
    BY <1>6, <1>11, <2>20 DEF Unique
  <2>22. refs'[t] + builts' + One(Held') = refs[t] + builts + One(Held)
    <3>1. CASE WeakDeletes
      <4>1. refs[t] = 0 /\ refs'[t] = 0 /\ One(Held') = One(Held)
        BY <1>6, <2>20, <3>1 DEF refs, Held, One
      <4> QED
        BY <2>1, <4>1
    <3>2. CASE ~WeakDeletes
      <4>1. refs[t] = 0 /\ refs'[t] = 1 /\ One(Held) = 1 /\ One(Held') = 0
        BY <1>6, <1>11, <2>20, <3>2 DEF refs, Held, One
      <4> QED
        BY <2>1, <4>1
    <3> QED
      BY <3>1, <3>2
  <2>23. owing \subseteq gains'
    BY <1>6 DEF Inv, Counts, OwingInv
  <2>24. LifeInv'
    <3>1. LifeInv /\ Gone' = Gone
      BY <1>7, <1>11, <2>20 DEF Inv, Memory, Gone
    <3>2. CASE WeakDeletes
      BY <1>6, <1>7, <1>11, <3>1, <3>2 DEF LifeInv, Unique
    <3>3. CASE ~WeakDeletes
      BY <1>6, <1>7, <1>11, <3>1, <3>3 DEF LifeInv, Unique
    <3> QED
      BY <3>2, <3>3
  <2>25. CallbackInv'
    BY <1>6, <1>7, Frames
  <2>26. HookInv'
    BY <1>4, <1>6, <1>7, Frames DEF Same, hooks
  <2> QED
    BY <1>4, <1>6, <1>7, <2>1, <2>2, <2>3, <2>4, <2>21, <2>22, <2>23, <2>24, <2>25, <2>26, StillStep
<1>10. Locals'
  <2>1. Knows(t)
    BY <1>3 DEF Knows
  <2>2. TagOf(t)'
    BY <1>1, <1>3, <1>5, <1>7 DEF TagOf, Trying, EndSets
  <2>3. BackOf(t)'
    BY <1>1, <1>3, <1>5, <1>7 DEF BackOf, Adding, EndSets
  <2>4. t \notin raw
    BY <1>3 DEF Inv, Locals, RawInv
  <2> QED
    BY <1>4, <1>7, <2>1, <2>2, <2>3, <2>4, LocalsStep
<1> QED
    BY <1>2, <1>4, <1>9, <1>10 DEF Inv, Goes

\* RefCounter::DecRefCount, the decrement: the thread that takes the last
\* count owns the deletion.
LEMMA DecRefSubKeeps ==
    ASSUME RefBaseConstants, Inv, NEW t \in Threads, DecRefSub(t)
    PROVE  Inv'
<1>1. /\ At(t, "DecRefSub")
      /\ atomicRefCount' = atomicRefCount - 1
      /\ Call(t, IF atomicRefCount = 1 THEN <<"FreeCounter">> ELSE <<>>)
      /\ UNCHANGED <<atomicStrong, atomicWeak, atomicAttempt, extended, memory,
                     owners, cur, tgt, op, hooks, ops>>
    BY DEF DecRefSub
<1>2. Goes(t, "DecRefSub", (IF atomicRefCount = 1 THEN {"FreeCounter"} ELSE {}))
      /\ "DecRefSub" \in Steps
  <2>1. "DecRefSub" \in Steps /\ "FreeCounter" \in Steps
    BY DEF Steps
  <2>4. /\ Below("DecRefSub") \subseteq Below("FreeCounter")
    BY BelowIs DEF Last, Ends, Weaks, Freed
  <2>5. CASE atomicRefCount = 1
    BY <1>1, <2>1, <2>4, <2>5, Goes1 DEF Inv
  <2>6. CASE ~(atomicRefCount = 1)
    BY <1>1, <2>1, <2>4, <2>6, Goes0 DEF Inv
  <2> QED
    BY <2>5, <2>6
<1>3. PICK e \in (EndSets \union FreeSets) : pend[t] = {"DecRefSub"} \union e
           /\ pend'[t] = (IF atomicRefCount = 1 THEN {"FreeCounter"} ELSE {}) \union e
    BY <1>2, UnderIs DEF Goes
<1>4. TypeOK' /\ Same(t)
  <2>1. atomicRefCount' \in Nat
    <3>1. t \in refdrops /\ atomicRefCount \in Nat
      BY <1>3 DEF refdrops, Inv, TypeOK
    <3> QED
      BY <1>1, <3>1, LifeFacts
  <2> QED
    BY <1>1, <1>2, <2>1 DEF Inv, TypeOK, Goes, Same, memory, owners, hooks
<1>5. TagOf(t) /\ BackOf(t)
    BY DEF Inv, Locals, TagInv, BackInv
<1>6. /\ UNCHANGED <<gains, drops, tries, wgains, wdrops, owing, lasts, bases, comings,
                     onfirst, onlast, dying, stripped>>
      /\ t \in refdrops /\ t \notin refdrops' /\ t \notin freeing
      /\ freeing' = (IF atomicRefCount = 1 THEN freeing \union {t} ELSE freeing)
    BY <1>1, <1>3, <1>4, ThreadSets
    DEF Moved, EndSets, FreeSets, drops, gains, tries, wgains, wdrops, owing,
       lasts, bases, refdrops, freeing, comings, onfirst, onlast, dying, stripped, Adding, Trying,
       Destroyed
<1>7. /\ UNCHANGED <<raw, atomicStrong, atomicWeak, callback, object, counter, acquired,
                     sptrs, wptrs, wrc, extended, firstCalls, lastCalls>>
      /\ atomicRefCount \in Nat
    BY <1>1 DEF memory, owners, hooks, Inv, TypeOK
<1>8. WrcSame(t)
    BY <1>1, <1>3, <1>7 DEF WrcSame, EndSets, FreeSets
<1>9. Counts' /\ Memory'
  <2>1. /\ WrcInv' /\ ready' = ready /\ builts' = builts /\ builts \in Nat
    BY <1>4, <1>8, WrcStep
  <2>2. Alive' = Alive
    BY <1>6, <1>7, Frames
  <2>3. StrongInv' /\ OwingInv' /\ WeakInv'
    BY <1>6, <1>7, <2>1, Frames
  <2>4. BoundInv'
    BY <1>1, <1>6, <1>7, Frames
  <2>5. RefInv'
    <3>1. refs[t] = 1 /\ refs'[t] = 0 /\ Held' = Held /\ One(Held) \in Nat
      BY <1>6, <2>2 DEF refs, Held, One
    <3>2. atomicRefCount' = atomicRefCount + (refs'[t] - refs[t]) + (builts' - builts)
                                + (One(Held') - One(Held))
      BY <1>1, <1>7, <2>1, <3>1
    <3>3. (atomicRefCount = reffed + builts + One(Held))'
      BY <1>4, <2>1, <3>2, RefStep
    <3> QED
      BY <1>6, <2>2, <3>3 DEF Inv, Counts, RefInv
  <2>6. LifeInv' /\ CallbackInv' /\ HookInv'
    BY <1>6, <1>7, <2>2, Frames DEF hooks
  <2>7. CounterInv'
    <3>1. atomicRefCount > 0 /\ counter /\ freeing = {}
      BY <1>6, LifeFacts
    <3> QED
      BY <1>1, <1>6, <1>7, <3>1 DEF CounterInv, Unique
  <2> QED
    BY <2>1, <2>3, <2>4, <2>5, <2>6, <2>7 DEF Counts, Memory
<1>10. Locals'
  <2>0. acquired' >= acquired
    BY <1>7 DEF Inv, TypeOK
  <2>1. Knows(t)
    BY <1>3 DEF Knows
  <2>2. TagOf(t)'
    BY <1>1, <1>3, <1>5, <1>7 DEF TagOf, Trying, EndSets, FreeSets
  <2>3. BackOf(t)'
    BY <1>1, <1>3, <1>5, <1>7 DEF BackOf, Adding, EndSets, FreeSets
  <2>4. t \notin raw
    BY <1>3 DEF Inv, Locals, RawInv
  <2> QED
    BY <1>4, <1>7, <2>0, <2>1, <2>2, <2>3, <2>4, LocalsStep
<1> QED
    BY <1>2, <1>4, <1>9, <1>10 DEF Inv, Goes

\* RefCounter is deleted by one thread, when nobody has a count on it.
LEMMA FreeCounterKeeps ==
    ASSUME RefBaseConstants, Inv, NEW t \in Threads, FreeCounter(t)
    PROVE  Inv'
<1>1. /\ At(t, "FreeCounter")
      /\ counter' = FALSE /\ Call(t, <<>>)
      /\ UNCHANGED <<counts, callback, object, wrc, owners, cur, tgt, op, hooks, ops>>
    BY DEF FreeCounter
<1>2. Goes(t, "FreeCounter", {}) /\ "FreeCounter" \in Steps
  <2>1. "FreeCounter" \in Steps
    BY DEF Steps
  <2> QED
    BY <1>1, <2>1, Goes0 DEF Inv
<1>3. PICK e \in (EndSets \union FreeSets) : pend[t] = {"FreeCounter"} \union e
           /\ pend'[t] = {} \union e
    BY <1>2, UnderIs DEF Goes
<1>4. TypeOK' /\ Same(t)
    BY <1>1, <1>2 DEF Inv, TypeOK, Goes, Same, counts, owners, hooks
<1>5. TagOf(t) /\ BackOf(t)
    BY DEF Inv, Locals, TagInv, BackInv
<1>6. /\ UNCHANGED <<gains, drops, tries, wgains, wdrops, owing, lasts, bases, refdrops,
                     comings, onfirst, onlast, dying, stripped>>
      /\ t \in freeing /\ freeing' = freeing \ {t}
    BY <1>1, <1>3, <1>4, ThreadSets
    DEF Moved, EndSets, FreeSets, drops, gains, tries, wgains, wdrops, owing,
       lasts, bases, refdrops, freeing, comings, onfirst, onlast, dying, stripped, Adding, Trying,
       Destroyed
<1>7. /\ UNCHANGED <<raw, atomicStrong, atomicWeak, atomicRefCount, callback, object,
                     acquired, sptrs, wptrs, wrc, extended, firstCalls, lastCalls>>
      /\ acquired \in Nat /\ atomicStrong \in Nat
    BY <1>1 DEF counts, owners, hooks, Inv, TypeOK
<1>8. WrcSame(t)
    BY <1>1, <1>3, <1>7 DEF WrcSame, EndSets, FreeSets
<1>9. Counts' /\ Memory'
  <2>1. WrcInv' /\ ready' = ready /\ built' = built
    BY <1>4, <1>8, WrcStep
  <2>2. Alive' = Alive
    BY <1>6, <1>7, Frames
  <2>3. StrongInv' /\ OwingInv' /\ WeakInv' /\ RefInv'
    BY <1>6, <1>7, <2>1, <2>2, Frames
  <2>4. BoundInv'
    BY <1>1, <1>6, <1>7, Frames
  <2>5. LifeInv' /\ CallbackInv' /\ HookInv'
    BY <1>6, <1>7, <2>2, Frames DEF hooks
  <2>6. CounterInv'
    BY <1>1, <1>6, <1>7 DEF Inv, Memory, CounterInv, Unique
  <2> QED
    BY <2>1, <2>3, <2>4, <2>5, <2>6 DEF Counts, Memory
<1>10. Locals'
  <2>1. Knows(t)
    BY <1>3 DEF Knows
  <2>2. TagOf(t)'
    BY <1>1, <1>3, <1>5, <1>7 DEF TagOf, Trying, EndSets, FreeSets
  <2>3. BackOf(t)'
    BY <1>1, <1>3, <1>5, <1>7 DEF BackOf, Adding, EndSets, FreeSets
  <2>4. t \notin raw
    BY <1>3 DEF Inv, Locals, RawInv
  <2> QED
    BY <1>4, <1>7, <2>1, <2>2, <2>3, <2>4, LocalsStep
<1> QED
    BY <1>2, <1>4, <1>9, <1>10 DEF Inv, Goes

\* RefCounter takes the initial value off: the one thread that owes it, once.
LEMMA SubInitialKeeps ==
    ASSUME RefBaseConstants, Inv, NEW t \in Threads, SubInitial(t)
    PROVE  Inv'
<1>1. /\ At(t, "SubInitial")
      /\ atomicStrong' = atomicStrong - INITIAL_PRIMARY_VALUE /\ Call(t, <<>>)
      /\ UNCHANGED <<atomicWeak, atomicRefCount, atomicAttempt, extended, memory,
                     owners, cur, tgt, op, hooks, ops>>
    BY DEF SubInitial
<1>2. Goes(t, "SubInitial", {}) /\ "SubInitial" \in Steps
  <2>1. "SubInitial" \in Steps
    BY DEF Steps
  <2> QED
    BY <1>1, <2>1, Goes0 DEF Inv
<1>3. PICK e \in {{"GetRefPtr"}, {"SetAttempt", "OnFirst"}, {"OnFirst", "GotSptr"},
               {"OnFirst", "DecStrongLoad", "DecWeakLoad",
                  "GotSptr"}} : pend[t] = {"SubInitial"} \union e /\ pend'[t] = {} \union e
    BY <1>2, UnderIs DEF Goes
<1>4. Same(t)
    BY <1>1, <1>2 DEF Goes, Same, owners
<1>5. TagOf(t) /\ BackOf(t)
    BY DEF Inv, Locals, TagInv, BackInv
<1>6. /\ UNCHANGED <<gains, drops, tries, wgains, wdrops, lasts, bases, refdrops, freeing,
                     comings, onfirst, onlast, dying, stripped>>
      /\ t \in gains /\ t \in wgains /\ t \in owing /\ owing' = owing \ {t}
    BY <1>1, <1>3, <1>4, ThreadSets DEF Moved, drops, gains, tries, wgains, wdrops, owing,
       lasts, bases, refdrops, freeing, comings, onfirst, onlast, dying, stripped, Adding, Trying,
       Destroyed
<1>7. /\ UNCHANGED <<raw, atomicWeak, atomicRefCount, callback, object, counter, acquired,
                     sptrs, wptrs, wrc, extended, firstCalls, lastCalls>>
      /\ acquired \in Nat /\ atomicStrong \in Nat /\ atomicWeak \in Nat /\ sptrs[t] \in Nat
    BY <1>1 DEF memory, owners, hooks, Inv, TypeOK
<1>8. WrcSame(t)
    BY <1>1, <1>3, <1>7 DEF WrcSame
<1>11. /\ atomicStrong > INITIAL_PRIMARY_VALUE /\ owing' = {} /\ lowered' = lowered
       /\ atomicStrong' \in Nat /\ atomicStrong' > 0 /\ atomicStrong' < INITIAL_PRIMARY_VALUE
  <2>1. owing = {t} /\ atomicStrong > INITIAL_PRIMARY_VALUE
    BY <1>6 DEF Inv, Counts, OwingInv, Unique
  <2>2. lowered < INITIAL_PRIMARY_VALUE
    BY StrongFacts
  <2> QED
    BY <1>1, <1>6, <1>7, <2>1, <2>2, InitialIs DEF lowered
<1>12. TypeOK'
    BY <1>1, <1>11 DEF Inv, TypeOK, memory, owners, hooks
<1>9. Counts' /\ Memory'
  <2>1. WrcInv' /\ ready' = ready /\ built' = built
    BY <1>4, <1>8, WrcStep
  <2>2. weak[t] > 0
    BY <1>6, <1>7 DEF weak, One
  <2>3. Alive /\ Alive'
    BY <1>6, <1>7, <2>2, WeakFacts DEF Alive
  <2>4. WeakInv' /\ RefInv'
    BY <1>6, <1>7, <2>1, <2>3, Frames
  <2>5. BoundInv'
    BY <1>1, <1>6, <1>7, Frames
  <2>6. StrongInv'
    BY <1>6, <1>7, <1>11, Frames DEF Inv, Counts, StrongInv, strongs
  <2>7. OwingInv'
    BY <1>11, InitialIs DEF OwingInv, Unique
  <2>8. LifeInv'
    <3>1. atomicStrong > 0
      BY <1>11, InitialIs, <1>7
    <3> QED
      BY <1>6, <1>7, <1>11, <1>12, <2>3, <3>1, LifeStep
  <2>9. CallbackInv' /\ CounterInv'
    BY <1>6, <1>7, Frames
  <2>10. HookInv'
    <3>1. HookInv /\ atomicStrong # 0 /\ atomicStrong # INITIAL_PRIMARY_VALUE
      BY <1>7, <1>11, InitialIs DEF Inv, Memory
    <3>2. One(atomicStrong # INITIAL_PRIMARY_VALUE) = 1
          /\ One(atomicStrong' # INITIAL_PRIMARY_VALUE) = 1
      BY <1>11, <3>1, InitialIs DEF One
    <3>3. One(atomicStrong = 0) = 0 /\ One(atomicStrong' = 0) = 0
      BY <1>11, <3>1 DEF One
    <3> QED
      BY <1>6, <1>7, <3>1, <3>2, <3>3 DEF HookInv
  <2> QED
    BY <2>1, <2>4, <2>5, <2>6, <2>7, <2>8, <2>9, <2>10 DEF Counts, Memory
<1>10. Locals'
  <2>1. Knows(t)
    BY <1>3 DEF Knows
  <2>2. TagOf(t)'
    BY <1>1, <1>3, <1>5, <1>7 DEF TagOf, Trying
  <2>3. BackOf(t)'
    BY <1>1, <1>3, <1>5, <1>7 DEF BackOf, Adding
  <2>4. t \in raw => /\ pend'[t] \subseteq RawSteps /\ atomicStrong' > 0
                     /\ op'[t] = "none" => pend'[t] \subseteq {"OnFirst"}
    BY <1>1, <1>3, <1>7, <1>11 DEF Inv, Locals, RawInv, RawSteps, Only
  <2> QED
    BY <1>4, <1>7, <1>12, <2>1, <2>2, <2>3, <2>4, LocalsStep
<1> QED
    BY <1>2, <1>12, <1>9, <1>10 DEF Inv, Goes

-----------------------------------------------------------------------------
(* Steps that change one WeakRefCounter.                                   *)

\* A set of WeakRefCounters of which only w comes or goes.
LEMMA CardinalityStep ==
    ASSUME NEW X, IsFiniteSet(X), NEW Y, NEW w,
           \A x : x # w => (x \in Y <=> x \in X)
    PROVE  /\ Cardinality(X) \in Nat /\ Cardinality(Y) \in Nat
           /\ Cardinality(Y) = Cardinality(X) + (One(w \in Y) - One(w \in X))
<1>1. Cardinality(X) \in Nat
    BY FS_CardinalityType
<1>2. CASE w \in Y /\ w \notin X
  <2>1. Y = X \union {w}
    BY <1>2
  <2>2. IsFiniteSet(X \union {w}) /\ Cardinality(X \union {w}) = Cardinality(X) + 1
    BY <1>2, FS_AddElement
  <2> QED
    BY <1>1, <1>2, <2>1, <2>2 DEF One
<1>3. CASE w \notin Y /\ w \in X
  <2>1. Y = X \ {w}
    BY <1>3
  <2>2. IsFiniteSet(X \ {w}) /\ Cardinality(X \ {w}) = Cardinality(X) - 1
    BY <1>3, FS_RemoveElement
  <2>3. Cardinality(Y) \in Nat
    BY <2>1, <2>2, FS_CardinalityType
  <2> QED
    BY <1>1, <1>3, <2>1, <2>2, <2>3 DEF One
<1>4. CASE w \in Y <=> w \in X
  <2>1. Y = X
    BY <1>4
  <2> QED
    BY <1>1, <2>1 DEF One
<1> QED
    BY <1>2, <1>3, <1>4

\* Thread t, in state p, works on no WeakRefCounter.
WrcIdle(p) == /\ "WrcNew" \notin p /\ "WrcInc" \notin p /\ "FreeWrc" \notin p
              /\ "WrcDec" \notin p /\ "GotWptr" \notin p

\* The step concerns no WeakRefCounter other than w.
WrcElse(t, w) ==
    /\ \A x \in Wrcs : x # w => wrc'[x] = wrc[x] /\ wptrs'[t][x] = wptrs[t][x]
    /\ tgt[t] = w \/ WrcIdle(pend[t])
    /\ tgt'[t] = w \/ WrcIdle(pend'[t])

\* What the invariant says of the other WeakRefCounters stays true.
LEMMA WrcMoves ==
    ASSUME RefBaseConstants, Inv, TypeOK', NEW t \in Threads, Same(t), NEW w \in Wrcs,
           WrcElse(t, w), WrcAt(w)'
    PROVE  /\ WrcInv' /\ readies \in Nat /\ readies' \in Nat /\ builts \in Nat /\ builts' \in Nat
           /\ readies' = readies + (One(w \in ready') - One(w \in ready))
           /\ builts' = builts + (One(w \in built') - One(w \in built))
<1>1. ASSUME NEW x \in Wrcs, x # w
      PROVE  WrcAt(x)' /\ (x \in ready' <=> x \in ready) /\ (x \in built' <=> x \in built)
  <2>1. /\ t \notin newers[x] /\ t \notin newers'[x] /\ t \notin holders[x] /\ t \notin holders'[x]
        /\ t \notin raisers[x] /\ t \notin raisers'[x] /\ t \notin freers[x] /\ t \notin freers'[x]
        /\ t \notin users[x] /\ t \notin users'[x]
    BY <1>1 DEF WrcElse, WrcIdle, newers, holders, raisers, freers, users
  <2>2. /\ newers'[x] = newers[x] /\ holders'[x] = holders[x] /\ raisers'[x] = raisers[x]
        /\ freers'[x] = freers[x]
    BY <2>1, ThreadSets DEF Moved
  <2>3. on'[x][t] = on[x][t]
    BY <1>1, <2>1 DEF WrcElse, on
  <2>4. wrc'[x] = wrc[x]
    BY <1>1 DEF WrcElse
  <2> QED
    BY <2>2, <2>3, <2>4, WrcKept
<1>2. WrcInv'
    BY <1>1 DEF WrcInv
<1>3. /\ \A x : x # w => (x \in ready' <=> x \in ready)
      /\ \A x : x # w => (x \in built' <=> x \in built)
  <2>1. ready \subseteq Wrcs /\ ready' \subseteq Wrcs /\ built \subseteq Wrcs
        /\ built' \subseteq Wrcs
    BY DEF ready, built
  <2> QED
    BY <1>1, <2>1
<1>4. IsFiniteSet(ready) /\ IsFiniteSet(built)
    BY WeakFacts
<1>5. /\ Cardinality(ready) \in Nat /\ Cardinality(ready') \in Nat
      /\ Cardinality(ready') = Cardinality(ready) + (One(w \in ready') - One(w \in ready))
    BY <1>3, <1>4, CardinalityStep
<1>6. /\ Cardinality(built) \in Nat /\ Cardinality(built') \in Nat
      /\ Cardinality(built') = Cardinality(built) + (One(w \in built') - One(w \in built))
    BY <1>3, <1>4, CardinalityStep
<1> QED
    BY <1>2, <1>5, <1>6 DEF readies, builts

\* What the steps that concern a WeakRefCounter have below them.
LEMMA WrcPend ==
    ASSUME Stacked, NEW t \in Threads
    PROVE  /\ "IncWeak" \in pend[t] => /\ "WrcInc" \notin pend[t] /\ "WrcNew" \notin pend[t]
                                       /\ "DecWeakSub" \notin pend[t]
           /\ "WrcNew" \in pend[t] => "WrcInc" \in pend[t]
           /\ "WrcInc" \in pend[t] => /\ "GotWptr" \in pend[t] /\ "FreeWrc" \notin pend[t]
                                      /\ "DecWeakSub" \notin pend[t]
           /\ "FreeWrc" \in pend[t] => "WrcDec" \notin pend[t] /\ "GotWptr" \notin pend[t]
<1>1. CASE pend[t] = {}
    BY <1>1
<1>2. CASE pend[t] # {}
  <2>1. todo[t] # <<>>
    BY <1>2 DEF pend, Items
  <2> DEFINE s == Head(todo[t])
  <2>2. s \in Steps /\ At(t, s)
    BY <2>1 DEF Stacked, WellFormed, At
  <2> HIDE DEF s
  <2>3. PICK e \in Under(s) : pend[t] = {s} \union e
    BY <2>2, AtPend
  <2>4. CASE s \in {"IncWeak", "WrcNew", "WrcInc", "GotWptr"}
    BY <2>3, <2>4, UnderIs DEF NewSets, WrapSets
  <2>5. CASE s \in Last
    BY <2>3, <2>5, UnderIs DEF Last
  <2>6. CASE s \in {"IncStrongLoad", "IncStrongAdd", "SubInitial", "OnFirst", "SetAttempt",
                    "DecStrongLoad", "DecStrongSub", "OnLast"}
    BY <2>3, <2>6, UnderIs DEF GotSets, WeakSets
  <2>7. CASE s \in {"DecWeakLoad", "DecWeakSub", "LastWeak", "CallCallback", "FreeObject"}
    BY <2>3, <2>7, UnderIs DEF EndSets, WeakSets
  <2>8. CASE s \in {"DtorRemove", "DtorCheck", "DecRefLoad", "DecRefSub", "FreeCounter"}
    BY <2>3, <2>8, UnderIs DEF EndSets, FreeSets, DtorSets
  <2> QED
    BY <2>2, <2>4, <2>5, <2>6, <2>7, <2>8 DEF Steps, Last
<1> QED
    BY <1>1, <1>2

\* Nobody else uses a WeakRefCounter for which a thread still raises atomicWeak.
LEMMA OneRaises ==
    ASSUME RefBaseConstants, Inv, NEW w \in Wrcs, NEW t \in raisers[w], NEW u \in Threads,
           on[w][u] > 0 \/ u \in raisers[w]
    PROVE  u = t
<1>1. ASSUME NEW v \in raisers[w]
      PROVE  on[w][v] > 0 /\ v \in Threads
  <2>1. v \in Threads /\ tgt[v] = w /\ "IncWeak" \in pend[v] /\ "GotWptr" \in pend[v]
    BY DEF raisers
  <2>2. "WrcInc" \notin pend[v]
    BY <2>1, WrcPend DEF Inv
  <2>3. v \in users[w] /\ wptrs[v][w] \in Nat
    BY <2>1, <2>2 DEF users, Inv, TypeOK
  <2> QED
    BY <2>1, <2>3 DEF on, One
<1>2. wrc[w].weak = 1
    BY DEF Inv, Counts, WrcInv, WrcAt
<1>3. on[w][t] > 0 /\ on[w][u] > 0 /\ t \in Threads
    BY <1>1
<1> QED
    BY <1>2, <1>3, WeakFacts

\* What is below IncWeakRefCount.
LEMMA IncWeakPend ==
    ASSUME Stacked, NEW t \in Threads, "IncWeak" \in pend[t]
    PROVE  \E e \in {{"AttLoop"}, {"AttSLoad"}, {"GotWptr"}, {"GotWptr", "DropOld"},
                     {"IncStrongLoad", "GotSptr"},
                     {"IncStrongLoad", "DecStrongLoad", "DecWeakLoad", "GotSptr"}} :
               pend[t] = {"IncWeak"} \union e
<1>1. todo[t] # <<>>
    BY DEF pend, Items
<1> DEFINE s == Head(todo[t])
<1>2. s \in Steps /\ At(t, s)
    BY <1>1 DEF Stacked, WellFormed, At
<1> HIDE DEF s
<1>3. PICK e \in Under(s) : pend[t] = {s} \union e
    BY <1>2, AtPend
<1>4. s = "IncWeak"
  <2>1. CASE s \in {"IncWeak", "WrcNew", "WrcInc", "GotWptr"}
    BY <1>3, <2>1, UnderIs DEF NewSets, WrapSets
  <2>2. CASE s \in Last
    BY <1>3, <2>2, UnderIs DEF Last
  <2>3. CASE s \in {"IncStrongLoad", "IncStrongAdd", "SubInitial", "OnFirst", "SetAttempt",
                    "DecStrongLoad", "DecStrongSub", "OnLast"}
    BY <1>3, <2>3, UnderIs DEF GotSets, WeakSets
  <2>4. CASE s \in {"DecWeakLoad", "DecWeakSub", "LastWeak", "CallCallback", "FreeObject"}
    BY <1>3, <2>4, UnderIs DEF EndSets, WeakSets
  <2>5. CASE s \in {"DtorRemove", "DtorCheck", "DecRefLoad", "DecRefSub", "FreeCounter"}
    BY <1>3, <2>5, UnderIs DEF EndSets, FreeSets, DtorSets
  <2> QED
    BY <1>2, <2>1, <2>2, <2>3, <2>4, <2>5 DEF Steps, Last
<1> QED
    BY <1>3, <1>4, UnderIs

\* RefCounter::IncWeakRefCount.
LEMMA IncWeakKeeps ==
    ASSUME RefBaseConstants, Inv, NEW t \in Threads, IncWeak(t)
    PROVE  Inv'
<1>1. /\ At(t, "IncWeak")
      /\ atomicWeak' = atomicWeak + 1 /\ Call(t, <<>>)
      /\ UNCHANGED <<atomicStrong, atomicRefCount, atomicAttempt, extended, memory,
                     owners, cur, tgt, op, hooks, ops>>
    BY DEF IncWeak
<1>2. Goes(t, "IncWeak", {}) /\ "IncWeak" \in Steps
  <2>1. "IncWeak" \in Steps
    BY DEF Steps
  <2> QED
    BY <1>1, <2>1, Goes0 DEF Inv
<1>3. PICK e \in {{"AttLoop"}, {"AttSLoad"}, {"GotWptr"}, {"GotWptr", "DropOld"},
               {"IncStrongLoad", "GotSptr"},
               {"IncStrongLoad", "DecStrongLoad", "DecWeakLoad",
                  "GotSptr"}} : pend[t] = {"IncWeak"} \union e /\ pend'[t] = {} \union e
    BY <1>2, UnderIs DEF Goes
<1>4. TypeOK' /\ Same(t)
  <2>1. atomicWeak' \in Nat
    BY <1>1 DEF Inv, TypeOK
  <2> QED
    BY <1>1, <1>2, <2>1 DEF Inv, TypeOK, Goes, Same, memory, owners, hooks
<1>5. TagOf(t) /\ BackOf(t)
    BY DEF Inv, Locals, TagInv, BackInv
<1>6. /\ UNCHANGED <<gains, drops, tries, wdrops, owing, lasts, bases, refdrops, freeing,
                     onfirst, onlast, dying, stripped>>
      /\ t \in comings /\ t \notin wgains /\ (t \in wgains' <=> "GotWptr" \notin pend[t])
    BY <1>1, <1>3, <1>4, ThreadSets DEF Moved, drops, gains, tries, wgains, wdrops, owing,
       lasts, bases, refdrops, freeing, comings, onfirst, onlast, dying, stripped, Adding, Trying,
       Destroyed
<1>7. /\ UNCHANGED <<raw, atomicStrong, atomicRefCount, callback, object, counter,
                     acquired, sptrs, wptrs, wrc, extended, firstCalls, lastCalls>>
      /\ acquired \in Nat /\ atomicStrong \in Nat /\ atomicWeak \in Nat /\ sptrs[t] \in Nat
      /\ tgt'[t] = tgt[t] /\ tgt[t] \in Wrcs /\ op'[t] = op[t] /\ cur'[t] = cur[t]
    BY <1>1 DEF memory, owners, hooks, Inv, TypeOK
<1>8. /\ WrcInv' /\ readies \in Nat /\ readies' \in Nat /\ built' = built
      /\ readies' = readies + One("GotWptr" \in pend[t])
  <2>1. CASE "GotWptr" \notin pend[t]
    <3>1. WrcSame(t)
      BY <1>1, <1>3, <1>7, <2>1 DEF WrcSame
    <3> QED
      BY <1>4, <2>1, <3>1, WrcStep DEF One
  <2>2. CASE "GotWptr" \in pend[t]
    <3>1. PICK w \in Wrcs : w = tgt[t]
      BY <1>7
    <3>2. pend[t] \in {{"IncWeak", "GotWptr"}, {"IncWeak", "GotWptr", "DropOld"}}
          /\ pend'[t] = pend[t] \ {"IncWeak"}
      BY <1>3, <2>2
    <3>3. /\ t \in raisers[w] /\ t \notin raisers'[w] /\ t \notin newers[w] /\ t \notin newers'[w]
          /\ t \notin holders[w] /\ t \notin holders'[w] /\ t \notin freers[w]
              /\ t \notin freers'[w]
          /\ t \in users[w] /\ t \in users'[w]
      BY <1>7, <3>1, <3>2 DEF raisers, newers, holders, freers, users
    <3>4. /\ raisers'[w] = {} /\ newers'[w] = newers[w] /\ holders'[w] = holders[w]
          /\ freers'[w] = freers[w]
      <4>1. raisers[w] = {t}
        BY <3>1, <3>3, OneRaises DEF raisers
      <4> QED
        BY <1>4, <3>1, <3>3, <4>1, ThreadSets DEF Moved
    <3>5. on'[w][t] = on[w][t] /\ on[w][t] \in Nat /\ Total(on'[w]) = Total(on[w])
      <4>1. on'[w][t] = on[w][t]
        BY <1>7, <3>1, <3>3 DEF on
      <4>2. on[w][t] \in Nat /\ Total(on[w]) \in Nat
            /\ Total(on'[w]) = Total(on[w]) + on'[w][t] - on[w][t]
        BY <1>4, <3>1, Sums, Summands DEF Inv
      <4> QED
        BY <4>1, <4>2
    <3>6. WrcAt(w) /\ wrc'[w] = wrc[w] /\ wrc[w].weak = 1
      BY <1>7, <3>1, <3>3 DEF Inv, Counts, WrcInv, WrcAt
    <3>7. WrcAt(w)'
      BY <3>4, <3>5, <3>6 DEF WrcAt
    <3>8. WrcElse(t, w)
      BY <1>7, <3>1 DEF WrcElse
    <3>9. w \notin ready /\ w \in ready' /\ (w \in built' <=> w \in built)
      BY <3>1, <3>3, <3>4, <3>6 DEF ready, built
    <3>10. built' = built
      <4>1. \A x \in Wrcs : newers'[x] = newers[x]
        <5>1. \A x \in Wrcs : t \notin newers[x] /\ t \notin newers'[x]
          BY <3>2 DEF newers
        <5> QED
          BY <1>4, <5>1, ThreadSets DEF Moved
      <4> QED
        BY <1>7, <4>1 DEF built
    <3> QED
      BY <1>4, <2>2, <3>1, <3>7, <3>8, <3>9, <3>10, WrcMoves DEF One
  <2> QED
    BY <2>1, <2>2
<1>9. Counts' /\ Memory'
  <2>1. Alive /\ Alive'
    BY <1>1, <1>6, <1>7 DEF Alive
  <2>2. StrongInv' /\ OwingInv'
    BY <1>6, <1>7, Frames
  <2>3. BoundInv'
    BY <1>1, <1>6, <1>7, Frames
  <2>4. WeakInv'
    <3>1. weak'[t] = weak[t] + One("GotWptr" \notin pend[t]) /\ weak[t] \in Nat
      BY <1>6, <1>7 DEF weak, One
    <3>2. atomicWeak' = atomicWeak + (acquired' - acquired) + (weak'[t] - weak[t])
                            + (readies' - readies)
      BY <1>1, <1>7, <1>8, <3>1 DEF One
    <3> QED
      BY <1>4, <1>8, <3>2, WeakStep
  <2>5. RefInv' /\ LifeInv'
    BY <1>4, <1>6, <1>7, <1>8, <2>1, Frames DEF Same
  <2>6. CallbackInv' /\ CounterInv' /\ HookInv'
    BY <1>6, <1>7, Frames DEF hooks
  <2> QED
    BY <1>8, <2>2, <2>3, <2>4, <2>5, <2>6 DEF Counts, Memory
<1>10. Locals'
  <2>0. Only(t) => Only(t)'
    BY <1>4, <1>7, OnlyStays DEF Only
  <2>1. Knows(t)
    BY <1>3 DEF Knows
  <2>2. TagOf(t)'
    BY <1>1, <1>3, <1>5, <1>7 DEF TagOf, Trying
  <2>3. BackOf(t)'
    BY <1>1, <1>3, <1>5, <1>7, <2>0 DEF BackOf, Adding
  <2>4. t \in raw => /\ pend'[t] \subseteq RawSteps /\ atomicStrong' > 0
                     /\ op'[t] = "none" => pend'[t] \subseteq {"OnFirst"}
    BY <1>1, <1>3, <1>7 DEF Inv, Locals, RawInv, RawSteps, Only
  <2> QED
    BY <1>4, <1>7, <2>1, <2>2, <2>3, <2>4, LocalsStep
<1> QED
    BY <1>2, <1>4, <1>9, <1>10 DEF Inv, Goes

\* A thread about to raise atomicWeak does so on behalf of a reference that
\* atomicWeak already counts, unless it is the only one that knows of the object.
LEMMA WeakBacked ==
    ASSUME RefBaseConstants, Inv, NEW t \in Threads, "DecWeakSub" \in pend[t]
    PROVE  /\ raw = {} /\ atomicWeak > 0
           /\ comings # {} => atomicWeak > 1
<1>1. raw = {}
    BY NotOnly DEF Inv, Locals, RawInv
<1>2. weak[t] > 0 /\ weak[t] \in Nat
  <2>1. t \in wdrops /\ sptrs[t] \in Nat
    BY DEF wdrops, Inv, TypeOK
  <2> QED
    BY <2>1 DEF weak, One
<1>3. /\ atomicWeak >= acquired + weaks + readies
      /\ atomicWeak \in Nat /\ acquired \in Nat /\ weaks \in Nat /\ readies \in Nat
      /\ weak[t] <= weaks /\ weak \in [Threads -> Nat]
    BY Parts, WeakFacts DEF Inv, TypeOK, Counts, WeakInv
<1>4. ASSUME NEW u \in comings
      PROVE  atomicWeak > 1
  <2>1. u \in Threads /\ sptrs[u] \in Nat /\ TagOf(u) /\ BackOf(u) /\ tgt[u] \in Wrcs
        /\ \A w \in Wrcs : wptrs[u][w] \in Nat
    BY DEF comings, Inv, TypeOK, Locals, TagInv, BackInv
  <2>2. u # t
    BY WrcPend DEF comings, Inv
  <2>3. ~Only(u)
    BY <2>2 DEF Only
  <2>4. ASSUME weak[u] > 0
        PROVE  atomicWeak > 1
    <3>1. weak[t] + weak[u] <= weaks
      BY <1>3, <2>1, <2>2, TotalAtLeast DEF weaks, RefBaseConstants
    <3> QED
      BY <1>2, <1>3, <2>1, <2>4, <3>1
  <2>5. ASSUME sptrs[u] > 0 \/ "DecWeakLoad" \in pend[u]
        PROVE  atomicWeak > 1
    <3>1. weak[u] > 0
      BY <2>1, <2>5 DEF weak, wdrops, One
    <3> QED
      BY <2>4, <3>1
  <2>6. ASSUME NEW w \in Wrcs, wptrs[u][w] > 0, u \notin raisers[w]
        PROVE  atomicWeak > 1
    <3>1. on[w][u] > 0
      BY <2>1, <2>6 DEF on, One
    <3>2. wrc[w].weak > 0
      BY <2>1, <3>1, WeakFacts
    <3>3. raisers[w] = {}
      BY <2>1, <2>6, <3>1, OneRaises
    <3>4. ready # {}
      BY <3>2, <3>3 DEF ready
    <3>5. readies > 0
      BY <1>3, <3>4, WeakFacts, FS_EmptySet DEF readies
    <3> QED
      BY <1>2, <1>3, <3>5
  <2>7. CASE "IncWeak" \in pend[u]
    <3>1. PICK e \in {{"AttLoop"}, {"AttSLoad"}, {"GotWptr"}, {"GotWptr", "DropOld"},
                      {"IncStrongLoad", "GotSptr"},
                      {"IncStrongLoad", "DecStrongLoad", "DecWeakLoad", "GotSptr"}} :
              pend[u] = {"IncWeak"} \union e
      BY <2>1, <2>7, IncWeakPend DEF Inv
    <3>2. CASE "AttLoop" \in pend[u]
      <4>1. op[u] = "acquire" => sptrs[u] > 0
        BY <1>1, <2>1 DEF TagOf
      <4>2. op[u] # "acquire" => wptrs[u][tgt[u]] > 0
        BY <2>1, <3>2 DEF TagOf, Trying
      <4>3. u \notin raisers[tgt[u]]
        BY <2>1, <3>1, <3>2 DEF raisers
      <4> QED
        BY <2>1, <2>5, <2>6, <4>1, <4>2, <4>3
    <3>3. CASE "AttSLoad" \in pend[u]
      BY <2>1, <2>5, <3>3 DEF BackOf
    <3>4. CASE "GotWptr" \in pend[u]
      BY <2>1, <2>3, <2>5, <2>7, <3>4 DEF BackOf
    <3>5. CASE "IncStrongLoad" \in pend[u]
      <4>1. sptrs[u] > 0 \/ "DecStrongLoad" \in pend[u]
        BY <2>1, <2>3, <3>5 DEF BackOf, Adding
      <4>2. "DecStrongLoad" \in pend[u] => "DecWeakLoad" \in pend[u]
        BY <3>1, <3>5
      <4> QED
        BY <2>5, <4>1, <4>2
    <3> QED
      BY <3>1, <3>2, <3>3, <3>4, <3>5
  <2>8. CASE "WrcInc" \in pend[u]
    <3>1. wrc[tgt[u]].weak \in Nat
      BY <2>1 DEF Inv, TypeOK
    <3>2. CASE wrc[tgt[u]].weak = 0
      BY <2>1, <2>3, <2>5, <2>8, <3>2 DEF BackOf
    <3>3. CASE wrc[tgt[u]].weak > 0
      <4>1. wptrs[u][tgt[u]] > 0
        BY <2>1, <2>8, <3>3 DEF BackOf
      <4>2. u \notin raisers[tgt[u]]
        BY <2>1, <2>8, WrcPend DEF raisers, Inv
      <4> QED
        BY <2>1, <2>6, <4>1, <4>2
    <3> QED
      BY <3>1, <3>2, <3>3
  <2> QED
    BY <2>1, <2>7, <2>8, WrcPend DEF comings, Inv
<1> QED
    BY <1>1, <1>2, <1>3, <1>4

\* RefCounter::DecWeakRefCount.
LEMMA DecWeakSubKeeps ==
    ASSUME RefBaseConstants, Inv, NEW t \in Threads, DecWeakSub(t)
    PROVE  Inv'
<1>1. /\ At(t, "DecWeakSub")
      /\ atomicWeak' = atomicWeak - 1
      /\ Call(t, IF atomicWeak = 1 THEN <<"LastWeak">> ELSE <<>>)
      /\ UNCHANGED <<atomicStrong, atomicRefCount, atomicAttempt, extended, memory,
                     owners, cur, tgt, op, hooks, ops>>
    BY DEF DecWeakSub
<1>2. Goes(t, "DecWeakSub", (IF atomicWeak = 1 THEN {"LastWeak"} ELSE {})) /\ "DecWeakSub" \in Steps
  <2>1. "DecWeakSub" \in Steps /\ "LastWeak" \in Steps
    BY DEF Steps
  <2>4. /\ Below("DecWeakSub") \subseteq Below("LastWeak")
    BY BelowIs DEF Last, Ends, Weaks, Freed
  <2>5. CASE atomicWeak = 1
    BY <1>1, <2>1, <2>4, <2>5, Goes1 DEF Inv
  <2>6. CASE ~(atomicWeak = 1)
    BY <1>1, <2>1, <2>4, <2>6, Goes0 DEF Inv
  <2> QED
    BY <2>5, <2>6
<1>3. PICK e \in EndSets : pend[t] = {"DecWeakSub"} \union e
           /\ pend'[t] = (IF atomicWeak = 1 THEN {"LastWeak"} ELSE {}) \union e
    BY <1>2, UnderIs DEF Goes
<1>4. TypeOK' /\ Same(t)
  <2>1. atomicWeak' \in Nat
    <3>1. atomicWeak > 0 /\ atomicWeak \in Nat
      BY <1>3, WeakBacked DEF Inv, TypeOK
    <3> QED
      BY <1>1, <3>1
  <2> QED
    BY <1>1, <1>2, <2>1 DEF Inv, TypeOK, Goes, Same, memory, owners, hooks
<1>5. TagOf(t) /\ BackOf(t)
    BY DEF Inv, Locals, TagInv, BackInv
<1>6. /\ UNCHANGED <<gains, drops, tries, wgains, owing, refdrops, freeing, comings,
                     onfirst, onlast, dying, stripped>>
      /\ t \in wdrops /\ t \notin wdrops' /\ t \notin bases
      /\ lasts' = (IF atomicWeak = 1 THEN lasts \union {t} ELSE lasts)
      /\ bases' = (IF atomicWeak = 1 THEN bases \union {t} ELSE bases)
    BY <1>1, <1>3, <1>4, ThreadSets DEF Moved, EndSets, drops, gains, tries, wgains, wdrops, owing,
       lasts, bases, refdrops, freeing, comings, onfirst, onlast, dying, stripped, Adding, Trying,
       Destroyed
<1>7. /\ UNCHANGED <<raw, atomicStrong, atomicRefCount, callback, object, counter,
                     acquired, sptrs, wptrs, wrc, extended, firstCalls, lastCalls>>
      /\ acquired \in Nat /\ atomicStrong \in Nat /\ atomicWeak \in Nat /\ sptrs[t] \in Nat
    BY <1>1 DEF memory, owners, hooks, Inv, TypeOK
<1>8. WrcSame(t)
    BY <1>1, <1>3, <1>7 DEF WrcSame, EndSets
<1>11. /\ raw = {} /\ atomicWeak > 0 /\ (comings # {} => atomicWeak > 1)
       /\ Alive /\ bases = {} /\ lasts = {}
  <2>1. raw = {} /\ atomicWeak > 0 /\ (comings # {} => atomicWeak > 1)
    BY <1>3, WeakBacked
  <2>2. Alive
    BY <2>1 DEF Alive
  <2> QED
    BY <2>1, <2>2, LifeFacts
<1>9. Counts' /\ Memory'
  <2>1. /\ WrcInv' /\ built' = built /\ readies' = readies /\ readies \in Nat
        /\ builts' = builts /\ builts \in Nat
    BY <1>4, <1>8, WrcStep
  <2>2. StrongInv' /\ OwingInv'
    BY <1>6, <1>7, Frames
  <2>3. BoundInv'
    BY <1>1, <1>6, <1>7, Frames
  <2>4. WeakInv'
    <3>1. weak'[t] = weak[t] - 1 /\ weak[t] \in Nat
      BY <1>6, <1>7 DEF weak, One
    <3>2. atomicWeak' = atomicWeak + (acquired' - acquired) + (weak'[t] - weak[t])
                            + (readies' - readies)
      BY <1>1, <1>7, <2>1, <3>1
    <3> QED
      BY <1>4, <2>1, <3>2, WeakStep
  <2>5. CallbackInv' /\ CounterInv' /\ HookInv'
    BY <1>6, <1>7, Frames DEF hooks
  <2>6. RefInv' /\ LifeInv'
    <3>1. CASE atomicWeak # 1
      <4>1. Alive'
        BY <1>1, <1>7, <1>11, <3>1 DEF Alive
      <4> QED
        BY <1>4, <1>6, <1>7, <1>11, <2>1, <3>1, <4>1, Frames DEF Same
    <3>2. CASE atomicWeak = 1
      <4>1. ~Alive' /\ bases' = {t} /\ lasts' = {t}
        BY <1>1, <1>6, <1>7, <1>11, <3>2 DEF Alive
      <4>2. RefInv'
        <5>1. refs' = refs /\ One(Held') = 1 /\ One(Held) = 1
          BY <1>6, <1>11, <4>1 DEF refs, Held, One
        <5>2. refs[t] \in Nat /\ refs'[t] = refs[t]
          BY <5>1, Parts DEF Inv
        <5>3. atomicRefCount \in Nat
          BY DEF Inv, TypeOK
        <5>4. atomicRefCount' = atomicRefCount + (refs'[t] - refs[t]) + (builts' - builts)
                                    + (One(Held') - One(Held))
          BY <1>7, <2>1, <5>1, <5>2, <5>3
        <5>5. (atomicRefCount = reffed + builts + One(Held))'
          BY <1>4, <2>1, <5>4, RefStep
        <5> QED
          BY <4>1, <5>5 DEF RefInv, Unique
      <4>3. LifeInv'
        <5>1. LifeInv /\ (WeakDeletes' <=> WeakDeletes) /\ object' = object /\ dying' = dying
          BY <1>4, <1>6, <1>7 DEF Inv, Memory, Same, WeakDeletes
        <5>2. (Gone <=> ~extended /\ atomicStrong = 0) /\ (Gone => ~WeakDeletes)
          BY <1>11, InitialIs DEF Gone, WeakDeletes
        <5>3. Gone' <=> Gone \/ WeakDeletes
          BY <1>4, <1>7, <4>1, <5>1, <5>2 DEF Gone, Same
        <5> QED
          BY <1>11, <4>1, <5>1, <5>2, <5>3 DEF LifeInv
      <4> QED
        BY <4>2, <4>3
    <3> QED
      BY <3>1, <3>2
  <2> QED
    BY <2>1, <2>2, <2>3, <2>4, <2>5, <2>6 DEF Counts, Memory
<1>10. Locals'
  <2>1. Knows(t)
    BY <1>3 DEF Knows
  <2>2. TagOf(t)'
    BY <1>1, <1>3, <1>5, <1>7 DEF TagOf, Trying, EndSets
  <2>3. BackOf(t)'
    BY <1>1, <1>3, <1>5, <1>7 DEF BackOf, Adding, EndSets
  <2>4. t \notin raw
    BY <1>3 DEF Inv, Locals, RawInv
  <2> QED
    BY <1>4, <1>7, <2>1, <2>2, <2>3, <2>4, LocalsStep
<1> QED
    BY <1>2, <1>4, <1>9, <1>10 DEF Inv, Goes

\* RefCounter::AttemptIncStrongRef, when CanPromote refuses: the weak reference
\* it took stays counted.
LEMMA RefusedKeeps ==
    ASSUME RefBaseConstants, Inv, NEW t \in Threads, FALSE \in CanPromote,
           At(t, "AttCanPromote"), Call(t, <<>>), op' = [op EXCEPT ![t] = "none"],
           cur' = [cur EXCEPT ![t] = 0], UNCHANGED <<counts, memory, owners, tgt, hooks, ops>>
    PROVE  Inv'
<1>1. /\ At(t, "AttCanPromote")
      /\ Call(t, <<>>) /\ op' = [op EXCEPT ![t] = "none"] /\ cur' = [cur EXCEPT ![t] = 0]
      /\ UNCHANGED <<counts, memory, owners, tgt, hooks, ops>>
    OBVIOUS
<1>2. Goes(t, "AttCanPromote", {}) /\ "AttCanPromote" \in Steps
  <2>1. "AttCanPromote" \in Steps
    BY DEF Steps
  <2> QED
    BY <1>1, <2>1, Goes0 DEF Inv
<1>3. pend[t] = {"AttCanPromote"} /\ pend'[t] = {}
  <2>1. Under("AttCanPromote") = {{}}
    BY UnderIs DEF Last
  <2> QED
    BY <1>2, <2>1 DEF Goes
<1>4. TypeOK' /\ Same(t)
  <2>1. /\ op' \in [Threads -> {"none", "promote", "acquire", "check"}] /\ cur' \in [Threads -> Nat]
        /\ \A u \in Threads : u # t => op'[u] = op[u] /\ cur'[u] = cur[u]
    BY <1>1 DEF Inv, TypeOK
  <2> QED
    BY <1>1, <1>2, <2>1 DEF Inv, TypeOK, Goes, Same, counts, memory, owners, hooks
<1>5. TagOf(t) /\ BackOf(t)
    BY DEF Inv, Locals, TagInv, BackInv
<1>6. /\ UNCHANGED <<gains, drops, wdrops, owing, lasts, bases, refdrops, freeing,
                     comings, onfirst, onlast, dying, stripped>>
      /\ t \in tries /\ t \notin tries' /\ t \in wgains /\ t \notin wgains'
    BY <1>1, <1>3, <1>4, ThreadSets DEF Moved, drops, gains, tries, wgains, wdrops, owing,
       lasts, bases, refdrops, freeing, comings, onfirst, onlast, dying, stripped, Adding, Trying,
       Destroyed
<1>7. /\ UNCHANGED <<raw, atomicStrong, atomicWeak, atomicRefCount, callback, object, counter,
                     acquired, sptrs, wptrs, wrc, extended, firstCalls, lastCalls>>
      /\ acquired \in Nat /\ atomicStrong \in Nat /\ atomicWeak \in Nat /\ sptrs[t] \in Nat
      /\ op'[t] = "none"
    BY <1>1 DEF counts, memory, owners, hooks, Inv, TypeOK
<1>8. WrcSame(t)
    BY <1>1, <1>3, <1>7 DEF WrcSame
<1>9. Counts' /\ Memory'
  <2>1. /\ WrcInv' /\ built' = built /\ readies' = readies /\ readies \in Nat
    BY <1>4, <1>8, WrcStep
  <2>2. StrongInv' /\ OwingInv'
    BY <1>6, <1>7, Frames
  <2>3. BoundInv'
    <3>1. strong' = strong /\ strong[t] \in Nat
      BY <1>6, <1>7, Frames, Parts DEF Inv
    <3>2. claims'[t] = strong[t] /\ claims[t] = strong[t] + 1
      BY <1>6, <3>1 DEF claims, One
    <3>3. claims'[t] + acquired' + One(raw' # {}) - ops' <= claims[t] + acquired + One(raw # {}) - ops
      <4>1. ops \in Int /\ ops' = ops
        BY <1>1 DEF Inv, TypeOK
      <4> QED
        BY <1>7, <3>1, <3>2, <4>1 DEF One
    <3> QED
      BY <1>4, <3>3, BoundStep
  <2>4. WeakInv'
    <3>1. weak'[t] = weak[t] - 1 /\ weak[t] \in Nat
      BY <1>6, <1>7 DEF weak, One
    <3>2. weaks' = weaks + weak'[t] - weak[t] /\ weaks \in Nat
      BY <1>4, Sums DEF Inv
    <3>3. atomicWeak >= acquired + weaks + readies
      BY DEF Inv, Counts, WeakInv
    <3>4. (atomicWeak >= acquired + weaks + readies)'
      BY <1>7, <2>1, <3>1, <3>2, <3>3
    <3> QED
      BY <3>4, Zenon DEF WeakInv
  <2>5. CallbackInv' /\ CounterInv' /\ HookInv'
    BY <1>6, <1>7, Frames DEF hooks
  <2>6. Alive' = Alive
    BY <1>6, <1>7, Frames
  <2>7. RefInv' /\ LifeInv'
    BY <1>4, <1>6, <1>7, <2>1, <2>6, Frames DEF Same
  <2> QED
    BY <2>1, <2>2, <2>3, <2>4, <2>5, <2>7 DEF Counts, Memory
<1>10. Locals'
  <2>1. Knows(t)
    BY <1>3 DEF Knows
  <2>2. TagOf(t)'
    BY <1>1, <1>3, <1>5, <1>7 DEF TagOf, Trying
  <2>3. BackOf(t)'
    BY <1>1, <1>3, <1>5, <1>7 DEF BackOf, Adding
  <2>4. t \in raw => /\ pend'[t] \subseteq RawSteps /\ atomicStrong' > 0
                     /\ op'[t] = "none" => pend'[t] \subseteq {"OnFirst"}
    BY <1>1, <1>3, <1>7 DEF Inv, Locals, RawInv, RawSteps, Only
  <2> QED
    BY <1>4, <1>7, <2>1, <2>2, <2>3, <2>4, LocalsStep
<1> QED
    BY <1>2, <1>4, <1>9, <1>10 DEF Inv, Goes

\* RefCounter::AttemptIncStrongRef, when the lifetime is extended.
LEMMA AttCanPromoteKeeps ==
    ASSUME RefBaseConstants, Inv, NEW t \in Threads, AttCanPromote(t)
    PROVE  Inv'
<1>1. PICK yes \in CanPromote :
          /\ At(t, "AttCanPromote")
          /\ Call(t, IF yes THEN <<"AttAdd">> ELSE <<>>)
          /\ op' = IF yes THEN op ELSE [op EXCEPT ![t] = "none"]
          /\ cur' = IF yes THEN cur ELSE [cur EXCEPT ![t] = 0]
          /\ UNCHANGED <<counts, memory, owners, tgt, hooks, ops>>
    BY DEF AttCanPromote
<1>2. yes \in BOOLEAN
    BY <1>1 DEF RefBaseConstants
<1>3. CASE yes = TRUE
    BY <1>1, <1>3, PromotesKeeps
<1>4. CASE yes = FALSE
    BY <1>1, <1>4, RefusedKeeps
<1> QED
    BY <1>2, <1>3, <1>4

\* A WeakRefCounter gets another count, or another state.
LEMMA WrcUpdate ==
    ASSUME NEW f \in [Wrcs -> [state : {"unused", "live", "deleted"}, weak : Nat]],
           NEW w \in Wrcs, NEW n \in Nat, NEW s \in {"unused", "live", "deleted"}
    PROVE  /\ [f EXCEPT ![w].weak = n] \in [Wrcs -> [state : {"unused", "live", "deleted"},
                 weak : Nat]]
           /\ [f EXCEPT ![w].weak = n][w].weak = n
           /\ [f EXCEPT ![w].weak = n][w].state = f[w].state
           /\ \A x \in Wrcs : x # w => [f EXCEPT ![w].weak = n][x] = f[x]
           /\ [f EXCEPT ![w].state = s] \in [Wrcs -> [state : {"unused", "live", "deleted"},
                 weak : Nat]]
           /\ [f EXCEPT ![w].state = s][w].state = s
           /\ [f EXCEPT ![w].state = s][w].weak = f[w].weak
           /\ \A x \in Wrcs : x # w => [f EXCEPT ![w].state = s][x] = f[x]
OBVIOUS

\* Whoever constructs a WeakRefCounter then raises it.
LEMMA NewersHold ==
    ASSUME Inv, NEW w \in Wrcs
    PROVE  newers[w] \subseteq holders[w]
BY WrcPend DEF Inv, newers, holders

\* The constructor of WeakRefCounter.
LEMMA WrcNewKeeps ==
    ASSUME RefBaseConstants, Inv, NEW t \in Threads, WrcNew(t)
    PROVE  Inv'
<1>1. /\ At(t, "WrcNew")
      /\ atomicRefCount' = atomicRefCount + 1 /\ Call(t, <<>>)
      /\ UNCHANGED <<atomicStrong, atomicWeak, atomicAttempt, extended, memory,
                     owners, cur, tgt, op, hooks, ops>>
    BY DEF WrcNew
<1>2. Goes(t, "WrcNew", {}) /\ "WrcNew" \in Steps
  <2>1. "WrcNew" \in Steps
    BY DEF Steps
  <2> QED
    BY <1>1, <2>1, Goes0 DEF Inv
<1>3. PICK e \in NewSets : pend[t] = {"WrcNew"} \union e /\ pend'[t] = {} \union e
    BY <1>2, UnderIs DEF Goes
<1>4. TypeOK' /\ Same(t)
  <2>1. atomicRefCount' \in Nat
    BY <1>1 DEF Inv, TypeOK
  <2> QED
    BY <1>1, <1>2, <2>1 DEF Inv, TypeOK, Goes, Same, memory, owners, hooks
<1>5. TagOf(t) /\ BackOf(t)
    BY DEF Inv, Locals, TagInv, BackInv
<1>6. /\ UNCHANGED <<gains, drops, tries, wgains, wdrops, owing, lasts, bases, refdrops, freeing,
                     comings, onfirst, onlast, dying, stripped>>
      /\ t \in comings
    BY <1>1, <1>3, <1>4, ThreadSets DEF Moved, NewSets, drops, gains, tries, wgains, wdrops, owing,
       lasts, bases, refdrops, freeing, comings, onfirst, onlast, dying, stripped, Adding, Trying,
       Destroyed
<1>7. /\ UNCHANGED <<raw, atomicStrong, atomicWeak, callback, object, counter, acquired,
                     sptrs, wptrs, wrc, extended, firstCalls, lastCalls>>
      /\ acquired \in Nat /\ atomicStrong \in Nat /\ atomicRefCount \in Nat /\ sptrs[t] \in Nat
      /\ tgt'[t] = tgt[t] /\ tgt[t] \in Wrcs
    BY <1>1 DEF memory, owners, hooks, Inv, TypeOK
<1>8. WrcInv' /\ readies' = readies /\ builts' = builts + 1 /\ readies \in Nat /\ builts \in Nat
  <2>1. PICK w \in Wrcs : w = tgt[t]
    BY <1>7
  <2>2. /\ t \in newers[w] /\ t \notin newers'[w]
        /\ t \in holders[w] /\ t \in holders'[w]
        /\ t \notin raisers[w] /\ t \notin raisers'[w]
        /\ t \notin freers[w] /\ t \notin freers'[w]
        /\ t \notin users[w] /\ t \notin users'[w]
    BY <1>3, <1>7, <2>1 DEF newers, holders, raisers, freers, users, NewSets
  <2>3. /\ holders'[w] = holders[w] /\ raisers'[w] = raisers[w] /\ freers'[w] = freers[w]
        /\ newers'[w] = newers[w] \ {t}
    BY <1>4, <2>1, <2>2, ThreadSets DEF Moved
  <2>4. on[w][t] \in Nat /\ Total(on[w]) \in Nat
        /\ Total(on'[w]) = Total(on[w]) + on'[w][t] - on[w][t]
    BY <1>4, <2>1, Sums, Summands DEF Inv
  <2>5. on'[w][t] = on[w][t]
    BY <1>7, <2>2 DEF on
  <2>6. WrcAt(w) /\ wrc'[w] = wrc[w]
    BY <1>7 DEF Inv, Counts, WrcInv
  <2>7. newers'[w] = {} /\ wrc[w].state = "live"
    <3>1. wrc[w].weak = 0 /\ Unique(holders[w]) /\ wrc[w].state = "live"
      BY <2>2, <2>6 DEF WrcAt, Unique
    <3>2. newers[w] \subseteq {t}
      BY <2>2, <3>1, NewersHold DEF Unique
    <3> QED
      BY <2>3, <3>1, <3>2
  <2>8. WrcAt(w)'
    <3>1. Total(on'[w]) = Total(on[w])
      BY <2>4, <2>5
    <3> QED
      BY <2>3, <2>6, <2>7, <3>1 DEF WrcAt
  <2>9. WrcElse(t, w)
    BY <1>7, <2>1 DEF WrcElse
  <2>10. (w \in ready' <=> w \in ready) /\ w \notin built /\ w \in built'
    BY <2>2, <2>3, <2>6, <2>7 DEF ready, built
  <2> QED
    BY <1>4, <2>8, <2>9, <2>10, WrcMoves DEF One
<1>9. Counts' /\ Memory'
  <2>1. Alive /\ Alive'
    BY <1>6, <1>7 DEF Alive
  <2>2. StrongInv' /\ OwingInv'
    BY <1>6, <1>7, Frames
  <2>3. BoundInv'
    BY <1>1, <1>6, <1>7, Frames
  <2>4. WeakInv'
    <3>1. weak' = weak /\ weak[t] \in Nat /\ atomicWeak \in Nat
      BY <1>6, <1>7, Frames, Parts DEF Inv, TypeOK
    <3>2. atomicWeak' = atomicWeak + (acquired' - acquired) + (weak'[t] - weak[t])
                            + (readies' - readies)
      BY <1>7, <1>8, <3>1
    <3> QED
      BY <1>4, <1>8, <3>2, WeakStep
  <2>5. RefInv'
    <3>1. refs' = refs /\ One(Held) = 1 /\ One(Held') = 1 /\ refs[t] \in Nat
      BY <1>6, <2>1, Parts DEF refs, Held, One, Inv
    <3>2. atomicRefCount' = atomicRefCount + (refs'[t] - refs[t]) + (builts' - builts)
                                + (One(Held') - One(Held))
      BY <1>1, <1>7, <1>8, <3>1
    <3>3. (atomicRefCount = reffed + builts + One(Held))'
      BY <1>4, <1>8, <3>2, RefStep
    <3> QED
      BY <1>6, <2>1, <3>3, LifeFacts DEF RefInv, Unique
  <2>6. LifeInv' /\ CallbackInv' /\ HookInv'
    BY <1>4, <1>6, <1>7, <2>1, Frames DEF hooks, Same
  <2>7. CounterInv'
    <3>1. atomicRefCount > 0 /\ counter /\ freeing = {}
      BY <2>1, LifeFacts DEF Held
    <3> QED
      BY <1>1, <1>6, <1>7, <3>1 DEF CounterInv, Unique
  <2> QED
    BY <1>8, <2>2, <2>3, <2>4, <2>5, <2>6, <2>7 DEF Counts, Memory
<1>10. Locals'
  <2>0. Only(t) => Only(t)'
    BY <1>4, <1>7, OnlyStays DEF Only
  <2>1. Knows(t)
    BY <1>3 DEF Knows
  <2>2. TagOf(t)'
    BY <1>1, <1>3, <1>5, <1>7 DEF TagOf, Trying, NewSets
  <2>3. BackOf(t)'
    BY <1>1, <1>3, <1>5, <1>7, <2>0 DEF BackOf, Adding, NewSets
  <2>4. t \notin raw
    BY <1>3 DEF Inv, Locals, RawInv
  <2> QED
    BY <1>4, <1>7, <2>1, <2>2, <2>3, <2>4, LocalsStep
<1> QED
    BY <1>2, <1>4, <1>9, <1>10 DEF Inv, Goes

\* WeakRefCounter::IncWeakRefCount.
LEMMA WrcIncKeeps ==
    ASSUME RefBaseConstants, Inv, NEW t \in Threads, WrcInc(t)
    PROVE  Inv'
<1>1. /\ At(t, "WrcInc")
      /\ wrc' = [wrc EXCEPT ![tgt[t]].weak = @ + 1]
      /\ Call(t, IF wrc[tgt[t]].weak = 0 THEN <<"IncWeak">> ELSE <<>>)
      /\ UNCHANGED <<counts, callback, object, counter, owners, cur, tgt, op, hooks, ops>>
    BY DEF WrcInc
<1>2. Goes(t, "WrcInc", (IF wrc[tgt[t]].weak = 0 THEN {"IncWeak"} ELSE {})) /\ "WrcInc" \in Steps
  <2>1. "WrcInc" \in Steps /\ "IncWeak" \in Steps
    BY DEF Steps
  <2>4. /\ Below("WrcInc") \subseteq Below("IncWeak")
    BY BelowIs DEF Last, Ends, Weaks, Freed
  <2>5. CASE wrc[tgt[t]].weak = 0
    BY <1>1, <2>1, <2>4, <2>5, Goes1 DEF Inv
  <2>6. CASE ~(wrc[tgt[t]].weak = 0)
    BY <1>1, <2>1, <2>4, <2>6, Goes0 DEF Inv
  <2> QED
    BY <2>5, <2>6
<1>3. PICK e \in WrapSets : pend[t] = {"WrcInc"} \union e
           /\ pend'[t] = (IF wrc[tgt[t]].weak = 0 THEN {"IncWeak"} ELSE {}) \union e
    BY <1>2, UnderIs DEF Goes
<1>13. PICK w \in Wrcs : w = tgt[t] /\ wrc[w].weak \in Nat
            /\ wrc[w].state \in {"unused", "live", "deleted"}
    BY DEF Inv, TypeOK
<1>14. /\ wrc' \in [Wrcs -> [state : {"unused", "live", "deleted"}, weak : Nat]]
       /\ wrc'[w].weak = wrc[w].weak + 1 /\ wrc'[w].state = wrc[w].state
       /\ \A x \in Wrcs : x # w => wrc'[x] = wrc[x]
    BY <1>1, <1>13, WrcUpdate DEF Inv, TypeOK
<1>4. TypeOK' /\ Same(t)
  <2>1. wrc' \in [Wrcs -> [state : {"unused", "live", "deleted"}, weak : Nat]]
    BY <1>14
  <2> QED
    BY <1>1, <1>2, <2>1 DEF Inv, TypeOK, Goes, Same, counts, owners, hooks
<1>5. TagOf(t) /\ BackOf(t)
    BY DEF Inv, Locals, TagInv, BackInv
<1>6. /\ UNCHANGED <<gains, drops, tries, wgains, wdrops, owing, lasts, bases, refdrops,
                     freeing, onfirst, onlast, dying, stripped>>
      /\ t \in comings /\ (t \in comings' <=> wrc[tgt[t]].weak = 0)
    BY <1>1, <1>3, <1>4, ThreadSets DEF Moved, WrapSets, drops, gains, tries, wgains, wdrops, owing,
       lasts, bases, refdrops, freeing, comings, onfirst, onlast, dying, stripped, Adding, Trying,
       Destroyed
<1>7. /\ UNCHANGED <<raw, atomicStrong, atomicWeak, atomicRefCount, callback, object,
                     counter, acquired, sptrs, wptrs, extended, firstCalls, lastCalls>>
      /\ acquired \in Nat /\ atomicStrong \in Nat /\ sptrs[t] \in Nat
      /\ tgt'[t] = tgt[t] /\ tgt[t] \in Wrcs /\ wptrs[t][w] \in Nat
    BY <1>1, <1>13 DEF counts, owners, hooks, Inv, TypeOK
<1>8. /\ WrcInv' /\ readies' = readies /\ builts' = builts /\ readies \in Nat /\ builts \in Nat
      /\ wrc[w].weak = 0 => holders[w] = {t}
  <2>1. WrcAt(w) /\ newers[w] \subseteq holders[w]
    BY NewersHold DEF Inv, Counts, WrcInv
  <2>2. /\ t \notin newers[w] /\ t \notin newers'[w] /\ t \in holders[w] /\ t \notin holders'[w]
        /\ t \notin raisers[w] /\ (t \in raisers'[w] <=> wrc[w].weak = 0)
        /\ t \notin freers[w] /\ t \notin freers'[w]
        /\ t \notin users[w] /\ t \in users'[w]
    BY <1>3, <1>7, <1>13 DEF newers, holders, raisers, freers, users, WrapSets
  <2>3. /\ newers'[w] = newers[w] /\ holders'[w] = holders[w] \ {t} /\ freers'[w] = freers[w]
        /\ raisers'[w] = (IF wrc[w].weak = 0 THEN raisers[w] \union {t} ELSE raisers[w])
    <3>1. /\ Moved(newers'[w], newers[w], t) /\ Moved(holders'[w], holders[w], t)
          /\ Moved(freers'[w], freers[w], t) /\ Moved(raisers'[w], raisers[w], t)
      BY <1>4, ThreadSets
    <3> QED
      BY <2>2, <3>1 DEF Moved
  <2>4. Total(on'[w]) = wrc[w].weak + 1
    <3>1. on[w][t] \in Nat /\ Total(on[w]) \in Nat
          /\ Total(on'[w]) = Total(on[w]) + on'[w][t] - on[w][t]
      BY <1>4, Sums, Summands DEF Inv
    <3>2. on'[w][t] = on[w][t] + 1
      BY <1>7, <2>2 DEF on, One
    <3> QED
      BY <2>1, <3>1, <3>2 DEF WrcAt
  <2>5. wrc[w].state = "live"
    BY <2>1, <2>2 DEF WrcAt
  <2>6. CASE wrc[w].weak = 0
    <3>1. holders[w] = {t} /\ freers[w] = {} /\ raisers[w] = {} /\ newers[w] = {}
      BY <1>13, <2>1, <2>2, <2>6 DEF WrcAt, Unique
    <3>2. WrcAt(w)'
      BY <1>13, <1>14, <2>3, <2>4, <2>5, <2>6, <3>1 DEF WrcAt
    <3>3. w \notin ready /\ w \notin ready' /\ (w \in built' <=> w \in built)
      BY <1>14, <2>2, <2>3, <2>6 DEF ready, built
    <3>4. WrcElse(t, w)
      BY <1>7, <1>13, <1>14 DEF WrcElse
    <3> QED
      BY <1>4, <3>1, <3>2, <3>3, <3>4, WrcMoves DEF One
  <2>7. CASE wrc[w].weak > 0
    <3>1. on[w][t] > 0
      <4>1. wptrs[t][w] > 0
        BY <1>3, <1>5, <1>13, <2>7 DEF BackOf
      <4> QED
        BY <1>7, <4>1 DEF on, One
    <3>2. raisers[w] = {} /\ newers[w] = {} /\ freers[w] = {}
      BY <1>13, <2>1, <2>2, <2>7, <3>1, OneRaises DEF WrcAt
    <3>3. WrcAt(w)'
      BY <1>13, <1>14, <2>3, <2>4, <2>5, <2>7, <3>2 DEF WrcAt
    <3>4. w \in ready /\ w \in ready' /\ (w \in built' <=> w \in built)
      BY <1>13, <1>14, <2>3, <2>7, <3>2 DEF ready, built
    <3>5. WrcElse(t, w)
      BY <1>7, <1>13, <1>14 DEF WrcElse
    <3> QED
      BY <1>4, <2>7, <3>3, <3>4, <3>5, WrcMoves DEF One
  <2> QED
    BY <1>13, <2>6, <2>7
<1>9. Counts' /\ Memory'
  <2>0. Alive /\ Alive'
    <3>1. Alive
      BY <1>6 DEF Alive
    <3>2. CASE wrc[w].weak = 0
      BY <1>6, <1>13, <3>2 DEF Alive
    <3>3. CASE wrc[w].weak > 0
      <4>1. w \in ready
        <5>1. t \notin raisers[w] /\ wptrs[t][w] > 0
          BY <1>3, <1>5, <1>13, <3>3, WrcPend DEF BackOf, Inv, raisers
        <5>2. on[w][t] > 0
          BY <1>7, <5>1 DEF on, One
        <5> QED
          BY <3>3, <5>1, <5>2, OneRaises DEF ready
      <4>2. atomicWeak > 0
        BY <4>1, WeakFacts
      <4> QED
        BY <1>7, <4>2 DEF Alive
    <3> QED
      BY <1>13, <3>1, <3>2, <3>3
  <2>1. WrcInv' /\ readies' = readies /\ builts' = builts /\ readies \in Nat /\ builts \in Nat
    BY <1>8
  <2>2. acquired' + strong'[t] = acquired + strong[t]
    <3>1. strong' = strong /\ strong[t] \in Nat
      BY <1>6, <1>7, Frames, Parts DEF Inv
    <3> QED
      BY <1>7, <3>1
  <2>3. claims'[t] + acquired' + One(raw' # {}) - ops' <= claims[t] + acquired + One(raw # {}) - ops
    <3>1. claims' = claims
      BY <1>6, <1>7, Frames DEF claims
    <3>2. claims[t] \in Nat
      BY Parts DEF Inv
    <3>3. ops \in Int /\ ops' = ops
      BY <1>1 DEF Inv, TypeOK
    <3> QED
      BY <1>7, <3>1, <3>2, <3>3 DEF One
  <2>4. acquired' + weak'[t] + readies' = acquired + weak[t] + readies
    <3>1. weak' = weak /\ weak[t] \in Nat
      BY <1>6, <1>7, Frames, Parts DEF Inv
    <3> QED
      BY <1>7, <2>1, <3>1
  <2>20. Alive' <=> Alive
    BY <2>0
  <2>21. Unique(bases') /\ (bases' # {} => ~Alive')
    BY <1>6, <2>20 DEF Inv, Counts, RefInv
  <2>22. refs'[t] + builts' + One(Held') = refs[t] + builts + One(Held)
    <3>1. refs' = refs /\ Held' = Held /\ refs[t] \in Nat
      BY <1>6, <2>20 DEF refs, Held, One
    <3> QED
      BY <2>1, <3>1
  <2>23. owing \subseteq gains'
    BY <1>6 DEF Inv, Counts, OwingInv
  <2>24. LifeInv'
    BY <1>4, <1>6, <1>7, <2>20 DEF Same, Inv, Memory, LifeInv, Gone, WeakDeletes
  <2>25. CallbackInv'
    BY <1>6, <1>7, Frames
  <2>26. HookInv'
    BY <1>4, <1>6, <1>7, Frames DEF Same, hooks
  <2> QED
    BY <1>4, <1>6, <1>7, <2>1, <2>2, <2>3, <2>4, <2>21, <2>22, <2>23, <2>24, <2>25, <2>26, StillStep
<1>10. Locals'
  <2>0. Only(t) => Only(t)'
    BY <1>4, <1>7, OnlyStays DEF Only
  <2>1. Knows(t)
    BY <1>3 DEF Knows
  <2>2. TagOf(t)'
    BY <1>1, <1>3, <1>5, <1>7 DEF TagOf, Trying, WrapSets
  <2>3. BackOf(t)'
    BY <1>1, <1>3, <1>5, <1>7, <1>13, <1>14, <2>0 DEF BackOf, Adding, WrapSets
  <2>4. t \notin raw
    BY <1>3 DEF Inv, Locals, RawInv
  <2>5. \A u \in Threads : u # t /\ "WrcInc" \in pend[u] =>
               (wrc'[tgt[u]].weak > 0 <=> wrc[tgt[u]].weak > 0)
    <3>1. ASSUME NEW u \in Threads, u # t, "WrcInc" \in pend[u]
          PROVE  wrc'[tgt[u]].weak > 0 <=> wrc[tgt[u]].weak > 0
      <4>1. tgt[u] \in Wrcs
        BY DEF Inv, TypeOK
      <4>2. CASE tgt[u] = w
        <5>1. u \in holders[w]
          BY <3>1, <4>2 DEF holders
        <5> QED
          BY <1>8, <1>13, <1>14, <3>1, <4>2, <5>1
      <4> QED
        BY <1>14, <4>1, <4>2
    <3> QED
      BY <3>1
  <2> QED
    BY <1>4, <1>7, <2>1, <2>2, <2>3, <2>4, <2>5, LocalsStep
<1> QED
    BY <1>2, <1>4, <1>9, <1>10 DEF Inv, Goes

\* The constructor of wptr returns.
LEMMA GotWptrKeeps ==
    ASSUME RefBaseConstants, Inv, NEW t \in Threads, GotWptr(t)
    PROVE  Inv'
<1>1. /\ At(t, "GotWptr")
      /\ wptrs' = [wptrs EXCEPT ![t][tgt[t]] = @ + 1] /\ Call(t, <<>>)
      /\ UNCHANGED <<counts, memory, raw, sptrs, acquired, cur, tgt, op, hooks, ops>>
    BY DEF GotWptr
<1>2. Goes(t, "GotWptr", {}) /\ "GotWptr" \in Steps
  <2>1. "GotWptr" \in Steps
    BY DEF Steps
  <2> QED
    BY <1>1, <2>1, Goes0 DEF Inv
<1>3. PICK e \in {{}, {"DropOld"}} : pend[t] = {"GotWptr"} \union e /\ pend'[t] = {} \union e
    BY <1>2, UnderIs DEF Goes
<1>13. PICK w \in Wrcs : w = tgt[t]
    BY DEF Inv, TypeOK
<1>14. /\ wptrs' \in [Threads -> [Wrcs -> Nat]] /\ wptrs[t][w] \in Nat
       /\ wptrs'[t][w] = wptrs[t][w] + 1
       /\ \A x \in Wrcs : x # w => wptrs'[t][x] = wptrs[t][x]
       /\ \A u \in Threads : u # t => wptrs'[u] = wptrs[u]
    BY <1>1, <1>13 DEF Inv, TypeOK
<1>4. TypeOK' /\ Same(t)
  <2>1. wptrs' \in [Threads -> [Wrcs -> Nat]] /\ \A u \in Threads : u # t => wptrs'[u] = wptrs[u]
    BY <1>14
  <2> QED
    BY <1>1, <1>2, <2>1 DEF Inv, TypeOK, Goes, Same, counts, memory, hooks
<1>5. TagOf(t) /\ BackOf(t)
    BY DEF Inv, Locals, TagInv, BackInv
<1>6. UNCHANGED <<gains, drops, tries, wgains, wdrops, owing, lasts, bases, refdrops, freeing,
                     comings, onfirst, onlast, dying, stripped>>
    BY <1>1, <1>3, <1>4, ThreadSets DEF Moved, drops, gains, tries, wgains, wdrops, owing,
       lasts, bases, refdrops, freeing, comings, onfirst, onlast, dying, stripped, Adding, Trying,
       Destroyed
<1>7. /\ UNCHANGED <<raw, atomicStrong, atomicWeak, atomicRefCount, callback, object,
                     counter, acquired, sptrs, wrc, extended, firstCalls, lastCalls>>
      /\ tgt'[t] = tgt[t] /\ op'[t] = op[t] /\ acquired \in Nat
      /\ wptrs'[t][w] = wptrs[t][w] + 1 /\ wptrs[t][w] \in Nat
      /\ \A x \in Wrcs : x # w => wptrs'[t][x] = wptrs[t][x]
    BY <1>1, <1>14 DEF counts, memory, hooks, Inv, TypeOK
<1>8. WrcInv' /\ readies' = readies /\ builts' = builts
  <2>1. /\ t \notin newers[w] /\ t \notin newers'[w] /\ t \notin holders[w] /\ t \notin holders'[w]
        /\ t \notin raisers[w] /\ t \notin raisers'[w] /\ t \notin freers[w] /\ t \notin freers'[w]
        /\ t \in users[w] /\ t \notin users'[w]
    BY <1>3, <1>7, <1>13 DEF newers, holders, raisers, freers, users
  <2>2. /\ newers'[w] = newers[w] /\ holders'[w] = holders[w] /\ raisers'[w] = raisers[w]
        /\ freers'[w] = freers[w]
    BY <1>4, <2>1, ThreadSets DEF Moved
  <2>3. on'[w][t] = on[w][t]
    BY <1>7, <2>1 DEF on, One
  <2>4. WrcAt(w)' /\ (w \in ready' <=> w \in ready) /\ (w \in built' <=> w \in built)
    BY <1>4, <1>7, <2>2, <2>3, WrcKept
  <2>5. WrcElse(t, w)
    BY <1>3, <1>7, <1>13 DEF WrcElse, WrcIdle
  <2> QED
    BY <1>4, <2>4, <2>5, WrcMoves DEF One
<1>9. Counts' /\ Memory'
  <2>1. WrcInv' /\ readies' = readies /\ builts' = builts
    BY <1>8
  <2>2. strong' = strong /\ weak' = weak
    BY <1>6, <1>7, Frames
  <2>3. claims' = claims
    BY <1>6, <2>2 DEF claims
  <2>4. claims'[t] + One(raw' # {}) - ops' <= claims[t] + One(raw # {}) - ops
    <3>1. claims[t] \in Nat
      BY Parts DEF Inv
    <3>2. ops \in Int /\ ops' = ops
      BY <1>1 DEF Inv, TypeOK
    <3> QED
      BY <1>7, <2>3, <3>1, <3>2 DEF One
  <2>5. Alive' <=> Alive
    BY <1>6, <1>7, Frames
  <2>6. owing \subseteq gains'
    BY <1>6 DEF Inv, Counts, OwingInv
  <2>7. CallbackInv'
    BY <1>6, <1>7, Frames
  <2>8. HookInv'
    BY <1>4, <1>6, <1>7, Frames DEF Same, hooks
  <2> QED
    BY <1>4, <1>6, <1>7, <2>1, <2>2, <2>4, <2>5, <2>6, <2>7, <2>8, QuietStep
<1>10. Locals'
  <2>1. Knows(t)
    BY <1>3 DEF Knows
  <2>2. TagOf(t)'
    BY <1>1, <1>3, <1>5, <1>7 DEF TagOf, Trying
  <2>3. BackOf(t)'
    BY <1>1, <1>3, <1>5, <1>7 DEF BackOf, Adding
  <2>4. t \notin raw
    BY <1>3 DEF Inv, Locals, RawInv
  <2> QED
    BY <1>4, <1>7, <2>1, <2>2, <2>3, <2>4, LocalsStep
<1> QED
    BY <1>2, <1>4, <1>9, <1>10 DEF Inv, Goes

\* operator= of wptr gives up what the wptr referred to.
LEMMA DropOldKeeps ==
    ASSUME RefBaseConstants, Inv, NEW t \in Threads, DropOld(t)
    PROVE  Inv'
<1>1. /\ At(t, "DropOld")
      /\ Call(t, <<"WrcDec">>)
      /\ UNCHANGED <<counts, memory, raw, sptrs, acquired, cur, op, hooks, ops>>
    BY DEF DropOld
<1>2. Goes(t, "DropOld", {"WrcDec"}) /\ "DropOld" \in Steps
  <2>1. "DropOld" \in Steps /\ "WrcDec" \in Steps
    BY DEF Steps
  <2>4. Below("DropOld") \subseteq Below("WrcDec")
    BY BelowIs DEF Last, Ends, Weaks, Freed
  <2> QED
    BY <1>1, <2>1, <2>4, Goes1 DEF Inv
<1>3. pend[t] = {"DropOld"} /\ pend'[t] = {"WrcDec"}
  <2>1. Under("DropOld") = {{}}
    BY UnderIs DEF Last
  <2> QED
    BY <1>2, <2>1 DEF Goes
<1>13. PICK w \in Wrcs : /\ wptrs[t][w] > 0
                        /\ wptrs' = [wptrs EXCEPT ![t][w] = @ - 1]
                        /\ tgt' = [tgt EXCEPT ![t] = w]
    BY DEF DropOld
<1>14. /\ wptrs' \in [Threads -> [Wrcs -> Nat]] /\ wptrs[t][w] \in Nat
       /\ wptrs'[t][w] = wptrs[t][w] - 1
       /\ \A x \in Wrcs : x # w => wptrs'[t][x] = wptrs[t][x]
       /\ \A u \in Threads : u # t => wptrs'[u] = wptrs[u] /\ tgt'[u] = tgt[u]
       /\ tgt' \in [Threads -> Wrcs] /\ tgt'[t] = w
    BY <1>13 DEF Inv, TypeOK
<1>4. TypeOK' /\ Same(t)
  <2>1. /\ wptrs' \in [Threads -> [Wrcs -> Nat]] /\ tgt' \in [Threads -> Wrcs]
        /\ \A u \in Threads : u # t => wptrs'[u] = wptrs[u] /\ tgt'[u] = tgt[u]
    BY <1>14
  <2> QED
    BY <1>1, <1>2, <2>1 DEF Inv, TypeOK, Goes, Same, counts, memory, hooks
<1>5. TagOf(t) /\ BackOf(t)
    BY DEF Inv, Locals, TagInv, BackInv
<1>6. UNCHANGED <<gains, drops, tries, wgains, wdrops, owing, lasts, bases, refdrops, freeing,
                     comings, onfirst, onlast, dying, stripped>>
    BY <1>1, <1>3, <1>4, ThreadSets DEF Moved, drops, gains, tries, wgains, wdrops, owing,
       lasts, bases, refdrops, freeing, comings, onfirst, onlast, dying, stripped, Adding, Trying,
       Destroyed
<1>7. /\ UNCHANGED <<raw, atomicStrong, atomicWeak, atomicRefCount, callback, object,
                     counter, acquired, sptrs, wrc, extended, firstCalls, lastCalls>>
      /\ tgt'[t] = w /\ op'[t] = op[t] /\ acquired \in Nat
      /\ wptrs'[t][w] = wptrs[t][w] - 1 /\ wptrs[t][w] \in Nat /\ wptrs[t][w] > 0
      /\ \A x \in Wrcs : x # w => wptrs'[t][x] = wptrs[t][x]
    BY <1>1, <1>13, <1>14 DEF counts, memory, hooks, Inv, TypeOK
<1>8. WrcInv' /\ readies' = readies /\ builts' = builts
  <2>1. /\ t \notin newers[w] /\ t \notin newers'[w] /\ t \notin holders[w] /\ t \notin holders'[w]
        /\ t \notin raisers[w] /\ t \notin raisers'[w] /\ t \notin freers[w] /\ t \notin freers'[w]
        /\ t \notin users[w] /\ t \in users'[w]
    BY <1>3, <1>7, <1>13 DEF newers, holders, raisers, freers, users
  <2>2. /\ newers'[w] = newers[w] /\ holders'[w] = holders[w] /\ raisers'[w] = raisers[w]
        /\ freers'[w] = freers[w]
    BY <1>4, <2>1, ThreadSets DEF Moved
  <2>3. on'[w][t] = on[w][t]
    BY <1>7, <2>1 DEF on, One
  <2>4. WrcAt(w)' /\ (w \in ready' <=> w \in ready) /\ (w \in built' <=> w \in built)
    BY <1>4, <1>7, <2>2, <2>3, WrcKept
  <2>5. WrcElse(t, w)
    BY <1>3, <1>7, <1>13 DEF WrcElse, WrcIdle
  <2> QED
    BY <1>4, <2>4, <2>5, WrcMoves DEF One
<1>9. Counts' /\ Memory'
  <2>1. WrcInv' /\ readies' = readies /\ builts' = builts
    BY <1>8
  <2>2. strong' = strong /\ weak' = weak
    BY <1>6, <1>7, Frames
  <2>3. claims' = claims
    BY <1>6, <2>2 DEF claims
  <2>4. claims'[t] + One(raw' # {}) - ops' <= claims[t] + One(raw # {}) - ops
    <3>1. claims[t] \in Nat
      BY Parts DEF Inv
    <3>2. ops \in Int /\ ops' = ops
      BY <1>1 DEF Inv, TypeOK
    <3> QED
      BY <1>7, <2>3, <3>1, <3>2 DEF One
  <2>5. Alive' <=> Alive
    BY <1>6, <1>7, Frames
  <2>6. owing \subseteq gains'
    BY <1>6 DEF Inv, Counts, OwingInv
  <2>7. CallbackInv'
    BY <1>6, <1>7, Frames
  <2>8. HookInv'
    BY <1>4, <1>6, <1>7, Frames DEF Same, hooks
  <2> QED
    BY <1>4, <1>6, <1>7, <2>1, <2>2, <2>4, <2>5, <2>6, <2>7, <2>8, QuietStep
<1>10. Locals'
  <2>1. Knows(t)
    BY <1>3 DEF Knows
  <2>2. TagOf(t)'
    BY <1>1, <1>3, <1>5, <1>7 DEF TagOf, Trying
  <2>3. BackOf(t)'
    BY <1>1, <1>3, <1>5, <1>7 DEF BackOf, Adding
  <2>4. t \notin raw
    BY <1>3 DEF Inv, Locals, RawInv
  <2> QED
    BY <1>4, <1>7, <2>1, <2>2, <2>3, <2>4, LocalsStep
<1> QED
    BY <1>2, <1>4, <1>9, <1>10 DEF Inv, Goes

\* WeakRefCounter::DecWeakRefCount.
LEMMA WrcDecKeeps ==
    ASSUME RefBaseConstants, Inv, NEW t \in Threads, WrcDec(t)
    PROVE  Inv'
<1>1. /\ At(t, "WrcDec")
      /\ wrc' = [wrc EXCEPT ![tgt[t]].weak = @ - 1]
      /\ Call(t, IF wrc[tgt[t]].weak = 1 THEN <<"DecWeakLoad", "FreeWrc">> ELSE <<>>)
      /\ UNCHANGED <<counts, callback, object, counter, owners, cur, tgt, op, hooks, ops>>
    BY DEF WrcDec
<1>2. Goes(t, "WrcDec", (IF wrc[tgt[t]].weak = 1 THEN {"DecWeakLoad", "FreeWrc"} ELSE {}))
      /\ "WrcDec" \in Steps
  <2>1. "WrcDec" \in Steps /\ "DecWeakLoad" \in Steps /\ "FreeWrc" \in Steps
    BY DEF Steps
  <2>2. \A r \in Below("WrcDec") : r = <<>>
    BY BelowIs DEF Last
  <2>3. <<"FreeWrc">> \o <<>> = <<"FreeWrc">>
    BY <2>1, Tuples
  <2>4. /\ Below("WrcDec") \subseteq Below("FreeWrc")
        /\ \A r \in Below("WrcDec") : <<"FreeWrc">> \o r \in Below("DecWeakLoad")
    BY <2>2, <2>3, BelowIs DEF Last, Ends, Weaks, Freed
  <2>5. CASE wrc[tgt[t]].weak = 1
    BY <1>1, <2>1, <2>4, <2>5, Goes2 DEF Inv
  <2>6. CASE ~(wrc[tgt[t]].weak = 1)
    BY <1>1, <2>1, <2>4, <2>6, Goes0 DEF Inv
  <2> QED
    BY <2>5, <2>6
<1>3. pend[t] = {"WrcDec"}
      /\ pend'[t] = (IF wrc[tgt[t]].weak = 1 THEN {"DecWeakLoad", "FreeWrc"} ELSE {})
  <2>1. Under("WrcDec") = {{}}
    BY UnderIs DEF Last
  <2> QED
    BY <1>2, <2>1 DEF Goes
<1>13. PICK w \in Wrcs : w = tgt[t] /\ wrc[w].weak \in Nat
            /\ wrc[w].state \in {"unused", "live", "deleted"}
    BY DEF Inv, TypeOK
<1>15. /\ wrc[w].weak > 0 /\ wrc[w].state = "live" /\ on[w][t] > 0 /\ on[w][t] \in Nat
       /\ t \in users[w] /\ wrc[w].weak - 1 \in Nat
  <2>1. t \in users[w] /\ wptrs[t][w] \in Nat
    BY <1>3, <1>13 DEF users, Inv, TypeOK
  <2>2. on[w][t] > 0 /\ on[w][t] \in Nat
    BY <2>1 DEF on, One
  <2>3. wrc[w].weak > 0 /\ wrc[w].state = "live"
    BY <2>2, WeakFacts
  <2> QED
    BY <1>13, <2>1, <2>2, <2>3
<1>14. /\ wrc' \in [Wrcs -> [state : {"unused", "live", "deleted"}, weak : Nat]]
       /\ wrc'[w].weak = wrc[w].weak - 1 /\ wrc'[w].state = wrc[w].state
       /\ \A x \in Wrcs : x # w => wrc'[x] = wrc[x]
  <2>1. wrc \in [Wrcs -> [state : {"unused", "live", "deleted"}, weak : Nat]]
    BY DEF Inv, TypeOK
  <2>2. PICK n \in Nat : n = wrc[w].weak - 1
    BY <1>15
  <2>3. wrc' = [wrc EXCEPT ![w].weak = n]
    BY <1>1, <1>13, <2>1, <2>2
  <2>4. wrc[w].state \in {"unused", "live", "deleted"}
    BY <1>13
  <2> QED
    BY <2>1, <2>2, <2>3, <2>4, WrcUpdate
<1>4. TypeOK' /\ Same(t)
  <2>1. wrc' \in [Wrcs -> [state : {"unused", "live", "deleted"}, weak : Nat]]
    BY <1>14
  <2> QED
    BY <1>1, <1>2, <2>1 DEF Inv, TypeOK, Goes, Same, counts, owners, hooks
<1>5. TagOf(t) /\ BackOf(t)
    BY DEF Inv, Locals, TagInv, BackInv
<1>6. /\ UNCHANGED <<gains, drops, tries, wgains, owing, lasts, bases, refdrops, freeing,
                     comings, onfirst, onlast, dying, stripped>>
      /\ t \notin wdrops /\ (t \in wdrops' <=> wrc[tgt[t]].weak = 1)
  <2>1. UNCHANGED <<gains, drops, tries, wgains, owing>>
    BY <1>1, <1>3, <1>4, ThreadSets DEF Moved, drops, gains, tries, wgains, owing, Adding, Trying,
       Destroyed
  <2>2. UNCHANGED <<lasts, bases, refdrops, freeing, comings>>
    BY <1>1, <1>3, <1>4, ThreadSets DEF Moved, lasts, bases, refdrops, freeing, comings
  <2>3. UNCHANGED <<onfirst, onlast, dying, stripped>>
    BY <1>1, <1>3, <1>4, ThreadSets DEF Moved, onfirst, onlast, dying, stripped
  <2>4. t \notin wdrops /\ (t \in wdrops' <=> wrc[tgt[t]].weak = 1)
    BY <1>3 DEF wdrops
  <2> QED
    BY <2>1, <2>2, <2>3, <2>4
<1>7. /\ UNCHANGED <<raw, atomicStrong, atomicWeak, atomicRefCount, callback, object,
                     counter, acquired, sptrs, wptrs, extended, firstCalls, lastCalls>>
      /\ acquired \in Nat /\ atomicStrong \in Nat /\ sptrs[t] \in Nat
      /\ tgt'[t] = tgt[t] /\ op'[t] = op[t] /\ tgt[t] \in Wrcs /\ wptrs[t][w] \in Nat
    BY <1>1, <1>13 DEF counts, owners, hooks, Inv, TypeOK
<1>8. /\ WrcInv' /\ readies' = readies - One(wrc[w].weak = 1) /\ builts' = builts
      /\ readies \in Nat /\ readies' \in Nat /\ builts \in Nat /\ w \in ready
      /\ wrc[w].weak = 1 => holders[w] = {}
  <2>1. WrcAt(w)
    BY DEF Inv, Counts, WrcInv
  <2>2. /\ t \notin newers[w] /\ t \notin newers'[w] /\ t \notin holders[w] /\ t \notin holders'[w]
        /\ t \notin raisers[w] /\ t \notin raisers'[w]
        /\ t \notin freers[w] /\ (t \in freers'[w] <=> wrc[w].weak = 1)
        /\ t \in users[w] /\ t \notin users'[w]
    BY <1>3, <1>7, <1>13 DEF newers, holders, raisers, freers, users
  <2>3. /\ newers'[w] = newers[w] /\ holders'[w] = holders[w] /\ raisers'[w] = raisers[w]
        /\ freers'[w] = (IF wrc[w].weak = 1 THEN freers[w] \union {t} ELSE freers[w])
    <3>1. /\ Moved(newers'[w], newers[w], t) /\ Moved(holders'[w], holders[w], t)
          /\ Moved(freers'[w], freers[w], t) /\ Moved(raisers'[w], raisers[w], t)
      BY <1>4, ThreadSets
    <3> QED
      BY <2>2, <3>1 DEF Moved
  <2>4. Total(on'[w]) = wrc[w].weak - 1
    <3>1. on[w][t] \in Nat /\ Total(on[w]) \in Nat
          /\ Total(on'[w]) = Total(on[w]) + on'[w][t] - on[w][t]
      BY <1>4, Sums, Summands DEF Inv
    <3>2. on'[w][t] = on[w][t] - 1
      BY <1>7, <2>2 DEF on, One
    <3> QED
      BY <1>13, <2>1, <3>1, <3>2 DEF WrcAt
  <2>5. raisers[w] = {} /\ newers[w] = {} /\ freers[w] = {}
    BY <1>15, <2>1, <2>2, OneRaises DEF WrcAt
  <2>6. wrc[w].weak = 1 => holders[w] = {}
    <3>1. ASSUME NEW u \in holders[w]
          PROVE  wrc[w].weak > 1
      <4>1. u \in Threads /\ u # t /\ tgt[u] = w /\ "WrcInc" \in pend[u] /\ BackOf(u)
        BY <2>2 DEF holders, Inv, Locals, BackInv
      <4>2. wptrs[u][w] > 0 /\ wptrs[u][w] \in Nat
        BY <1>15, <4>1 DEF BackOf, Inv, TypeOK
      <4>3. on[w][u] > 0
        BY <4>1, <4>2 DEF on, One
      <4> QED
        BY <1>15, <4>1, <4>3, WeakFacts
    <3> QED
      BY <3>1
  <2>7. WrcAt(w)'
    <3>1. CASE wrc[w].weak = 1
      <4>1. holders'[w] = {} /\ freers'[w] = {t} /\ newers'[w] = {} /\ raisers'[w] = {}
        BY <2>3, <2>5, <2>6, <3>1
      <4> QED
        BY <1>14, <1>15, <2>4, <3>1, <4>1 DEF WrcAt, Unique
    <3>2. CASE wrc[w].weak # 1
      <4>1. wrc'[w].weak > 0 /\ freers'[w] = {} /\ newers'[w] = {} /\ raisers'[w] = {}
        BY <1>13, <1>14, <1>15, <2>3, <2>5, <3>2
      <4> QED
        BY <1>14, <1>15, <2>4, <4>1 DEF WrcAt
    <3> QED
      BY <3>1, <3>2
  <2>8. WrcElse(t, w)
    BY <1>7, <1>13, <1>14 DEF WrcElse
  <2>9. w \in ready /\ (w \in ready' <=> wrc[w].weak # 1) /\ (w \in built' <=> w \in built)
    BY <1>13, <1>14, <1>15, <2>3, <2>5 DEF ready, built
  <2> QED
    BY <1>4, <2>6, <2>7, <2>8, <2>9, WrcMoves DEF One
<1>9. Counts' /\ Memory'
  <2>1. WrcInv' /\ readies' \in Nat /\ builts' = builts /\ builts \in Nat
    BY <1>8
  <2>2. acquired' + strong'[t] = acquired + strong[t]
    <3>1. strong' = strong /\ strong[t] \in Nat
      BY <1>6, <1>7, Frames, Parts DEF Inv
    <3> QED
      BY <1>7, <3>1
  <2>3. claims'[t] + acquired' + One(raw' # {}) - ops' <= claims[t] + acquired + One(raw # {}) - ops
    <3>1. claims' = claims
      BY <1>6, <1>7, Frames DEF claims
    <3>3. ops \in Int
      BY DEF Inv, TypeOK
    <3>2. claims[t] \in Nat /\ ops \in Int /\ ops' = ops
      BY <1>1, <3>3, Parts DEF Inv
    <3> QED
      BY <1>7, <3>1, <3>2 DEF One
  <2>4. acquired' + weak'[t] + readies' = acquired + weak[t] + readies
    BY <1>6, <1>7, <1>8, <1>13 DEF weak, One
  <2>20. Alive' <=> Alive
    BY <1>6, <1>7, Frames
  <2>21. Unique(bases') /\ (bases' # {} => ~Alive')
    BY <1>6, <2>20 DEF Inv, Counts, RefInv
  <2>22. refs'[t] + builts' + One(Held') = refs[t] + builts + One(Held)
    <3>1. refs' = refs /\ Held' = Held /\ refs[t] \in Nat
      BY <1>6, <2>20 DEF refs, Held, One
    <3> QED
      BY <2>1, <3>1
  <2>23. owing \subseteq gains'
    BY <1>6 DEF Inv, Counts, OwingInv
  <2>24. LifeInv'
    BY <1>4, <1>6, <1>7, <2>20 DEF Same, Inv, Memory, LifeInv, Gone, WeakDeletes
  <2>25. CallbackInv'
    BY <1>6, <1>7, Frames
  <2>26. HookInv'
    BY <1>4, <1>6, <1>7, Frames DEF Same, hooks
  <2> QED
    BY <1>4, <1>6, <1>7, <2>1, <2>2, <2>3, <2>4, <2>21, <2>22, <2>23, <2>24, <2>25, <2>26, StillStep
<1>10. Locals'
  <2>1. Knows(t)
    BY <1>3 DEF Knows
  <2>2. TagOf(t)'
    BY <1>1, <1>3, <1>5, <1>7 DEF TagOf, Trying
  <2>3. BackOf(t)'
    BY <1>1, <1>3, <1>5, <1>7, <1>13 DEF BackOf, Adding
  <2>4. t \notin raw
    BY <1>3 DEF Inv, Locals, RawInv
  <2>5. \A u \in Threads : u # t /\ "WrcInc" \in pend[u] =>
               (wrc'[tgt[u]].weak > 0 <=> wrc[tgt[u]].weak > 0)
    <3>1. ASSUME NEW u \in Threads, u # t, "WrcInc" \in pend[u]
          PROVE  wrc'[tgt[u]].weak > 0 <=> wrc[tgt[u]].weak > 0
      <4>1. tgt[u] \in Wrcs
        BY DEF Inv, TypeOK
      <4>2. CASE tgt[u] = w
        <5>1. u \in holders[w]
          BY <3>1, <4>2 DEF holders
        <5> QED
          BY <1>8, <1>13, <1>14, <1>15, <3>1, <4>2, <5>1
      <4> QED
        BY <1>14, <4>1, <4>2
    <3> QED
      BY <3>1
  <2> QED
    BY <1>4, <1>7, <2>1, <2>2, <2>3, <2>4, <2>5, LocalsStep
<1> QED
    BY <1>2, <1>4, <1>9, <1>10 DEF Inv, Goes

\* The destructor of WeakRefCounter.
LEMMA FreeWrcKeeps ==
    ASSUME RefBaseConstants, Inv, NEW t \in Threads, FreeWrc(t)
    PROVE  Inv'
<1>1. /\ At(t, "FreeWrc")
      /\ wrc' = [wrc EXCEPT ![tgt[t]].state = "deleted"]
      /\ Call(t, <<"DecRefLoad">>)
      /\ UNCHANGED <<counts, callback, object, counter, owners, cur, tgt, op, hooks, ops>>
    BY DEF FreeWrc
<1>2. Goes(t, "FreeWrc", {"DecRefLoad"}) /\ "FreeWrc" \in Steps
  <2>1. "FreeWrc" \in Steps /\ "DecRefLoad" \in Steps
    BY DEF Steps
  <2>4. Below("FreeWrc") \subseteq Below("DecRefLoad")
    BY BelowIs DEF Last, Ends, Weaks, Freed
  <2> QED
    BY <1>1, <2>1, <2>4, Goes1 DEF Inv
<1>3. pend[t] = {"FreeWrc"} /\ pend'[t] = {"DecRefLoad"}
  <2>1. Under("FreeWrc") = {{}}
    BY UnderIs DEF Last
  <2> QED
    BY <1>2, <2>1 DEF Goes
<1>13. PICK w \in Wrcs : w = tgt[t] /\ wrc[w].weak \in Nat
            /\ wrc[w].state \in {"unused", "live", "deleted"}
    BY DEF Inv, TypeOK
<1>14. /\ wrc' \in [Wrcs -> [state : {"unused", "live", "deleted"}, weak : Nat]]
       /\ wrc'[w].weak = wrc[w].weak /\ wrc'[w].state = "deleted"
       /\ \A x \in Wrcs : x # w => wrc'[x] = wrc[x]
    BY <1>1, <1>13, WrcUpdate DEF Inv, TypeOK
<1>4. TypeOK' /\ Same(t)
  <2>1. wrc' \in [Wrcs -> [state : {"unused", "live", "deleted"}, weak : Nat]]
    BY <1>14
  <2> QED
    BY <1>1, <1>2, <2>1 DEF Inv, TypeOK, Goes, Same, counts, owners, hooks
<1>5. TagOf(t) /\ BackOf(t)
    BY DEF Inv, Locals, TagInv, BackInv
<1>6. /\ UNCHANGED <<gains, drops, tries, wgains, wdrops, owing, lasts, bases, freeing,
                     comings, onfirst, onlast, dying, stripped>>
      /\ t \notin refdrops /\ t \in refdrops'
    BY <1>1, <1>3, <1>4, ThreadSets DEF Moved, drops, gains, tries, wgains, wdrops, owing,
       lasts, bases, refdrops, freeing, comings, onfirst, onlast, dying, stripped, Adding, Trying,
       Destroyed
<1>7. /\ UNCHANGED <<raw, atomicStrong, atomicWeak, atomicRefCount, callback, object,
                     counter, acquired, sptrs, wptrs, extended, firstCalls, lastCalls>>
      /\ acquired \in Nat /\ atomicStrong \in Nat /\ sptrs[t] \in Nat
      /\ tgt'[t] = tgt[t] /\ op'[t] = op[t] /\ tgt[t] \in Wrcs /\ wptrs[t][w] \in Nat
    BY <1>1, <1>13 DEF counts, owners, hooks, Inv, TypeOK
<1>8. /\ WrcInv' /\ readies' = readies /\ builts' = builts - 1 /\ builts \in Nat /\ builts' \in Nat
      /\ readies \in Nat
  <2>1. WrcAt(w) /\ newers[w] \subseteq holders[w]
    BY NewersHold DEF Inv, Counts, WrcInv
  <2>2. /\ t \notin newers[w] /\ t \notin newers'[w] /\ t \notin holders[w] /\ t \notin holders'[w]
        /\ t \notin raisers[w] /\ t \notin raisers'[w]
        /\ t \in freers[w] /\ t \notin freers'[w]
        /\ t \notin users[w] /\ t \notin users'[w]
    BY <1>3, <1>7, <1>13 DEF newers, holders, raisers, freers, users
  <2>3. /\ newers'[w] = newers[w] /\ holders'[w] = holders[w] /\ raisers'[w] = raisers[w]
        /\ freers'[w] = freers[w] \ {t}
    <3>1. /\ Moved(newers'[w], newers[w], t) /\ Moved(holders'[w], holders[w], t)
          /\ Moved(freers'[w], freers[w], t) /\ Moved(raisers'[w], raisers[w], t)
      BY <1>4, ThreadSets
    <3> QED
      BY <2>2, <3>1 DEF Moved
  <2>4. Total(on'[w]) = wrc[w].weak
    <3>1. on[w][t] \in Nat /\ Total(on[w]) \in Nat
          /\ Total(on'[w]) = Total(on[w]) + on'[w][t] - on[w][t]
      BY <1>4, Sums, Summands DEF Inv
    <3>2. on'[w][t] = on[w][t]
      BY <1>7, <2>2 DEF on, One
    <3> QED
      BY <1>13, <2>1, <3>1, <3>2 DEF WrcAt
  <2>5. wrc[w].weak = 0 /\ wrc[w].state = "live"
    BY <2>1, <2>2 DEF WrcAt
  <2>6. holders[w] = {} /\ freers[w] = {t} /\ newers[w] = {} /\ raisers[w] = {}
    BY <2>1, <2>2, <2>5 DEF WrcAt, Unique
  <2>7. WrcAt(w)'
    BY <1>14, <2>3, <2>4, <2>5, <2>6 DEF WrcAt, Unique
  <2>8. WrcElse(t, w)
    BY <1>7, <1>13, <1>14 DEF WrcElse
  <2>9. w \notin ready /\ w \notin ready' /\ w \in built /\ w \notin built'
    BY <1>14, <2>5, <2>6 DEF ready, built
  <2> QED
    BY <1>4, <2>7, <2>8, <2>9, WrcMoves DEF One
<1>9. Counts' /\ Memory'
  <2>1. WrcInv' /\ readies' = readies /\ readies \in Nat /\ builts' \in Nat /\ builts \in Nat
    BY <1>8
  <2>2. acquired' + strong'[t] = acquired + strong[t]
    <3>1. strong' = strong /\ strong[t] \in Nat
      BY <1>6, <1>7, Frames, Parts DEF Inv
    <3> QED
      BY <1>7, <3>1
  <2>3. claims'[t] + acquired' + One(raw' # {}) - ops' <= claims[t] + acquired + One(raw # {}) - ops
    <3>1. claims' = claims
      BY <1>6, <1>7, Frames DEF claims
    <3>2. claims[t] \in Nat
      BY Parts DEF Inv
    <3>3. ops \in Int /\ ops' = ops
      BY <1>1 DEF Inv, TypeOK
    <3> QED
      BY <1>7, <3>1, <3>2, <3>3 DEF One
  <2>4. acquired' + weak'[t] + readies' = acquired + weak[t] + readies
    <3>1. weak' = weak /\ weak[t] \in Nat
      BY <1>6, <1>7, Frames, Parts DEF Inv
    <3> QED
      BY <1>7, <2>1, <3>1
  <2>20. Alive' <=> Alive
    BY <1>6, <1>7, Frames
  <2>21. Unique(bases') /\ (bases' # {} => ~Alive')
    BY <1>6, <2>20 DEF Inv, Counts, RefInv
  <2>22. refs'[t] + builts' + One(Held') = refs[t] + builts + One(Held)
    <3>1. refs[t] = 0 /\ refs'[t] = 1 /\ One(Held') = One(Held) /\ One(Held) \in Nat
      BY <1>6, <2>20 DEF refs, Held, One
    <3> QED
      BY <1>8, <3>1
  <2>23. owing \subseteq gains'
    BY <1>6 DEF Inv, Counts, OwingInv
  <2>24. LifeInv'
    BY <1>4, <1>6, <1>7, <2>20 DEF Same, Inv, Memory, LifeInv, Gone, WeakDeletes
  <2>25. CallbackInv'
    BY <1>6, <1>7, Frames
  <2>26. HookInv'
    BY <1>4, <1>6, <1>7, Frames DEF Same, hooks
  <2> QED
    BY <1>4, <1>6, <1>7, <2>1, <2>2, <2>3, <2>4, <2>21, <2>22, <2>23, <2>24, <2>25, <2>26, StillStep
<1>10. Locals'
  <2>1. Knows(t)
    BY <1>3 DEF Knows
  <2>2. TagOf(t)'
    BY <1>1, <1>3, <1>5, <1>7 DEF TagOf, Trying
  <2>3. BackOf(t)'
    BY <1>1, <1>3, <1>5, <1>7 DEF BackOf, Adding
  <2>4. t \notin raw
    BY <1>3 DEF Inv, Locals, RawInv
  <2>5. \A u \in Threads : u # t /\ "WrcInc" \in pend[u] =>
               (wrc'[tgt[u]].weak > 0 <=> wrc[tgt[u]].weak > 0)
    BY <1>13, <1>14 DEF Inv, TypeOK
  <2> QED
    BY <1>4, <1>7, <2>1, <2>2, <2>3, <2>4, <2>5, LocalsStep
<1> QED
    BY <1>2, <1>4, <1>9, <1>10 DEF Inv, Goes

-----------------------------------------------------------------------------
(* The operations a thread may start.                                      *)

\* Thread t, idle so far, has the steps B ahead of it.
Starts(t, B) == /\ Stacked' /\ pend[t] = {} /\ pend'[t] = B
                /\ \A u \in Threads : u # t => pend'[u] = pend[u]

\* An operation that begins with a well-formed body gives an idle thread its
\* steps.
LEMMA StartsBy ==
    ASSUME Stacked, NEW t \in Threads, NEW body, Begin(t, body),
           body \in Seq(Steps), WellFormed(body)
    PROVE  Starts(t, Items(body))
<1>1. todo[t] = <<>> /\ todo' = [todo EXCEPT ![t] = body]
    BY DEF Begin
<1>2. Stacked' /\ pend' = [pend EXCEPT ![t] = Items(body)]
    BY <1>1, NewStack
<1>3. pend[t] = {}
    BY <1>1, EmptyStack DEF pend
<1>4. pend'[t] = Items(body) /\ \A u \in Threads : u # t => pend'[u] = pend[u]
    BY <1>2 DEF pend
<1> QED
    BY <1>2, <1>3, <1>4 DEF Starts

\* sptr(const sptr&).
LEMMA CopyBody ==
    /\ (IncStrongRef \o <<"GotSptr">>) \in Seq(Steps)
    /\ WellFormed((IncStrongRef \o <<"GotSptr">>))
    /\ Items((IncStrongRef \o <<"GotSptr">>)) = {"IncWeak", "IncStrongLoad", "GotSptr"}
<1>1. "IncWeak" \in Steps /\ "IncStrongLoad" \in Steps /\ "GotSptr" \in Steps
    BY DEF Steps
<1>2. <<"GotSptr">> \in Seq(Steps) /\ Items(<<"GotSptr">>) = {"GotSptr"}
    BY <1>1, Tuples
<1>3. <<"GotSptr">> \in Below("IncStrongLoad")
    BY BelowIs DEF Gots
<1>4. /\ <<"IncStrongLoad">> \o <<"GotSptr">> \in Seq(Steps)
      /\ WellFormed(<<"IncStrongLoad">> \o <<"GotSptr">>)
      /\ Items(<<"IncStrongLoad">> \o <<"GotSptr">>) = {"IncStrongLoad", "GotSptr"}
  <2> DEFINE r == <<"GotSptr">>
  <2>1. r \in Seq(Steps) /\ Items(r) = {"GotSptr"} /\ r \in Below("IncStrongLoad")
    BY <1>2, <1>3
  <2> HIDE DEF r
  <2>2. <<"IncStrongLoad">> \o r \in Seq(Steps) /\ WellFormed(<<"IncStrongLoad">> \o r)
        /\ Items(<<"IncStrongLoad">> \o r) = {"IncStrongLoad"} \union Items(r)
    BY <1>1, <2>1, Over
  <2> QED
    BY <2>1, <2>2 DEF r
<1>5. <<"IncStrongLoad">> \o <<"GotSptr">> \in Below("IncWeak")
  <2>1. <<"GotSptr">> \in Gots
    BY DEF Gots
  <2>2. \A r \in Gots : <<"IncStrongLoad">> \o r \in Below("IncWeak")
    BY DEF Below
  <2> QED
    BY <2>1, <2>2
<1>6. /\ <<"IncWeak">> \o (<<"IncStrongLoad">> \o <<"GotSptr">>) \in Seq(Steps)
      /\ WellFormed(<<"IncWeak">> \o (<<"IncStrongLoad">> \o <<"GotSptr">>))
      /\ Items(<<"IncWeak">> \o (<<"IncStrongLoad">> \o <<"GotSptr">>)) = {"IncWeak",
            "IncStrongLoad", "GotSptr"}
  <2> DEFINE r == <<"IncStrongLoad">> \o <<"GotSptr">>
  <2>1. r \in Seq(Steps) /\ Items(r) = {"IncStrongLoad", "GotSptr"} /\ r \in Below("IncWeak")
    BY <1>4, <1>5
  <2> HIDE DEF r
  <2>2. <<"IncWeak">> \o r \in Seq(Steps) /\ WellFormed(<<"IncWeak">> \o r)
        /\ Items(<<"IncWeak">> \o r) = {"IncWeak"} \union Items(r)
    BY <1>1, <2>1, Over
  <2> QED
    BY <2>1, <2>2 DEF r
<1>7. (IncStrongRef \o <<"GotSptr">>) = <<"IncWeak">> \o (<<"IncStrongLoad">> \o <<"GotSptr">>)
    BY <1>1, <1>2, PushTwo DEF IncStrongRef
<1> QED
    BY <1>6, <1>7

\* ~sptr.
LEMMA DropBody ==
    /\ DecStrongRef \in Seq(Steps)
    /\ WellFormed(DecStrongRef)
    /\ Items(DecStrongRef) = {"DecStrongLoad", "DecWeakLoad"}
<1>1. "DecStrongLoad" \in Steps /\ "DecWeakLoad" \in Steps
    BY DEF Steps
<1>2. <<"DecWeakLoad">> \in Seq(Steps) /\ Items(<<"DecWeakLoad">>) = {"DecWeakLoad"}
    BY <1>1, Tuples
<1>3. <<"DecWeakLoad">> \in Below("DecStrongLoad")
    BY BelowIs DEF Weaks
<1>4. /\ <<"DecStrongLoad">> \o <<"DecWeakLoad">> \in Seq(Steps)
      /\ WellFormed(<<"DecStrongLoad">> \o <<"DecWeakLoad">>)
      /\ Items(<<"DecStrongLoad">> \o <<"DecWeakLoad">>) = {"DecStrongLoad", "DecWeakLoad"}
  <2> DEFINE r == <<"DecWeakLoad">>
  <2>1. r \in Seq(Steps) /\ Items(r) = {"DecWeakLoad"} /\ r \in Below("DecStrongLoad")
    BY <1>2, <1>3
  <2> HIDE DEF r
  <2>2. <<"DecStrongLoad">> \o r \in Seq(Steps) /\ WellFormed(<<"DecStrongLoad">> \o r)
        /\ Items(<<"DecStrongLoad">> \o r) = {"DecStrongLoad"} \union Items(r)
    BY <1>1, <2>1, Over
  <2> QED
    BY <2>1, <2>2 DEF r
<1>5. DecStrongRef = <<"DecStrongLoad">> \o <<"DecWeakLoad">>
    BY <1>1, Tuples DEF DecStrongRef
<1> QED
    BY <1>4, <1>5

\* sptr = sptr.
LEMMA AssignBody ==
    /\ Assigned \in Seq(Steps)
    /\ WellFormed(Assigned)
    /\ Items(Assigned) = {"IncWeak", "IncStrongLoad", "DecStrongLoad", "DecWeakLoad", "GotSptr"}
<1>1. "IncWeak" \in Steps /\ "IncStrongLoad" \in Steps /\ "DecStrongLoad" \in Steps
      /\ "DecWeakLoad" \in Steps /\ "GotSptr" \in Steps
    BY DEF Steps
<1>2. <<"GotSptr">> \in Seq(Steps) /\ Items(<<"GotSptr">>) = {"GotSptr"}
    BY <1>1, Tuples
<1>3. <<"GotSptr">> \in Below("DecWeakLoad")
    BY BelowIs DEF Ends
<1>4. /\ <<"DecWeakLoad">> \o <<"GotSptr">> \in Seq(Steps)
      /\ WellFormed(<<"DecWeakLoad">> \o <<"GotSptr">>)
      /\ Items(<<"DecWeakLoad">> \o <<"GotSptr">>) = {"DecWeakLoad", "GotSptr"}
  <2> DEFINE r == <<"GotSptr">>
  <2>1. r \in Seq(Steps) /\ Items(r) = {"GotSptr"} /\ r \in Below("DecWeakLoad")
    BY <1>2, <1>3
  <2> HIDE DEF r
  <2>2. <<"DecWeakLoad">> \o r \in Seq(Steps) /\ WellFormed(<<"DecWeakLoad">> \o r)
        /\ Items(<<"DecWeakLoad">> \o r) = {"DecWeakLoad"} \union Items(r)
    BY <1>1, <2>1, Over
  <2> QED
    BY <2>1, <2>2 DEF r
<1>5. <<"DecWeakLoad">> \o <<"GotSptr">> \in Below("DecStrongLoad")
  <2>1. <<"DecWeakLoad", "GotSptr">> = <<"DecWeakLoad">> \o <<"GotSptr">>
    BY <1>1, Tuples
  <2> QED
    BY <2>1, BelowIs DEF Weaks
<1>6. /\ <<"DecStrongLoad">> \o (<<"DecWeakLoad">> \o <<"GotSptr">>) \in Seq(Steps)
      /\ WellFormed(<<"DecStrongLoad">> \o (<<"DecWeakLoad">> \o <<"GotSptr">>))
      /\ Items(<<"DecStrongLoad">> \o (<<"DecWeakLoad">> \o <<"GotSptr">>))
            = {"DecStrongLoad", "DecWeakLoad", "GotSptr"}
  <2> DEFINE r == <<"DecWeakLoad">> \o <<"GotSptr">>
  <2>1. r \in Seq(Steps) /\ Items(r) = {"DecWeakLoad", "GotSptr"} /\ r \in Below("DecStrongLoad")
    BY <1>4, <1>5
  <2> HIDE DEF r
  <2>2. <<"DecStrongLoad">> \o r \in Seq(Steps) /\ WellFormed(<<"DecStrongLoad">> \o r)
        /\ Items(<<"DecStrongLoad">> \o r) = {"DecStrongLoad"} \union Items(r)
    BY <1>1, <2>1, Over
  <2> QED
    BY <2>1, <2>2 DEF r
<1>7. <<"DecStrongLoad">> \o (<<"DecWeakLoad">> \o <<"GotSptr">>) \in Below("IncStrongLoad")
  <2>1. <<"DecWeakLoad", "GotSptr">> = <<"DecWeakLoad">> \o <<"GotSptr">>
    BY <1>1, Tuples
  <2>2. <<"DecStrongLoad", "DecWeakLoad",
           "GotSptr">> = <<"DecStrongLoad">> \o <<"DecWeakLoad", "GotSptr">>
    BY <1>1, Tuples
  <2> QED
    BY <2>1, <2>2, BelowIs DEF Gots
<1>8. /\ <<"IncStrongLoad">> \o (<<"DecStrongLoad">> \o (<<"DecWeakLoad">> \o <<"GotSptr">>)) \in Seq(Steps)
      /\ WellFormed(<<"IncStrongLoad">> \o (<<"DecStrongLoad">> \o (<<"DecWeakLoad">> \o <<"GotSptr">>)))
      /\ Items(<<"IncStrongLoad">> \o (<<"DecStrongLoad">> \o (<<"DecWeakLoad">> \o <<"GotSptr">>))) = {"IncStrongLoad", "DecStrongLoad", "DecWeakLoad", "GotSptr"}
  <2> DEFINE r == <<"DecStrongLoad">> \o (<<"DecWeakLoad">> \o <<"GotSptr">>)
  <2>1. r \in Seq(Steps) /\ Items(r) = {"DecStrongLoad", "DecWeakLoad", "GotSptr"}
        /\ r \in Below("IncStrongLoad")
    BY <1>6, <1>7
  <2> HIDE DEF r
  <2>2. <<"IncStrongLoad">> \o r \in Seq(Steps) /\ WellFormed(<<"IncStrongLoad">> \o r)
        /\ Items(<<"IncStrongLoad">> \o r) = {"IncStrongLoad"} \union Items(r)
    BY <1>1, <2>1, Over
  <2> QED
    BY <2>1, <2>2 DEF r
<1>9. <<"IncStrongLoad">> \o (<<"DecStrongLoad">> \o (<<"DecWeakLoad">> \o <<"GotSptr">>)) \in Below("IncWeak")
  <2> DEFINE r == <<"DecStrongLoad">> \o (<<"DecWeakLoad">> \o <<"GotSptr">>)
  <2>1. r \in Gots
    BY <1>7, BelowIs
  <2> HIDE DEF r
  <2>2. \A q \in Gots : <<"IncStrongLoad">> \o q \in Below("IncWeak")
    BY DEF Below
  <2>3. <<"IncStrongLoad">> \o r \in Below("IncWeak")
    BY <2>1, <2>2
  <2> QED
    BY <2>3 DEF r
<1>10. /\ <<"IncWeak">> \o (<<"IncStrongLoad">> \o (<<"DecStrongLoad">> \o (<<"DecWeakLoad">> \o <<"GotSptr">>))) \in Seq(Steps)
      /\ WellFormed(<<"IncWeak">> \o (<<"IncStrongLoad">> \o (<<"DecStrongLoad">> \o (<<"DecWeakLoad">> \o <<"GotSptr">>))))
      /\ Items(<<"IncWeak">> \o (<<"IncStrongLoad">> \o (<<"DecStrongLoad">> \o (<<"DecWeakLoad">> \o <<"GotSptr">>)))) = {"IncWeak", "IncStrongLoad", "DecStrongLoad", "DecWeakLoad", "GotSptr"}
  <2> DEFINE r == <<"IncStrongLoad">> \o (<<"DecStrongLoad">> \o (<<"DecWeakLoad">> \o <<"GotSptr">>))
  <2>1. r \in Seq(Steps)
        /\ Items(r) = {"IncStrongLoad", "DecStrongLoad", "DecWeakLoad", "GotSptr"}
            /\ r \in Below("IncWeak")
    BY <1>8, <1>9
  <2> HIDE DEF r
  <2>2. <<"IncWeak">> \o r \in Seq(Steps) /\ WellFormed(<<"IncWeak">> \o r)
        /\ Items(<<"IncWeak">> \o r) = {"IncWeak"} \union Items(r)
    BY <1>1, <2>1, Over
  <2> QED
    BY <2>1, <2>2 DEF r
<1>11. Assigned = <<"IncWeak">> \o (<<"IncStrongLoad">> \o (<<"DecStrongLoad">> \o (<<"DecWeakLoad">> \o <<"GotSptr">>)))
  <2>1. IncStrongRef \in Seq(Steps) /\ DecStrongRef \in Seq(Steps)
    BY <1>1, Tuples DEF IncStrongRef, DecStrongRef
  <2> DEFINE r == DecStrongRef \o <<"GotSptr">>
  <2>2. Assigned = IncStrongRef \o r
    BY <1>2, <2>1, ConcatAssociative DEF Assigned
  <2>3. r = <<"DecStrongLoad">> \o (<<"DecWeakLoad">> \o <<"GotSptr">>)
    BY <1>1, <1>2, PushTwo DEF DecStrongRef
  <2>4. r \in Seq(Steps)
    BY <1>6, <2>3
  <2> HIDE DEF r
  <2>5. IncStrongRef \o r = <<"IncWeak">> \o (<<"IncStrongLoad">> \o r)
    BY <1>1, <2>4, PushTwo DEF IncStrongRef
  <2> QED
    BY <2>2, <2>3, <2>5
<1> QED
    BY <1>10, <1>11

\* sptr = wptr, when the sptr had a reference.
LEMMA DropTestBody ==
    /\ (DecStrongRef \o <<"TestPtr">>) \in Seq(Steps)
    /\ WellFormed((DecStrongRef \o <<"TestPtr">>))
    /\ Items((DecStrongRef \o <<"TestPtr">>)) = {"DecStrongLoad", "DecWeakLoad", "TestPtr"}
<1>1. "DecStrongLoad" \in Steps /\ "DecWeakLoad" \in Steps /\ "TestPtr" \in Steps
    BY DEF Steps
<1>2. <<"TestPtr">> \in Seq(Steps) /\ Items(<<"TestPtr">>) = {"TestPtr"}
    BY <1>1, Tuples
<1>3. <<"TestPtr">> \in Below("DecWeakLoad")
    BY BelowIs DEF Ends
<1>4. /\ <<"DecWeakLoad">> \o <<"TestPtr">> \in Seq(Steps)
      /\ WellFormed(<<"DecWeakLoad">> \o <<"TestPtr">>)
      /\ Items(<<"DecWeakLoad">> \o <<"TestPtr">>) = {"DecWeakLoad", "TestPtr"}
  <2> DEFINE r == <<"TestPtr">>
  <2>1. r \in Seq(Steps) /\ Items(r) = {"TestPtr"} /\ r \in Below("DecWeakLoad")
    BY <1>2, <1>3
  <2> HIDE DEF r
  <2>2. <<"DecWeakLoad">> \o r \in Seq(Steps) /\ WellFormed(<<"DecWeakLoad">> \o r)
        /\ Items(<<"DecWeakLoad">> \o r) = {"DecWeakLoad"} \union Items(r)
    BY <1>1, <2>1, Over
  <2> QED
    BY <2>1, <2>2 DEF r
<1>5. <<"DecWeakLoad">> \o <<"TestPtr">> \in Below("DecStrongLoad")
  <2>1. <<"DecWeakLoad", "TestPtr">> = <<"DecWeakLoad">> \o <<"TestPtr">>
    BY <1>1, Tuples
  <2> QED
    BY <2>1, BelowIs DEF Weaks
<1>6. /\ <<"DecStrongLoad">> \o (<<"DecWeakLoad">> \o <<"TestPtr">>) \in Seq(Steps)
      /\ WellFormed(<<"DecStrongLoad">> \o (<<"DecWeakLoad">> \o <<"TestPtr">>))
      /\ Items(<<"DecStrongLoad">> \o (<<"DecWeakLoad">> \o <<"TestPtr">>))
            = {"DecStrongLoad", "DecWeakLoad", "TestPtr"}
  <2> DEFINE r == <<"DecWeakLoad">> \o <<"TestPtr">>
  <2>1. r \in Seq(Steps) /\ Items(r) = {"DecWeakLoad", "TestPtr"} /\ r \in Below("DecStrongLoad")
    BY <1>4, <1>5
  <2> HIDE DEF r
  <2>2. <<"DecStrongLoad">> \o r \in Seq(Steps) /\ WellFormed(<<"DecStrongLoad">> \o r)
        /\ Items(<<"DecStrongLoad">> \o r) = {"DecStrongLoad"} \union Items(r)
    BY <1>1, <2>1, Over
  <2> QED
    BY <2>1, <2>2 DEF r
<1>7. (DecStrongRef \o <<"TestPtr">>) = <<"DecStrongLoad">> \o (<<"DecWeakLoad">> \o <<"TestPtr">>)
    BY <1>1, <1>2, PushTwo DEF DecStrongRef
<1> QED
    BY <1>6, <1>7

\* RefBase::AttemptIncStrong.
LEMMA AttemptBody ==
    /\ <<"IncWeak", "AttSLoad">> \in Seq(Steps)
    /\ WellFormed(<<"IncWeak", "AttSLoad">>)
    /\ Items(<<"IncWeak", "AttSLoad">>) = {"IncWeak", "AttSLoad"}
<1>1. "IncWeak" \in Steps /\ "AttSLoad" \in Steps
    BY DEF Steps
<1>2. <<"AttSLoad">> \in Seq(Steps) /\ Items(<<"AttSLoad">>) = {"AttSLoad"}
    BY <1>1, Tuples
<1>3. <<"AttSLoad">> \in Below("IncWeak")
    BY BelowIs DEF Wraps
<1>4. /\ <<"IncWeak">> \o <<"AttSLoad">> \in Seq(Steps)
      /\ WellFormed(<<"IncWeak">> \o <<"AttSLoad">>)
      /\ Items(<<"IncWeak">> \o <<"AttSLoad">>) = {"IncWeak", "AttSLoad"}
  <2> DEFINE r == <<"AttSLoad">>
  <2>1. r \in Seq(Steps) /\ Items(r) = {"AttSLoad"} /\ r \in Below("IncWeak")
    BY <1>2, <1>3
  <2> HIDE DEF r
  <2>2. <<"IncWeak">> \o r \in Seq(Steps) /\ WellFormed(<<"IncWeak">> \o r)
        /\ Items(<<"IncWeak">> \o r) = {"IncWeak"} \union Items(r)
    BY <1>1, <2>1, Over
  <2> QED
    BY <2>1, <2>2 DEF r
<1>5. <<"IncWeak", "AttSLoad">> = <<"IncWeak">> \o <<"AttSLoad">>
    BY <1>1, Tuples
<1> QED
    BY <1>4, <1>5

\* wptr(const wptr&).
LEMMA RaiseBody ==
    /\ <<"WrcInc", "GotWptr">> \in Seq(Steps)
    /\ WellFormed(<<"WrcInc", "GotWptr">>)
    /\ Items(<<"WrcInc", "GotWptr">>) = {"WrcInc", "GotWptr"}
<1>1. "WrcInc" \in Steps /\ "GotWptr" \in Steps
    BY DEF Steps
<1>2. <<"GotWptr">> \in Seq(Steps) /\ Items(<<"GotWptr">>) = {"GotWptr"}
    BY <1>1, Tuples
<1>3. <<"GotWptr">> \in Below("WrcInc")
    BY BelowIs DEF Wraps
<1>4. /\ <<"WrcInc">> \o <<"GotWptr">> \in Seq(Steps)
      /\ WellFormed(<<"WrcInc">> \o <<"GotWptr">>)
      /\ Items(<<"WrcInc">> \o <<"GotWptr">>) = {"WrcInc", "GotWptr"}
  <2> DEFINE r == <<"GotWptr">>
  <2>1. r \in Seq(Steps) /\ Items(r) = {"GotWptr"} /\ r \in Below("WrcInc")
    BY <1>2, <1>3
  <2> HIDE DEF r
  <2>2. <<"WrcInc">> \o r \in Seq(Steps) /\ WellFormed(<<"WrcInc">> \o r)
        /\ Items(<<"WrcInc">> \o r) = {"WrcInc"} \union Items(r)
    BY <1>1, <2>1, Over
  <2> QED
    BY <2>1, <2>2 DEF r
<1>5. <<"WrcInc", "GotWptr">> = <<"WrcInc">> \o <<"GotWptr">>
    BY <1>1, Tuples
<1> QED
    BY <1>4, <1>5

\* wptr = wptr.
LEMMA RaiseOldBody ==
    /\ (<<"WrcInc", "GotWptr">> \o <<"DropOld">>) \in Seq(Steps)
    /\ WellFormed((<<"WrcInc", "GotWptr">> \o <<"DropOld">>))
    /\ Items((<<"WrcInc", "GotWptr">> \o <<"DropOld">>)) = {"WrcInc", "GotWptr", "DropOld"}
<1>1. "WrcInc" \in Steps /\ "GotWptr" \in Steps /\ "DropOld" \in Steps
    BY DEF Steps
<1>2. <<"DropOld">> \in Seq(Steps) /\ Items(<<"DropOld">>) = {"DropOld"}
    BY <1>1, Tuples
<1>3. <<"DropOld">> \in Below("GotWptr")
    BY BelowIs
<1>4. /\ <<"GotWptr">> \o <<"DropOld">> \in Seq(Steps)
      /\ WellFormed(<<"GotWptr">> \o <<"DropOld">>)
      /\ Items(<<"GotWptr">> \o <<"DropOld">>) = {"GotWptr", "DropOld"}
  <2> DEFINE r == <<"DropOld">>
  <2>1. r \in Seq(Steps) /\ Items(r) = {"DropOld"} /\ r \in Below("GotWptr")
    BY <1>2, <1>3
  <2> HIDE DEF r
  <2>2. <<"GotWptr">> \o r \in Seq(Steps) /\ WellFormed(<<"GotWptr">> \o r)
        /\ Items(<<"GotWptr">> \o r) = {"GotWptr"} \union Items(r)
    BY <1>1, <2>1, Over
  <2> QED
    BY <2>1, <2>2 DEF r
<1>5. <<"GotWptr">> \o <<"DropOld">> \in Below("WrcInc")
  <2>1. <<"GotWptr", "DropOld">> = <<"GotWptr">> \o <<"DropOld">>
    BY <1>1, Tuples
  <2> QED
    BY <2>1, BelowIs DEF Wraps
<1>6. /\ <<"WrcInc">> \o (<<"GotWptr">> \o <<"DropOld">>) \in Seq(Steps)
      /\ WellFormed(<<"WrcInc">> \o (<<"GotWptr">> \o <<"DropOld">>))
      /\ Items(<<"WrcInc">> \o (<<"GotWptr">> \o <<"DropOld">>)) = {"WrcInc", "GotWptr", "DropOld"}
  <2> DEFINE r == <<"GotWptr">> \o <<"DropOld">>
  <2>1. r \in Seq(Steps) /\ Items(r) = {"GotWptr", "DropOld"} /\ r \in Below("WrcInc")
    BY <1>4, <1>5
  <2> HIDE DEF r
  <2>2. <<"WrcInc">> \o r \in Seq(Steps) /\ WellFormed(<<"WrcInc">> \o r)
        /\ Items(<<"WrcInc">> \o r) = {"WrcInc"} \union Items(r)
    BY <1>1, <2>1, Over
  <2> QED
    BY <2>1, <2>2 DEF r
<1>7. (<<"WrcInc", "GotWptr">> \o <<"DropOld">>) = <<"WrcInc">> \o (<<"GotWptr">> \o <<"DropOld">>)
    BY <1>1, <1>2, PushTwo
<1> QED
    BY <1>6, <1>7

\* wptr(T *).
LEMMA NewBody ==
    /\ NewWptr \in Seq(Steps)
    /\ WellFormed(NewWptr)
    /\ Items(NewWptr) = {"WrcNew", "WrcInc", "GotWptr"}
<1>1. "WrcNew" \in Steps /\ "WrcInc" \in Steps /\ "GotWptr" \in Steps
    BY DEF Steps
<1>2. <<"GotWptr">> \in Seq(Steps) /\ Items(<<"GotWptr">>) = {"GotWptr"}
    BY <1>1, Tuples
<1>3. <<"GotWptr">> \in Below("WrcInc")
    BY BelowIs DEF Wraps
<1>4. /\ <<"WrcInc">> \o <<"GotWptr">> \in Seq(Steps)
      /\ WellFormed(<<"WrcInc">> \o <<"GotWptr">>)
      /\ Items(<<"WrcInc">> \o <<"GotWptr">>) = {"WrcInc", "GotWptr"}
  <2> DEFINE r == <<"GotWptr">>
  <2>1. r \in Seq(Steps) /\ Items(r) = {"GotWptr"} /\ r \in Below("WrcInc")
    BY <1>2, <1>3
  <2> HIDE DEF r
  <2>2. <<"WrcInc">> \o r \in Seq(Steps) /\ WellFormed(<<"WrcInc">> \o r)
        /\ Items(<<"WrcInc">> \o r) = {"WrcInc"} \union Items(r)
    BY <1>1, <2>1, Over
  <2> QED
    BY <2>1, <2>2 DEF r
<1>5. <<"WrcInc">> \o <<"GotWptr">> \in Below("WrcNew")
    BY BelowIs DEF Wraps
<1>6. /\ <<"WrcNew">> \o (<<"WrcInc">> \o <<"GotWptr">>) \in Seq(Steps)
      /\ WellFormed(<<"WrcNew">> \o (<<"WrcInc">> \o <<"GotWptr">>))
      /\ Items(<<"WrcNew">> \o (<<"WrcInc">> \o <<"GotWptr">>)) = {"WrcNew", "WrcInc", "GotWptr"}
  <2> DEFINE r == <<"WrcInc">> \o <<"GotWptr">>
  <2>1. r \in Seq(Steps) /\ Items(r) = {"WrcInc", "GotWptr"} /\ r \in Below("WrcNew")
    BY <1>4, <1>5
  <2> HIDE DEF r
  <2>2. <<"WrcNew">> \o r \in Seq(Steps) /\ WellFormed(<<"WrcNew">> \o r)
        /\ Items(<<"WrcNew">> \o r) = {"WrcNew"} \union Items(r)
    BY <1>1, <2>1, Over
  <2> QED
    BY <2>1, <2>2 DEF r
<1>7. NewWptr = <<"WrcNew">> \o (<<"WrcInc">> \o <<"GotWptr">>)
  <2>1. <<"WrcNew", "WrcInc", "GotWptr">> = <<"WrcNew">> \o <<"WrcInc", "GotWptr">>
    BY <1>1, Tuples
  <2>2. <<"WrcInc", "GotWptr">> = <<"WrcInc">> \o <<"GotWptr">>
    BY <1>1, Tuples
  <2> QED
    BY <2>1, <2>2 DEF NewWptr
<1> QED
    BY <1>6, <1>7

\* wptr = T *.
LEMMA NewOldBody ==
    /\ (NewWptr \o <<"DropOld">>) \in Seq(Steps)
    /\ WellFormed((NewWptr \o <<"DropOld">>))
    /\ Items((NewWptr \o <<"DropOld">>)) = {"WrcNew", "WrcInc", "GotWptr", "DropOld"}
<1>1. "WrcNew" \in Steps /\ "WrcInc" \in Steps /\ "GotWptr" \in Steps /\ "DropOld" \in Steps
    BY DEF Steps
<1>2. <<"DropOld">> \in Seq(Steps) /\ Items(<<"DropOld">>) = {"DropOld"}
    BY <1>1, Tuples
<1>3. <<"DropOld">> \in Below("GotWptr")
    BY BelowIs
<1>4. /\ <<"GotWptr">> \o <<"DropOld">> \in Seq(Steps)
      /\ WellFormed(<<"GotWptr">> \o <<"DropOld">>)
      /\ Items(<<"GotWptr">> \o <<"DropOld">>) = {"GotWptr", "DropOld"}
  <2> DEFINE r == <<"DropOld">>
  <2>1. r \in Seq(Steps) /\ Items(r) = {"DropOld"} /\ r \in Below("GotWptr")
    BY <1>2, <1>3
  <2> HIDE DEF r
  <2>2. <<"GotWptr">> \o r \in Seq(Steps) /\ WellFormed(<<"GotWptr">> \o r)
        /\ Items(<<"GotWptr">> \o r) = {"GotWptr"} \union Items(r)
    BY <1>1, <2>1, Over
  <2> QED
    BY <2>1, <2>2 DEF r
<1>5. <<"GotWptr">> \o <<"DropOld">> \in Below("WrcInc")
  <2>1. <<"GotWptr", "DropOld">> = <<"GotWptr">> \o <<"DropOld">>
    BY <1>1, Tuples
  <2> QED
    BY <2>1, BelowIs DEF Wraps
<1>6. /\ <<"WrcInc">> \o (<<"GotWptr">> \o <<"DropOld">>) \in Seq(Steps)
      /\ WellFormed(<<"WrcInc">> \o (<<"GotWptr">> \o <<"DropOld">>))
      /\ Items(<<"WrcInc">> \o (<<"GotWptr">> \o <<"DropOld">>)) = {"WrcInc", "GotWptr", "DropOld"}
  <2> DEFINE r == <<"GotWptr">> \o <<"DropOld">>
  <2>1. r \in Seq(Steps) /\ Items(r) = {"GotWptr", "DropOld"} /\ r \in Below("WrcInc")
    BY <1>4, <1>5
  <2> HIDE DEF r
  <2>2. <<"WrcInc">> \o r \in Seq(Steps) /\ WellFormed(<<"WrcInc">> \o r)
        /\ Items(<<"WrcInc">> \o r) = {"WrcInc"} \union Items(r)
    BY <1>1, <2>1, Over
  <2> QED
    BY <2>1, <2>2 DEF r
<1>7. <<"WrcInc">> \o (<<"GotWptr">> \o <<"DropOld">>) \in Below("WrcNew")
  <2>1. <<"GotWptr", "DropOld">> = <<"GotWptr">> \o <<"DropOld">>
    BY <1>1, Tuples
  <2> QED
    BY <2>1, BelowIs DEF Wraps
<1>8. /\ <<"WrcNew">> \o (<<"WrcInc">> \o (<<"GotWptr">> \o <<"DropOld">>)) \in Seq(Steps)
      /\ WellFormed(<<"WrcNew">> \o (<<"WrcInc">> \o (<<"GotWptr">> \o <<"DropOld">>)))
      /\ Items(<<"WrcNew">> \o (<<"WrcInc">> \o (<<"GotWptr">> \o <<"DropOld">>)))
            = {"WrcNew", "WrcInc", "GotWptr", "DropOld"}
  <2> DEFINE r == <<"WrcInc">> \o (<<"GotWptr">> \o <<"DropOld">>)
  <2>1. r \in Seq(Steps) /\ Items(r) = {"WrcInc", "GotWptr", "DropOld"} /\ r \in Below("WrcNew")
    BY <1>6, <1>7
  <2> HIDE DEF r
  <2>2. <<"WrcNew">> \o r \in Seq(Steps) /\ WellFormed(<<"WrcNew">> \o r)
        /\ Items(<<"WrcNew">> \o r) = {"WrcNew"} \union Items(r)
    BY <1>1, <2>1, Over
  <2> QED
    BY <2>1, <2>2 DEF r
<1>9. (NewWptr \o <<"DropOld">>)
         = <<"WrcNew">> \o (<<"WrcInc">> \o (<<"GotWptr">> \o <<"DropOld">>))
    BY <1>1, <1>2, PushThree DEF NewWptr
<1> QED
    BY <1>8, <1>9

\* wptr::promote, RefBase::AttemptAcquire.
LEMMA AttLoadBody == <<"AttLoad">> \in Seq(Steps) /\ WellFormed(<<"AttLoad">>)
                     /\ Items(<<"AttLoad">>) = {"AttLoad"}
<1>1. "AttLoad" \in Steps /\ <<>> \in Below("AttLoad")
    BY BelowIs DEF Steps, Last
<1> QED
    BY <1>1, Single

\* RefBase::CheckIsAttemptAcquireSet.
LEMMA CheckBody == <<"CheckAttempt">> \in Seq(Steps) /\ WellFormed(<<"CheckAttempt">>)
                   /\ Items(<<"CheckAttempt">>) = {"CheckAttempt"}
<1>1. "CheckAttempt" \in Steps /\ <<>> \in Below("CheckAttempt")
    BY BelowIs DEF Steps, Last
<1> QED
    BY <1>1, Single

\* ~wptr.
LEMMA WrcDecBody == <<"WrcDec">> \in Seq(Steps) /\ WellFormed(<<"WrcDec">>)
                    /\ Items(<<"WrcDec">>) = {"WrcDec"}
<1>1. "WrcDec" \in Steps /\ <<>> \in Below("WrcDec")
    BY BelowIs DEF Steps, Last
<1> QED
    BY <1>1, Single

\* sptr = wptr, when the sptr was null.
LEMMA TestPtrBody == <<"TestPtr">> \in Seq(Steps) /\ WellFormed(<<"TestPtr">>)
                     /\ Items(<<"TestPtr">>) = {"TestPtr"}
<1>1. "TestPtr" \in Steps /\ <<>> \in Below("TestPtr")
    BY BelowIs DEF Steps, Last
<1> QED
    BY <1>1, Single

\* sptr(T *), sptr(const sptr&).
LEMMA CopySptrKeeps ==
    ASSUME RefBaseConstants, Inv, NEW t \in Threads, CopySptr(t)
    PROVE  Inv'
<1>1. /\ (t \in raw /\ UNCHANGED ops) \/ (sptrs[t] > 0 /\ ops < MaxOps /\ ops' = ops + 1)
      /\ Begin(t, (IncStrongRef \o <<"GotSptr">>)) /\ raw' = raw \ {t}
      /\ UNCHANGED <<counts, memory, sptrs, wptrs, acquired, cur, tgt, op, hooks>>
    BY DEF CopySptr, Spend
<1>2. Starts(t, {"IncWeak", "IncStrongLoad", "GotSptr"})
    BY <1>1, StartsBy, CopyBody DEF Inv
<1>3. pend[t] = {} /\ pend'[t] = {"IncWeak", "IncStrongLoad", "GotSptr"}
    BY <1>2 DEF Starts
<1>4. TypeOK' /\ Same(t)
  <2>1. ops' \in 0..MaxOps /\ raw' \subseteq Threads
    BY <1>1 DEF Inv, TypeOK, RefBaseConstants
  <2> QED
    BY <1>1, <1>2, <2>1 DEF Inv, TypeOK, Starts, Same, counts, memory, hooks
<1>5. TagOf(t) /\ BackOf(t) /\ op[t] = "none"
  <2>1. TagOf(t) /\ BackOf(t) /\ op[t] \in {"none", "promote", "acquire", "check"}
    BY DEF Inv, TypeOK, Locals, TagInv, BackInv
  <2> QED
    BY <1>3, <2>1 DEF TagOf, Trying
<1>6. /\ UNCHANGED <<gains, drops, wgains, wdrops, owing, lasts, bases, refdrops, freeing,
                     onfirst, onlast, dying, stripped>>
      /\ t \in comings' /\ t \notin tries /\ t \in tries'
    BY <1>1, <1>3, <1>4, ThreadSets DEF Moved, drops, gains, tries, wgains, wdrops, owing,
       lasts, bases, refdrops, freeing, comings, onfirst, onlast, dying, stripped, Adding, Trying,
       Destroyed
<1>7. /\ UNCHANGED <<atomicStrong, atomicWeak, atomicRefCount, callback, object, counter,
                     acquired, sptrs, wptrs, wrc, extended, firstCalls, lastCalls>>
      /\ raw' = raw \ {t} /\ (t \in raw => raw = {t} /\ Only(t))
      /\ (t \in raw /\ ops' = ops) \/ (sptrs[t] > 0 /\ ops' = ops + 1)
      /\ acquired \in Nat /\ atomicWeak \in Nat /\ sptrs[t] \in Nat /\ tgt'[t] = tgt[t]
          /\ op'[t] = op[t] /\ cur'[t] = cur[t]
    BY <1>1 DEF counts, memory, hooks, Inv, TypeOK, Locals, RawInv
<1>8. WrcSame(t)
    BY <1>3, <1>7 DEF WrcSame
<1>9. Counts' /\ Memory'
  <2>1. WrcInv' /\ readies' = readies /\ builts' = builts
    BY <1>4, <1>8, WrcStep
  <2>2. strong'[t] = strong[t] /\ weak'[t] = weak[t] /\ strong[t] \in Nat
    BY <1>6, <1>7 DEF strong, weak, One
  <2>3. claims'[t] = claims[t] + 1 /\ claims[t] \in Nat
    BY <1>6, <2>2 DEF claims, One
  <2>4. claims'[t] + One(raw' # {}) - ops' <= claims[t] + One(raw # {}) - ops
    <3>1. ops \in Int
      BY DEF Inv, TypeOK
    <3> QED
      BY <1>7, <2>3, <3>1 DEF One
  <2>5. Alive' <=> Alive
    <3>1. Alive'
      BY <1>6 DEF Alive
    <3>2. Alive
      <4>1. CASE t \in raw
        BY <4>1 DEF Alive
      <4>2. CASE sptrs[t] > 0
        <5>1. weak[t] > 0
          BY <1>6, <1>7, <4>2 DEF weak, One
        <5>2. atomicWeak > 0
          BY <1>7, <5>1, WeakFacts
        <5> QED
          BY <5>2 DEF Alive
      <4> QED
        BY <1>7, <4>1, <4>2
    <3> QED
      BY <3>1, <3>2
  <2>6. owing \subseteq gains'
    BY <1>6 DEF Inv, Counts, OwingInv
  <2>7. CallbackInv'
    BY <1>6, <1>7, Frames
  <2>8. HookInv'
    BY <1>4, <1>6, <1>7, Frames DEF Same, hooks
  <2> QED
    BY <1>4, <1>6, <1>7, <2>1, <2>2, <2>4, <2>5, <2>6, <2>7, <2>8, QuietStep
<1>10. Locals'
  <2>0. Only(t) => Only(t)'
    BY <1>4, <1>7, OnlyStays DEF Only
  <2>1. Knows(t)
    BY <1>7 DEF Knows
  <2>2. TagOf(t)'
    BY <1>1, <1>3, <1>5, <1>7 DEF TagOf, Trying
  <2>3. BackOf(t)'
    BY <1>1, <1>3, <1>5, <1>7, <2>0 DEF BackOf, Adding
  <2>4. t \notin raw'
    BY <1>7
  <2> QED
    BY <1>4, <1>7, <2>1, <2>2, <2>3, <2>4, LocalsStep
<1> QED
    BY <1>2, <1>4, <1>9, <1>10 DEF Inv, Starts

\* ~sptr, sptr::clear.
LEMMA DropSptrKeeps ==
    ASSUME RefBaseConstants, Inv, NEW t \in Threads, DropSptr(t)
    PROVE  Inv'
<1>1. /\ sptrs[t] > 0
      /\ sptrs' = [sptrs EXCEPT ![t] = @ - 1]
      /\ Begin(t, DecStrongRef)
      /\ UNCHANGED <<counts, memory, raw, wptrs, acquired, cur, tgt, op, hooks, ops>>
    BY DEF DropSptr, Spend
<1>2. Starts(t, {"DecStrongLoad", "DecWeakLoad"})
    BY <1>1, StartsBy, DropBody DEF Inv
<1>3. pend[t] = {} /\ pend'[t] = {"DecStrongLoad", "DecWeakLoad"}
    BY <1>2 DEF Starts
<1>4. TypeOK' /\ Same(t)
  <2>1. /\ sptrs' \in [Threads -> Nat] /\ \A u \in Threads : u # t => sptrs'[u] = sptrs[u]
    BY <1>1 DEF Inv, TypeOK
  <2> QED
    BY <1>1, <1>2, <2>1 DEF Inv, TypeOK, Starts, Same, counts, memory, hooks
<1>5. TagOf(t) /\ BackOf(t) /\ op[t] = "none"
  <2>1. TagOf(t) /\ BackOf(t) /\ op[t] \in {"none", "promote", "acquire", "check"}
    BY DEF Inv, TypeOK, Locals, TagInv, BackInv
  <2> QED
    BY <1>3, <2>1 DEF TagOf, Trying
<1>6. /\ UNCHANGED <<gains, tries, wgains, owing, lasts, bases, refdrops, freeing,
                     comings, onfirst, onlast, dying, stripped>>
      /\ t \notin drops /\ t \in drops' /\ t \notin wdrops /\ t \in wdrops'
    BY <1>1, <1>3, <1>4, ThreadSets DEF Moved, drops, gains, tries, wgains, wdrops, owing,
       lasts, bases, refdrops, freeing, comings, onfirst, onlast, dying, stripped, Adding, Trying,
       Destroyed
<1>7. /\ UNCHANGED <<raw, atomicStrong, atomicWeak, atomicRefCount, callback, object,
                     counter, acquired, wptrs, wrc, extended, firstCalls, lastCalls>>
      /\ sptrs'[t] = sptrs[t] - 1 /\ sptrs[t] > 0
      /\ acquired \in Nat /\ atomicWeak \in Nat /\ sptrs[t] \in Nat /\ tgt'[t] = tgt[t]
          /\ op'[t] = op[t] /\ cur'[t] = cur[t]
      /\ ops' = ops + 0 /\ sptrs[t] > 0
    BY <1>1 DEF counts, memory, owners, hooks, Inv, TypeOK
<1>8. WrcSame(t)
    BY <1>3, <1>7, <1>1 DEF WrcSame
<1>9. Counts' /\ Memory'
  <2>1. WrcInv' /\ readies' = readies /\ builts' = builts
    BY <1>4, <1>8, WrcStep
  <2>2. strong'[t] = strong[t] /\ weak'[t] = weak[t] /\ strong[t] \in Nat
    BY <1>6, <1>7 DEF strong, weak, One
  <2>3. claims'[t] = claims[t] + 0 /\ claims[t] \in Nat
    BY <1>6, <2>2 DEF claims, One
  <2>4. claims'[t] + One(raw' # {}) - ops' <= claims[t] + One(raw # {}) - ops
    <3>1. ops \in Int
      BY DEF Inv, TypeOK
    <3> QED
      BY <1>7, <2>3, <3>1 DEF One
  <2>5. Alive' <=> Alive
    BY <1>6, <1>7, Frames
  <2>6. owing \subseteq gains'
    BY <1>6 DEF Inv, Counts, OwingInv
  <2>7. CallbackInv'
    BY <1>6, <1>7, Frames
  <2>8. HookInv'
    BY <1>4, <1>6, <1>7, Frames DEF Same, hooks
  <2> QED
    BY <1>4, <1>6, <1>7, <2>1, <2>2, <2>4, <2>5, <2>6, <2>7, <2>8, QuietStep
<1>10. Locals'
  <2>1. Knows(t)
    BY <1>7 DEF Knows
  <2>2. TagOf(t)'
    BY <1>1, <1>3, <1>5, <1>7 DEF TagOf, Trying
  <2>3. BackOf(t)'
    BY <1>1, <1>3, <1>5, <1>7 DEF BackOf, Adding
  <2>4. t \notin raw
    BY <1>7 DEF Inv, Locals, RawInv, Only
  <2> QED
    BY <1>4, <1>7, <2>1, <2>2, <2>3, <2>4, LocalsStep
<1> QED
    BY <1>2, <1>4, <1>9, <1>10 DEF Inv, Starts

\* sptr = sptr.
LEMMA AssignSptrKeeps ==
    ASSUME RefBaseConstants, Inv, NEW t \in Threads, AssignSptr(t)
    PROVE  Inv'
<1>1. /\ sptrs[t] > 0
      /\ ops < MaxOps /\ ops' = ops + 1
      /\ sptrs' = [sptrs EXCEPT ![t] = @ - 1]
      /\ Begin(t, Assigned)
      /\ UNCHANGED <<counts, memory, raw, wptrs, acquired, cur, tgt, op, hooks>>
    BY DEF AssignSptr, Spend
<1>2. Starts(t, {"IncWeak", "IncStrongLoad", "DecStrongLoad", "DecWeakLoad", "GotSptr"})
    BY <1>1, StartsBy, AssignBody DEF Inv
<1>3. pend[t] = {} /\ pend'[t] = {"IncWeak", "IncStrongLoad", "DecStrongLoad", "DecWeakLoad",
         "GotSptr"}
    BY <1>2 DEF Starts
<1>4. TypeOK' /\ Same(t)
  <2>1. /\ ops' \in 0..MaxOps
        /\ sptrs' \in [Threads -> Nat] /\ \A u \in Threads : u # t => sptrs'[u] = sptrs[u]
    BY <1>1 DEF Inv, TypeOK, RefBaseConstants
  <2> QED
    BY <1>1, <1>2, <2>1 DEF Inv, TypeOK, Starts, Same, counts, memory, hooks
<1>5. TagOf(t) /\ BackOf(t) /\ op[t] = "none"
  <2>1. TagOf(t) /\ BackOf(t) /\ op[t] \in {"none", "promote", "acquire", "check"}
    BY DEF Inv, TypeOK, Locals, TagInv, BackInv
  <2> QED
    BY <1>3, <2>1 DEF TagOf, Trying
<1>6. /\ UNCHANGED <<gains, wgains, owing, lasts, bases, refdrops, freeing, onfirst,
                     onlast, dying, stripped>>
      /\ t \in comings'
      /\ t \notin drops /\ t \in drops' /\ t \notin wdrops /\ t \in wdrops'
      /\ t \notin tries /\ t \in tries'
    BY <1>1, <1>3, <1>4, ThreadSets DEF Moved, drops, gains, tries, wgains, wdrops, owing,
       lasts, bases, refdrops, freeing, comings, onfirst, onlast, dying, stripped, Adding, Trying,
       Destroyed
<1>7. /\ UNCHANGED <<raw, atomicStrong, atomicWeak, atomicRefCount, callback, object,
                     counter, acquired, wptrs, wrc, extended, firstCalls, lastCalls>>
      /\ sptrs'[t] = sptrs[t] - 1 /\ sptrs[t] > 0
      /\ acquired \in Nat /\ atomicWeak \in Nat /\ sptrs[t] \in Nat /\ tgt'[t] = tgt[t]
          /\ op'[t] = op[t] /\ cur'[t] = cur[t]
      /\ ops' = ops + 1 /\ sptrs[t] > 0
    BY <1>1 DEF counts, memory, owners, hooks, Inv, TypeOK
<1>8. WrcSame(t)
    BY <1>3, <1>7, <1>1 DEF WrcSame
<1>9. Counts' /\ Memory'
  <2>1. WrcInv' /\ readies' = readies /\ builts' = builts
    BY <1>4, <1>8, WrcStep
  <2>2. strong'[t] = strong[t] /\ weak'[t] = weak[t] /\ strong[t] \in Nat
    BY <1>6, <1>7 DEF strong, weak, One
  <2>3. claims'[t] = claims[t] + 1 /\ claims[t] \in Nat
    BY <1>6, <2>2 DEF claims, One
  <2>4. claims'[t] + One(raw' # {}) - ops' <= claims[t] + One(raw # {}) - ops
    <3>1. ops \in Int
      BY DEF Inv, TypeOK
    <3> QED
      BY <1>7, <2>3, <3>1 DEF One
  <2>5. Alive' <=> Alive
    <3>1. Alive'
      BY <1>6 DEF Alive
    <3>2. Alive
      <4>1. weak[t] > 0
        BY <1>6, <1>7 DEF weak, One
      <4>2. atomicWeak > 0
        BY <1>7, <4>1, WeakFacts
      <4> QED
        BY <4>2 DEF Alive
    <3> QED
      BY <3>1, <3>2
  <2>6. owing \subseteq gains'
    BY <1>6 DEF Inv, Counts, OwingInv
  <2>7. CallbackInv'
    BY <1>6, <1>7, Frames
  <2>8. HookInv'
    BY <1>4, <1>6, <1>7, Frames DEF Same, hooks
  <2> QED
    BY <1>4, <1>6, <1>7, <2>1, <2>2, <2>4, <2>5, <2>6, <2>7, <2>8, QuietStep
<1>10. Locals'
  <2>1. Knows(t)
    BY <1>7 DEF Knows
  <2>2. TagOf(t)'
    BY <1>1, <1>3, <1>5, <1>7 DEF TagOf, Trying
  <2>3. BackOf(t)'
    BY <1>1, <1>3, <1>5, <1>7 DEF BackOf, Adding
  <2>4. t \notin raw
    BY <1>7 DEF Inv, Locals, RawInv, Only
  <2> QED
    BY <1>4, <1>7, <2>1, <2>2, <2>3, <2>4, LocalsStep
<1> QED
    BY <1>2, <1>4, <1>9, <1>10 DEF Inv, Starts

\* RefBase::AttemptAcquire.
LEMMA AttemptAcquireKeeps ==
    ASSUME RefBaseConstants, Inv, NEW t \in Threads, AttemptAcquire(t)
    PROVE  Inv'
<1>1. /\ t \in IpcThreads /\ (t \in raw \/ sptrs[t] > 0)
      /\ ops < MaxOps /\ ops' = ops + 1
      /\ op' = [op EXCEPT ![t] = "acquire"]
      /\ Begin(t, <<"AttLoad">>)
      /\ UNCHANGED <<counts, memory, owners, cur, tgt, hooks>>
    BY DEF AttemptAcquire, Spend
<1>2. Starts(t, {"AttLoad"})
    BY <1>1, StartsBy, AttLoadBody DEF Inv
<1>3. pend[t] = {} /\ pend'[t] = {"AttLoad"}
    BY <1>2 DEF Starts
<1>4. TypeOK' /\ Same(t)
  <2>1. /\ ops' \in 0..MaxOps
        /\ op' \in [Threads -> {"none", "promote", "acquire", "check"}]
        /\ \A u \in Threads : u # t => op'[u] = op[u]
    BY <1>1 DEF Inv, TypeOK, RefBaseConstants
  <2> QED
    BY <1>1, <1>2, <2>1 DEF Inv, TypeOK, Starts, Same, counts, memory, hooks, owners
<1>5. TagOf(t) /\ BackOf(t) /\ op[t] = "none"
  <2>1. TagOf(t) /\ BackOf(t) /\ op[t] \in {"none", "promote", "acquire", "check"}
    BY DEF Inv, TypeOK, Locals, TagInv, BackInv
  <2> QED
    BY <1>3, <2>1 DEF TagOf, Trying
<1>6. /\ UNCHANGED <<gains, drops, wgains, wdrops, owing, lasts, bases, refdrops, freeing,
                     comings, onfirst, onlast, dying, stripped>>
      /\ t \notin tries /\ t \in tries'
    BY <1>1, <1>3, <1>4, ThreadSets DEF Moved, drops, gains, tries, wgains, wdrops, owing,
       lasts, bases, refdrops, freeing, comings, onfirst, onlast, dying, stripped, Adding, Trying,
       Destroyed
<1>7. /\ UNCHANGED <<raw, atomicStrong, atomicWeak, atomicRefCount, callback, object, counter,
                     acquired, sptrs, wptrs, wrc, extended, firstCalls, lastCalls>>
      /\ sptrs'[t] = sptrs[t]
      /\ acquired \in Nat /\ atomicWeak \in Nat /\ sptrs[t] \in Nat /\ tgt'[t] = tgt[t]
          /\ op'[t] = "acquire" /\ cur'[t] = cur[t]
      /\ ops' = ops + 1 /\ t \in IpcThreads /\ (t \in raw \/ sptrs[t] > 0)
    BY <1>1 DEF counts, memory, owners, hooks, Inv, TypeOK
<1>8. WrcSame(t)
    BY <1>3, <1>7, <1>1 DEF WrcSame
<1>9. Counts' /\ Memory'
  <2>1. WrcInv' /\ readies' = readies /\ builts' = builts
    BY <1>4, <1>8, WrcStep
  <2>2. strong'[t] = strong[t] /\ weak'[t] = weak[t] /\ strong[t] \in Nat
    BY <1>6, <1>7 DEF strong, weak, One
  <2>3. claims'[t] = claims[t] + 1 /\ claims[t] \in Nat
    BY <1>6, <2>2 DEF claims, One
  <2>4. claims'[t] + One(raw' # {}) - ops' <= claims[t] + One(raw # {}) - ops
    <3>1. ops \in Int
      BY DEF Inv, TypeOK
    <3> QED
      BY <1>7, <2>3, <3>1 DEF One
  <2>5. Alive' <=> Alive
    BY <1>6, <1>7, Frames
  <2>6. owing \subseteq gains'
    BY <1>6 DEF Inv, Counts, OwingInv
  <2>7. CallbackInv'
    BY <1>6, <1>7, Frames
  <2>8. HookInv'
    BY <1>4, <1>6, <1>7, Frames DEF Same, hooks
  <2> QED
    BY <1>4, <1>6, <1>7, <2>1, <2>2, <2>4, <2>5, <2>6, <2>7, <2>8, QuietStep
<1>10. Locals'
  <2>1. Knows(t)
    BY <1>7 DEF Knows
  <2>2. TagOf(t)'
    BY <1>1, <1>3, <1>5, <1>7 DEF TagOf, Trying
  <2>3. BackOf(t)'
    BY <1>1, <1>3, <1>5, <1>7 DEF BackOf, Adding
  <2>4. t \in raw => /\ pend'[t] \subseteq RawSteps /\ atomicStrong' > 0 /\ op'[t] # "none"
    BY <1>3, <1>7 DEF Inv, Locals, RawInv, RawSteps, Only
  <2> QED
    BY <1>4, <1>7, <2>1, <2>2, <2>3, <2>4, LocalsStep
<1> QED
    BY <1>2, <1>4, <1>9, <1>10 DEF Inv, Starts

\* RefBase::AttemptIncStrong.
LEMMA AttemptIncStrongKeeps ==
    ASSUME RefBaseConstants, Inv, NEW t \in Threads, AttemptIncStrong(t)
    PROVE  Inv'
<1>1. /\ t \in IpcThreads /\ sptrs[t] > 0
      /\ ops < MaxOps /\ ops' = ops + 1
      /\ Begin(t, <<"IncWeak", "AttSLoad">>)
      /\ UNCHANGED <<counts, memory, owners, cur, tgt, op, hooks>>
    BY DEF AttemptIncStrong, Spend
<1>2. Starts(t, {"IncWeak", "AttSLoad"})
    BY <1>1, StartsBy, AttemptBody DEF Inv
<1>3. pend[t] = {} /\ pend'[t] = {"IncWeak", "AttSLoad"}
    BY <1>2 DEF Starts
<1>4. TypeOK' /\ Same(t)
  <2>1. /\ ops' \in 0..MaxOps
    BY <1>1 DEF Inv, TypeOK, RefBaseConstants
  <2> QED
    BY <1>1, <1>2, <2>1 DEF Inv, TypeOK, Starts, Same, counts, memory, hooks, owners
<1>5. TagOf(t) /\ BackOf(t) /\ op[t] = "none"
  <2>1. TagOf(t) /\ BackOf(t) /\ op[t] \in {"none", "promote", "acquire", "check"}
    BY DEF Inv, TypeOK, Locals, TagInv, BackInv
  <2> QED
    BY <1>3, <2>1 DEF TagOf, Trying
<1>6. /\ UNCHANGED <<gains, drops, wgains, wdrops, owing, lasts, bases, refdrops, freeing,
                     onfirst, onlast, dying, stripped>>
      /\ t \in comings'
      /\ t \notin tries /\ t \in tries'
    BY <1>1, <1>3, <1>4, ThreadSets DEF Moved, drops, gains, tries, wgains, wdrops, owing,
       lasts, bases, refdrops, freeing, comings, onfirst, onlast, dying, stripped, Adding, Trying,
       Destroyed
<1>7. /\ UNCHANGED <<raw, atomicStrong, atomicWeak, atomicRefCount, callback, object, counter,
                     acquired, sptrs, wptrs, wrc, extended, firstCalls, lastCalls>>
      /\ sptrs'[t] = sptrs[t]
      /\ acquired \in Nat /\ atomicWeak \in Nat /\ sptrs[t] \in Nat /\ tgt'[t] = tgt[t]
          /\ op'[t] = op[t] /\ cur'[t] = cur[t]
      /\ ops' = ops + 1 /\ t \in IpcThreads /\ sptrs[t] > 0
    BY <1>1 DEF counts, memory, owners, hooks, Inv, TypeOK
<1>8. WrcSame(t)
    BY <1>3, <1>7, <1>1 DEF WrcSame
<1>9. Counts' /\ Memory'
  <2>1. WrcInv' /\ readies' = readies /\ builts' = builts
    BY <1>4, <1>8, WrcStep
  <2>2. strong'[t] = strong[t] /\ weak'[t] = weak[t] /\ strong[t] \in Nat
    BY <1>6, <1>7 DEF strong, weak, One
  <2>3. claims'[t] = claims[t] + 1 /\ claims[t] \in Nat
    BY <1>6, <2>2 DEF claims, One
  <2>4. claims'[t] + One(raw' # {}) - ops' <= claims[t] + One(raw # {}) - ops
    <3>1. ops \in Int
      BY DEF Inv, TypeOK
    <3> QED
      BY <1>7, <2>3, <3>1 DEF One
  <2>5. Alive' <=> Alive
    <3>1. Alive'
      BY <1>6 DEF Alive
    <3>2. Alive
      <4>1. weak[t] > 0
        BY <1>6, <1>7 DEF weak, One
      <4>2. atomicWeak > 0
        BY <1>7, <4>1, WeakFacts
      <4> QED
        BY <4>2 DEF Alive
    <3> QED
      BY <3>1, <3>2
  <2>6. owing \subseteq gains'
    BY <1>6 DEF Inv, Counts, OwingInv
  <2>7. CallbackInv'
    BY <1>6, <1>7, Frames
  <2>8. HookInv'
    BY <1>4, <1>6, <1>7, Frames DEF Same, hooks
  <2> QED
    BY <1>4, <1>6, <1>7, <2>1, <2>2, <2>4, <2>5, <2>6, <2>7, <2>8, QuietStep
<1>10. Locals'
  <2>1. Knows(t)
    BY <1>7 DEF Knows
  <2>2. TagOf(t)'
    BY <1>1, <1>3, <1>5, <1>7 DEF TagOf, Trying
  <2>3. BackOf(t)'
    BY <1>1, <1>3, <1>5, <1>7 DEF BackOf, Adding
  <2>4. t \notin raw
    BY <1>7 DEF Inv, Locals, RawInv, Only
  <2> QED
    BY <1>4, <1>7, <2>1, <2>2, <2>3, <2>4, LocalsStep
<1> QED
    BY <1>2, <1>4, <1>9, <1>10 DEF Inv, Starts

\* RefBase::CheckIsAttemptAcquireSet.
LEMMA CheckIsAttemptAcquireSetKeeps ==
    ASSUME RefBaseConstants, Inv, NEW t \in Threads, CheckIsAttemptAcquireSet(t)
    PROVE  Inv'
<1>1. /\ t \in IpcThreads /\ sptrs[t] > 0 /\ acquired > 0
      /\ Begin(t, <<"CheckAttempt">>)
      /\ UNCHANGED <<counts, memory, owners, cur, tgt, op, hooks, ops>>
    BY DEF CheckIsAttemptAcquireSet, Spend
<1>2. Starts(t, {"CheckAttempt"})
    BY <1>1, StartsBy, CheckBody DEF Inv
<1>3. pend[t] = {} /\ pend'[t] = {"CheckAttempt"}
    BY <1>2 DEF Starts
<1>4. TypeOK' /\ Same(t)
    BY <1>1, <1>2 DEF Inv, TypeOK, Starts, Same, counts, memory, hooks, owners
<1>5. TagOf(t) /\ BackOf(t) /\ op[t] = "none"
  <2>1. TagOf(t) /\ BackOf(t) /\ op[t] \in {"none", "promote", "acquire", "check"}
    BY DEF Inv, TypeOK, Locals, TagInv, BackInv
  <2> QED
    BY <1>3, <2>1 DEF TagOf, Trying
<1>6. /\ UNCHANGED <<gains, drops, tries, wgains, wdrops, owing, lasts, bases, refdrops,
                     freeing, comings, onfirst, onlast, dying, stripped>>
      /\ t \notin tries
    BY <1>1, <1>3, <1>4, ThreadSets DEF Moved, drops, gains, tries, wgains, wdrops, owing,
       lasts, bases, refdrops, freeing, comings, onfirst, onlast, dying, stripped, Adding, Trying,
       Destroyed
<1>7. /\ UNCHANGED <<raw, atomicStrong, atomicWeak, atomicRefCount, callback, object, counter,
                     acquired, sptrs, wptrs, wrc, extended, firstCalls, lastCalls>>
      /\ sptrs'[t] = sptrs[t]
      /\ acquired \in Nat /\ atomicWeak \in Nat /\ sptrs[t] \in Nat /\ tgt'[t] = tgt[t]
          /\ op'[t] = op[t] /\ cur'[t] = cur[t]
      /\ ops' = ops + 0 /\ t \in IpcThreads /\ sptrs[t] > 0 /\ acquired > 0
    BY <1>1 DEF counts, memory, owners, hooks, Inv, TypeOK
<1>8. WrcSame(t)
    BY <1>3, <1>7, <1>1 DEF WrcSame
<1>9. Counts' /\ Memory'
  <2>1. WrcInv' /\ readies' = readies /\ builts' = builts
    BY <1>4, <1>8, WrcStep
  <2>2. strong'[t] = strong[t] /\ weak'[t] = weak[t] /\ strong[t] \in Nat
    BY <1>6, <1>7 DEF strong, weak, One
  <2>3. claims'[t] = claims[t] + 0 /\ claims[t] \in Nat
    BY <1>6, <2>2 DEF claims, One
  <2>4. claims'[t] + One(raw' # {}) - ops' <= claims[t] + One(raw # {}) - ops
    <3>1. ops \in Int
      BY DEF Inv, TypeOK
    <3> QED
      BY <1>7, <2>3, <3>1 DEF One
  <2>5. Alive' <=> Alive
    BY <1>6, <1>7, Frames
  <2>6. owing \subseteq gains'
    BY <1>6 DEF Inv, Counts, OwingInv
  <2>7. CallbackInv'
    BY <1>6, <1>7, Frames
  <2>8. HookInv'
    BY <1>4, <1>6, <1>7, Frames DEF Same, hooks
  <2> QED
    BY <1>4, <1>6, <1>7, <2>1, <2>2, <2>4, <2>5, <2>6, <2>7, <2>8, QuietStep
<1>10. Locals'
  <2>1. Knows(t)
    BY <1>7 DEF Knows
  <2>2. TagOf(t)'
    BY <1>1, <1>3, <1>5, <1>7 DEF TagOf, Trying
  <2>3. BackOf(t)'
    BY <1>1, <1>3, <1>5, <1>7 DEF BackOf, Adding
  <2>4. t \notin raw
    BY <1>7 DEF Inv, Locals, RawInv, Only
  <2> QED
    BY <1>4, <1>7, <2>1, <2>2, <2>3, <2>4, LocalsStep
<1> QED
    BY <1>2, <1>4, <1>9, <1>10 DEF Inv, Starts

\* wptr::promote.
LEMMA PromoteKeeps ==
    ASSUME RefBaseConstants, Inv, NEW t \in Threads, NEW w \in Wrcs, Promote(t, w)
    PROVE  Inv'
<1>1. /\ wptrs[t][w] > 0 /\ ops < MaxOps /\ ops' = ops + 1
      /\ Begin(t, <<"AttLoad">>) /\ tgt' = [tgt EXCEPT ![t] = w]
      /\ UNCHANGED <<counts, memory, owners, cur, op, hooks>>
    BY DEF Promote, Spend
<1>2. Starts(t, {"AttLoad"})
    BY <1>1, StartsBy, AttLoadBody DEF Inv
<1>3. pend[t] = {} /\ pend'[t] = {"AttLoad"}
    BY <1>2 DEF Starts
<1>4. TypeOK' /\ Same(t)
  <2>1. /\ ops' \in 0..MaxOps
        /\ tgt' \in [Threads -> Wrcs] /\ tgt'[t] = w /\ \A u \in Threads : u # t => tgt'[u] = tgt[u]
    BY <1>1 DEF Inv, TypeOK, RefBaseConstants
  <2> QED
    BY <1>1, <1>2, <2>1 DEF Inv, TypeOK, Starts, Same, counts, memory, owners, hooks
<1>5. TagOf(t) /\ BackOf(t) /\ op[t] = "none"
  <2>1. TagOf(t) /\ BackOf(t) /\ op[t] \in {"none", "promote", "acquire", "check"}
    BY DEF Inv, TypeOK, Locals, TagInv, BackInv
  <2> QED
    BY <1>3, <2>1 DEF TagOf, Trying
<1>6. /\ UNCHANGED <<gains, drops, wgains, wdrops, owing, lasts, bases, refdrops, freeing,
                     comings, onfirst, onlast, dying, stripped>>
      /\ t \notin tries /\ t \in tries'
    BY <1>1, <1>3, <1>4, ThreadSets DEF Moved, drops, gains, tries, wgains, wdrops, owing,
       lasts, bases, refdrops, freeing, comings, onfirst, onlast, dying, stripped, Adding, Trying,
       Destroyed
<1>7. /\ UNCHANGED <<raw, atomicStrong, atomicWeak, atomicRefCount, callback, object, counter,
                     acquired, sptrs, wptrs, wrc, extended, firstCalls, lastCalls>>
      /\ tgt'[t] = w /\ op'[t] = op[t] /\ cur'[t] = cur[t]
      /\ acquired \in Nat /\ atomicWeak \in Nat /\ sptrs[t] \in Nat /\ wptrs[t][w] \in Nat
      /\ ops' = ops + 1 /\ wptrs[t][w] > 0
    BY <1>1 DEF counts, memory, owners, hooks, Inv, TypeOK
<1>8. WrcInv' /\ readies' = readies /\ builts' = builts
  <2>1. /\ t \notin newers[w] /\ t \notin newers'[w] /\ t \notin holders[w] /\ t \notin holders'[w]
        /\ t \notin raisers[w] /\ t \notin raisers'[w] /\ t \notin freers[w] /\ t \notin freers'[w]
        /\ t \notin users[w] /\ t \notin users'[w]
    BY <1>3, <1>7 DEF newers, holders, raisers, freers, users
  <2>2. /\ newers'[w] = newers[w] /\ holders'[w] = holders[w] /\ raisers'[w] = raisers[w]
        /\ freers'[w] = freers[w]
    BY <1>4, <2>1, ThreadSets DEF Moved
  <2>3. on'[w][t] = on[w][t]
    BY <1>7, <2>1 DEF on, One
  <2>4. WrcAt(w)' /\ (w \in ready' <=> w \in ready) /\ (w \in built' <=> w \in built)
    BY <1>4, <1>7, <2>2, <2>3, WrcKept
  <2>5. WrcElse(t, w)
    BY <1>3, <1>7 DEF WrcElse, WrcIdle
  <2> QED
    BY <1>4, <2>4, <2>5, WrcMoves DEF One
<1>9. Counts' /\ Memory'
  <2>1. WrcInv' /\ readies' = readies /\ builts' = builts
    BY <1>8
  <2>2. strong'[t] = strong[t] /\ weak'[t] = weak[t] /\ strong[t] \in Nat
    BY <1>6, <1>7 DEF strong, weak, One
  <2>3. claims'[t] = claims[t] + 1 /\ claims[t] \in Nat
    BY <1>6, <2>2 DEF claims, One
  <2>4. claims'[t] + One(raw' # {}) - ops' <= claims[t] + One(raw # {}) - ops
    <3>1. ops \in Int
      BY DEF Inv, TypeOK
    <3> QED
      BY <1>7, <2>3, <3>1 DEF One
  <2>5. Alive' <=> Alive
    BY <1>6, <1>7, Frames
  <2>6. owing \subseteq gains'
    BY <1>6 DEF Inv, Counts, OwingInv
  <2>7. CallbackInv'
    BY <1>6, <1>7, Frames
  <2>8. HookInv'
    BY <1>4, <1>6, <1>7, Frames DEF Same, hooks
  <2> QED
    BY <1>4, <1>6, <1>7, <2>1, <2>2, <2>4, <2>5, <2>6, <2>7, <2>8, QuietStep
<1>10. Locals'
  <2>1. Knows(t)
    BY <1>7 DEF Knows
  <2>2. TagOf(t)'
    BY <1>1, <1>3, <1>5, <1>7 DEF TagOf, Trying
  <2>3. BackOf(t)'
    BY <1>1, <1>3, <1>5, <1>7 DEF BackOf, Adding
  <2>4. t \notin raw
    BY <1>7 DEF Inv, Locals, RawInv, Only
  <2> QED
    BY <1>4, <1>7, <2>1, <2>2, <2>3, <2>4, LocalsStep
<1> QED
    BY <1>2, <1>4, <1>9, <1>10 DEF Inv, Starts

\* sptr = wptr, when the sptr refers to the object.
LEMMA AssignFromWptrDropKeeps ==
    ASSUME RefBaseConstants, Inv, NEW t \in Threads, NEW w \in Wrcs,
           wptrs[t][w] > 0, Spend, sptrs[t] > 0, sptrs' = [sptrs EXCEPT ![t] = @ - 1],
              Begin(t, (DecStrongRef \o <<"TestPtr">>)),
           tgt' = [tgt EXCEPT ![t] = w], UNCHANGED <<counts, memory, raw, wptrs, acquired,
              cur, op, hooks>>
    PROVE  Inv'
<1>1. /\ wptrs[t][w] > 0 /\ ops < MaxOps /\ ops' = ops + 1
      /\ sptrs[t] > 0 /\ sptrs' = [sptrs EXCEPT ![t] = @ - 1]
      /\ Begin(t, (DecStrongRef \o <<"TestPtr">>))
      /\ tgt' = [tgt EXCEPT ![t] = w]
      /\ UNCHANGED <<counts, memory, raw, wptrs, acquired, cur, op, hooks>>
    BY DEF Spend
<1>2. Starts(t, {"DecStrongLoad", "DecWeakLoad", "TestPtr"})
  <2>1. PICK body : body = DecStrongRef \o <<"TestPtr">>
    OBVIOUS
  <2>2. /\ body \in Seq(Steps) /\ WellFormed(body)
        /\ Items(body) = {"DecStrongLoad", "DecWeakLoad", "TestPtr"}
    BY <2>1, DropTestBody
  <2>3. Stacked /\ Begin(t, body)
    BY <1>1, <2>1 DEF Inv
  <2>4. Starts(t, Items(body))
    BY <2>2, <2>3, StartsBy
  <2> QED
    BY <2>2, <2>4
<1>3. pend[t] = {} /\ pend'[t] = {"DecStrongLoad", "DecWeakLoad", "TestPtr"}
    BY <1>2 DEF Starts
<1>4. TypeOK' /\ Same(t)
  <2>1. /\ ops' \in 0..MaxOps
        /\ tgt' \in [Threads -> Wrcs] /\ tgt'[t] = w /\ \A u \in Threads : u # t => tgt'[u] = tgt[u]
        /\ sptrs' \in [Threads -> Nat] /\ \A u \in Threads : u # t => sptrs'[u] = sptrs[u]
    BY <1>1 DEF Inv, TypeOK, RefBaseConstants
  <2> QED
    BY <1>1, <1>2, <2>1 DEF Inv, TypeOK, Starts, Same, counts, memory, hooks
<1>5. TagOf(t) /\ BackOf(t) /\ op[t] = "none"
  <2>1. TagOf(t) /\ BackOf(t) /\ op[t] \in {"none", "promote", "acquire", "check"}
    BY DEF Inv, TypeOK, Locals, TagInv, BackInv
  <2> QED
    BY <1>3, <2>1 DEF TagOf, Trying
<1>6. /\ UNCHANGED <<gains, wgains, owing, lasts, bases, refdrops, freeing, comings,
                     onfirst, onlast, dying, stripped>>
      /\ t \notin tries /\ t \in tries'
      /\ t \notin drops /\ t \in drops' /\ t \notin wdrops /\ t \in wdrops'
    BY <1>1, <1>3, <1>4, ThreadSets DEF Moved, drops, gains, tries, wgains, wdrops, owing,
       lasts, bases, refdrops, freeing, comings, onfirst, onlast, dying, stripped, Adding, Trying,
       Destroyed
<1>7. /\ UNCHANGED <<raw, atomicStrong, atomicWeak, atomicRefCount, callback, object,
                     counter, acquired, wptrs, wrc, extended, firstCalls, lastCalls>>
      /\ tgt'[t] = w /\ op'[t] = op[t] /\ cur'[t] = cur[t]
      /\ acquired \in Nat /\ atomicWeak \in Nat /\ sptrs[t] \in Nat /\ wptrs[t][w] \in Nat
      /\ ops' = ops + 1 /\ wptrs[t][w] > 0 /\ sptrs'[t] = sptrs[t] - 1 /\ sptrs[t] > 0
    BY <1>1 DEF counts, memory, owners, hooks, Inv, TypeOK
<1>8. WrcInv' /\ readies' = readies /\ builts' = builts
  <2>1. /\ t \notin newers[w] /\ t \notin newers'[w] /\ t \notin holders[w] /\ t \notin holders'[w]
        /\ t \notin raisers[w] /\ t \notin raisers'[w] /\ t \notin freers[w] /\ t \notin freers'[w]
        /\ t \notin users[w] /\ t \notin users'[w]
    BY <1>3, <1>7 DEF newers, holders, raisers, freers, users
  <2>2. /\ newers'[w] = newers[w] /\ holders'[w] = holders[w] /\ raisers'[w] = raisers[w]
        /\ freers'[w] = freers[w]
    BY <1>4, <2>1, ThreadSets DEF Moved
  <2>3. on'[w][t] = on[w][t]
    BY <1>7, <2>1 DEF on, One
  <2>4. WrcAt(w)' /\ (w \in ready' <=> w \in ready) /\ (w \in built' <=> w \in built)
    BY <1>4, <1>7, <2>2, <2>3, WrcKept
  <2>5. WrcElse(t, w)
    BY <1>3, <1>7 DEF WrcElse, WrcIdle
  <2> QED
    BY <1>4, <2>4, <2>5, WrcMoves DEF One
<1>9. Counts' /\ Memory'
  <2>1. WrcInv' /\ readies' = readies /\ builts' = builts
    BY <1>8
  <2>2. strong'[t] = strong[t] /\ weak'[t] = weak[t] /\ strong[t] \in Nat
    BY <1>6, <1>7 DEF strong, weak, One
  <2>3. claims'[t] = claims[t] + 1 /\ claims[t] \in Nat
    BY <1>6, <2>2 DEF claims, One
  <2>4. claims'[t] + One(raw' # {}) - ops' <= claims[t] + One(raw # {}) - ops
    <3>1. ops \in Int
      BY DEF Inv, TypeOK
    <3> QED
      BY <1>7, <2>3, <3>1 DEF One
  <2>5. Alive' <=> Alive
    BY <1>6, <1>7, Frames
  <2>6. owing \subseteq gains'
    BY <1>6 DEF Inv, Counts, OwingInv
  <2>7. CallbackInv'
    BY <1>6, <1>7, Frames
  <2>8. HookInv'
    BY <1>4, <1>6, <1>7, Frames DEF Same, hooks
  <2> QED
    BY <1>4, <1>6, <1>7, <2>1, <2>2, <2>4, <2>5, <2>6, <2>7, <2>8, QuietStep
<1>10. Locals'
  <2>1. Knows(t)
    BY <1>7 DEF Knows
  <2>2. TagOf(t)'
    BY <1>1, <1>3, <1>5, <1>7 DEF TagOf, Trying
  <2>3. BackOf(t)'
    BY <1>1, <1>3, <1>5, <1>7 DEF BackOf, Adding
  <2>4. t \notin raw
    BY <1>7 DEF Inv, Locals, RawInv, Only
  <2> QED
    BY <1>4, <1>7, <2>1, <2>2, <2>3, <2>4, LocalsStep
<1> QED
    BY <1>2, <1>4, <1>9, <1>10 DEF Inv, Starts

\* sptr = wptr, when the sptr is null.
LEMMA AssignFromWptrNullKeeps ==
    ASSUME RefBaseConstants, Inv, NEW t \in Threads, NEW w \in Wrcs,
           wptrs[t][w] > 0, Spend, UNCHANGED sptrs, Begin(t, <<"TestPtr">>),
           tgt' = [tgt EXCEPT ![t] = w], UNCHANGED <<counts, memory, raw, wptrs, acquired,
              cur, op, hooks>>
    PROVE  Inv'
<1>1. /\ wptrs[t][w] > 0 /\ ops < MaxOps /\ ops' = ops + 1
      /\ UNCHANGED sptrs
      /\ Begin(t, <<"TestPtr">>)
      /\ tgt' = [tgt EXCEPT ![t] = w]
      /\ UNCHANGED <<counts, memory, raw, wptrs, acquired, cur, op, hooks>>
    BY DEF Spend
<1>2. Starts(t, {"TestPtr"})
    BY <1>1, StartsBy, TestPtrBody DEF Inv
<1>3. pend[t] = {} /\ pend'[t] = {"TestPtr"}
    BY <1>2 DEF Starts
<1>4. TypeOK' /\ Same(t)
  <2>1. /\ ops' \in 0..MaxOps
        /\ tgt' \in [Threads -> Wrcs] /\ tgt'[t] = w /\ \A u \in Threads : u # t => tgt'[u] = tgt[u]
    BY <1>1 DEF Inv, TypeOK, RefBaseConstants
  <2> QED
    BY <1>1, <1>2, <2>1 DEF Inv, TypeOK, Starts, Same, counts, memory, hooks
<1>5. TagOf(t) /\ BackOf(t) /\ op[t] = "none"
  <2>1. TagOf(t) /\ BackOf(t) /\ op[t] \in {"none", "promote", "acquire", "check"}
    BY DEF Inv, TypeOK, Locals, TagInv, BackInv
  <2> QED
    BY <1>3, <2>1 DEF TagOf, Trying
<1>6. /\ UNCHANGED <<gains, drops, wgains, wdrops, owing, lasts, bases, refdrops, freeing,
                     comings, onfirst, onlast, dying, stripped>>
      /\ t \notin tries /\ t \in tries'
    BY <1>1, <1>3, <1>4, ThreadSets DEF Moved, drops, gains, tries, wgains, wdrops, owing,
       lasts, bases, refdrops, freeing, comings, onfirst, onlast, dying, stripped, Adding, Trying,
       Destroyed
<1>7. /\ UNCHANGED <<raw, atomicStrong, atomicWeak, atomicRefCount, callback, object, counter,
                     acquired, sptrs, wptrs, wrc, extended, firstCalls, lastCalls>>
      /\ tgt'[t] = w /\ op'[t] = op[t] /\ cur'[t] = cur[t]
      /\ acquired \in Nat /\ atomicWeak \in Nat /\ sptrs[t] \in Nat /\ wptrs[t][w] \in Nat
      /\ ops' = ops + 1 /\ wptrs[t][w] > 0 /\ sptrs'[t] = sptrs[t]
    BY <1>1 DEF counts, memory, owners, hooks, Inv, TypeOK
<1>8. WrcInv' /\ readies' = readies /\ builts' = builts
  <2>1. /\ t \notin newers[w] /\ t \notin newers'[w] /\ t \notin holders[w] /\ t \notin holders'[w]
        /\ t \notin raisers[w] /\ t \notin raisers'[w] /\ t \notin freers[w] /\ t \notin freers'[w]
        /\ t \notin users[w] /\ t \notin users'[w]
    BY <1>3, <1>7 DEF newers, holders, raisers, freers, users
  <2>2. /\ newers'[w] = newers[w] /\ holders'[w] = holders[w] /\ raisers'[w] = raisers[w]
        /\ freers'[w] = freers[w]
    BY <1>4, <2>1, ThreadSets DEF Moved
  <2>3. on'[w][t] = on[w][t]
    BY <1>7, <2>1 DEF on, One
  <2>4. WrcAt(w)' /\ (w \in ready' <=> w \in ready) /\ (w \in built' <=> w \in built)
    BY <1>4, <1>7, <2>2, <2>3, WrcKept
  <2>5. WrcElse(t, w)
    BY <1>3, <1>7 DEF WrcElse, WrcIdle
  <2> QED
    BY <1>4, <2>4, <2>5, WrcMoves DEF One
<1>9. Counts' /\ Memory'
  <2>1. WrcInv' /\ readies' = readies /\ builts' = builts
    BY <1>8
  <2>2. strong'[t] = strong[t] /\ weak'[t] = weak[t] /\ strong[t] \in Nat
    BY <1>6, <1>7, Frames, Parts DEF Inv
  <2>3. claims'[t] = claims[t] + 1 /\ claims[t] \in Nat
    BY <1>6, <2>2 DEF claims, One
  <2>4. claims'[t] + One(raw' # {}) - ops' <= claims[t] + One(raw # {}) - ops
    <3>1. ops \in Int
      BY DEF Inv, TypeOK
    <3> QED
      BY <1>7, <2>3, <3>1 DEF One
  <2>5. Alive' <=> Alive
    BY <1>6, <1>7, Frames
  <2>6. owing \subseteq gains'
    BY <1>6 DEF Inv, Counts, OwingInv
  <2>7. CallbackInv'
    BY <1>6, <1>7, Frames
  <2>8. HookInv'
    BY <1>4, <1>6, <1>7, Frames DEF Same, hooks
  <2> QED
    BY <1>4, <1>6, <1>7, <2>1, <2>2, <2>4, <2>5, <2>6, <2>7, <2>8, QuietStep
<1>10. Locals'
  <2>1. Knows(t)
    BY <1>7 DEF Knows
  <2>2. TagOf(t)'
    BY <1>1, <1>3, <1>5, <1>7 DEF TagOf, Trying
  <2>3. BackOf(t)'
    BY <1>1, <1>3, <1>5, <1>7 DEF BackOf, Adding
  <2>4. t \notin raw
    BY <1>7 DEF Inv, Locals, RawInv, Only
  <2> QED
    BY <1>4, <1>7, <2>1, <2>2, <2>3, <2>4, LocalsStep
<1> QED
    BY <1>2, <1>4, <1>9, <1>10 DEF Inv, Starts

\* sptr = wptr.
LEMMA AssignSptrFromWptrKeeps ==
    ASSUME RefBaseConstants, Inv, NEW t \in Threads, NEW w \in Wrcs, AssignSptrFromWptr(t, w)
    PROVE  Inv'
BY AssignFromWptrDropKeeps, AssignFromWptrNullKeeps DEF AssignSptrFromWptr

\* ~wptr.
LEMMA DropWptrKeeps ==
    ASSUME RefBaseConstants, Inv, NEW t \in Threads, NEW w \in Wrcs, DropWptr(t, w)
    PROVE  Inv'
<1>1. /\ wptrs[t][w] > 0 /\ wptrs' = [wptrs EXCEPT ![t][w] = @ - 1]
      /\ Begin(t, <<"WrcDec">>) /\ tgt' = [tgt EXCEPT ![t] = w]
      /\ UNCHANGED <<counts, memory, raw, sptrs, acquired, cur, op, hooks, ops>>
    BY DEF DropWptr
<1>2. Starts(t, {"WrcDec"})
    BY <1>1, StartsBy, WrcDecBody DEF Inv
<1>3. pend[t] = {} /\ pend'[t] = {"WrcDec"}
    BY <1>2 DEF Starts
<1>4. TypeOK' /\ Same(t)
  <2>1. /\ tgt' \in [Threads -> Wrcs] /\ tgt'[t] = w /\ \A u \in Threads : u # t => tgt'[u] = tgt[u]
        /\ wptrs' \in [Threads -> [Wrcs -> Nat]] /\ \A u \in Threads : u # t => wptrs'[u] = wptrs[u]
    BY <1>1 DEF Inv, TypeOK
  <2> QED
    BY <1>1, <1>2, <2>1 DEF Inv, TypeOK, Starts, Same, counts, memory, hooks
<1>5. TagOf(t) /\ BackOf(t) /\ op[t] = "none"
  <2>1. TagOf(t) /\ BackOf(t) /\ op[t] \in {"none", "promote", "acquire", "check"}
    BY DEF Inv, TypeOK, Locals, TagInv, BackInv
  <2> QED
    BY <1>3, <2>1 DEF TagOf, Trying
<1>6. UNCHANGED <<gains, drops, tries, wgains, wdrops, owing, lasts, bases, refdrops, freeing,
                     comings, onfirst, onlast, dying, stripped>> /\ t \notin tries
    BY <1>1, <1>3, <1>4, ThreadSets DEF Moved, drops, gains, tries, wgains, wdrops, owing,
       lasts, bases, refdrops, freeing, comings, onfirst, onlast, dying, stripped, Adding, Trying,
       Destroyed
<1>7. /\ UNCHANGED <<raw, atomicStrong, atomicWeak, atomicRefCount, callback, object,
                     counter, acquired, sptrs, wrc, extended, firstCalls, lastCalls>>
      /\ tgt'[t] = w /\ op'[t] = op[t] /\ cur'[t] = cur[t]
      /\ acquired \in Nat /\ atomicWeak \in Nat /\ sptrs[t] \in Nat /\ wptrs[t][w] \in Nat
      /\ ops' = ops /\ wptrs[t][w] > 0 /\ wptrs'[t][w] = wptrs[t][w] - 1
      /\ \A x \in Wrcs : x # w => wptrs'[t][x] = wptrs[t][x]
    BY <1>1 DEF counts, memory, owners, hooks, Inv, TypeOK
<1>8. WrcInv' /\ readies' = readies /\ builts' = builts
  <2>1. /\ t \notin newers[w] /\ t \notin newers'[w] /\ t \notin holders[w] /\ t \notin holders'[w]
        /\ t \notin raisers[w] /\ t \notin raisers'[w] /\ t \notin freers[w] /\ t \notin freers'[w]
        /\ t \notin users[w] /\ t \in users'[w]
    BY <1>3, <1>7 DEF newers, holders, raisers, freers, users
  <2>2. /\ newers'[w] = newers[w] /\ holders'[w] = holders[w] /\ raisers'[w] = raisers[w]
        /\ freers'[w] = freers[w]
    BY <1>4, <2>1, ThreadSets DEF Moved
  <2>3. on'[w][t] = on[w][t]
    BY <1>7, <2>1 DEF on, One
  <2>4. WrcAt(w)' /\ (w \in ready' <=> w \in ready) /\ (w \in built' <=> w \in built)
    BY <1>4, <1>7, <2>2, <2>3, WrcKept
  <2>5. WrcElse(t, w)
    BY <1>3, <1>7 DEF WrcElse, WrcIdle
  <2> QED
    BY <1>4, <2>4, <2>5, WrcMoves DEF One
<1>9. Counts' /\ Memory'
  <2>1. WrcInv' /\ readies' = readies /\ builts' = builts
    BY <1>8
  <2>2. strong'[t] = strong[t] /\ weak'[t] = weak[t] /\ strong[t] \in Nat
    BY <1>6, <1>7 DEF strong, weak, One
  <2>3. claims'[t] = claims[t] + 0 /\ claims[t] \in Nat
    BY <1>6, <2>2 DEF claims, One
  <2>4. claims'[t] + One(raw' # {}) - ops' <= claims[t] + One(raw # {}) - ops
    <3>1. ops \in Int
      BY DEF Inv, TypeOK
    <3> QED
      BY <1>7, <2>3, <3>1 DEF One
  <2>5. Alive' <=> Alive
    BY <1>6, <1>7, Frames
  <2>6. owing \subseteq gains'
    BY <1>6 DEF Inv, Counts, OwingInv
  <2>7. CallbackInv'
    BY <1>6, <1>7, Frames
  <2>8. HookInv'
    BY <1>4, <1>6, <1>7, Frames DEF Same, hooks
  <2> QED
    BY <1>4, <1>6, <1>7, <2>1, <2>2, <2>4, <2>5, <2>6, <2>7, <2>8, QuietStep
<1>10. Locals'
  <2>1. Knows(t)
    BY <1>7 DEF Knows
  <2>2. TagOf(t)'
    BY <1>1, <1>3, <1>5, <1>7 DEF TagOf, Trying
  <2>3. BackOf(t)'
    BY <1>1, <1>3, <1>5, <1>7 DEF BackOf, Adding
  <2>4. t \notin raw
    BY <1>7 DEF Inv, Locals, RawInv, Only
  <2> QED
    BY <1>4, <1>7, <2>1, <2>2, <2>3, <2>4, LocalsStep
<1> QED
    BY <1>2, <1>4, <1>9, <1>10 DEF Inv, Starts

\* wptr(const wptr&), wptr = wptr.
LEMMA CopyWptrKeeps ==
    ASSUME RefBaseConstants, Inv, NEW t \in Threads, NEW w \in Wrcs, CopyWptr(t, w)
    PROVE  Inv'
<1>1. /\ wptrs[t][w] > 0 /\ ops < MaxOps /\ ops' = ops + 1
      /\ Begin(t, <<"WrcInc", "GotWptr">>) \/ Assigns(t, <<"WrcInc", "GotWptr">>)
      /\ tgt' = [tgt EXCEPT ![t] = w]
      /\ UNCHANGED <<counts, memory, owners, cur, op, hooks>>
    BY DEF CopyWptr, Spend
<1>2. PICK B \in {{"WrcInc", "GotWptr"}, {"WrcInc", "GotWptr", "DropOld"}} : Starts(t, B)
  <2>1. CASE Begin(t, <<"WrcInc", "GotWptr">>)
    BY <2>1, StartsBy, RaiseBody DEF Inv
  <2>2. CASE Assigns(t, <<"WrcInc", "GotWptr">>)
    <3>1. Begin(t, <<"WrcInc", "GotWptr">> \o <<"DropOld">>)
      BY <2>2 DEF Assigns
    <3> QED
      BY <3>1, StartsBy, RaiseOldBody DEF Inv
  <2> QED
    BY <1>1, <2>1, <2>2
<1>3. pend[t] = {} /\ pend'[t] = B
    BY <1>2 DEF Starts
<1>4. TypeOK' /\ Same(t)
  <2>1. /\ ops' \in 0..MaxOps
        /\ tgt' \in [Threads -> Wrcs] /\ tgt'[t] = w /\ \A u \in Threads : u # t => tgt'[u] = tgt[u]
    BY <1>1 DEF Inv, TypeOK, RefBaseConstants
  <2> QED
    BY <1>1, <1>2, <2>1 DEF Inv, TypeOK, Starts, Same, counts, memory, owners, hooks
<1>5. TagOf(t) /\ BackOf(t) /\ op[t] = "none"
  <2>1. TagOf(t) /\ BackOf(t) /\ op[t] \in {"none", "promote", "acquire", "check"}
    BY DEF Inv, TypeOK, Locals, TagInv, BackInv
  <2> QED
    BY <1>3, <2>1 DEF TagOf, Trying
<1>6. /\ UNCHANGED <<gains, drops, tries, wgains, wdrops, owing, lasts, bases, refdrops,
                     freeing, onfirst, onlast, dying, stripped>>
      /\ t \in comings' /\ t \notin tries
    BY <1>1, <1>2, <1>3, <1>4, ThreadSets DEF Moved, drops, gains, tries, wgains, wdrops, owing,
       lasts, bases, refdrops, freeing, comings, onfirst, onlast, dying, stripped, Adding, Trying,
       Destroyed
<1>7. /\ UNCHANGED <<raw, atomicStrong, atomicWeak, atomicRefCount, callback, object, counter,
                     acquired, sptrs, wptrs, wrc, extended, firstCalls, lastCalls>>
      /\ tgt'[t] = w /\ op'[t] = op[t] /\ cur'[t] = cur[t]
      /\ acquired \in Nat /\ atomicWeak \in Nat /\ sptrs[t] \in Nat /\ wptrs[t][w] \in Nat
      /\ ops' = ops + 1 /\ wptrs[t][w] > 0
    BY <1>1 DEF counts, memory, owners, hooks, Inv, TypeOK
<1>11. /\ on[w][t] > 0 /\ wrc[w].weak > 0 /\ wrc[w].state = "live" /\ Alive
  <2>1. on[w][t] > 0
    BY <1>7 DEF on, One
  <2> QED
    BY <2>1, WeakFacts
<1>8. WrcInv' /\ readies' = readies /\ builts' = builts
  <2>1. /\ t \notin newers[w] /\ t \notin newers'[w] /\ t \notin holders[w] /\ t \in holders'[w]
        /\ t \notin raisers[w] /\ t \notin raisers'[w] /\ t \notin freers[w] /\ t \notin freers'[w]
        /\ t \notin users[w] /\ t \notin users'[w]
    BY <1>2, <1>3, <1>7 DEF newers, holders, raisers, freers, users
  <2>2. newers'[w] = newers[w] /\ raisers'[w] = raisers[w] /\ freers'[w] = freers[w]
    BY <1>4, <2>1, ThreadSets DEF Moved
  <2>3. Total(on'[w]) = Total(on[w])
    <3>1. on[w][t] \in Nat /\ Total(on[w]) \in Nat
          /\ Total(on'[w]) = Total(on[w]) + on'[w][t] - on[w][t]
      BY <1>4, Sums, Summands DEF Inv
    <3>2. on'[w][t] = on[w][t]
      BY <1>7, <2>1 DEF on, One
    <3> QED
      BY <3>1, <3>2
  <2>4. WrcAt(w) /\ wrc'[w] = wrc[w]
    BY <1>7 DEF Inv, Counts, WrcInv
  <2>5. WrcAt(w)'
    BY <1>11, <2>2, <2>3, <2>4 DEF WrcAt
  <2>6. WrcElse(t, w)
    BY <1>3, <1>7 DEF WrcElse, WrcIdle
  <2>7. (w \in ready' <=> w \in ready) /\ (w \in built' <=> w \in built)
    BY <2>2, <2>4 DEF ready, built
  <2> QED
    BY <1>4, <2>5, <2>6, <2>7, WrcMoves DEF One
<1>9. Counts' /\ Memory'
  <2>1. WrcInv' /\ readies' = readies /\ builts' = builts
    BY <1>8
  <2>2. strong'[t] = strong[t] /\ weak'[t] = weak[t] /\ strong[t] \in Nat
    BY <1>6, <1>7 DEF strong, weak, One
  <2>3. claims'[t] = claims[t] + 0 /\ claims[t] \in Nat
    BY <1>6, <2>2 DEF claims, One
  <2>4. claims'[t] + One(raw' # {}) - ops' <= claims[t] + One(raw # {}) - ops
    <3>1. ops \in Int
      BY DEF Inv, TypeOK
    <3> QED
      BY <1>7, <2>3, <3>1 DEF One
  <2>5. Alive' <=> Alive
    <3>1. Alive'
      BY <1>6 DEF Alive
    <3>2. Alive
      BY <1>11
    <3> QED
      BY <3>1, <3>2
  <2>6. owing \subseteq gains'
    BY <1>6 DEF Inv, Counts, OwingInv
  <2>7. CallbackInv'
    BY <1>6, <1>7, Frames
  <2>8. HookInv'
    BY <1>4, <1>6, <1>7, Frames DEF Same, hooks
  <2> QED
    BY <1>4, <1>6, <1>7, <2>1, <2>2, <2>4, <2>5, <2>6, <2>7, <2>8, QuietStep
<1>10. Locals'
  <2>1. Knows(t)
    BY <1>7 DEF Knows
  <2>2. TagOf(t)'
    BY <1>1, <1>3, <1>5, <1>7, <1>2 DEF TagOf, Trying
  <2>3. BackOf(t)'
    BY <1>1, <1>3, <1>5, <1>7, <1>2, <1>11 DEF BackOf, Adding
  <2>4. t \notin raw
    BY <1>7 DEF Inv, Locals, RawInv, Only
  <2> QED
    BY <1>4, <1>7, <2>1, <2>2, <2>3, <2>4, LocalsStep
<1> QED
    BY <1>2, <1>4, <1>9, <1>10 DEF Inv, Starts

\* wptr(T *), wptr = T *.
LEMMA MakeWptrKeeps ==
    ASSUME RefBaseConstants, Inv, NEW t \in Threads, NEW w \in Wrcs, MakeWptr(t, w)
    PROVE  Inv'
<1>1. /\ (t \in raw /\ acquired = 0) \/ sptrs[t] > 0
      /\ wrc[w].state = "unused" /\ ops < MaxOps /\ ops' = ops + 1
      /\ Begin(t, NewWptr) \/ Assigns(t, NewWptr)
      /\ wrc' = [wrc EXCEPT ![w].state = "live"]
      /\ tgt' = [tgt EXCEPT ![t] = w]
      /\ raw' = raw \ {t}
      /\ UNCHANGED <<counts, callback, object, counter, sptrs, wptrs, acquired, cur, op, hooks>>
    BY DEF MakeWptr, Spend
<1>2. PICK B \in {{"WrcNew", "WrcInc", "GotWptr"}, {"WrcNew", "WrcInc", "GotWptr",
              "DropOld"}} : Starts(t, B)
  <2>1. CASE Begin(t, NewWptr)
    BY <2>1, StartsBy, NewBody DEF Inv
  <2>2. CASE Assigns(t, NewWptr)
    <3>1. Begin(t, NewWptr \o <<"DropOld">>)
      BY <2>2 DEF Assigns
    <3> QED
      BY <3>1, StartsBy, NewOldBody DEF Inv
  <2> QED
    BY <1>1, <2>1, <2>2
<1>3. pend[t] = {} /\ pend'[t] = B
    BY <1>2 DEF Starts
<1>14. /\ wrc' \in [Wrcs -> [state : {"unused", "live", "deleted"}, weak : Nat]]
       /\ wrc'[w].weak = wrc[w].weak /\ wrc'[w].state = "live" /\ wrc[w].weak \in Nat
       /\ \A x \in Wrcs : x # w => wrc'[x] = wrc[x]
  <2>1. wrc \in [Wrcs -> [state : {"unused", "live", "deleted"}, weak : Nat]]
    BY DEF Inv, TypeOK
  <2>2. wrc[w].weak \in Nat
    BY <2>1
  <2> QED
    BY <1>1, <2>1, <2>2, WrcUpdate
<1>4. TypeOK' /\ Same(t)
  <2>1. /\ ops' \in 0..MaxOps /\ raw' \subseteq Threads
        /\ tgt' \in [Threads -> Wrcs] /\ tgt'[t] = w /\ \A u \in Threads : u # t => tgt'[u] = tgt[u]
    BY <1>1 DEF Inv, TypeOK, RefBaseConstants
  <2> QED
    BY <1>1, <1>2, <1>14, <2>1 DEF Inv, TypeOK, Starts, Same, counts, hooks
<1>5. TagOf(t) /\ BackOf(t) /\ op[t] = "none"
  <2>1. TagOf(t) /\ BackOf(t) /\ op[t] \in {"none", "promote", "acquire", "check"}
    BY DEF Inv, TypeOK, Locals, TagInv, BackInv
  <2> QED
    BY <1>3, <2>1 DEF TagOf, Trying
<1>6. /\ UNCHANGED <<gains, drops, tries, wgains, wdrops, owing, lasts, bases, refdrops,
                     freeing, onfirst, onlast, dying, stripped>>
      /\ t \in comings' /\ t \notin tries
    BY <1>1, <1>2, <1>3, <1>4, ThreadSets DEF Moved, drops, gains, tries, wgains, wdrops, owing,
       lasts, bases, refdrops, freeing, comings, onfirst, onlast, dying, stripped, Adding, Trying,
       Destroyed
<1>7. /\ UNCHANGED <<atomicStrong, atomicWeak, atomicRefCount, callback, object, counter,
                     acquired, sptrs, wptrs, extended, firstCalls, lastCalls>>
      /\ tgt'[t] = w /\ op'[t] = op[t] /\ cur'[t] = cur[t] /\ wrc[w].state = "unused"
      /\ acquired \in Nat /\ atomicWeak \in Nat /\ sptrs[t] \in Nat /\ wptrs[t][w] \in Nat
      /\ raw' = raw \ {t} /\ (t \in raw => raw = {t} /\ Only(t)) /\ ops' = ops + 1
      /\ t \in raw \/ sptrs[t] > 0
    BY <1>1 DEF counts, hooks, Inv, TypeOK, Locals, RawInv
<1>8. WrcInv' /\ readies' = readies /\ builts' = builts /\ wrc[w].weak = 0
  <2>1. WrcAt(w) /\ newers[w] \subseteq holders[w]
    BY NewersHold DEF Inv, Counts, WrcInv
  <2>2. /\ wrc[w].weak = 0 /\ holders[w] = {} /\ freers[w] = {} /\ newers[w] = {} /\ raisers[w] = {}
    BY <1>7, <2>1 DEF WrcAt
  <2>3. /\ t \in newers'[w] /\ t \in holders'[w] /\ t \notin raisers'[w] /\ t \notin freers'[w]
        /\ t \notin users[w] /\ t \notin users'[w]
    BY <1>2, <1>3, <1>7 DEF newers, holders, raisers, freers, users
  <2>4. /\ newers'[w] = {t} /\ holders'[w] = {t} /\ raisers'[w] = {} /\ freers'[w] = {}
    <3>1. /\ Moved(newers'[w], newers[w], t) /\ Moved(holders'[w], holders[w], t)
          /\ Moved(freers'[w], freers[w], t) /\ Moved(raisers'[w], raisers[w], t)
      BY <1>4, ThreadSets
    <3> QED
      BY <2>2, <2>3, <3>1 DEF Moved
  <2>5. Total(on'[w]) = Total(on[w])
    <3>1. on[w][t] \in Nat /\ Total(on[w]) \in Nat
          /\ Total(on'[w]) = Total(on[w]) + on'[w][t] - on[w][t]
      BY <1>4, Sums, Summands DEF Inv
    <3>2. on'[w][t] = on[w][t]
      BY <1>7, <2>3 DEF on, One
    <3> QED
      BY <3>1, <3>2
  <2>6. WrcAt(w)'
    BY <1>14, <2>1, <2>2, <2>4, <2>5 DEF WrcAt, Unique
  <2>7. WrcElse(t, w)
    BY <1>3, <1>7, <1>14 DEF WrcElse, WrcIdle
  <2>8. w \notin ready' /\ w \notin ready /\ w \notin built' /\ w \notin built
    BY <1>7, <1>14, <2>2, <2>4 DEF ready, built
  <2> QED
    BY <1>4, <2>2, <2>6, <2>7, <2>8, WrcMoves DEF One
<1>9. Counts' /\ Memory'
  <2>1. WrcInv' /\ readies' = readies /\ builts' = builts
    BY <1>8
  <2>2. strong'[t] = strong[t] /\ weak'[t] = weak[t] /\ strong[t] \in Nat
    BY <1>6, <1>7 DEF strong, weak, One
  <2>3. claims'[t] = claims[t] + 0 /\ claims[t] \in Nat
    BY <1>6, <2>2 DEF claims, One
  <2>4. claims'[t] + One(raw' # {}) - ops' <= claims[t] + One(raw # {}) - ops
    <3>1. ops \in Int
      BY DEF Inv, TypeOK
    <3> QED
      BY <1>7, <2>3, <3>1 DEF One
  <2>5. Alive' <=> Alive
    <3>1. Alive'
      BY <1>6 DEF Alive
    <3>2. Alive
      <4>1. CASE t \in raw
        BY <4>1 DEF Alive
      <4>2. CASE sptrs[t] > 0
        <5>1. weak[t] > 0
          BY <1>6, <1>7, <4>2 DEF weak, One
        <5>2. atomicWeak > 0
          BY <1>7, <5>1, WeakFacts
        <5> QED
          BY <5>2 DEF Alive
      <4> QED
        BY <1>7, <4>1, <4>2
    <3> QED
      BY <3>1, <3>2
  <2>6. owing \subseteq gains'
    BY <1>6 DEF Inv, Counts, OwingInv
  <2>7. CallbackInv'
    BY <1>6, <1>7, Frames
  <2>8. HookInv'
    BY <1>4, <1>6, <1>7, Frames DEF Same, hooks
  <2> QED
    BY <1>4, <1>6, <1>7, <2>1, <2>2, <2>4, <2>5, <2>6, <2>7, <2>8, QuietStep
<1>10. Locals'
  <2>0. Only(t) => Only(t)'
    BY <1>4, <1>7, OnlyStays DEF Only
  <2>1. Knows(t)
    BY <1>7 DEF Knows
  <2>2. TagOf(t)'
    BY <1>1, <1>3, <1>5, <1>7, <1>2 DEF TagOf, Trying
  <2>3. BackOf(t)'
    BY <1>1, <1>3, <1>5, <1>7, <1>2, <1>8, <1>14, <2>0 DEF BackOf, Adding
  <2>4. t \notin raw'
    BY <1>7
  <2>5. \A u \in Threads : u # t /\ "WrcInc" \in pend[u] =>
               (wrc'[tgt[u]].weak > 0 <=> wrc[tgt[u]].weak > 0)
    BY <1>14 DEF Inv, TypeOK
  <2> QED
    BY <1>4, <1>7, <2>1, <2>2, <2>3, <2>4, <2>5, LocalsStep
<1> QED
    BY <1>2, <1>4, <1>9, <1>10 DEF Inv, Starts

-----------------------------------------------------------------------------
(* Operations that leave every stack as it is.                             *)

\* The situations of the threads depend on their steps and locals only.
LEMMA SetsSame ==
    ASSUME UNCHANGED <<pend, cur, op, tgt, extended>>
    PROVE  /\ UNCHANGED <<gains, drops, tries, owing, wgains, wdrops, lasts, bases, refdrops,
                          freeing, comings, onlast, onfirst, dying, stripped>>
           /\ UNCHANGED <<newers, holders, raisers, freers, users>>
<1>1. UNCHANGED <<gains, drops, tries>>
    BY DEF gains, drops, tries, Adding, Trying, Destroyed
<1>2. UNCHANGED <<owing, wgains, wdrops>>
    BY DEF owing, wgains, wdrops, Trying
<1>3. UNCHANGED <<lasts, bases, refdrops, freeing, comings>>
    BY DEF lasts, bases, refdrops, freeing, comings
<1>4. UNCHANGED <<onlast, onfirst, dying, stripped>>
    BY DEF onlast, onfirst, dying, stripped
<1>5. UNCHANGED <<newers, holders, raisers, freers, users>>
    BY DEF newers, holders, raisers, freers, users
<1> QED
    BY <1>1, <1>2, <1>3, <1>4, <1>5

\* A sum keeps its value when one summand takes one from another.
LEMMA TotalMove ==
    ASSUME NEW X, IsFiniteSet(X), NEW f \in [X -> Nat], NEW g \in [X -> Nat],
           NEW t \in X, NEW u \in X, t # u, g[t] = f[t] - 1, g[u] = f[u] + 1,
           \A v \in X : v # t /\ v # u => g[v] = f[v]
    PROVE  Total(g) = Total(f)
<1> DEFINE h == [f EXCEPT ![t] = g[t]]
<1>1. h \in [X -> Nat] /\ h[t] = g[t] /\ \A v \in X \ {t} : h[v] = f[v]
    OBVIOUS
<1>2. \A v \in X \ {u} : g[v] = h[v]
    BY <1>1
<1>3. h[u] = f[u]
    BY <1>1
<1> HIDE DEF h
<1>4. Total(f) \in Nat /\ Total(h) \in Nat /\ Total(h) = Total(f) + h[t] - f[t]
    BY <1>1, TotalStep
<1>5. Total(g) \in Nat /\ Total(g) = Total(h) + g[u] - h[u]
    BY <1>1, <1>2, TotalStep
<1> QED
    BY <1>1, <1>3, <1>4, <1>5

\* What the invariant says of the threads, when nothing a thread knows of changes.
LEMMA StutterKeeps ==
    ASSUME Inv, UNCHANGED vars
    PROVE  Inv'
<1>1. /\ UNCHANGED <<atomicStrong, atomicWeak, atomicRefCount, atomicAttempt, extended,
                     callback, object, counter, wrc>>
      /\ UNCHANGED <<raw, sptrs, wptrs, acquired, todo, cur, tgt, op, firstCalls, lastCalls, ops>>
    BY DEF vars, counts, memory, owners, hooks
<1>2. TypeOK' /\ Stacked' /\ pend' = pend
    BY <1>1 DEF Inv, TypeOK, Stacked, pend
<1>3. /\ UNCHANGED <<gains, drops, tries, owing, wgains, wdrops, lasts, bases, refdrops,
                     freeing, comings, onlast, onfirst, dying, stripped>>
      /\ UNCHANGED <<newers, holders, raisers, freers, users>>
    BY <1>1, <1>2, SetsSame
<1>4. ready' = ready /\ built' = built /\ on' = on
    BY <1>1, <1>3 DEF ready, built, on
<1>5. WrcInv'
    BY <1>1, <1>3, <1>4 DEF Inv, Counts, WrcInv, WrcAt
<1>6. Alive' = Alive
    BY <1>1, <1>3, Frames
<1>7. Counts' /\ Memory'
  <2>1. StrongInv' /\ OwingInv' /\ BoundInv' /\ WeakInv'
    BY <1>1, <1>3, <1>4, Frames
  <2>2. RefInv' /\ LifeInv' /\ CallbackInv' /\ CounterInv' /\ HookInv'
    BY <1>1, <1>3, <1>4, <1>6, Frames DEF hooks
  <2> QED
    BY <1>5, <2>1, <2>2 DEF Counts, Memory
<1>8. Locals'
  <2>1. RawInv' /\ TagInv'
    BY <1>1, <1>2 DEF Inv, Locals, RawInv, TagInv, TagOf, Trying, Only
  <2>2. BackInv'
    BY <1>1, <1>2 DEF Inv, Locals, BackInv, BackOf, Adding, Only
  <2> QED
    BY <2>1, <2>2 DEF Locals
<1> QED
    BY <1>2, <1>7, <1>8 DEF Inv

\* RefBase::ExtendObjectLifetime.
LEMMA ExtendObjectLifetimeKeeps ==
    ASSUME RefBaseConstants, Inv, NEW t \in Threads, ExtendObjectLifetime(t)
    PROVE  Inv'
<1>1. /\ t \in raw /\ todo[t] = <<>> /\ extended' = TRUE
      /\ UNCHANGED <<atomicStrong, atomicWeak, atomicRefCount, atomicAttempt, callback, object,
                     counter, wrc>>
      /\ UNCHANGED <<raw, sptrs, wptrs, acquired, todo, cur, tgt, op, firstCalls, lastCalls, ops>>
    BY DEF ExtendObjectLifetime, memory, owners, hooks
<1>2. TypeOK' /\ Stacked' /\ pend' = pend
    BY <1>1 DEF Inv, TypeOK, Stacked, pend
<1>3. atomicStrong > 0 /\ \A u \in Threads : pend[u] = {}
  <2>1. Only(t)
    BY <1>1 DEF Inv, Locals, RawInv
  <2>2. pend[t] = {}
    BY <1>1, EmptyStack DEF pend
  <2> QED
    BY <2>1, <2>2 DEF Only
<1>4. /\ gains = {} /\ gains' = {} /\ drops' = drops /\ tries' = tries
      /\ owing' = owing /\ wgains' = wgains /\ wdrops' = wdrops
    BY <1>1, <1>2, <1>3 DEF gains, drops, tries, owing, wgains, wdrops, Adding, Trying
<1>5. /\ UNCHANGED <<lasts, bases, refdrops, freeing, comings, onlast, onfirst, stripped>>
      /\ dying = {} /\ dying' = {} /\ lasts = {} /\ bases = {}
    BY <1>1, <1>2, <1>3 DEF lasts, bases, refdrops, freeing, comings, onlast, onfirst, stripped,
       dying
<1>6. UNCHANGED <<newers, holders, raisers, freers, users>>
    BY <1>1, <1>2 DEF newers, holders, raisers, freers, users
<1>7. ready' = ready /\ built' = built /\ on' = on
    BY <1>1, <1>6 DEF ready, built, on
<1>8. WrcInv'
    BY <1>1, <1>6, <1>7 DEF Inv, Counts, WrcInv, WrcAt
<1>9. Alive /\ Alive'
    BY <1>1 DEF Alive
<1>10. Counts'
  <2>1. StrongInv' /\ OwingInv' /\ BoundInv' /\ WeakInv'
    BY <1>1, <1>4, <1>7, Frames
  <2>2. RefInv'
    BY <1>1, <1>5, <1>7, <1>9, Frames
  <2> QED
    BY <1>8, <2>1, <2>2 DEF Counts
<1>11. Memory'
  <2>1. CallbackInv' /\ CounterInv'
    BY <1>1, <1>5, Frames
  <2>2. LifeInv'
    <3>1. object
      BY <1>3, <1>9, LifeFacts
    <3>2. ~Gone'
      BY <1>1, <1>9 DEF Gone
    <3> QED
      BY <1>1, <1>5, <3>1, <3>2 DEF LifeInv, Unique
  <2>3. HookInv'
    <3>1. HookInv
      BY DEF Inv, Memory
    <3> QED
      BY <1>1, <1>5, <3>1 DEF HookInv
  <2> QED
    BY <2>1, <2>2, <2>3 DEF Memory
<1>12. Locals'
  <2>1. RawInv'
    BY <1>1, <1>2 DEF Inv, Locals, RawInv, Only
  <2>2. TagInv'
    BY <1>1, <1>2 DEF Inv, Locals, TagInv, TagOf, Trying
  <2>3. BackInv'
    BY <1>1, <1>2 DEF Inv, Locals, BackInv, BackOf, Adding, Only
  <2> QED
    BY <2>1, <2>2, <2>3 DEF Locals
<1> QED
    BY <1>2, <1>10, <1>11, <1>12 DEF Inv

\* sptr(sptr&&).
LEMMA MoveSptrKeeps ==
    ASSUME RefBaseConstants, Inv, NEW t \in Threads, NEW u \in Threads, MoveSptr(t, u)
    PROVE  Inv'
<1>1. /\ t # u /\ sptrs[t] > 0 /\ todo[t] = <<>> /\ todo[u] = <<>>
      /\ sptrs' = [sptrs EXCEPT ![t] = @ - 1, ![u] = @ + 1]
      /\ UNCHANGED <<atomicStrong, atomicWeak, atomicRefCount, atomicAttempt, extended,
                     callback, object, counter, wrc>>
      /\ UNCHANGED <<raw, wptrs, acquired, todo, cur, tgt, op, firstCalls, lastCalls, ops>>
    BY DEF MoveSptr, counts, memory, hooks
<1>2. /\ sptrs' \in [Threads -> Nat] /\ sptrs \in [Threads -> Nat]
      /\ sptrs'[t] = sptrs[t] - 1 /\ sptrs'[u] = sptrs[u] + 1
      /\ \A v \in Threads : v # t /\ v # u => sptrs'[v] = sptrs[v]
  <2>1. sptrs \in [Threads -> Nat]
    BY DEF Inv, TypeOK
  <2>2. sptrs' = [v \in Threads |-> IF v = t THEN sptrs[t] - 1
                                    ELSE IF v = u THEN sptrs[u] + 1 ELSE sptrs[v]]
    BY <1>1, <2>1
  <2>3. sptrs[t] - 1 \in Nat /\ sptrs[u] + 1 \in Nat
    BY <1>1, <2>1
  <2>4. sptrs' \in [Threads -> Nat]
    BY <2>1, <2>2, <2>3
  <2> QED
    BY <1>1, <2>1, <2>2, <2>4
<1>3. TypeOK' /\ Stacked' /\ pend' = pend
    BY <1>1, <1>2 DEF Inv, TypeOK, Stacked, pend
<1>4. /\ UNCHANGED <<gains, drops, tries, owing, wgains, wdrops, lasts, bases, refdrops,
                     freeing, comings, onlast, onfirst, dying, stripped>>
      /\ UNCHANGED <<newers, holders, raisers, freers, users>>
    BY <1>1, <1>3, SetsSame
<1>5. ready' = ready /\ built' = built /\ on' = on
    BY <1>1, <1>4 DEF ready, built, on
<1>6. WrcInv'
    BY <1>1, <1>4, <1>5 DEF Inv, Counts, WrcInv, WrcAt
<1>7. Alive' = Alive
    BY <1>1, <1>4, Frames
<1>8. strongs' = strongs /\ claimed' = claimed /\ weaks' = weaks
  <2>1. /\ strong \in [Threads -> Nat] /\ claims \in [Threads -> Nat] /\ weak \in [Threads -> Nat]
    BY Parts DEF Inv
  <2>2. /\ strong' \in [Threads -> Nat] /\ strong'[t] = strong[t] - 1 /\ strong'[u] = strong[u] + 1
        /\ \A v \in Threads : v # t /\ v # u => strong'[v] = strong[v]
    BY <1>1, <1>2, <1>4 DEF strong, One
  <2>3. /\ weak' \in [Threads -> Nat] /\ weak'[t] = weak[t] - 1 /\ weak'[u] = weak[u] + 1
        /\ \A v \in Threads : v # t /\ v # u => weak'[v] = weak[v]
    BY <1>1, <1>2, <1>4 DEF weak, One
  <2>4. /\ claims' \in [Threads -> Nat] /\ claims'[t] = claims[t] - 1 /\ claims'[u] = claims[u] + 1
        /\ \A v \in Threads : v # t /\ v # u => claims'[v] = claims[v]
    BY <1>4, <2>1, <2>2 DEF claims, One
  <2>5. Total(strong') = Total(strong) /\ Total(weak') = Total(weak)
        /\ Total(claims') = Total(claims)
    <3>1. IsFiniteSet(Threads) /\ t # u
      BY <1>1 DEF RefBaseConstants
    <3>2. Total(strong') = Total(strong)
      BY <2>1, <2>2, <3>1, TotalMove
    <3>3. Total(weak') = Total(weak)
      BY <2>1, <2>3, <3>1, TotalMove
    <3>4. Total(claims') = Total(claims)
      BY <2>1, <2>4, <3>1, TotalMove
    <3> QED
      BY <3>2, <3>3, <3>4
  <2> QED
    BY <2>5 DEF strongs, claimed, weaks
<1>9. Counts'
  <2>1. StrongInv' /\ BoundInv'
    BY <1>1, <1>8 DEF Inv, Counts, StrongInv, BoundInv, lowered
  <2>2. OwingInv' /\ RefInv'
    BY <1>1, <1>4, <1>5, <1>7, Frames
  <2>3. WeakInv'
    BY <1>1, <1>5, <1>8 DEF Inv, Counts, WeakInv, readies
  <2> QED
    BY <1>6, <2>1, <2>2, <2>3 DEF Counts
<1>10. Memory'
    BY <1>1, <1>4, <1>7, Frames DEF hooks, Memory
<1>11. Locals'
  <2>1. raw = {} /\ pend[t] = {} /\ pend[u] = {}
    BY <1>1, EmptyStack DEF Inv, Locals, RawInv, Only, pend
  <2>2. RawInv'
    BY <1>1, <2>1 DEF RawInv
  <2>3. ASSUME NEW v \in Threads
        PROVE  TagOf(v)' /\ BackOf(v)'
    <3>1. TagOf(v) /\ BackOf(v)
      BY DEF Inv, Locals, TagInv, BackInv
    <3>2. CASE v = t \/ v = u
      <4>1. pend'[v] = {} /\ pend[v] = {} /\ op'[v] = op[v]
        BY <1>1, <1>3, <2>1, <3>2
      <4> QED
        BY <1>3, <3>1, <4>1 DEF TagOf, BackOf, Trying, Adding
    <3>3. CASE v # t /\ v # u
      <4>1. sptrs'[v] = sptrs[v] /\ pend'[v] = pend[v]
        BY <1>2, <1>3, <3>3
      <4>2. ~Only(v)
        BY <1>1, <1>2 DEF Only
      <4>3. TagOf(v)'
        BY <1>1, <3>1, <4>1 DEF TagOf, Trying
      <4>4. BackOf(v)'
        BY <1>1, <3>1, <4>1, <4>2 DEF BackOf, Adding
      <4> QED
        BY <4>3, <4>4
    <3> QED
      BY <3>2, <3>3
  <2> QED
    BY <2>2, <2>3 DEF Locals, TagInv, BackInv
<1> QED
    BY <1>3, <1>9, <1>10, <1>11 DEF Inv

\* The enclosing object of a wptr changes hands.
LEMMA HandWptrKeeps ==
    ASSUME RefBaseConstants, Inv, NEW t \in Threads, NEW u \in Threads, NEW w \in Wrcs,
           HandWptr(t, u, w)
    PROVE  Inv'
<1>1. /\ t # u /\ wptrs[t][w] > 0 /\ todo[t] = <<>> /\ todo[u] = <<>>
      /\ wptrs' = [wptrs EXCEPT ![t][w] = @ - 1, ![u][w] = @ + 1]
      /\ UNCHANGED <<atomicStrong, atomicWeak, atomicRefCount, atomicAttempt, extended,
                     callback, object, counter, wrc>>
      /\ UNCHANGED <<raw, sptrs, acquired, todo, cur, tgt, op, firstCalls, lastCalls, ops>>
    BY DEF HandWptr, counts, memory, hooks
<1>2. /\ wptrs' \in [Threads -> [Wrcs -> Nat]] /\ wptrs \in [Threads -> [Wrcs -> Nat]]
      /\ wptrs'[t][w] = wptrs[t][w] - 1 /\ wptrs'[u][w] = wptrs[u][w] + 1
      /\ \A v \in Threads : v # t /\ v # u => wptrs'[v] = wptrs[v]
      /\ \A v \in Threads : \A x \in Wrcs : x # w => wptrs'[v][x] = wptrs[v][x]
  <2>1. wptrs \in [Threads -> [Wrcs -> Nat]]
    BY DEF Inv, TypeOK
  <2>2. wptrs' = [v \in Threads |->
                     IF v = t THEN [wptrs[t] EXCEPT ![w] = @ - 1]
                     ELSE IF v = u THEN [wptrs[u] EXCEPT ![w] = @ + 1] ELSE wptrs[v]]
    BY <1>1, <2>1
  <2>3. wptrs[t][w] - 1 \in Nat /\ wptrs[u][w] + 1 \in Nat
    BY <1>1, <2>1
  <2>4. /\ wptrs'[t] = [wptrs[t] EXCEPT ![w] = wptrs[t][w] - 1]
        /\ wptrs'[u] = [wptrs[u] EXCEPT ![w] = wptrs[u][w] + 1]
        /\ \A v \in Threads : v # t /\ v # u => wptrs'[v] = wptrs[v]
    BY <1>1, <2>2
  <2>5. wptrs'[t] \in [Wrcs -> Nat] /\ wptrs'[u] \in [Wrcs -> Nat]
    BY <2>1, <2>3, <2>4
  <2>6. wptrs' \in [Threads -> [Wrcs -> Nat]]
    <3>1. \A v \in Threads : wptrs'[v] \in [Wrcs -> Nat]
      BY <2>1, <2>4, <2>5
    <3> QED
      BY <2>2, <3>1
  <2>7. \A x \in Wrcs : x # w => wptrs'[t][x] = wptrs[t][x] /\ wptrs'[u][x] = wptrs[u][x]
    BY <2>1, <2>4
  <2>8. wptrs'[t][w] = wptrs[t][w] - 1 /\ wptrs'[u][w] = wptrs[u][w] + 1
    BY <2>1, <2>4
  <2> QED
    BY <2>1, <2>4, <2>6, <2>7, <2>8
<1>3. TypeOK' /\ Stacked' /\ pend' = pend
    BY <1>1, <1>2 DEF Inv, TypeOK, Stacked, pend
<1>4. /\ UNCHANGED <<gains, drops, tries, owing, wgains, wdrops, lasts, bases, refdrops,
                     freeing, comings, onlast, onfirst, dying, stripped>>
      /\ UNCHANGED <<newers, holders, raisers, freers, users>>
    BY <1>1, <1>3, SetsSame
<1>5. ready' = ready /\ built' = built
    BY <1>1, <1>4 DEF ready, built
<1>6. \A x \in Wrcs : Total(on'[x]) = Total(on[x])
  <2>1. \A x \in Wrcs : on[x] \in [Threads -> Nat]
    BY Parts DEF Inv
  <2>2. ASSUME NEW x \in Wrcs, x # w
        PROVE  Total(on'[x]) = Total(on[x])
    <3>1. on'[x] = on[x]
      BY <1>2, <1>4, <2>2 DEF on
    <3> QED
      BY <3>1
  <2>3. Total(on'[w]) = Total(on[w])
    <3>1. /\ on'[w] \in [Threads -> Nat] /\ on'[w][t] = on[w][t] - 1 /\ on'[w][u] = on[w][u] + 1
          /\ \A v \in Threads : v # t /\ v # u => on'[w][v] = on[w][v]
      <4>1. /\ on'[w] = [v \in Threads |-> wptrs'[v][w] + One(v \in users[w])]
            /\ on[w] = [v \in Threads |-> wptrs[v][w] + One(v \in users[w])]
        BY <1>4 DEF on
      <4>2. \A v \in Threads : wptrs'[v][w] \in Nat /\ wptrs[v][w] \in Nat
        BY <1>2
      <4>3. \A v \in Threads : One(v \in users[w]) \in Nat
        BY DEF One
      <4>4. on'[w] \in [Threads -> Nat]
        BY <4>1, <4>2, <4>3
      <4>5. \A v \in Threads : v # t /\ v # u => on'[w][v] = on[w][v]
        BY <1>2, <4>1
      <4> QED
        BY <1>2, <4>1, <4>2, <4>3, <4>4, <4>5
    <3>2. IsFiniteSet(Threads) /\ t # u
      BY <1>1 DEF RefBaseConstants
    <3> QED
      BY <2>1, <3>1, <3>2, TotalMove
  <2> QED
    BY <2>2, <2>3
<1>7. WrcInv'
    BY <1>1, <1>4, <1>6 DEF Inv, Counts, WrcInv, WrcAt
<1>8. Alive' = Alive
    BY <1>1, <1>4, Frames
<1>9. Counts'
  <2>1. StrongInv' /\ OwingInv' /\ BoundInv' /\ WeakInv' /\ RefInv'
    BY <1>1, <1>4, <1>5, <1>8, Frames
  <2> QED
    BY <1>7, <2>1 DEF Counts
<1>10. Memory'
    BY <1>1, <1>4, <1>8, Frames DEF hooks, Memory
<1>11. Locals'
  <2>1. raw = {} /\ pend[t] = {} /\ pend[u] = {}
    BY <1>1, EmptyStack DEF Inv, Locals, RawInv, Only, pend
  <2>2. RawInv'
    BY <1>1, <2>1 DEF RawInv
  <2>3. ASSUME NEW v \in Threads
        PROVE  TagOf(v)' /\ BackOf(v)'
    <3>1. TagOf(v) /\ BackOf(v)
      BY DEF Inv, Locals, TagInv, BackInv
    <3>2. CASE v = t \/ v = u
      <4>1. pend'[v] = {} /\ pend[v] = {} /\ op'[v] = op[v]
        BY <1>1, <1>3, <2>1, <3>2
      <4> QED
        BY <1>3, <3>1, <4>1 DEF TagOf, BackOf, Trying, Adding
    <3>3. CASE v # t /\ v # u
      <4>1. wptrs'[v] = wptrs[v] /\ pend'[v] = pend[v]
        BY <1>2, <1>3, <3>3
      <4>2. ~Only(v)
        BY <1>1, <1>2 DEF Only
      <4>3. TagOf(v)'
        BY <1>1, <3>1, <4>1 DEF TagOf, Trying
      <4>4. BackOf(v)'
        BY <1>1, <3>1, <4>1, <4>2 DEF BackOf, Adding
      <4> QED
        BY <4>3, <4>4
    <3> QED
      BY <3>2, <3>3
  <2> QED
    BY <2>2, <2>3 DEF Locals, TagInv, BackInv
<1> QED
    BY <1>3, <1>9, <1>10, <1>11 DEF Inv

-----------------------------------------------------------------------------
(* The inductive invariant holds.                                          *)

\* Nobody has a step to take: no thread is in any of the situations.
LEMMA NothingPending ==
    ASSUME \A t \in Threads : pend[t] = {}
    PROVE  /\ gains = {} /\ drops = {} /\ tries = {} /\ owing = {} /\ wgains = {} /\ wdrops = {}
           /\ lasts = {} /\ bases = {} /\ refdrops = {} /\ freeing = {} /\ comings = {}
           /\ onlast = {} /\ onfirst = {} /\ dying = {} /\ stripped = {}
           /\ \A w \in Wrcs : /\ newers[w] = {} /\ holders[w] = {} /\ raisers[w] = {}
                              /\ freers[w] = {} /\ users[w] = {}
<1>1. gains = {} /\ drops = {} /\ tries = {}
    BY DEF gains, drops, tries, Adding, Trying
<1>2. owing = {} /\ wgains = {} /\ wdrops = {}
    BY DEF owing, wgains, wdrops, Trying
<1>3. lasts = {} /\ bases = {} /\ refdrops = {} /\ freeing = {} /\ comings = {}
    BY DEF lasts, bases, refdrops, freeing, comings
<1>4. onlast = {} /\ onfirst = {} /\ dying = {} /\ stripped = {}
    BY DEF onlast, onfirst, dying, stripped
<1>5. \A w \in Wrcs : /\ newers[w] = {} /\ holders[w] = {} /\ raisers[w] = {}
                      /\ freers[w] = {} /\ users[w] = {}
    BY DEF newers, holders, raisers, freers, users
<1> QED
    BY <1>1, <1>2, <1>3, <1>4, <1>5

\* The summands when nobody has a step to take.
LEMMA AtRest ==
    ASSUME RefBaseConstants, TypeOK, \A t \in Threads : pend[t] = {}
    PROVE  /\ strongs = Total(sptrs) /\ claimed = Total(sptrs) /\ weaks = Total(sptrs)
           /\ reffed = 0
           /\ \A w \in Wrcs : Total(on[w]) = WptrsOn(w)
<1>1. sptrs \in [Threads -> Nat] /\ wptrs \in [Threads -> [Wrcs -> Nat]]
    BY DEF TypeOK
<1>2. strong = sptrs
    BY <1>1, NothingPending DEF strong, One
<1>3. claims = sptrs
    BY <1>1, <1>2, NothingPending DEF claims, One
<1>4. weak = sptrs
    BY <1>1, NothingPending DEF weak, One
<1>5. refs \in [Threads -> Nat] /\ \A t \in Threads : refs[t] = 0
    BY NothingPending DEF refs, One
<1>6. ASSUME NEW w \in Wrcs
      PROVE  on[w] = [t \in Threads |-> wptrs[t][w]]
    BY <1>1, NothingPending DEF on, One
<1>7. reffed = 0
    BY <1>5, TotalZero DEF reffed
<1> QED
    BY <1>2, <1>3, <1>4, <1>6, <1>7 DEF strongs, claimed, weaks, WptrsOn

\* RefBase::RefBase establishes the invariant.
LEMMA InitInv ==
    ASSUME RefBaseConstants, Init
    PROVE  Inv
<1>1. PICK c \in Threads : raw = {c}
    BY DEF Init
<1>2. TypeOK
  <2>1. wrc \in [Wrcs -> [state : {"unused", "live", "deleted"}, weak : Nat]]
    BY DEF Init
  <2>2. wptrs \in [Threads -> [Wrcs -> Nat]] /\ sptrs \in [Threads -> Nat]
    BY DEF Init
  <2>3. /\ cur \in [Threads -> Nat] /\ tgt \in [Threads -> Wrcs]
        /\ op \in [Threads -> {"none", "promote", "acquire", "check"}]
    BY DEF Init
  <2>4. /\ atomicStrong \in Nat /\ atomicWeak \in Nat /\ atomicRefCount \in Nat
        /\ acquired \in Nat /\ atomicAttempt = acquired /\ firstCalls \in Nat /\ lastCalls \in Nat
        /\ ops \in 0..MaxOps /\ raw \subseteq Threads
    BY <1>1, InitialIs DEF Init, RefBaseConstants
  <2>5. extended \in BOOLEAN /\ callback \in BOOLEAN /\ object \in BOOLEAN /\ counter \in BOOLEAN
    BY DEF Init
  <2> QED
    BY <2>1, <2>2, <2>3, <2>4, <2>5 DEF TypeOK
<1>3. \A t \in Threads : todo[t] = <<>>
    BY DEF Init
<1>4. Stacked
    BY <1>3, EmptyStack DEF Init, Stacked
<1>5. \A t \in Threads : pend[t] = {}
    BY <1>3, EmptyStack DEF pend
<1>6. /\ gains = {} /\ owing = {} /\ lasts = {} /\ bases = {} /\ freeing = {}
      /\ onlast = {} /\ onfirst = {} /\ dying = {} /\ stripped = {}
      /\ \A w \in Wrcs : /\ newers[w] = {} /\ holders[w] = {} /\ raisers[w] = {}
                         /\ freers[w] = {}
    BY <1>5, NothingPending
<1>7. Total(sptrs) = 0
  <2>1. sptrs \in [Threads -> Nat] /\ \A t \in Threads : sptrs[t] = 0
    BY DEF Init
  <2> QED
    BY <2>1, TotalZero
<1>8. strongs = 0 /\ claimed = 0 /\ weaks = 0 /\ reffed = 0
    BY <1>2, <1>5, <1>7, AtRest
<1>9. \A w \in Wrcs : Total(on[w]) = 0
  <2>1. ASSUME NEW w \in Wrcs
        PROVE  WptrsOn(w) = 0
    <3> DEFINE f == [t \in Threads |-> wptrs[t][w]]
    <3>1. f \in [Threads -> Nat] /\ \A t \in Threads : f[t] = 0
      BY DEF Init
    <3> HIDE DEF f
    <3>2. Total(f) = 0
      BY <3>1, TotalZero
    <3> QED
      BY <3>2 DEF f, WptrsOn
  <2> QED
    BY <1>2, <1>5, <2>1, AtRest
<1>10. readies = 0 /\ builts = 0
  <2>1. ready = {} /\ built = {}
    BY DEF Init, ready, built
  <2> QED
    BY <2>1, FS_EmptySet DEF readies, builts
<1>11. /\ atomicStrong = INITIAL_PRIMARY_VALUE /\ atomicWeak = 0 /\ atomicRefCount = 1
       /\ acquired = 0 /\ extended = FALSE /\ callback = TRUE /\ object = TRUE /\ counter = TRUE
       /\ firstCalls = 0 /\ lastCalls = 0 /\ ops = 0
       /\ \A w \in Wrcs : wrc[w].state = "unused" /\ wrc[w].weak = 0
    BY DEF Init
<1>12. Alive /\ Held /\ ~Gone
    BY <1>1, <1>11, InitialIs DEF Alive, Held, Gone
<1>13. Counts
  <2>1. StrongInv
    BY <1>8, <1>11, InitialIs DEF StrongInv, lowered
  <2>2. OwingInv /\ BoundInv
    BY <1>1, <1>6, <1>8, <1>11, InitialIs DEF OwingInv, BoundInv, Unique, One
  <2>3. WeakInv /\ RefInv
    BY <1>6, <1>8, <1>10, <1>11, <1>12 DEF WeakInv, RefInv, Unique, One
  <2>4. WrcInv
    BY <1>6, <1>9, <1>11 DEF WrcInv, WrcAt, Unique
  <2> QED
    BY <2>1, <2>2, <2>3, <2>4 DEF Counts
<1>14. Memory
  <2>1. LifeInv /\ CallbackInv /\ CounterInv
    BY <1>6, <1>11, <1>12 DEF LifeInv, CallbackInv, CounterInv, Unique
  <2>2. HookInv
    BY <1>6, <1>11, InitialIs DEF HookInv, Unique, One
  <2> QED
    BY <2>1, <2>2 DEF Memory
<1>15. Locals
  <2>1. RawInv
    <3>1. Only(c)
      BY <1>5, <1>11, InitialIs DEF Init, Only
    <3> QED
      BY <1>1, <1>5, <3>1 DEF RawInv
  <2>2. ASSUME NEW t \in Threads
        PROVE  TagOf(t) /\ BackOf(t)
    <3>1. pend[t] = {} /\ op[t] = "none"
      BY <1>5 DEF Init
    <3> QED
      BY <3>1 DEF TagOf, BackOf, Trying, Adding
  <2> QED
    BY <2>1, <2>2 DEF Locals, TagInv, BackInv
<1> QED
    BY <1>2, <1>4, <1>13, <1>14, <1>15 DEF Inv

\* Every operation a thread starts keeps the invariant.
LEMMA StartOpKeeps ==
    ASSUME RefBaseConstants, Inv, NEW t \in Threads, StartOp(t)
    PROVE  Inv'
<1>1. CASE ExtendObjectLifetime(t)
    BY <1>1, ExtendObjectLifetimeKeeps
<1>2. CASE CopySptr(t)
    BY <1>2, CopySptrKeeps
<1>3. CASE DropSptr(t)
    BY <1>3, DropSptrKeeps
<1>4. CASE AssignSptr(t)
    BY <1>4, AssignSptrKeeps
<1>5. CASE AttemptAcquire(t)
    BY <1>5, AttemptAcquireKeeps
<1>6. CASE AttemptIncStrong(t)
    BY <1>6, AttemptIncStrongKeeps
<1>7. CASE CheckIsAttemptAcquireSet(t)
    BY <1>7, CheckIsAttemptAcquireSetKeeps
<1>8. CASE \E u \in Threads : MoveSptr(t, u)
    BY <1>8, MoveSptrKeeps
<1>9. CASE \E w \in Wrcs : MakeWptr(t, w)
    BY <1>9, MakeWptrKeeps
<1>10. CASE \E w \in Wrcs : CopyWptr(t, w)
    BY <1>10, CopyWptrKeeps
<1>11. CASE \E w \in Wrcs : DropWptr(t, w)
    BY <1>11, DropWptrKeeps
<1>12. CASE \E w \in Wrcs : Promote(t, w)
    BY <1>12, PromoteKeeps
<1>13. CASE \E w \in Wrcs : AssignSptrFromWptr(t, w)
    BY <1>13, AssignSptrFromWptrKeeps
<1>14. CASE \E w \in Wrcs, u \in Threads : HandWptr(t, u, w)
    BY <1>14, HandWptrKeeps
<1> QED
    BY <1>1, <1>2, <1>3, <1>4, <1>5, <1>6, <1>7, <1>8, <1>9, <1>10, <1>11, <1>12, <1>13,
       <1>14 DEF StartOp

\* Every step of a running operation keeps the invariant.
LEMMA RunOpKeeps ==
    ASSUME RefBaseConstants, Inv, NEW t \in Threads, RunOp(t)
    PROVE  Inv'
<1>1. CASE IncWeak(t)
    BY <1>1, IncWeakKeeps
<1>2. CASE IncStrongLoad(t)
    BY <1>2, IncStrongLoadKeeps
<1>3. CASE IncStrongAdd(t)
    BY <1>3, IncStrongAddKeeps
<1>4. CASE SubInitial(t)
    BY <1>4, SubInitialKeeps
<1>5. CASE OnFirst(t)
    BY <1>5, OnFirstKeeps
<1>6. CASE OnLast(t)
    BY <1>6, OnLastKeeps
<1>7. CASE GotSptr(t)
    BY <1>7, GotSptrKeeps
<1>8. CASE DecStrongLoad(t)
    BY <1>8, DecStrongLoadKeeps
<1>9. CASE DecStrongSub(t)
    BY <1>9, DecStrongSubKeeps
<1>10. CASE CallCallback(t)
    BY <1>10, CallCallbackKeeps
<1>11. CASE DtorRemove(t)
    BY <1>11, DtorRemoveKeeps
<1>12. CASE DtorCheck(t)
    BY <1>12, DtorCheckKeeps
<1>13. CASE FreeObject(t)
    BY <1>13, FreeObjectKeeps
<1>14. CASE DecRefLoad(t)
    BY <1>14, DecRefLoadKeeps
<1>15. CASE DecRefSub(t)
    BY <1>15, DecRefSubKeeps
<1>16. CASE FreeCounter(t)
    BY <1>16, FreeCounterKeeps
<1>17. CASE DecWeakLoad(t)
    BY <1>17, DecWeakLoadKeeps
<1>18. CASE DecWeakSub(t)
    BY <1>18, DecWeakSubKeeps
<1>19. CASE LastWeak(t)
    BY <1>19, LastWeakKeeps
<1>20. CASE WrcNew(t)
    BY <1>20, WrcNewKeeps
<1>21. CASE WrcInc(t)
    BY <1>21, WrcIncKeeps
<1>22. CASE GotWptr(t)
    BY <1>22, GotWptrKeeps
<1>23. CASE WrcDec(t)
    BY <1>23, WrcDecKeeps
<1>24. CASE DropOld(t)
    BY <1>24, DropOldKeeps
<1>25. CASE FreeWrc(t)
    BY <1>25, FreeWrcKeeps
<1>26. CASE AttLoad(t)
    BY <1>26, AttLoadKeeps
<1>27. CASE AttCas(t)
    BY <1>27, AttCasKeeps
<1>28. CASE AttCasFail(t)
    BY <1>28, AttCasFailKeeps
<1>29. CASE AttReload(t)
    BY <1>29, AttReloadKeeps
<1>30. CASE AttExit(t)
    BY <1>30, AttExitKeeps
<1>31. CASE AttCanPromote(t)
    BY <1>31, AttCanPromoteKeeps
<1>32. CASE AttAdd(t)
    BY <1>32, AttAddKeeps
<1>33. CASE AttEnd(t)
    BY <1>33, AttEndKeeps
<1>34. CASE TestPtr(t)
    BY <1>34, TestPtrKeeps
<1>35. CASE GetRefPtr(t)
    BY <1>35, GetRefPtrKeeps
<1>36. CASE SetAttempt(t)
    BY <1>36, SetAttemptKeeps
<1>37. CASE AttSLoad(t)
    BY <1>37, AttSLoadKeeps
<1>38. CASE AttSCas(t)
    BY <1>38, AttSCasKeeps
<1>39. CASE AttSCasFail(t)
    BY <1>39, AttSCasFailKeeps
<1>40. CASE CheckAttempt(t)
    BY <1>40, CheckAttemptKeeps
<1>41. CASE ClearAttempt(t)
    BY <1>41, ClearAttemptKeeps
<1> QED
    BY <1>1, <1>2, <1>3, <1>4, <1>5, <1>6, <1>7, <1>8, <1>9, <1>10, <1>11, <1>12, <1>13,
       <1>14, <1>15, <1>16, <1>17, <1>18, <1>19, <1>20, <1>21, <1>22, <1>23, <1>24, <1>25,
       <1>26, <1>27, <1>28, <1>29, <1>30, <1>31, <1>32, <1>33, <1>34, <1>35, <1>36, <1>37,
       <1>38, <1>39, <1>40, <1>41 DEF RunOp

\* The invariant is inductive.
LEMMA NextKeeps ==
    ASSUME RefBaseConstants, Inv, [Next]_vars
    PROVE  Inv'
<1>1. CASE \E t \in Threads : StartOp(t)
    BY <1>1, StartOpKeeps
<1>2. CASE \E t \in Threads : RunOp(t)
    BY <1>2, RunOpKeeps
<1>3. CASE Terminated
    BY <1>3, StutterKeeps DEF Terminated
<1>4. CASE UNCHANGED vars
    BY <1>4, StutterKeeps
<1> QED
    BY <1>1, <1>2, <1>3, <1>4 DEF Next

-----------------------------------------------------------------------------
(* What the invariant says of the program.                                 *)

\* What keeps the RefCounter for a thread that makes, tests or gives back a reference.
LEMMA StepsAlive ==
    ASSUME RefBaseConstants, Inv, NEW t \in Threads, NEW s \in Steps, At(t, s),
           s \in {"IncWeak", "IncStrongLoad", "IncStrongAdd", "SubInitial", "DecStrongLoad",
                  "DecStrongSub", "DecWeakLoad", "DecWeakSub", "WrcNew", "SetAttempt",
                  "AttLoad", "AttReload", "AttLoop", "AttCanPromote", "AttAdd", "AttEnd",
                  "TestPtr", "GetRefPtr", "AttSLoad", "AttSLoop", "CheckAttempt", "ClearAttempt"}
    PROVE  Alive
<1>1. Stacked /\ TagOf(t) /\ BackOf(t)
    BY DEF Inv, Locals, TagInv, BackInv
<1>2. PICK e \in Under(s) : pend[t] = {s} \union e
    BY <1>1, AtPend
<1>3. sptrs[t] \in Nat /\ atomicWeak \in Nat /\ acquired \in Nat
    BY DEF Inv, TypeOK
<1>4. ASSUME sptrs[t] > 0 \/ t \in wgains \/ t \in wdrops
      PROVE  Alive
  <2>1. weak[t] > 0
    BY <1>3, <1>4 DEF weak, One
  <2>2. atomicWeak > 0
    BY <1>3, <2>1, WeakFacts
  <2> QED
    BY <2>2 DEF Alive
<1>5. ASSUME NEW w \in Wrcs, wptrs[t][w] > 0
      PROVE  Alive
  <2>1. wptrs[t][w] \in Nat
    BY DEF Inv, TypeOK
  <2>2. on[w][t] \in Nat /\ on[w][t] >= wptrs[t][w]
    BY WeakFacts
  <2>3. on[w][t] > 0
    BY <1>5, <2>1, <2>2
  <2>4. wrc[w].weak > 0
    BY <2>3, WeakFacts
  <2> QED
    BY <2>4, WeakFacts
<1>6. CASE s \in {"IncWeak", "WrcNew"}
  <2>1. t \in comings
    BY <1>2, <1>6 DEF comings
  <2> QED
    BY <2>1 DEF Alive
<1>7. CASE s \in {"IncStrongLoad", "IncStrongAdd"}
  <2>1. e \in GotSets
    BY <1>2, <1>7, UnderIs
  <2>2. t \in wgains
    BY <1>2, <1>7, <2>1 DEF wgains, GotSets
  <2> QED
    BY <1>4, <2>2
<1>8. CASE s \in {"SubInitial", "SetAttempt"}
  <2>1. "IncWeak" \notin pend[t]
    BY <1>2, <1>8, UnderIs
  <2>2. "GetRefPtr" \in pend[t] \/ "SetAttempt" \in pend[t] \/ "GotSptr" \in pend[t]
    BY <1>2, <1>8, UnderIs
  <2>3. t \in wgains
    BY <2>1, <2>2 DEF wgains
  <2> QED
    BY <1>4, <2>3
<1>9. CASE s \in {"DecStrongLoad", "DecStrongSub", "DecWeakLoad", "DecWeakSub"}
  <2>1. "DecWeakLoad" \in pend[t] \/ "DecWeakSub" \in pend[t]
    <3>1. CASE s \in {"DecStrongLoad", "DecStrongSub"}
      <4>1. e \in WeakSets
        BY <1>2, <3>1, UnderIs
      <4> QED
        BY <1>2, <4>1 DEF WeakSets
    <3> QED
      BY <1>2, <1>9, <3>1
  <2>2. t \in wdrops
    BY <2>1 DEF wdrops
  <2> QED
    BY <1>4, <2>2
<1>10. CASE s \in {"AttLoad", "AttReload", "AttLoop", "AttCanPromote", "AttAdd", "AttEnd",
                   "TestPtr", "GetRefPtr"}
  <2>1. s \in pend[t]
    BY <1>2
  <2>2. op[t] = "acquire" \/ wptrs[t][tgt[t]] > 0
    BY <1>1, <1>10, <2>1 DEF TagOf, Trying
  <2>3. CASE op[t] = "acquire"
    <3>1. t \in raw \/ sptrs[t] > 0
      BY <1>1, <2>3 DEF TagOf
    <3>2. CASE t \in raw
      BY <3>2 DEF Alive
    <3> QED
      BY <1>4, <3>1, <3>2
  <2>4. CASE wptrs[t][tgt[t]] > 0
    <3>1. tgt[t] \in Wrcs
      BY DEF Inv, TypeOK
    <3> QED
      BY <1>5, <2>4, <3>1
  <2> QED
    BY <2>2, <2>3, <2>4
<1>11. CASE s \in {"AttSLoad", "AttSLoop", "CheckAttempt", "ClearAttempt"}
  <2>1. s \in pend[t]
    BY <1>2
  <2>2. sptrs[t] > 0
    BY <1>1, <1>11, <2>1 DEF BackOf
  <2> QED
    BY <1>4, <2>2
<1> QED
    BY <1>6, <1>7, <1>8, <1>9, <1>10, <1>11

\* A step that dereferences the RefCounter finds it.
LEMMA CounterHeld ==
    ASSUME RefBaseConstants, Inv, NEW t \in Threads, NEW s \in CounterSteps, At(t, s)
    PROVE  counter
<1>1. Stacked /\ s \in Steps
    BY DEF Inv, CounterSteps
<1>2. PICK e \in Under(s) : pend[t] = {s} \union e
    BY <1>1, AtPend
<1>3. s \in pend[t]
    BY <1>2
<1>4. CASE s \in {"DecRefLoad", "DecRefSub"}
  <2>1. t \in refdrops
    BY <1>3, <1>4 DEF refdrops
  <2> QED
    BY <2>1, LifeFacts
<1>5. CASE s = "FreeCounter"
  <2>1. t \in freeing
    BY <1>3, <1>5 DEF freeing
  <2>2. CounterInv
    BY DEF Inv, Memory
  <2> QED
    BY <2>1, <2>2 DEF CounterInv
<1>6. CASE s \in {"CallCallback", "DtorRemove", "DtorCheck", "LastWeak"}
  <2>1. \/ "CallCallback" \in pend[t] \/ "DtorCheck" \in pend[t] \/ "LastWeak" \in pend[t]
    <3>1. CASE s = "DtorRemove"
      <4>1. e \in DtorSets
        BY <1>2, <3>1, UnderIs
      <4> QED
        BY <1>2, <4>1 DEF DtorSets
    <3> QED
      BY <1>3, <1>6, <3>1
  <2>2. t \in bases \/ t \in wdrops
    BY <2>1 DEF bases, wdrops
  <2>3. CASE t \in wdrops
    <3>1. sptrs[t] \in Nat /\ atomicWeak \in Nat /\ acquired \in Nat
      BY DEF Inv, TypeOK
    <3>2. weak[t] > 0
      BY <2>3, <3>1 DEF weak, One
    <3>3. atomicWeak > 0
      BY <3>1, <3>2, WeakFacts
    <3> QED
      BY <3>3, LifeFacts DEF Alive, Held
  <2>4. CASE t \in bases
    BY <2>4, LifeFacts DEF Held
  <2> QED
    BY <2>2, <2>3, <2>4
<1>7. CASE s \notin {"DecRefLoad", "DecRefSub", "FreeCounter", "CallCallback", "DtorRemove",
                     "DtorCheck", "LastWeak"}
  <2>1. s \in {"IncWeak", "IncStrongLoad", "IncStrongAdd", "SubInitial", "DecStrongLoad",
               "DecStrongSub", "DecWeakLoad", "DecWeakSub", "WrcNew", "SetAttempt",
               "AttLoad", "AttReload", "AttLoop", "AttCanPromote", "AttAdd", "AttEnd",
               "TestPtr", "GetRefPtr", "AttSLoad", "AttSLoop", "CheckAttempt", "ClearAttempt"}
    BY <1>7 DEF CounterSteps, Steps
  <2>2. Alive
    BY <1>1, <2>1, StepsAlive
  <2> QED
    BY <2>2, LifeFacts DEF Held
<1> QED
    BY <1>4, <1>5, <1>6, <1>7

\* A thread with a share in the strong and in the weak count keeps the object.
LEMMA ShareKeepsObject ==
    ASSUME RefBaseConstants, Inv, NEW t \in Threads, strong[t] + acquired > 0,
              weak[t] + acquired > 0
    PROVE  object /\ callback
<1>1. acquired \in Nat /\ atomicWeak \in Nat /\ atomicStrong \in Nat
    BY DEF Inv, TypeOK
<1>2. lowered > 0
    BY <1>1, StrongFacts
<1>3. atomicStrong > 0
    BY <1>2, StrongFacts
<1>4. atomicWeak > 0
    BY <1>1, WeakFacts
<1>5. Alive
    BY <1>4 DEF Alive
<1> QED
    BY <1>3, <1>5, LifeFacts

\* A step that dereferences the object finds it.
LEMMA ObjectHeld ==
    ASSUME RefBaseConstants, Inv, NEW t \in Threads, NEW s \in ObjectSteps, At(t, s)
    PROVE  object
<1>1. Stacked /\ s \in Steps /\ TagOf(t) /\ BackOf(t)
    BY DEF Inv, Locals, TagInv, BackInv, ObjectSteps, Steps
<1>2. PICK e \in Under(s) : pend[t] = {s} \union e
    BY <1>1, AtPend
<1>3. s \in pend[t]
    BY <1>2
<1>4. sptrs[t] \in Nat /\ atomicWeak \in Nat /\ acquired \in Nat /\ extended \in BOOLEAN
    BY DEF Inv, TypeOK
<1>5. CASE s \in {"DtorRemove", "DtorCheck", "FreeObject"} \/ (s = "OnLast" /\ ~extended)
  <2>1. t \in dying
    BY <1>3, <1>5 DEF dying
  <2> QED
    BY <2>1, LifeFacts
<1>6. CASE s = "OnLast" /\ extended
  <2>1. e \in WeakSets
    BY <1>2, <1>6, UnderIs
  <2>2. t \in wdrops
    BY <1>2, <2>1 DEF wdrops, WeakSets
  <2>3. weak[t] > 0
    BY <1>4, <2>2 DEF weak, One
  <2>4. atomicWeak > 0
    BY <1>4, <2>3, WeakFacts
  <2> QED
    BY <1>6, <2>4, LifeFacts DEF Alive
<1>7. CASE s = "AttCanPromote"
  <2>1. extended
    BY <1>1, <1>3, <1>7 DEF TagOf
  <2>2. Alive
    BY <1>1, <1>7, StepsAlive
  <2> QED
    BY <2>1, <2>2, LifeFacts
<1>8. CASE s = "WrcNew"
  <2>1. Alive
    BY <1>1, <1>8, StepsAlive
  <2>2. e \in NewSets
    BY <1>2, <1>8, UnderIs
  <2>3. "WrcInc" \in pend[t]
    BY <1>2, <2>2 DEF NewSets
  <2>4. PICK w \in Wrcs : w = tgt[t]
    BY DEF Inv, TypeOK
  <2>5. wrc[w].weak = 0
    <3>1. t \in newers[w]
      BY <1>3, <1>8, <2>4 DEF newers
    <3>2. WrcAt(w)
      BY DEF Inv, Counts, WrcInv
    <3> QED
      BY <3>1, <3>2 DEF WrcAt
  <2>6. sptrs[t] > 0 \/ Only(t)
    BY <1>1, <2>3, <2>4, <2>5 DEF BackOf
  <2>7. CASE sptrs[t] > 0
    <3>1. strong[t] + acquired > 0
      BY <1>4, <2>7 DEF strong, One
    <3>2. weak[t] + acquired > 0
      BY <1>4, <2>7 DEF weak, One
    <3> QED
      BY <3>1, <3>2, ShareKeepsObject
  <2>8. CASE Only(t)
    <3>1. atomicStrong > 0
      BY <2>8 DEF Only
    <3> QED
      BY <2>1, <3>1, LifeFacts
  <2> QED
    BY <2>6, <2>7, <2>8
<1>9. CASE s = "OnFirst"
  <2>1. e = {} \/ e \in GotSets
    BY <1>2, <1>9, UnderIs
  <2>2. CASE e = {}
    <3>1. "OnFirst" \in pend[t] /\ "GotSptr" \notin pend[t] /\ "SetAttempt" \notin pend[t]
      BY <1>2, <1>9, <2>2
    <3>2. acquired > 0
      BY <1>1, <3>1 DEF BackOf
    <3>3. strong[t] \in Nat /\ weak[t] \in Nat
      BY StrongFacts, WeakFacts
    <3> QED
      BY <1>4, <3>2, <3>3, ShareKeepsObject
  <2>3. CASE e \in GotSets
    <3>1. t \in gains
      BY <1>2, <1>9, <2>3 DEF gains, GotSets, Adding
    <3>2. t \in wgains
      BY <1>2, <1>9, <2>3 DEF wgains, GotSets
    <3>3. strong[t] + acquired > 0
      BY <1>4, <3>1 DEF strong, One
    <3>4. weak[t] + acquired > 0
      BY <1>4, <3>2 DEF weak, One
    <3> QED
      BY <3>3, <3>4, ShareKeepsObject
  <2> QED
    BY <2>1, <2>2, <2>3
<1> QED
    BY <1>4, <1>5, <1>6, <1>7, <1>8, <1>9 DEF ObjectSteps

\* A step that dereferences a WeakRefCounter finds it.
LEMMA WrcHeld ==
    ASSUME RefBaseConstants, Inv, NEW t \in Threads, NEW s \in WrcSteps, At(t, s)
    PROVE  wrc[tgt[t]].state = "live"
<1>1. Stacked /\ s \in Steps /\ TagOf(t)
    BY DEF Inv, Locals, TagInv, WrcSteps, Steps
<1>2. PICK e \in Under(s) : pend[t] = {s} \union e
    BY <1>1, AtPend
<1>3. s \in pend[t]
    BY <1>2
<1>4. PICK w \in Wrcs : w = tgt[t]
    BY DEF Inv, TypeOK
<1>5. wptrs[t][w] \in Nat /\ WrcAt(w)
    BY DEF Inv, TypeOK, Counts, WrcInv
<1>6. CASE s \in {"WrcInc", "FreeWrc"}
  <2>1. t \in holders[w] \/ t \in freers[w]
    BY <1>3, <1>4, <1>6 DEF holders, freers
  <2> QED
    BY <1>4, <1>5, <2>1 DEF WrcAt
<1>7. CASE s \in {"WrcDec", "TestPtr", "GetRefPtr"}
  <2>1. on[w][t] > 0
    <3>1. CASE s = "WrcDec"
      <4>1. t \in users[w]
        BY <1>3, <1>4, <3>1 DEF users
      <4> QED
        BY <1>5, <4>1 DEF on, One
    <3>2. CASE s \in {"TestPtr", "GetRefPtr"}
      <4>1. e = {}
        BY <1>2, <3>2, UnderIs DEF Last
      <4>2. op[t] # "acquire"
        BY <1>1, <1>2, <3>2, <4>1 DEF TagOf, Trying
      <4>3. wptrs[t][w] > 0
        BY <1>1, <1>3, <1>4, <3>2, <4>2 DEF TagOf
      <4>4. on[w][t] \in Nat /\ on[w][t] >= wptrs[t][w]
        BY WeakFacts
      <4> QED
        BY <1>5, <4>3, <4>4
    <3> QED
      BY <1>7, <3>1, <3>2
  <2> QED
    BY <1>4, <2>1, WeakFacts
<1> QED
    BY <1>6, <1>7 DEF WrcSteps

\* The sptrs of all threads are part of both counts.
LEMMA SptrsCounted ==
    ASSUME RefBaseConstants, Inv
    PROVE  Total(sptrs) \in Nat /\ Total(sptrs) <= strongs /\ Total(sptrs) <= weaks
<1>1. TypeOK /\ IsFiniteSet(Threads) /\ sptrs \in [Threads -> Nat]
    BY DEF Inv, TypeOK, RefBaseConstants
<1>2. strong \in [Threads -> Nat] /\ weak \in [Threads -> Nat]
    BY <1>1, Parts
<1>3. \A t \in Threads : sptrs[t] <= strong[t]
    BY <1>1 DEF strong, One
<1>4. \A t \in Threads : sptrs[t] <= weak[t]
    BY <1>1 DEF weak, One
<1>5. Total(sptrs) <= strongs
    BY <1>1, <1>2, <1>3, TotalMonotone DEF strongs
<1>6. Total(sptrs) <= weaks
    BY <1>1, <1>2, <1>4, TotalMonotone DEF weaks
<1>7. Total(sptrs) \in Nat
  <2>1. IsFiniteSet(Pairs(sptrs))
    BY <1>1, PairsFinite
  <2> QED
    BY <2>1, FS_CardinalityType DEF Total, Pairs
<1> QED
    BY <1>5, <1>6, <1>7

\* NoUseAfterFree follows from the invariant.
LEMMA InvNoUseAfterFree ==
    ASSUME RefBaseConstants, Inv
    PROVE  NoUseAfterFree
<1>1. ASSUME NEW t \in Threads, todo[t] # <<>>
      PROVE  /\ Head(todo[t]) \in CounterSteps => counter
             /\ Head(todo[t]) \in ObjectSteps => object
             /\ Head(todo[t]) \in WrcSteps => wrc[tgt[t]].state = "live"
             /\ Head(todo[t]) = "GetRefPtr" => callback
  <2>1. PICK s : s = Head(todo[t])
    OBVIOUS
  <2>2. At(t, s)
    BY <1>1, <2>1 DEF At
  <2>3. s \in CounterSteps => counter
    BY <2>2, CounterHeld
  <2>4. s \in ObjectSteps => object
    BY <2>2, ObjectHeld
  <2>5. s \in WrcSteps => wrc[tgt[t]].state = "live"
    BY <2>2, WrcHeld
  <2>6. ASSUME s = "GetRefPtr"
        PROVE  callback
    <3>1. s \in Steps /\ Stacked /\ sptrs[t] \in Nat /\ acquired \in Nat
      BY <2>6 DEF Steps, Inv, TypeOK
    <3>2. PICK e \in Under(s) : pend[t] = {s} \union e
      BY <2>2, <3>1, AtPend
    <3>3. e = {}
      BY <2>6, <3>2, UnderIs DEF Last
    <3>4. t \in gains /\ t \in wgains
      BY <2>6, <3>2, <3>3 DEF gains, wgains
    <3>5. strong[t] + acquired > 0
      BY <3>1, <3>4 DEF strong, One
    <3>6. weak[t] + acquired > 0
      BY <3>1, <3>4 DEF weak, One
    <3> QED
      BY <3>5, <3>6, ShareKeepsObject
  <2> QED
    BY <2>1, <2>3, <2>4, <2>5, <2>6
<1>2. ASSUME Total(sptrs) + acquired > 0
      PROVE  object /\ callback
  <2>1. /\ acquired \in Nat /\ atomicWeak \in Nat /\ TypeOK
        /\ lowered = acquired + strongs /\ atomicWeak >= acquired + weaks + readies
    BY DEF Inv, TypeOK, Counts, StrongInv, WeakInv
  <2>2. strongs \in Nat /\ weaks \in Nat /\ readies \in Nat
    BY <2>1, Parts, WeakFacts
  <2>3. lowered > 0
    BY <1>2, <2>1, <2>2, SptrsCounted
  <2>4. atomicStrong > 0
    BY <2>3, StrongFacts
  <2>5. atomicWeak > 0
    BY <1>2, <2>1, <2>2, SptrsCounted
  <2> QED
    BY <2>4, <2>5, LifeFacts DEF Alive
<1> QED
    BY <1>1, <1>2 DEF NoUseAfterFree

\* HooksOnce follows from the invariant.
LEMMA InvHooksOnce ==
    ASSUME RefBaseConstants, Inv
    PROVE  HooksOnce
<1>1. HookInv /\ firstCalls \in Nat /\ lastCalls \in Nat
    BY DEF Inv, Memory, TypeOK
<1>2. ~extended => lastCalls <= 1
    BY <1>1 DEF HookInv, One
<1>3. ASSUME ~extended, ~object, atomicStrong = 0
      PROVE  lastCalls = 1
  <2>1. onlast = {}
    <3>1. onlast \subseteq dying
      BY <1>3 DEF onlast, dying
    <3> QED
      BY <1>3, <3>1, LifeFacts
  <2> QED
    BY <1>1, <1>3, <2>1 DEF HookInv, One
<1>4. firstCalls <= 1
    BY <1>1 DEF HookInv, One
<1> QED
    BY <1>2, <1>3, <1>4 DEF HooksOnce

\* The counters while no operation runs.
LEMMA RestFacts ==
    ASSUME RefBaseConstants, FALSE \notin CanPromote, Inv, Quiescent
    PROVE  /\ \A t \in Threads : pend[t] = {}
           /\ lowered = acquired + Total(sptrs) /\ atomicStrong <= INITIAL_PRIMARY_VALUE
           /\ atomicWeak = acquired + Total(sptrs) + Cardinality(LiveWrcs)
           /\ atomicRefCount = Cardinality(LiveWrcs) + One(Alive)
           /\ \A w \in Wrcs : wrc[w].weak = WptrsOn(w)
           /\ \A w \in LiveWrcs : w \in Wrcs /\ wrc[w].weak > 0
           /\ Cardinality(LiveWrcs) \in Nat
           /\ LiveWrcs # {} => Alive
<1>1. \A t \in Threads : pend[t] = {}
    BY EmptyStack DEF Quiescent, pend
<1>2. TypeOK /\ StrongInv /\ OwingInv /\ WeakInv /\ RefInv /\ WrcInv
    BY DEF Inv, Counts
<1>3. strongs = Total(sptrs) /\ weaks = Total(sptrs) /\ reffed = 0
    BY <1>1, <1>2, AtRest
<1>4. /\ owing = {} /\ bases = {}
      /\ \A w \in Wrcs : /\ newers[w] = {} /\ holders[w] = {} /\ raisers[w] = {}
                         /\ freers[w] = {}
    BY <1>1, NothingPending
<1>5. \A w \in Wrcs : wrc[w].weak = WptrsOn(w)
    BY <1>1, <1>2, AtRest DEF WrcInv, WrcAt
<1>6. \A w \in Wrcs : wrc[w].weak \in Nat /\ (wrc[w].weak > 0 <=> wrc[w].state = "live")
  <2>1. ASSUME NEW w \in Wrcs
        PROVE  wrc[w].weak \in Nat /\ (wrc[w].weak > 0 <=> wrc[w].state = "live")
    <3>1. wrc[w].weak \in Nat
      BY <1>2 DEF TypeOK
    <3>2. wrc[w].state # "live" => wrc[w].weak = 0
      BY <1>2 DEF WrcInv, WrcAt
    <3>3. wrc[w].state = "live" => wrc[w].weak # 0
      BY <1>2, <1>4 DEF WrcInv, WrcAt
    <3> QED
      BY <3>1, <3>2, <3>3
  <2> QED
    BY <2>1
<1>7. ready = LiveWrcs /\ built = LiveWrcs
    BY <1>4, <1>6 DEF ready, built, LiveWrcs
<1>8. readies = Cardinality(LiveWrcs) /\ builts = Cardinality(LiveWrcs)
    BY <1>7 DEF readies, builts
<1>9. Cardinality(LiveWrcs) \in Nat
    BY <1>8, WeakFacts
<1>10. Held <=> Alive
    BY <1>4 DEF Held
<1>11. lowered = acquired + Total(sptrs)
       /\ atomicWeak = acquired + Total(sptrs) + Cardinality(LiveWrcs)
    BY <1>2, <1>3, <1>8 DEF StrongInv, WeakInv
<1>12. atomicRefCount = Cardinality(LiveWrcs) + One(Alive)
    BY <1>2, <1>3, <1>8, <1>9, <1>10 DEF RefInv, One
<1>13. atomicStrong <= INITIAL_PRIMARY_VALUE
    BY <1>2, <1>4, InitialIs DEF OwingInv, TypeOK
<1>14. \A w \in LiveWrcs : w \in Wrcs /\ wrc[w].weak > 0
    BY <1>6 DEF LiveWrcs
<1>15. LiveWrcs # {} => Alive
    BY <1>14, WeakFacts
<1> QED
    BY <1>1, <1>5, <1>9, <1>11, <1>12, <1>13, <1>14, <1>15

\* CountsExact follows from the invariant, when no promotion is refused.
LEMMA InvCountsExact ==
    ASSUME RefBaseConstants, FALSE \notin CanPromote, Inv
    PROVE  CountsExact
<1> SUFFICES ASSUME Quiescent, counter
             PROVE  /\ atomicStrong \in {Total(sptrs) + acquired, INITIAL_PRIMARY_VALUE}
                    /\ atomicStrong = INITIAL_PRIMARY_VALUE => Total(sptrs) + acquired = 0
                    /\ atomicWeak = Total(sptrs) + acquired + Cardinality(LiveWrcs)
                    /\ atomicRefCount = Cardinality(LiveWrcs) + 1
                    /\ \A w \in LiveWrcs : wrc[w].weak = WptrsOn(w)
    BY DEF CountsExact
<1>1. /\ atomicStrong \in Nat /\ acquired \in Nat /\ atomicRefCount \in Nat
      /\ atomicWeak \in Nat /\ CounterInv
    BY DEF Inv, TypeOK, Memory
<1>2. Total(sptrs) \in Nat
    BY SptrsCounted
<1>3. lowered = acquired + Total(sptrs) /\ atomicStrong <= INITIAL_PRIMARY_VALUE
    BY RestFacts
<1>4. /\ atomicStrong \in {Total(sptrs) + acquired, INITIAL_PRIMARY_VALUE}
      /\ atomicStrong = INITIAL_PRIMARY_VALUE => Total(sptrs) + acquired = 0
    BY <1>1, <1>2, <1>3, InitialIs DEF lowered
<1>5. atomicWeak = Total(sptrs) + acquired + Cardinality(LiveWrcs)
    BY <1>1, <1>2, RestFacts
<1>6. atomicRefCount # 0
  <2>1. freeing = {}
    BY RestFacts, NothingPending
  <2> QED
    BY <1>1, <2>1 DEF CounterInv
<1>7. Alive
  <2>1. SUFFICES ASSUME ~Alive PROVE FALSE
    OBVIOUS
  <2>2. LiveWrcs = {} /\ atomicRefCount = Cardinality(LiveWrcs) + 0
    BY <2>1, RestFacts DEF One
  <2> QED
    BY <1>6, <2>2, FS_EmptySet
<1>8. atomicRefCount = Cardinality(LiveWrcs) + 1
    BY <1>7, RestFacts DEF One
<1>9. \A w \in LiveWrcs : wrc[w].weak = WptrsOn(w)
    BY RestFacts
<1> QED
    BY <1>4, <1>5, <1>8, <1>9

\* NoLeak follows from the invariant, when no promotion is refused.
LEMMA InvNoLeak ==
    ASSUME RefBaseConstants, FALSE \notin CanPromote, Inv
    PROVE  NoLeak
<1> SUFFICES ASSUME NoHandles, Quiescent
             PROVE  ~object /\ ~counter /\ LiveWrcs = {}
    BY DEF NoLeak
<1>1. /\ atomicStrong \in Nat /\ atomicWeak \in Nat /\ extended \in BOOLEAN
      /\ sptrs \in [Threads -> Nat] /\ wptrs \in [Threads -> [Wrcs -> Nat]]
      /\ CounterInv /\ LifeInv
    BY DEF Inv, TypeOK, Memory
<1>2. /\ raw = {} /\ acquired = 0
      /\ \A t \in Threads : sptrs[t] = 0 /\ \A w \in Wrcs : wptrs[t][w] = 0
    BY DEF NoHandles
<1>3. Total(sptrs) = 0
    BY <1>1, <1>2, TotalZero
<1>4. LiveWrcs = {}
  <2>1. ASSUME NEW w \in LiveWrcs
        PROVE  FALSE
    <3> DEFINE f == [t \in Threads |-> wptrs[t][w]]
    <3>1. w \in Wrcs /\ wrc[w].weak > 0 /\ wrc[w].weak = WptrsOn(w)
      BY RestFacts
    <3>2. f \in [Threads -> Nat] /\ \A t \in Threads : f[t] = 0
      BY <1>1, <1>2, <3>1
    <3> HIDE DEF f
    <3>3. Total(f) = 0
      BY <3>2, TotalZero
    <3>4. WptrsOn(w) = 0
      BY <3>3 DEF f, WptrsOn
    <3> QED
      BY <3>1, <3>4
  <2> QED
    BY <2>1
<1>5. Cardinality(LiveWrcs) = 0
    BY <1>4, FS_EmptySet
<1>6. /\ comings = {} /\ freeing = {} /\ dying = {} /\ lasts = {}
    BY RestFacts, NothingPending
<1>7. ~Alive
  <2>1. atomicWeak = 0
    BY <1>2, <1>3, <1>5, RestFacts
  <2> QED
    BY <1>2, <1>6, <2>1 DEF Alive
<1>8. ~counter
  <2>1. atomicRefCount = 0
    BY <1>5, <1>7, RestFacts DEF One
  <2> QED
    BY <1>1, <1>6, <2>1 DEF CounterInv
<1>9. ~object
  <2>1. lowered = 0
    BY <1>2, <1>3, RestFacts
  <2>2. atomicStrong = 0 \/ atomicStrong = INITIAL_PRIMARY_VALUE
    BY <1>1, <2>1, InitialIs DEF lowered
  <2>3. Gone
    BY <1>7, <2>2 DEF Gone, WeakDeletes
  <2> QED
    BY <1>1, <1>6, <2>3 DEF LifeInv
<1> QED
    BY <1>4, <1>8, <1>9

-----------------------------------------------------------------------------
(* The theorems.                                                           *)

\* Every reachable state satisfies the invariant: each counter is the number of the
\* handles and of the steps under way that it stands for, one thread at a time
\* destroys, and what a thread dereferences is kept by a count.
THEOREM RefBaseInvariant == Spec => []Inv
<1>1. Init => Inv
    BY InitInv, RefBaseConstants
<1>2. Inv /\ [Next]_vars => Inv'
    BY NextKeeps, RefBaseConstants
<1> QED
    BY <1>1, <1>2, PTL DEF Spec

\* No step of any thread uses the object, its RefCounter or a WeakRefCounter after it
\* is freed, and an owned reference keeps the object (refbase.cpp, RefPtrCallback,
\* DecRefCount, DecWeakRefCount), for any number of threads and WeakRefCounters.
THEOREM NothingUsedAfterFree == Spec => []NoUseAfterFree
<1>1. Inv => NoUseAfterFree
    BY InvNoUseAfterFree, RefBaseConstants
<1> QED
    BY <1>1, RefBaseInvariant, PTL

\* OnFirstStrongRef runs at most once, and an object of normal lifetime is freed after
\* exactly one OnLastStrongRef, whatever CanPromote() answers.
THEOREM HooksRunOnce == Spec => []HooksOnce
<1>1. Inv => HooksOnce
    BY InvHooksOnce, RefBaseConstants
<1> QED
    BY <1>1, RefBaseInvariant, PTL

\* Between operations the counters say what refbase.h documents, as long as no
\* CanPromote() refuses: a refusal leaks a weak count, which the violated run shows.
THEOREM CountersAreExact ==
    ASSUME FALSE \notin CanPromote
    PROVE  Spec => []CountsExact
<1>1. Inv => CountsExact
    BY InvCountsExact, RefBaseConstants
<1> QED
    BY <1>1, RefBaseInvariant, PTL

\* The last handle takes the object, its RefCounter and every WeakRefCounter with it,
\* as long as no CanPromote() refuses.
THEOREM NothingLeaks ==
    ASSUME FALSE \notin CanPromote
    PROVE  Spec => []NoLeak
<1>1. Inv => NoLeak
    BY InvNoLeak, RefBaseConstants
<1> QED
    BY <1>1, RefBaseInvariant, PTL
=============================================================================
