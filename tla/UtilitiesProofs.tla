--------------------------- MODULE UtilitiesProofs ---------------------------
(***************************************************************************)
(* Observer, Descriptors, SortedVector and MappedFile keep their promises  *)
(* for any number of threads, observers, objects, descriptors, items and   *)
(* files.                                                                  *)
(***************************************************************************)
EXTENDS MCUtilities, Sequences, FiniteSetTheorems, WellFoundedInduction,
        NaturalsInduction, TLAPS

(***************************************************************************)
(* Observer.                                                               *)
(***************************************************************************)
SubjectStates == {"idle", "set", "test", "clear", "update"}

ObserverType ==
    /\ obs \subseteq Observers /\ version \in Nat /\ seen \in [Observers -> Nat]
    /\ pc \in [Subjects -> SubjectStates]
    /\ arrLocal \in [Subjects -> SUBSET Observers]
    /\ changed \in BOOLEAN

\* Whoever has tested the flag keeps the set of observers as it copied it.
Copied == \A t \in Subjects : pc[t] = "clear" => holder = t /\ arrLocal[t] = obs

\* Somebody will still notify o of the last change.
Pending(o) ==
    \/ \E t \in Subjects : pc[t] = "set"
    \/ changed /\ \E t \in Subjects : pc[t] = "test"
    \/ \E t \in Subjects : pc[t] \in {"clear", "update"} /\ o \in arrLocal[t]

ObserverInv ==
    /\ ObserverType /\ Copied
    /\ \A o \in obs : seen[o] = version \/ Pending(o)

\* A subject that nobody has called satisfies the invariant.
LEMMA ObserverInit == O!Init => ObserverInv
<1> SUFFICES ASSUME O!Init
             PROVE  ObserverInv
    OBVIOUS
<1>1. changed \in BOOLEAN
    BY DEF O!Init
<1> QED
    BY <1>1 DEF O!Init, ObserverInv, ObserverType, Copied, SubjectStates

\* A step of a subject keeps somebody in charge of every stale observer.
LEMMA ObserverStep ==
    ASSUME ObserverInv, NEW t \in Subjects, O!Step(t)
    PROVE  ObserverInv'
<1> USE DEF ObserverInv, O!Goto
<1>1. changed' \in BOOLEAN
    BY DEF O!Step, O!Change, O!SetChanged, O!Test, O!ClearChanged, O!Update, ObserverType
<1>2. CASE O!Change(t)
  <2>1. pc' = [pc EXCEPT ![t] = "set"] /\ version' = version + 1
        /\ UNCHANGED <<obs, changed, holder, seen, arrLocal>>
    BY <1>2 DEF O!Change
  <2>2. ObserverType' /\ Copied'
    BY <1>1, <2>1 DEF ObserverType, SubjectStates, Copied
  <2>3. \A o \in obs' : Pending(o)'
    BY <2>1 DEF Pending, ObserverType
  <2> QED
    BY <2>2, <2>3
<1>3. CASE O!SetChanged(t)
  <2>1. pc[t] = "set" /\ pc' = [pc EXCEPT ![t] = "test"] /\ changed' = TRUE
        /\ UNCHANGED <<obs, version, holder, seen, arrLocal>>
    BY <1>3 DEF O!SetChanged
  <2>2. ObserverType' /\ Copied'
    BY <1>1, <2>1 DEF ObserverType, SubjectStates, Copied
  <2>3. \A o \in obs' : Pending(o)'
    BY <2>1 DEF Pending, ObserverType
  <2> QED
    BY <2>2, <2>3
<1>4. CASE O!Test(t) /\ ~changed
  <2>1. pc[t] = "test" /\ pc' = [pc EXCEPT ![t] = "idle"]
        /\ UNCHANGED <<obs, version, holder, seen, arrLocal, changed>>
    BY <1>4 DEF O!Test
  <2>2. ObserverType' /\ Copied'
    BY <1>1, <2>1 DEF ObserverType, SubjectStates, Copied
  <2>3. \A o \in obs : Pending(o) => Pending(o)'
    BY <1>4, <2>1 DEF Pending, ObserverType
  <2> QED
    BY <2>1, <2>2, <2>3
<1>5. CASE O!Test(t) /\ changed
  <2>1. /\ pc[t] = "test" /\ pc' = [pc EXCEPT ![t] = "clear"]
        /\ holder = O!None /\ holder' = t /\ arrLocal' = [arrLocal EXCEPT ![t] = obs]
        /\ UNCHANGED <<obs, version, seen, changed>>
    BY <1>5 DEF O!Test, O!After, O!Order
  <2>2. \A u \in Subjects : pc[u] # "clear"
    BY <2>1, UnitsConstants DEF Copied
  <2>3. ObserverType' /\ Copied'
    BY <1>1, <2>1, <2>2 DEF ObserverType, SubjectStates, Copied
  <2>4. \A o \in obs' : Pending(o)'
    BY <2>1 DEF Pending, ObserverType
  <2> QED
    BY <2>3, <2>4
<1>6. CASE O!ClearChanged(t)
  <2>1. /\ pc[t] = "clear" /\ pc' = [pc EXCEPT ![t] = "update"]
        /\ holder' = O!None /\ changed' = FALSE
        /\ UNCHANGED <<obs, version, seen, arrLocal>>
    BY <1>6 DEF O!ClearChanged, O!After, O!Order
  <2>2. arrLocal[t] = obs /\ \A u \in Subjects : pc[u] = "clear" => u = t
    BY <2>1 DEF Copied
  <2>3. ObserverType' /\ Copied'
    BY <1>1, <2>1, <2>2 DEF ObserverType, SubjectStates, Copied
  <2>4. \A o \in obs' : Pending(o)'
    BY <2>1, <2>2 DEF Pending, ObserverType
  <2> QED
    BY <2>3, <2>4
<1>7. CASE O!Update(t) /\ arrLocal[t] = {}
  <2>1. /\ pc[t] = "update" /\ pc' = [pc EXCEPT ![t] = "idle"]
        /\ UNCHANGED <<obs, version, holder, seen, arrLocal, changed>>
    BY <1>7 DEF O!Update, O!After, O!Order
  <2>2. ObserverType' /\ Copied'
    BY <1>1, <2>1 DEF ObserverType, SubjectStates, Copied
  <2>3. \A o \in obs : Pending(o) => Pending(o)'
    BY <1>7, <2>1 DEF Pending, ObserverType
  <2> QED
    BY <2>1, <2>2, <2>3
<1>8. CASE O!Update(t) /\ arrLocal[t] # {}
  <2>1. PICK o \in arrLocal[t] :
            /\ pc[t] = "update" /\ seen' = [seen EXCEPT ![o] = version]
            /\ arrLocal' = [arrLocal EXCEPT ![t] = @ \ {o}]
            /\ UNCHANGED <<pc, obs, version, holder, changed>>
    BY <1>8 DEF O!Update
  <2>2. ObserverType' /\ Copied'
    BY <1>1, <2>1 DEF ObserverType, SubjectStates, Copied
  <2>3. \A p \in obs \ {o} : seen'[p] = seen[p] /\ (Pending(p) => Pending(p)')
    BY <2>1 DEF Pending, ObserverType
  <2>4. o \in obs => seen'[o] = version'
    BY <2>1 DEF ObserverType
  <2> QED
    BY <2>1, <2>2, <2>3, <2>4
<1> QED
    BY <1>2, <1>3, <1>4, <1>5, <1>6, <1>7, <1>8 DEF O!Step

\* Every step of the observer preserves its invariant.
LEMMA ObserverNext == ObserverInv /\ O!Next => ObserverInv'
<1> SUFFICES ASSUME ObserverInv, O!Next
             PROVE  ObserverInv'
    OBVIOUS
<1>1. ASSUME NEW o \in Observers, O!AddObserver(o) \/ O!RemoveObserver(o) \/ O!RemoveAllObservers
      PROVE  ObserverInv'
  <2>1. holder = O!None /\ UNCHANGED <<changed, holder, version, pc, arrLocal>>
    BY <1>1 DEF O!AddObserver, O!RemoveObserver, O!RemoveAllObservers
  <2>2. \A t \in Subjects : pc[t] # "clear"
    BY <2>1, UnitsConstants DEF Copied, ObserverInv
  <2>3. changed' \in BOOLEAN
    BY <2>1 DEF ObserverInv, ObserverType
  <2>4. ObserverType' /\ Copied'
    BY <1>1, <2>1, <2>2, <2>3
    DEF O!AddObserver, O!RemoveObserver, O!RemoveAllObservers, ObserverInv, ObserverType, Copied
  <2>5. \A p \in Observers : Pending(p)' <=> Pending(p)
    BY <2>1 DEF Pending
  <2>6. \A p \in obs' : seen'[p] = version \/ (p \in obs /\ seen'[p] = seen[p])
    BY <1>1 DEF O!AddObserver, O!RemoveObserver, O!RemoveAllObservers, ObserverInv, ObserverType
  <2> QED
    BY <2>1, <2>4, <2>5, <2>6 DEF ObserverInv, ObserverType
<1>2. CASE O!RemoveAllObservers
  <2>1. Observers # {}
    BY <1>2 DEF O!RemoveAllObservers, ObserverInv, ObserverType
  <2> QED
    BY <1>1, <1>2, <2>1
<1> QED
    BY <1>1, <1>2, ObserverStep DEF O!Next

(* Whatever the number of subjects and observers, a change is never missed *)
(* though SetChanged takes no lock and may fall between another subject's  *)
(* test of changed_ and ClearChanged (observer.cpp:82): the subject that   *)
(* clears the flag has every registered observer still to update.          *)
THEOREM ChangesAreSeen == UnitsSpec => []NoChangeMissed
<1>1. UnitsInit => ObserverInv
    BY ObserverInit DEF UnitsInit
<1>2. ObserverInv /\ [UnitsNext /\ UNCHANGED unit]_<<unit, vars, fdVars, obsVars, vecVars>>
      => ObserverInv'
  <2> SUFFICES ASSUME ObserverInv, O!Next \/ UNCHANGED obsVars
               PROVE  ObserverInv'
    BY DEF UnitsNext
  <2>1. CASE UNCHANGED obsVars
    <3>1. UNCHANGED <<obs, changed, holder, version, seen, pc, arrLocal>>
      BY <2>1 DEF obsVars
    <3> QED
      BY <3>1 DEF ObserverInv, ObserverType, Copied, Pending
  <2> QED
    BY <2>1, ObserverNext
<1>3. ObserverInv => NoChangeMissed
    BY DEF ObserverInv, ObserverType, NoChangeMissed, O!NoChangeMissed, Pending
<1> QED
    BY <1>1, <1>2, <1>3, PTL DEF UnitsSpec

(***************************************************************************)
(* Descriptors.                                                            *)
(***************************************************************************)
Numbers == 0 .. MaxFd
Owners  == Holders \union Regions

OpenFiles == [kind : {"plain", "region"}, mask : SUBSET D!RW]

DescriptorType ==
    /\ open \in [Numbers -> OpenFiles \union {D!Closed}]
    /\ raw \subseteq Numbers
    /\ fd \in [Owners -> -2 .. MaxFd]

\* Who owns a descriptor has an open one, alone; an open one other than 0 has
\* an owner.
Owned ==
    /\ \A o \in Owners : fd[o] >= 0 => D!IsOpen(fd[o]) /\ fd[o] \notin raw
    /\ \A n \in raw : D!IsOpen(n)
    /\ \A o, p \in Owners : fd[o] >= 0 /\ fd[o] = fd[p] => o = p
    /\ \A n \in Numbers : D!IsOpen(n) /\ n # 0 => n \in raw \/ \E o \in Owners : fd[o] = n

OwnedInv == DescriptorType /\ Owned

\* AshmemCreate is only inside its calls with the descriptor it opened.
InCreation ==
    /\ step \in [Regions -> Nat]
    /\ \A r \in Regions : step[r] # 0 => fd[r] >= 0

\* The kernel gives out a descriptor that is free.
LEMMA MinFree ==
    ASSUME DescriptorType, D!Free # {}
    PROVE  D!Min(D!Free) \in D!Free
<1> DEFINE R == {ss \in Nat \X Nat : ss[1] < ss[2]}
<1>1. IsWellFoundedOn(R, Nat)
    BY NatLessThanWellFounded, Zenon DEF OpToRel
<1>2. \A x, y \in Nat : y < x => <<y, x>> \in R
    OBVIOUS
<1> HIDE DEF R
<1>3. D!Free \subseteq Nat
    BY DEF D!Free, DescriptorType, Numbers
<1>4. PICK x \in D!Free : \A y \in D!Free : ~(<<y, x>> \in R)
    BY <1>1, <1>3, WFMin
<1>5. ASSUME NEW y \in D!Free
      PROVE  x <= y
  <2>1. x \in Nat /\ y \in Nat /\ ~(y < x)
    BY <1>2, <1>3, <1>4, <1>5
  <2> QED
    BY <2>1
<1> QED
    BY <1>5 DEF D!Min

\* What may be opened and what closing leaves.
LEMMA OpenFacts ==
    ASSUME DescriptorType
    PROVE  /\ DOMAIN open = Numbers /\ D!Closed \notin OpenFiles
           /\ D!Plain \in OpenFiles /\ D!Region \in OpenFiles
           /\ \A n \in Numbers : D!IsOpen(n) <=> open[n] \in OpenFiles
           /\ D!Free = {n \in Numbers : ~D!IsOpen(n)}
<1>1. DOMAIN open = Numbers
    BY DEF DescriptorType
<1>2. D!Closed \notin OpenFiles
    BY DEF D!Closed, OpenFiles
<1>3. D!Plain \in OpenFiles /\ D!Region \in OpenFiles
    BY DEF D!Plain, D!Region, OpenFiles, D!RW
<1>4. \A n \in Numbers : D!IsOpen(n) <=> open[n] \in OpenFiles
    BY <1>2 DEF D!IsOpen, DescriptorType
<1>5. D!Free = {n \in Numbers : ~D!IsOpen(n)}
    BY <1>1 DEF D!Free
<1> QED
    BY <1>1, <1>2, <1>3, <1>4, <1>5

\* A process that has at most stdin open satisfies the invariant.
LEMMA OwnedInit == D!Init => OwnedInv
<1> SUFFICES ASSUME D!Init
             PROVE  OwnedInv
    OBVIOUS
<1>1. PICK zero \in BOOLEAN :
          /\ open = [n \in Numbers |-> IF n = 0 /\ zero THEN D!Plain ELSE D!Closed]
          /\ raw = IF zero THEN {0} ELSE {}
    BY DEF D!Init, Numbers
<1>2. fd \in [Owners -> -2 .. MaxFd] /\ \A o \in Owners : ~(fd[o] >= 0)
    BY UnitsConstants DEF D!Init, D!Dead, Owners
<1>3. D!Plain # D!Closed /\ D!Plain \in OpenFiles /\ 0 \in Numbers
    BY UnitsConstants DEF D!Plain, D!Closed, OpenFiles, Numbers
<1>4. DescriptorType
    BY <1>1, <1>2, <1>3 DEF DescriptorType
<1>5. Owned
    BY <1>1, <1>2, <1>3 DEF Owned, D!IsOpen
<1> QED
    BY <1>4, <1>5 DEF OwnedInv

\* Opening, closing, and handing a descriptor on, by code outside.
LEMMA RawInv ==
    ASSUME OwnedInv, D!OpenRaw \/ \E n \in raw : D!CloseRaw(n)
    PROVE  OwnedInv'
<1> USE DEF OwnedInv, D!IsOpen
<1>1. CASE D!OpenRaw
  <2> DEFINE m == D!Min(D!Free)
  <2>1. PICK what \in OpenFiles : open' = [open EXCEPT ![m] = what]
    BY <1>1, OpenFacts DEF D!OpenRaw, D!Opened
  <2>2. raw' = raw \union {m} /\ fd' = fd /\ m \in Numbers /\ open[m] = D!Closed
    BY <1>1, MinFree, OpenFacts DEF D!OpenRaw
  <2>3. what # D!Closed
    BY <2>1, OpenFacts
  <2> HIDE DEF m
  <2>4. DescriptorType'
    BY <2>1, <2>2 DEF DescriptorType
  <2>5. \A n \in Numbers : open'[n] = IF n = m THEN what ELSE open[n]
    BY <2>1, <2>2 DEF DescriptorType
  <2>6. \A o \in Owners : fd[o] >= 0 => fd[o] \in Numbers
    BY UnitsConstants DEF DescriptorType, Numbers
  <2>7. Owned'
    BY <2>2, <2>3, <2>5, <2>6 DEF Owned, DescriptorType
  <2> QED
    BY <2>4, <2>7
<1>2. ASSUME NEW m \in raw, D!CloseRaw(m)
      PROVE  OwnedInv'
  <2>1. open' = [open EXCEPT ![m] = D!Closed] /\ raw' = raw \ {m} /\ fd' = fd /\ m \in Numbers
    BY <1>2 DEF D!CloseRaw, D!Close, DescriptorType
  <2>2. DescriptorType'
    BY <2>1 DEF DescriptorType
  <2>3. \A n \in Numbers : open'[n] = IF n = m THEN D!Closed ELSE open[n]
    BY <2>1 DEF DescriptorType
  <2>4. \A o \in Owners : fd[o] >= 0 => fd[o] \in Numbers
    BY UnitsConstants DEF DescriptorType, Numbers
  <2>5. Owned'
    BY <2>1, <2>3, <2>4 DEF Owned, DescriptorType
  <2> QED
    BY <2>2, <2>5
<1> QED
    BY <1>1, <1>2

\* An owner h gives up its descriptor, which is closed.
LEMMA CloseOwned ==
    ASSUME OwnedInv, NEW h \in Owners, NEW v \in {D!None, D!Dead}, raw' = raw,
           fd' = [fd EXCEPT ![h] = v],
           \/ fd[h] >= 0 /\ open' = D!Close(fd[h])
           \/ fd[h] <= 0 /\ open' = open
    PROVE  OwnedInv'
<1> USE DEF OwnedInv, D!IsOpen
<1>1. v \in -2 .. MaxFd /\ ~(v >= 0)
    BY UnitsConstants DEF D!None, D!Dead
<1>2. \A o \in Owners : fd'[o] = IF o = h THEN v ELSE fd[o]
    BY DEF DescriptorType
<1>3. \A o \in Owners : fd[o] >= 0 => fd[o] \in Numbers
    BY UnitsConstants DEF DescriptorType, Numbers
<1>4. \A o \in Owners : fd[o] \in Int
    BY UnitsConstants DEF DescriptorType
<1>5. CASE fd[h] >= 0 /\ open' = D!Close(fd[h])
  <2>1. \A n \in Numbers : open'[n] = IF n = fd[h] THEN D!Closed ELSE open[n]
    BY <1>3, <1>5 DEF D!Close, DescriptorType
  <2>2. DescriptorType'
    BY <1>1, <1>5 DEF DescriptorType, D!Close
  <2>3. Owned'
    BY <1>1, <1>2, <1>3, <1>5, <2>1 DEF Owned, DescriptorType
  <2> QED
    BY <2>2, <2>3
<1>6. CASE fd[h] <= 0 /\ open' = open
  <2>1. DescriptorType'
    BY <1>1, <1>6 DEF DescriptorType
  <2>2. \A n \in Numbers : n # 0 => n > 0 /\ n # fd[h]
    BY <1>4, <1>6 DEF Numbers
  <2>3. Owned'
    BY <1>1, <1>2, <1>6, <2>2 DEF Owned
  <2> QED
    BY <2>1, <2>3
<1> QED
    BY <1>5, <1>6

\* Descriptors change hands while open stays as it is.
LEMMA HandOver ==
    ASSUME OwnedInv, open' = open, NEW h \in Owners,
           \/ \E n \in raw : /\ fd[h] = D!Dead /\ fd' = [fd EXCEPT ![h] = n]
                             /\ raw' = raw \ {n}
           \/ /\ fd' = [fd EXCEPT ![h] = D!None]
              /\ raw' = IF fd[h] >= 0 THEN raw \union {fd[h]} ELSE raw
    PROVE  OwnedInv'
<1> USE DEF OwnedInv, D!IsOpen
<1>1. \A o \in Owners : fd[o] >= 0 => fd[o] \in Numbers
    BY UnitsConstants DEF DescriptorType, Numbers
<1>2. ASSUME NEW n \in raw, fd[h] = D!Dead, fd' = [fd EXCEPT ![h] = n], raw' = raw \ {n}
      PROVE  OwnedInv'
  <2>1. /\ n \in -2 .. MaxFd /\ ~(fd[h] >= 0) /\ n \in Numbers /\ n >= 0
        /\ \A m \in Numbers : m # fd[h]
    BY <1>2, UnitsConstants DEF DescriptorType, Numbers, D!Dead
  <2>2. \A o \in Owners : fd'[o] = IF o = h THEN n ELSE fd[o]
    BY <1>2 DEF DescriptorType
  <2>3. DescriptorType'
    BY <1>2, <2>1 DEF DescriptorType
  <2>4. Owned'
    BY <1>1, <1>2, <2>1, <2>2 DEF Owned
  <2> QED
    BY <2>3, <2>4
<1>3. CASE /\ fd' = [fd EXCEPT ![h] = D!None]
           /\ raw' = IF fd[h] >= 0 THEN raw \union {fd[h]} ELSE raw
  <2>1. D!None \in -2 .. MaxFd /\ ~(D!None >= 0) /\ (fd[h] \in Numbers => fd[h] >= 0)
    BY UnitsConstants DEF D!None, Numbers
  <2>2. \A o \in Owners : fd'[o] = IF o = h THEN D!None ELSE fd[o]
    BY <1>3 DEF DescriptorType
  <2>3. DescriptorType'
    BY <1>1, <1>3, <2>1 DEF DescriptorType
  <2>4. Owned'
    BY <1>1, <1>3, <2>1, <2>2 DEF Owned
  <2> QED
    BY <2>3, <2>4
<1> QED
    BY <1>2, <1>3

\* UniqueFd objects are moved: operator= closes what its target had.
LEMMA MoveInv ==
    ASSUME OwnedInv, NEW h \in Holders, NEW g \in Holders, D!MoveFd(h, g) \/ D!AssignFd(h, g)
    PROVE  OwnedInv'
<1> USE DEF OwnedInv, D!IsOpen
<1>1. /\ h \in Owners /\ g \in Owners /\ raw' = raw
      /\ fd' = [[fd EXCEPT ![h] = D!None] EXCEPT ![g] = fd[h]]
    BY DEF D!MoveFd, D!AssignFd, D!Release, Owners
<1>2. \A o \in Owners : fd'[o] = IF o = g THEN fd[h] ELSE IF o = h THEN D!None ELSE fd[o]
    BY <1>1 DEF DescriptorType
<1>3. \A o \in Owners : fd[o] >= 0 => fd[o] \in Numbers
    BY UnitsConstants DEF DescriptorType, Numbers
<1>4. D!None \in -2 .. MaxFd /\ ~(D!None >= 0) /\ \A o \in Owners : fd[o] \in -2 .. MaxFd
    BY UnitsConstants DEF D!None, DescriptorType
<1>5. fd' \in [Owners -> -2 .. MaxFd]
    BY <1>1, <1>4 DEF DescriptorType
<1>6. CASE h = g
  <2>1. fd' = fd /\ open' = open
    BY <1>1, <1>6 DEF D!MoveFd, D!AssignFd, DescriptorType, D!Dead
  <2> QED
    BY <1>1, <2>1 DEF DescriptorType, Owned
<1>7. CASE h # g /\ open' = open /\ ~(fd[g] >= 0)
  <2>1. \A n \in Numbers : n # fd[g]
    BY <1>7 DEF Numbers
  <2>2. \A n \in Numbers : (\E o \in Owners : fd[o] = n) => \E o \in Owners : fd'[o] = n
    <3> SUFFICES ASSUME NEW o \in Owners, fd[o] \in Numbers
                 PROVE  \E p \in Owners : fd'[p] = fd[o]
      OBVIOUS
    <3>1. o # g
      BY <2>1
    <3>2. fd'[g] = fd[h] /\ (o # h => fd'[o] = fd[o])
      BY <1>1, <1>2, <3>1
    <3> QED
      BY <1>1, <3>2
  <2>3. \A n \in Numbers : open'[n] # D!Closed /\ n # 0
                          => n \in raw' \/ \E o \in Owners : fd'[o] = n
    BY <1>1, <1>7, <2>2 DEF Owned
  <2>4. /\ \A o \in Owners : fd'[o] >= 0 => open'[fd'[o]] # D!Closed /\ fd'[o] \notin raw'
        /\ \A n \in raw' : open'[n] # D!Closed
    <3>1. \A o \in Owners : fd[o] >= 0 => open[fd[o]] # D!Closed /\ fd[o] \notin raw
      BY DEF Owned
    <3>2. \A n \in raw : open[n] # D!Closed
      BY DEF Owned
    <3>3. \A o \in Owners : fd'[o] >= 0 => \E p \in Owners : fd'[o] = fd[p]
      BY <1>1, <1>2, <1>4
    <3>4. raw' = raw /\ open' = open
      BY <1>1, <1>7
    <3>5. ASSUME NEW o \in Owners, fd'[o] >= 0
          PROVE  open[fd'[o]] # D!Closed /\ fd'[o] \notin raw
      <4>1. PICK p \in Owners : fd'[o] = fd[p]
        BY <3>3, <3>5
      <4> QED
        BY <3>1, <3>5, <4>1
    <3> QED
      BY <3>2, <3>4, <3>5
  <2>5. ASSUME NEW o \in Owners, NEW p \in Owners, fd'[o] >= 0, fd'[o] = fd'[p]
        PROVE  o = p
    <3>1. \A a, b \in Owners : fd[a] >= 0 /\ fd[a] = fd[b] => a = b
      BY DEF Owned
    <3> QED
      BY <1>1, <1>2, <1>4, <1>7, <2>5, <3>1
  <2>6. Owned'
    BY <2>3, <2>4, <2>5 DEF Owned
  <2> QED
    BY <1>1, <1>5, <1>7, <2>6 DEF DescriptorType
<1>8. CASE h # g /\ fd[g] >= 0 /\ open' = D!Close(fd[g])
  <2>1. \A n \in Numbers : open'[n] = IF n = fd[g] THEN D!Closed ELSE open[n]
    BY <1>1, <1>3, <1>8 DEF D!Close, DescriptorType
  <2>2. open' \in [Numbers -> OpenFiles \union {D!Closed}]
    BY <1>8 DEF D!Close, DescriptorType
  <2>3. Owned'
    BY <1>1, <1>2, <1>3, <1>4, <1>8, <2>1 DEF Owned, DescriptorType
  <2> QED
    BY <1>1, <1>5, <2>2, <2>3 DEF DescriptorType
<1> QED
    BY <1>6, <1>7, <1>8 DEF D!MoveFd, D!AssignFd, D!Reset, D!Dead

\* The calls after open are five.
LEMMA CallsAre == DOMAIN D!Calls = 1 .. 5
    BY DEF D!Calls

\* A region gets a descriptor, fresh or from outside, loses it or keeps it.
LEMMA RegionInv ==
    ASSUME OwnedInv, InCreation, NEW r \in Regions,
           \/ D!AshmemOpen(r) \/ D!AshmemCreate(r) \/ D!CreateAshmem(r) \/ D!AshmemCreateFails(r)
           \/ D!Ashmem(r) \/ D!SetProtection(r) \/ D!MapAshmem(r)
           \/ D!UnmapAshmem(r) \/ D!CloseAshmem(r) \/ D!DestroyAshmem(r)
    PROVE  OwnedInv'
<1> USE DEF OwnedInv, D!IsOpen
<1>1. r \in Owners /\ fd[r] \in -2 .. MaxFd /\ fd[r] \in Int
    BY UnitsConstants DEF Owners, DescriptorType
<1>2. \A o \in Owners : fd[o] >= 0 => fd[o] \in Numbers
    BY UnitsConstants DEF DescriptorType, Numbers
<1>3. CASE D!AshmemOpen(r)
  <2> DEFINE m == D!Min(D!Free)
             what == D!Region
  <2>1. /\ open' = [open EXCEPT ![m] = what] /\ fd' = [fd EXCEPT ![r] = m] /\ raw' = raw
        /\ fd[r] = D!Dead /\ ~(fd[r] >= 0)
    BY <1>3 DEF D!AshmemOpen, D!Opened, D!Dead
  <2>2. m \in Numbers /\ open[m] = D!Closed /\ m >= 0 /\ m \in -2 .. MaxFd
    BY <1>3, MinFree, OpenFacts, UnitsConstants DEF Numbers, D!AshmemOpen
  <2>3. what \in OpenFiles /\ what # D!Closed
    BY DEF OpenFiles, D!Region, D!RW, D!Closed
  <2> HIDE DEF m, what
  <2>4. \A k \in Numbers : open'[k] = IF k = m THEN what ELSE open[k]
    BY <2>1, <2>2 DEF DescriptorType
  <2>5. \A o \in Owners : fd'[o] = IF o = r THEN m ELSE fd[o]
    BY <2>1 DEF DescriptorType
  <2>6. DescriptorType'
    BY <2>1, <2>2, <2>3 DEF DescriptorType
  <2>7. \A k \in Numbers : k # fd[r]
    BY <2>1 DEF Numbers
  <2>8. Owned'
    BY <1>1, <1>2, <2>1, <2>2, <2>3, <2>4, <2>5, <2>7 DEF Owned, DescriptorType
  <2> QED
    BY <2>6, <2>8
<1>9. CASE D!AshmemCreate(r) \/ D!CreateAshmem(r)
  <2>1. UNCHANGED <<open, raw, fd>>
    BY <1>9 DEF D!AshmemCreate, D!CreateAshmem
  <2> QED
    BY <2>1 DEF DescriptorType, Owned
<1>11. CASE D!AshmemCreateFails(r)
  <2>1. fd' = [fd EXCEPT ![r] = D!Dead] /\ raw' = raw /\ fd[r] >= 0 /\ open' = D!Close(fd[r])
    BY <1>11, CallsAre DEF D!AshmemCreateFails, D!ClosedOnError, InCreation
  <2> QED
    BY <1>1, <2>1, CloseOwned
<1>4. CASE D!Ashmem(r)
    BY <1>1, <1>4, HandOver DEF D!Ashmem
<1>5. CASE D!SetProtection(r)
  <2>1. PICK mask \in SUBSET open[fd[r]].mask : open' = [open EXCEPT ![fd[r]].mask = mask]
    BY <1>5 DEF D!SetProtection
  <2>2. fd[r] \in Numbers /\ open[fd[r]] \in OpenFiles /\ UNCHANGED <<raw, fd>>
    BY <1>1, <1>2, <1>5, OpenFacts DEF D!SetProtection, Owned
  <2>3. [open[fd[r]] EXCEPT !.mask = mask] \in OpenFiles
    BY <2>2 DEF OpenFiles
  <2>4. open' \in [Numbers -> OpenFiles \union {D!Closed}]
    BY <2>1, <2>2, <2>3 DEF DescriptorType
  <2>5. \A n \in Numbers : open'[n] # D!Closed <=> open[n] # D!Closed
    BY <2>1, <2>2, <2>3, OpenFacts DEF DescriptorType
  <2> QED
    BY <1>2, <2>2, <2>4, <2>5 DEF DescriptorType, Owned
<1>6. CASE D!MapAshmem(r) \/ D!UnmapAshmem(r)
  <2>1. UNCHANGED <<open, raw, fd>>
    BY <1>6 DEF D!MapAshmem, D!UnmapAshmem
  <2> QED
    BY <2>1 DEF DescriptorType, Owned
<1>7. CASE D!CloseAshmem(r)
  <2>1. CASE fd[r] > 0
    <3>1. fd' = [fd EXCEPT ![r] = D!None] /\ open' = D!Close(fd[r]) /\ raw' = raw /\ fd[r] >= 0
      <4>1. [fd EXCEPT ![r] = IF @ > 0 THEN D!None ELSE @] = [fd EXCEPT ![r] = D!None]
        BY <1>1, <2>1 DEF DescriptorType
      <4> QED
        BY <1>1, <1>7, <2>1, <4>1 DEF D!CloseAshmem, D!AshmemFdClosed
    <3> QED
      BY <1>1, <3>1, CloseOwned
  <2>2. CASE ~(fd[r] > 0)
    <3>1. UNCHANGED <<open, raw, fd>>
      BY <1>7, <2>2 DEF D!CloseAshmem, D!AshmemFdClosed, DescriptorType
    <3> QED
      BY <3>1 DEF DescriptorType, Owned
  <2> QED
    BY <2>1, <2>2
<1>8. CASE D!DestroyAshmem(r)
  <2>1. /\ fd' = [fd EXCEPT ![r] = D!Dead] /\ raw' = raw
        /\ \/ fd[r] >= 0 /\ open' = D!Close(fd[r])
           \/ fd[r] <= 0 /\ open' = open
    BY <1>1, <1>8 DEF D!DestroyAshmem, D!AshmemFdClosed
  <2> QED
    BY <1>1, <2>1, CloseOwned
<1> QED
    BY <1>3, <1>4, <1>5, <1>6, <1>7, <1>8, <1>9, <1>11

\* Nobody else takes away the descriptor AshmemCreate is working on.
LEMMA CreationNext == OwnedInv /\ InCreation /\ D!Next => InCreation'
<1> SUFFICES ASSUME OwnedInv, InCreation, D!Next
             PROVE  InCreation'
    OBVIOUS
<1> USE DEF InCreation, OwnedInv, DescriptorType
<1>1. CASE UNCHANGED <<fd, step>>
    BY <1>1
<1>2. ASSUME NEW h \in Holders, D!UniqueFd(h) \/ D!ReleaseToCaller(h) \/ D!DestroyFd(h)
      PROVE  InCreation'
  <2>1. step' = step /\ \A r \in Regions : fd'[r] = fd[r]
    BY <1>2, UnitsConstants DEF D!UniqueFd, D!ReleaseToCaller, D!DestroyFd, D!Release, Owners
  <2> QED
    BY <2>1
<1>3. ASSUME NEW h \in Holders, NEW g \in Holders, D!MoveFd(h, g) \/ D!AssignFd(h, g)
      PROVE  InCreation'
  <2>1. step' = step /\ \A r \in Regions : fd'[r] = fd[r]
    BY <1>3, UnitsConstants DEF D!MoveFd, D!AssignFd, D!Release, Owners
  <2> QED
    BY <2>1
<1>4. ASSUME NEW r \in Regions, NEW n \in Nat, step' = [step EXCEPT ![r] = n],
             (\A q \in Regions \ {r} : fd'[q] = fd[q]), n = 0 \/ fd'[r] >= 0
      PROVE  InCreation'
    BY <1>4
<1>5. ASSUME NEW r \in Regions, D!AshmemOpen(r)
      PROVE  InCreation'
  <2>1. D!Min(D!Free) >= 0
    BY <1>5, MinFree DEF D!AshmemOpen, D!Free, Numbers
  <2>2. fd' = [fd EXCEPT ![r] = D!Min(D!Free)] /\ step' = [step EXCEPT ![r] = 1]
    BY <1>5 DEF D!AshmemOpen
  <2>3. (\A q \in Regions \ {r} : fd'[q] = fd[q]) /\ fd'[r] >= 0
    BY <2>1, <2>2 DEF Owners
  <2> QED
    BY <1>4, <2>2, <2>3
<1>6. ASSUME NEW r \in Regions, D!AshmemCreate(r)
      PROVE  InCreation'
    BY <1>4, <1>6, CallsAre DEF D!AshmemCreate
<1>7. ASSUME NEW r \in Regions, D!CreateAshmem(r) \/ D!AshmemCreateFails(r)
      PROVE  InCreation'
  <2>1. step' = [step EXCEPT ![r] = 0] /\ \A q \in Regions \ {r} : fd'[q] = fd[q]
    BY <1>7 DEF D!CreateAshmem, D!AshmemCreateFails, Owners
  <2> QED
    BY <1>4, <2>1
<1>8. ASSUME NEW r \in Regions,
             D!Ashmem(r) \/ D!CloseAshmem(r) \/ D!DestroyAshmem(r)
      PROVE  InCreation'
  <2>1. step' = step /\ \A q \in Regions \ {r} : fd'[q] = fd[q]
    BY <1>8 DEF D!Ashmem, D!CloseAshmem, D!DestroyAshmem, Owners
  <2>2. step[r] = 0
    BY <1>8 DEF D!Ashmem, D!CloseAshmem, D!DestroyAshmem, D!Exists, D!Dead
  <2> QED
    BY <2>1, <2>2
<1>9. ASSUME NEW r \in Regions, D!SetProtection(r) \/ D!MapAshmem(r) \/ D!UnmapAshmem(r)
      PROVE  InCreation'
    BY <1>1, <1>9 DEF D!SetProtection, D!MapAshmem, D!UnmapAshmem
<1>10. CASE D!OpenRaw \/ \E n \in raw : D!CloseRaw(n)
    BY <1>1, <1>10 DEF D!OpenRaw, D!CloseRaw
<1> QED
    BY <1>2, <1>3, <1>5, <1>6, <1>7, <1>8, <1>9, <1>10 DEF D!Next

\* Nothing is being created at first.
LEMMA CreationInit == D!Init => InCreation
    BY DEF D!Init, InCreation

\* Every step of the descriptors' owners preserves the invariant.
LEMMA OwnedNext == OwnedInv /\ InCreation /\ D!Next => OwnedInv' /\ InCreation'
<1> SUFFICES ASSUME OwnedInv, InCreation, D!Next
             PROVE  OwnedInv'
    BY CreationNext
<1>1. ASSUME NEW h \in Holders, D!UniqueFd(h) \/ D!ReleaseToCaller(h) \/ D!DestroyFd(h)
      PROVE  OwnedInv'
  <2>1. h \in Owners /\ fd[h] \in Int
    BY UnitsConstants DEF OwnedInv, DescriptorType, Owners
  <2>2. CASE D!UniqueFd(h) /\ raw' # raw
    BY <2>1, <2>2, HandOver DEF D!UniqueFd
  <2>3. CASE D!UniqueFd(h) /\ raw' = raw
    <3>1. fd[h] = D!Dead /\ ~(fd[h] >= 0) /\ open' = open
      BY <2>3 DEF D!UniqueFd, D!Dead
    <3>2. \A n \in raw : raw \ {n} # raw
      OBVIOUS
    <3>3. fd' = [fd EXCEPT ![h] = D!None]
      BY <2>3, <3>2 DEF D!UniqueFd
    <3> QED
      BY <2>1, <2>3, <3>1, <3>3, HandOver
  <2>4. CASE D!ReleaseToCaller(h)
    BY <2>1, <2>4, HandOver DEF D!ReleaseToCaller, D!Release
  <2>5. CASE D!DestroyFd(h)
    <3>1. /\ fd' = [fd EXCEPT ![h] = D!Dead] /\ raw' = raw
          /\ \/ fd[h] >= 0 /\ open' = D!Close(fd[h])
             \/ fd[h] <= 0 /\ open' = open
      BY <2>1, <2>5 DEF D!DestroyFd, D!Reset
    <3> QED
      BY <2>1, <3>1, CloseOwned
  <2> QED
    BY <1>1, <2>2, <2>3, <2>4, <2>5
<1> QED
    BY <1>1, RawInv, MoveInv, RegionInv DEF D!Next

(* Whatever the number of UniqueFd and Ashmem objects and of descriptors,  *)
(* none is closed under its owner, owned twice or forgotten, through moves *)
(* (also onto the object itself), releases and failed creations, but       *)
(* descriptor 0, which ~Ashmem and CloseAshmem leave open                  *)
(* (ashmem.cpp:188).                                                       *)
THEOREM DescriptorsHaveOneOwner == UnitsSpec => []DescriptorsOwned
<1>1. UnitsInit => OwnedInv /\ InCreation
    BY OwnedInit, CreationInit DEF UnitsInit
<1>2. /\ OwnedInv /\ InCreation
      /\ [UnitsNext /\ UNCHANGED unit]_<<unit, vars, fdVars, obsVars, vecVars>>
      => OwnedInv' /\ InCreation'
  <2> SUFFICES ASSUME OwnedInv, InCreation, D!Next \/ UNCHANGED fdVars
               PROVE  OwnedInv' /\ InCreation'
    BY DEF UnitsNext
  <2>1. CASE UNCHANGED fdVars
    <3>1. UNCHANGED <<open, raw, fd, step>>
      BY <2>1 DEF fdVars
    <3> QED
      BY <3>1 DEF OwnedInv, DescriptorType, Owned, D!IsOpen, InCreation
  <2> QED
    BY <2>1, OwnedNext
<1>3. OwnedInv => DescriptorsOwned
  <2> SUFFICES ASSUME OwnedInv
               PROVE  D!DescriptorsOwned
    BY DEF DescriptorsOwned
  <2>1. DOMAIN fd = Owners /\ DOMAIN open = Numbers
    BY DEF OwnedInv, DescriptorType
  <2>2. ASSUME NEW n \in Numbers
        PROVE  D!Cardinality(D!OwnersOf(n)) <= 1
    <3>1. n >= 0
      BY DEF Numbers
    <3>2. D!OwnersOf(n) = {} \/ \E x : D!OwnersOf(n) = {x}
      <4>1. CASE n \in raw
        <5>1. D!OwnersOf(n) = {"caller"}
          BY <2>1, <3>1, <4>1 DEF D!OwnersOf, OwnedInv, Owned
        <5> QED
          BY <5>1
      <4>2. CASE n \notin raw /\ \E o \in Owners : fd[o] = n
        <5>1. PICK o \in Owners : fd[o] = n
          BY <4>2
        <5>2. D!OwnersOf(n) = {o}
          BY <2>1, <3>1, <4>2, <5>1 DEF D!OwnersOf, OwnedInv, Owned
        <5> QED
          BY <5>2
      <4>3. CASE n \notin raw /\ ~\E o \in Owners : fd[o] = n
        BY <2>1, <4>3 DEF D!OwnersOf
      <4> QED
        BY <4>1, <4>2, <4>3
    <3>3. Cardinality(D!OwnersOf(n)) \in {0, 1}
      BY <3>2, FS_EmptySet, FS_Singleton
    <3>4. D!Cardinality(D!OwnersOf(n)) = Cardinality(D!OwnersOf(n))
      BY Zenon DEF D!Cardinality, Cardinality
    <3> QED
      BY <3>3, <3>4
  <2>3. ASSUME NEW n \in Numbers, D!IsOpen(n), n # 0
        PROVE  D!OwnersOf(n) # {}
    BY <2>1, <2>3 DEF OwnedInv, Owned, D!OwnersOf
  <2>4. \A o \in Owners : fd[o] >= 0 => D!IsOpen(fd[o])
    BY DEF OwnedInv, Owned
  <2> HIDE DEF OwnedInv
  <2> QED
    BY <2>1, <2>2, <2>3, <2>4 DEF D!DescriptorsOwned
<1> QED
    BY <1>1, <1>2, <1>3, PTL DEF UnitsSpec

-----------------------------------------------------------------------------
Addresses == 1 .. MaxMaps

MapType ==
    /\ ash \in [Regions -> [size : Nat, flag : SUBSET D!RW, start : Addresses \union {D!NoAddr}]]
    /\ maps \in [Addresses -> [len : Nat, prot : SUBSET D!RW]]

\* startAddr_ is where a mapping of that size still is, and nobody else's.
Mapping ==
    /\ \A r \in Regions : ash[r].start # D!NoAddr =>
           LET m == maps[ash[r].start]
           IN  m.len = ash[r].size /\ m.len > 0 /\ ash[r].flag \subseteq m.prot
    /\ \A r, s \in Regions : ash[r].start # D!NoAddr /\ ash[r].start = ash[s].start => r = s

MapInv == MapType /\ Mapping

\* Nothing is mapped at first.
LEMMA MapInit == D!Init => MapInv
<1> SUFFICES ASSUME D!Init
             PROVE  MapInv
    OBVIOUS
<1>1. MapType
    BY DEF D!Init, MapType, D!Members, D!NoMap, D!NoAddr, D!RW, Addresses
<1>2. \A r \in Regions : ash[r].start = D!NoAddr
    BY DEF D!Init, D!Members
<1> QED
    BY <1>1, <1>2 DEF MapInv, Mapping

\* A region whose members are set anew has no mapping.
LEMMA NewMembers ==
    ASSUME MapInv, NEW r \in Regions, NEW n \in Nat, maps' = maps,
           ash' = [ash EXCEPT ![r] = D!Members(n)]
    PROVE  MapInv'
<1>1. /\ D!Members(n) \in [size : Nat, flag : SUBSET D!RW, start : Addresses \union {D!NoAddr}]
      /\ D!Members(n).start = D!NoAddr
    BY DEF D!Members, D!RW, D!NoAddr
<1>2. MapType'
    BY <1>1 DEF MapInv, MapType
<1>3. \A s \in Regions : ash'[s] = IF s = r THEN D!Members(n) ELSE ash[s]
    BY DEF MapInv, MapType
<1>4. Mapping'
    BY <1>1, <1>3 DEF MapInv, Mapping
<1> QED
    BY <1>2, <1>4 DEF MapInv

\* A region's mapping goes, and its members no longer lead there.
LEMMA UnmapKeeps ==
    ASSUME MapInv, NEW r \in Regions, maps' = D!Unmapped(r), NEW new,
           ash' = [ash EXCEPT ![r] = new],
           new \in [size : Nat, flag : SUBSET D!RW, start : Addresses \union {D!NoAddr}],
           new.start = D!NoAddr
    PROVE  MapInv'
<1>1. \A s \in Regions : ash'[s] = IF s = r THEN new ELSE ash[s]
    BY DEF MapInv, MapType
<1>2. D!NoMap \in [len : Nat, prot : SUBSET D!RW]
    BY DEF D!NoMap, D!RW
<1>3. MapType'
    BY <1>2 DEF MapInv, MapType, D!Unmapped
<1>4. \A s \in Regions \ {r} : ash[s].start # D!NoAddr => maps'[ash[s].start] = maps[ash[s].start]
  <2> SUFFICES ASSUME NEW s \in Regions \ {r}, ash[s].start # D!NoAddr, ash[r].start # D!NoAddr
               PROVE  maps'[ash[s].start] = maps[ash[s].start]
    BY DEF D!Unmapped
  <2>1. ash[s].start # ash[r].start /\ ash[s].start \in Addresses
    BY DEF MapInv, Mapping, MapType
  <2> QED
    BY <2>1 DEF D!Unmapped, MapInv, MapType
<1>5. Mapping'
    BY <1>1, <1>4 DEF MapInv, Mapping
<1> QED
    BY <1>3, <1>5 DEF MapInv

\* Every step keeps the mappings and those who use them in agreement.
LEMMA MapNext == MapInv /\ D!Next => MapInv'
<1> SUFFICES ASSUME MapInv, D!Next
             PROVE  MapInv'
    OBVIOUS
<1>1. CASE UNCHANGED <<ash, maps>>
    BY <1>1 DEF MapInv, MapType, Mapping
<1>2. ASSUME NEW r \in Regions, D!CreateAshmem(r) \/ D!Ashmem(r)
      PROVE  MapInv'
  <2>1. PICK n \in AshmemSizes : ash' = [ash EXCEPT ![r] = D!Members(n)]
    BY <1>2 DEF D!CreateAshmem, D!Ashmem
  <2>2. maps' = maps /\ n \in Nat
    BY <1>2, UnitsConstants DEF D!CreateAshmem, D!Ashmem
  <2> QED
    BY <2>1, <2>2, NewMembers
<1>3. ASSUME NEW r \in Regions,
             D!AshmemOpen(r) \/ D!AshmemCreate(r) \/ D!AshmemCreateFails(r)
      PROVE  MapInv'
    BY <1>1, <1>3 DEF D!AshmemOpen, D!AshmemCreate, D!AshmemCreateFails
<1>4. ASSUME NEW r \in Regions, D!MapAshmem(r)
      PROVE  MapInv'
  <2>1. PICK type \in {D!RW, {"READ"}}, a \in {b \in DOMAIN maps : maps[b] = D!NoMap} :
            /\ maps' = [maps EXCEPT ![a] = [len |-> ash[r].size, prot |-> type]]
            /\ ash' = [ash EXCEPT ![r].start = a, ![r].flag = type]
    BY <1>4 DEF D!MapAshmem
  <2>2. /\ ash[r].size \in Nat /\ ash[r].size > 0 /\ a \in Addresses /\ maps[a].len = 0
        /\ type \subseteq D!RW /\ a # D!NoAddr
    BY <1>4 DEF D!MapAshmem, MapInv, MapType, D!NoMap, D!RW, D!NoAddr, Addresses
  <2>3. /\ \A s \in Regions \ {r} : ash'[s] = ash[s]
        /\ ash'[r] = [ash[r] EXCEPT !.start = a, !.flag = type]
    BY <2>1 DEF MapInv, MapType
  <2>4. /\ ash'[r] \in [size : Nat, flag : SUBSET D!RW, start : Addresses \union {D!NoAddr}]
        /\ ash'[r].start = a /\ ash'[r].flag = type /\ ash'[r].size = ash[r].size
    <3>1. ash[r] \in [size : Nat, flag : SUBSET D!RW, start : Addresses \union {D!NoAddr}]
      BY DEF MapInv, MapType
    <3>2. ash'[r] = [size |-> ash[r].size, flag |-> type, start |-> a]
      BY <2>3, <3>1
    <3> QED
      BY <2>2, <3>1, <3>2
  <2>5. MapType'
    BY <2>1, <2>2, <2>3, <2>4 DEF MapInv, MapType
  <2>6. \A s \in Regions \ {r} : ash[s].start # D!NoAddr =>
            ash[s].start # a /\ maps'[ash[s].start] = maps[ash[s].start]
    BY <2>1, <2>2 DEF MapInv, MapType, Mapping
  <2>7. maps'[a].len = ash[r].size /\ maps'[a].prot = type
    BY <2>1, <2>2 DEF MapInv, MapType
  <2>8. Mapping'
    <3>1. ASSUME NEW s \in Regions, ash'[s].start # D!NoAddr
          PROVE  /\ maps'[ash'[s].start].len = ash'[s].size /\ maps'[ash'[s].start].len > 0
                 /\ ash'[s].flag \subseteq maps'[ash'[s].start].prot
      <4>1. CASE s = r
        BY <2>2, <2>4, <2>7, <4>1
      <4>2. CASE s # r
        BY <2>3, <2>6, <3>1, <4>2 DEF MapInv, Mapping
      <4> QED
        BY <4>1, <4>2
    <3>2. \A s, t \in Regions : ash'[s].start # D!NoAddr /\ ash'[s].start = ash'[t].start => s = t
      <4> SUFFICES ASSUME NEW s \in Regions, NEW t \in Regions,
                          ash'[s].start # D!NoAddr, ash'[s].start = ash'[t].start, s # t
                   PROVE  FALSE
        OBVIOUS
      <4>1. CASE s # r /\ t # r
        <5>1. ash'[s] = ash[s] /\ ash'[t] = ash[t]
          BY <2>3, <4>1
        <5>2. ash[s].start # D!NoAddr /\ ash[s].start = ash[t].start
          BY <5>1
        <5> QED
          BY <5>2 DEF MapInv, Mapping
      <4>2. CASE s = r
        <5>1. t \in Regions \ {r} /\ ash[t].start = a
          BY <2>3, <2>4, <4>2
        <5> QED
          BY <2>2, <2>6, <5>1
      <4>3. CASE t = r
        BY <2>3, <2>4, <2>6, <4>3
      <4> QED
        BY <4>1, <4>2, <4>3
    <3> QED
      BY <3>1, <3>2 DEF Mapping
  <2> QED
    BY <2>5, <2>8 DEF MapInv
<1>5. ASSUME NEW r \in Regions, D!UnmapAshmem(r)
      PROVE  MapInv'
  <2> DEFINE new == [ash[r] EXCEPT !.start = D!NoAddr, !.flag = {}]
  <2>1. /\ new \in [size : Nat, flag : SUBSET D!RW, start : Addresses \union {D!NoAddr}]
        /\ new.start = D!NoAddr
    BY DEF MapInv, MapType
  <2>2. ash' = [ash EXCEPT ![r] = new] /\ maps' = D!Unmapped(r)
    BY <1>5 DEF D!UnmapAshmem, MapInv, MapType
  <2> HIDE DEF new
  <2> QED
    BY <2>1, <2>2, UnmapKeeps
<1>6. ASSUME NEW r \in Regions, D!CloseAshmem(r)
      PROVE  MapInv'
    BY <1>6, NewMembers DEF D!CloseAshmem
<1>7. ASSUME NEW r \in Regions, D!DestroyAshmem(r)
      PROVE  MapInv'
  <2>1. /\ D!Members(0) \in [size : Nat, flag : SUBSET D!RW, start : Addresses \union {D!NoAddr}]
        /\ D!Members(0).start = D!NoAddr
    BY DEF D!Members, D!RW, D!NoAddr
  <2> QED
    BY <1>7, <2>1, UnmapKeeps DEF D!DestroyAshmem
<1>8. CASE D!OpenRaw \/ (\E n \in raw : D!CloseRaw(n))
           \/ (\E h \in Holders :
                  \/ D!UniqueFd(h) \/ D!ReleaseToCaller(h) \/ D!DestroyFd(h)
                  \/ \E g \in Holders : D!MoveFd(h, g) \/ D!AssignFd(h, g))
           \/ (\E r \in Regions : D!SetProtection(r))
    BY <1>1, <1>8 DEF D!OpenRaw, D!CloseRaw, D!UniqueFd, D!ReleaseToCaller, D!DestroyFd,
                      D!MoveFd, D!AssignFd, D!SetProtection
<1> QED
    BY <1>2, <1>3, <1>4, <1>5, <1>6, <1>7, <1>8 DEF D!Next

\* What fits below 2^Width does not wrap.
LEMMA NoWrap ==
    ASSUME NEW x \in Nat, x <= D!MaxInt
    PROVE  D!Int32(x) = x
<1> DEFINE half == 2 ^ (Width - 1)
<1>1. half \in Nat /\ 2 ^ Width = half + half /\ D!MaxInt = half - 1 /\ D!MaxInt \in Int
    BY PowersOfTwo DEF D!MaxInt
<1> HIDE DEF half
<1>2. x + D!MaxInt + 1 \in Nat /\ x + D!MaxInt + 1 < 2 ^ Width /\ 2 ^ Width \in Nat
    BY <1>1
<1>3. \A a, b \in Nat : a < b => a % b = a
    OBVIOUS
<1>4. (x + D!MaxInt + 1) % 2 ^ Width = x + D!MaxInt + 1
    BY <1>2, <1>3
<1> QED
    BY <1>1, <1>4 DEF D!Int32

(* Whatever the sizes, regions and protections, what WriteToAshmem and     *)
(* ReadFromAshmem let through lies inside a mapping of that object that is *)
(* still there (ashmem.cpp:285); for a read below 2^30 bytes, where the    *)
(* sum that CheckValid compares cannot overflow int32_t.                   *)
THEOREM AccessesStayInside == UnitsSpec => []AccessInside
<1>1. UnitsInit => MapInv
    BY MapInit DEF UnitsInit
<1>2. /\ MapInv
      /\ [UnitsNext /\ UNCHANGED unit]_<<unit, vars, fdVars, obsVars, vecVars>>
      => MapInv'
  <2> SUFFICES ASSUME MapInv, D!Next \/ UNCHANGED fdVars
               PROVE  MapInv'
    BY DEF UnitsNext
  <2>1. CASE UNCHANGED fdVars
    <3>1. UNCHANGED <<open, raw, fd, ash, maps>>
      BY <2>1 DEF fdVars
    <3> QED
      BY <3>1 DEF MapInv, MapType, Mapping
  <2> QED
    BY <2>1, MapNext
<1>3. MapInv => AccessInside
  <2> SUFFICES ASSUME MapInv, NEW r \in Regions,
                      NEW size \in -1 .. D!MaxInt, NEW offset \in -1 .. D!MaxInt
               PROVE  LET m == maps[ash[r].start]
                      IN  /\ D!WriteToAshmem(r, size, offset) =>
                                 "WRITE" \in m.prot /\ offset + size <= m.len
                          /\ D!ReadFromAshmem(r, size, offset) =>
                                 /\ "READ" \in m.prot
                                 /\ offset + size <= m.len \/ m.len >= 2 ^ (Width - 2)
    BY DEF AccessInside, D!AccessInside
  <2> DEFINE m == maps[ash[r].start]
  <2>1. ASSUME NEW cmd, D!Granted(r, cmd, size, offset)
        PROVE  /\ cmd \in m.prot /\ m.len = ash[r].size /\ m.len \in Nat
               /\ size \in 0 .. m.len /\ offset \in 0 .. m.len
               /\ D!Int32(offset + size) <= m.len
    <3>1. /\ ash[r].start # D!NoAddr /\ size \in 0 .. ash[r].size /\ offset \in 0 .. ash[r].size
          /\ cmd \in ash[r].flag /\ D!Int32(offset + size) <= ash[r].size
      BY <2>1 DEF D!Granted, D!CheckValid
    <3>2. m.len = ash[r].size /\ ash[r].flag \subseteq m.prot /\ ash[r].size \in Nat
      BY <3>1 DEF MapInv, Mapping, MapType
    <3> QED
      BY <3>1, <3>2
  <2>2. D!WriteToAshmem(r, size, offset) => "WRITE" \in m.prot /\ offset + size <= m.len
    BY <2>1 DEF D!WriteToAshmem
  <2>3. ASSUME D!ReadFromAshmem(r, size, offset), ~(m.len >= 2 ^ (Width - 2))
        PROVE  offset + size <= m.len
    <3>1. /\ m.len \in Nat /\ size \in 0 .. m.len /\ offset \in 0 .. m.len
          /\ D!Int32(offset + size) <= m.len
      BY <2>1, <2>3 DEF D!ReadFromAshmem
    <3>2. offset + size \in Nat /\ offset + size <= D!MaxInt
      BY <2>3, <3>1, PowersOfTwo DEF D!MaxInt
    <3> QED
      BY <3>1, <3>2, NoWrap
  <2>4. D!ReadFromAshmem(r, size, offset) => "READ" \in m.prot
    BY <2>1 DEF D!ReadFromAshmem
  <2> QED
    BY <2>2, <2>3, <2>4
<1> QED
    BY <1>1, <1>2, <1>3, PTL DEF UnitsSpec

(***************************************************************************)
(* SortedVector.                                                           *)
(***************************************************************************)
\* The places of x in a vector.
At(s, x) == {i \in DOMAIN s : s[i] = x}

\* r is s with x put in at k.
Inserted(s, k, x, r) ==
    /\ s \in Seq(Items) /\ r \in Seq(Items)
    /\ Len(r) = Len(s) + 1 /\ k \in 1 .. Len(r) /\ r[k] = x
    /\ \A i \in 1 .. Len(s) : r[IF i < k THEN i ELSE i + 1] = s[i]

\* A vector is a function from its places to items, which are numbers.
LEMMA ItemsOf ==
    ASSUME NEW s \in Seq(Items)
    PROVE  /\ Len(s) \in Nat /\ DOMAIN s = 1 .. Len(s) /\ Items \subseteq Int
           /\ \A i \in 1 .. Len(s) : s[i] \in Items /\ s[i] \in Int
<1>1. Items \subseteq Int
    BY UnitsConstants, Zenon
<1>2. Len(s) \in Nat /\ DOMAIN s = 1 .. Len(s) /\ \A i \in 1 .. Len(s) : s[i] \in Items
    OBVIOUS
<1> QED
    BY <1>1, <1>2, Zenon

\* The places of an item are finitely many, and a bag counts them.
LEMMA Places ==
    ASSUME NEW s \in Seq(Items), NEW x
    PROVE  /\ IsFiniteSet(At(s, x)) /\ Cardinality(At(s, x)) \in Nat
           /\ Cardinality(At(s, x)) = 0 <=> At(s, x) = {}
           /\ x \in Items => V!BagOf(s)[x] = Cardinality(At(s, x))
<1>1. IsFiniteSet(1 .. Len(s)) /\ At(s, x) \subseteq 1 .. Len(s)
    BY FS_Interval DEF At
<1>2. IsFiniteSet(At(s, x))
    BY <1>1, FS_Subset
<1>3. Cardinality(At(s, x)) \in Nat /\ (Cardinality(At(s, x)) = 0 <=> At(s, x) = {})
    BY <1>2, FS_CardinalityType, FS_EmptySet
<1>4. V!Cardinality(At(s, x)) = Cardinality(At(s, x))
    BY DEF V!Cardinality, Cardinality
<1> QED
    BY <1>2, <1>3, <1>4 DEF V!BagOf, At

\* The bag of a vector counts its items.
LEMMA BagType ==
    ASSUME NEW s \in Seq(Items)
    PROVE  V!BagOf(s) \in [Items -> Nat]
<1>1. \A x \in Items : V!BagOf(s)[x] \in Nat
    BY Places
<1>2. V!BagOf(s) = [x \in Items |-> V!BagOf(s)[x]]
    BY DEF V!BagOf
<1> QED
    BY <1>1, <1>2

\* A vector with one item more has that one more often, and no other.
LEMMA InsertedCounts ==
    ASSUME NEW s, NEW k, NEW x, NEW r, Inserted(s, k, x, r), NEW y
    PROVE  Cardinality(At(r, y)) = Cardinality(At(s, y)) + (IF y = x THEN 1 ELSE 0)
<1> DEFINE A == At(s, y)
           Moved(i) == IF i < k THEN i ELSE i + 1
           f == [i \in A |-> Moved(i)]
           B == {Moved(i) : i \in A}
<1>1. /\ s \in Seq(Items) /\ r \in Seq(Items) /\ Len(s) \in Nat /\ Len(r) = Len(s) + 1
      /\ k \in 1 .. Len(r) /\ r[k] = x /\ DOMAIN s = 1 .. Len(s) /\ DOMAIN r = 1 .. Len(r)
      /\ \A i \in 1 .. Len(s) : r[Moved(i)] = s[i]
    BY DEF Inserted
<1>2. A \subseteq 1 .. Len(s) /\ k \in Int
    BY <1>1 DEF At
<1>3. f \in Bijection(A, B)
  <2>1. f \in [A -> B]
    OBVIOUS
  <2>2. \A i, j \in A : Moved(i) = Moved(j) => i = j
    BY <1>1, <1>2
  <2>3. \A b \in B : \E i \in A : f[i] = b
    OBVIOUS
  <2>4. \A i \in A : f[i] = Moved(i)
    OBVIOUS
  <2> HIDE DEF f, B, Moved, A
  <2> QED
    BY <2>1, <2>2, <2>3, <2>4 DEF Bijection, Injection, Surjection, IsInjective
<1>4. IsFiniteSet(A) /\ Cardinality(A) \in Nat
    BY <1>1, Places
<1>5. ExistsBijection(A, B)
    BY <1>3 DEF ExistsBijection
<1>6. IsFiniteSet(B) /\ Cardinality(B) = Cardinality(A)
    BY <1>4, <1>5, FS_Bijection
<1>7. k \notin B
    BY <1>1, <1>2
<1>8. At(r, y) = B \union (IF y = x THEN {k} ELSE {})
  <2>1. ASSUME NEW j \in At(r, y), j # k
        PROVE  j \in B
    <3> DEFINE i == IF j < k THEN j ELSE j - 1
    <3>1. j \in 1 .. Len(r) /\ r[j] = y
      BY <2>1, <1>1 DEF At
    <3>2. i \in 1 .. Len(s) /\ Moved(i) = j
      BY <3>1, <2>1, <1>1
    <3>3. s[i] = y
      BY <3>1, <3>2, <1>1
    <3> QED
      BY <3>2, <3>3, <1>1 DEF At
  <2>2. ASSUME NEW i \in A
        PROVE  Moved(i) \in At(r, y)
    <3>1. i \in 1 .. Len(s) /\ s[i] = y
      BY <2>2, <1>1 DEF At
    <3>2. Moved(i) \in 1 .. Len(r)
      BY <3>1, <1>1
    <3> QED
      BY <3>1, <3>2, <1>1 DEF At
  <2>3. B \subseteq At(r, y)
    BY <2>2
  <2>4. k \in At(r, y) <=> y = x
    BY <1>1 DEF At
  <2> HIDE DEF B
  <2> QED
    BY <2>1, <2>3, <2>4
<1> HIDE DEF A, B
<1>9. CASE y = x
    BY <1>4, <1>6, <1>7, <1>8, <1>9, FS_AddElement DEF A
<1>10. CASE y # x
    BY <1>4, <1>6, <1>8, <1>10 DEF A
<1> QED
    BY <1>9, <1>10

\* The items of two vectors, one behind the other.
LEMMA ConcatCounts ==
    ASSUME NEW s \in Seq(Items), NEW r \in Seq(Items), NEW y
    PROVE  Cardinality(At(s \o r, y)) = Cardinality(At(s, y)) + Cardinality(At(r, y))
<1> DEFINE A == At(r, y)
           f == [i \in A |-> i + Len(s)]
           B == {i + Len(s) : i \in A}
<1>1. /\ Len(s) \in Nat /\ Len(r) \in Nat /\ DOMAIN s = 1 .. Len(s) /\ DOMAIN r = 1 .. Len(r)
      /\ DOMAIN (s \o r) = 1 .. Len(s) + Len(r)
      /\ \A i \in 1 .. Len(s) : (s \o r)[i] = s[i]
      /\ \A i \in 1 .. Len(r) : (s \o r)[i + Len(s)] = r[i]
    OBVIOUS
<1>2. A \subseteq 1 .. Len(r)
    BY <1>1 DEF At
<1>3. f \in Bijection(A, B)
  <2>1. f \in [A -> B] /\ \A b \in B : \E i \in A : f[i] = b
    OBVIOUS
  <2>2. \A i, j \in A : f[i] = f[j] => i = j
    BY <1>1, <1>2
  <2> HIDE DEF f, B, A
  <2> QED
    BY <2>1, <2>2 DEF Bijection, Injection, Surjection, IsInjective
<1>4. IsFiniteSet(A) /\ Cardinality(A) \in Nat
    BY Places
<1>5. ExistsBijection(A, B)
    BY <1>3 DEF ExistsBijection
<1>6. IsFiniteSet(B) /\ Cardinality(B) = Cardinality(A)
    BY <1>4, <1>5, FS_Bijection
<1>7. At(s \o r, y) = At(s, y) \union B
  <2>1. ASSUME NEW j \in At(s \o r, y), j \notin At(s, y)
        PROVE  j \in B
    <3>1. j \in 1 .. Len(s) + Len(r) /\ (s \o r)[j] = y
      BY <2>1, <1>1 DEF At
    <3>2. j \notin 1 .. Len(s)
      BY <3>1, <2>1, <1>1 DEF At
    <3>3. j - Len(s) \in 1 .. Len(r) /\ j = (j - Len(s)) + Len(s)
      BY <3>1, <3>2, <1>1
    <3>4. j - Len(s) \in A
      BY <3>1, <3>3, <1>1 DEF At
    <3> QED
      BY <3>3, <3>4
  <2>2. ASSUME NEW i \in A
        PROVE  i + Len(s) \in At(s \o r, y)
    <3>1. i \in 1 .. Len(r) /\ r[i] = y
      BY <2>2, <1>1 DEF At
    <3> QED
      BY <3>1, <1>1 DEF At
  <2>3. At(s, y) \subseteq At(s \o r, y)
    <3>1. 1 .. Len(s) \subseteq 1 .. Len(s) + Len(r)
      BY <1>1
    <3> QED
      BY <1>1, <3>1 DEF At
  <2> QED
    BY <2>1, <2>2, <2>3
<1>8. At(s, y) \intersect B = {}
    BY <1>1, <1>2 DEF At
<1>9. IsFiniteSet(At(s, y)) /\ Cardinality(At(s, y)) \in Nat
    BY Places
<1> HIDE DEF A, B
<1>10. Cardinality(At(s, y) \union B) =
          Cardinality(At(s, y)) + Cardinality(B) - Cardinality(At(s, y) \intersect B)
    BY <1>6, <1>9, FS_Union
<1>11. Cardinality(At(s, y) \intersect B) = 0
    BY <1>8, FS_EmptySet
<1> QED
    BY <1>4, <1>6, <1>7, <1>9, <1>10, <1>11 DEF A

\* Vectors with equal counts have equal bags.
LEMMA BagIs ==
    ASSUME NEW s \in Seq(Items), NEW bag \in [Items -> Nat],
           \A x \in Items : Cardinality(At(s, x)) = bag[x]
    PROVE  V!BagOf(s) = bag
<1>1. V!BagOf(s) \in [Items -> Nat]
    BY BagType
<1>2. \A x \in Items : V!BagOf(s)[x] = bag[x]
    BY Places
<1> QED
    BY <1>1, <1>2

\* A nonempty set of numbers has a least element.
LEMMA LeastNumber ==
    ASSUME NEW N, N \subseteq Nat, N # {}
    PROVE  \E n \in N : \A m \in N : n <= m
<1> DEFINE R == {p \in Nat \X Nat : p[1] < p[2]}
<1>1. IsWellFoundedOn(R, Nat)
    BY NatLessThanWellFounded, Zenon DEF OpToRel
<1>2. PICK n \in N : \A m \in N : ~(<<m, n>> \in R)
    BY <1>1, WFMin
<1>3. ASSUME NEW m \in N
      PROVE  n <= m
  <2>1. <<m, n>> \in Nat \X Nat /\ <<m, n>>[1] = m /\ <<m, n>>[2] = n /\ <<m, n>> \notin R
    BY <1>2
  <2>2. ~(m < n)
    BY <2>1
  <2> QED
    BY <2>2
<1> QED
    BY <1>3

\* A set of places that contains all places before one of its own.
LEMMA Prefix ==
    ASSUME NEW n \in Nat, NEW L, L \subseteq 1 .. n, \A i \in L, j \in 1 .. n : j < i => j \in L
    PROVE  V!Cardinality(L) \in 0 .. n /\ L = 1 .. V!Cardinality(L)
<1> DEFINE N == {i \in 0 .. n : i + 1 \notin L}
<1>1. n \in N /\ N \subseteq Nat
    OBVIOUS
<1>2. PICK k \in N : \A m \in N : k <= m
    BY <1>1, LeastNumber
<1>3. k \in 0 .. n /\ k + 1 \notin L
    OBVIOUS
<1>4. ASSUME NEW j \in 1 .. k
      PROVE  j \in L
  <2>1. j - 1 \in 0 .. n /\ ~(k <= j - 1)
    BY <1>3
  <2>2. j - 1 \notin N
    BY <1>2, <2>1
  <2> QED
    BY <2>1, <2>2
<1>5. ASSUME NEW i \in L
      PROVE  i \in 1 .. k
  <2>1. SUFFICES ASSUME ~(i <= k)
                 PROVE  FALSE
    BY <1>3
  <2>2. k + 1 \in 1 .. n /\ (k + 1 = i \/ k + 1 < i)
    BY <1>3, <2>1
  <2> QED
    BY <1>3, <2>2
<1>6. L = 1 .. k
    BY <1>4, <1>5
<1>7. Cardinality(1 .. k) = k
    BY <1>3, FS_Interval
<1>8. V!Cardinality(L) = Cardinality(L)
    BY DEF V!Cardinality, Cardinality
<1> QED
    BY <1>3, <1>6, <1>7, <1>8

\* lower_bound and upper_bound divide a sorted vector at x.
LEMMA Bounds ==
    ASSUME NEW s \in Seq(Items), V!InOrder(s), NEW x \in Items
    PROVE  /\ V!lower_bound(s, x) \in 0 .. Len(s)
           /\ \A i \in 1 .. Len(s) : i <= V!lower_bound(s, x) <=> s[i] < x
           /\ V!upper_bound(s, x) \in 0 .. Len(s)
           /\ \A i \in 1 .. Len(s) : i <= V!upper_bound(s, x) <=> s[i] <= x
<1> DEFINE Lower == {i \in DOMAIN s : s[i] < x}
           Upper == {i \in DOMAIN s : s[i] <= x}
<1>1. /\ Len(s) \in Nat /\ DOMAIN s = 1 .. Len(s) /\ x \in Int
      /\ \A i \in 1 .. Len(s) : s[i] \in Int
    BY ItemsOf
<1>2. \A i, j \in 1 .. Len(s) : i < j => s[i] <= s[j]
    BY <1>1 DEF V!InOrder
<1>3. /\ Lower \subseteq 1 .. Len(s) /\ \A i \in Lower, j \in 1 .. Len(s) : j < i => j \in Lower
      /\ Upper \subseteq 1 .. Len(s) /\ \A i \in Upper, j \in 1 .. Len(s) : j < i => j \in Upper
    BY <1>1, <1>2
<1>4. /\ V!Cardinality(Lower) \in 0 .. Len(s) /\ Lower = 1 .. V!Cardinality(Lower)
      /\ V!Cardinality(Upper) \in 0 .. Len(s) /\ Upper = 1 .. V!Cardinality(Upper)
  <2> HIDE DEF Lower, Upper
  <2> QED
    BY <1>1, <1>3, Prefix
<1>5. V!lower_bound(s, x) = V!Cardinality(Lower) /\ V!upper_bound(s, x) = V!Cardinality(Upper)
    BY DEF V!lower_bound, V!upper_bound
<1>6. \A i \in 1 .. Len(s) : (i \in Lower <=> s[i] < x) /\ (i \in Upper <=> s[i] <= x)
    BY <1>1
<1> HIDE DEF Lower, Upper
<1>7. \A n \in 0 .. Len(s), i \in 1 .. Len(s) : i \in 1 .. n <=> i <= n
    BY <1>1
<1>8. /\ \A i \in 1 .. Len(s) : i \in Lower <=> i <= V!Cardinality(Lower)
      /\ \A i \in 1 .. Len(s) : i \in Upper <=> i <= V!Cardinality(Upper)
    BY <1>4, <1>7, Zenon
<1> QED
    BY <1>4, <1>5, <1>6, <1>8, Zenon

\* What IndexOf and OrderOf answer about a sorted vector.
Answers(s) ==
    \A x \in Items :
        /\ At(s, x) = {} => V!IndexOf(s, x) = V!NOT_FOUND
        /\ At(s, x) # {} => /\ V!IndexOf(s, x) + 1 \in At(s, x)
                            /\ \A i \in At(s, x) : V!IndexOf(s, x) < i
        /\ \A i \in DOMAIN s : i <= V!OrderOf(s, x) <=> s[i] <= x

\* The searches are right about every sorted vector.
LEMMA Searches ==
    ASSUME NEW s \in Seq(Items), V!InOrder(s)
    PROVE  Answers(s)
<1>1. /\ Len(s) \in Nat /\ DOMAIN s = 1 .. Len(s)
      /\ \A i \in 1 .. Len(s) : s[i] \in Int
    BY ItemsOf
<1>2. ASSUME NEW x \in Items
      PROVE  /\ At(s, x) = {} => V!IndexOf(s, x) = V!NOT_FOUND
             /\ At(s, x) # {} => /\ V!IndexOf(s, x) + 1 \in At(s, x)
                                 /\ \A i \in At(s, x) : V!IndexOf(s, x) < i
             /\ \A i \in DOMAIN s : i <= V!OrderOf(s, x) <=> s[i] <= x
  <2> DEFINE it == V!lower_bound(s, x)
  <2>1. /\ it \in 0 .. Len(s) /\ \A i \in 1 .. Len(s) : i <= it <=> s[i] < x
        /\ \A i \in 1 .. Len(s) : i <= V!upper_bound(s, x) <=> s[i] <= x
    BY Bounds
  <2>2. V!IndexOf(s, x) = IF it = Len(s) \/ s[it + 1] # x THEN -1 ELSE it
    BY DEF V!IndexOf, V!NOT_FOUND
  <2>3. x \in Int
    BY ItemsOf
  <2> HIDE DEF it
  <2>4. ASSUME NEW i \in At(s, x)
        PROVE  it < i /\ it + 1 \in At(s, x) /\ it # Len(s) /\ s[it + 1] = x
    <3>1. i \in 1 .. Len(s) /\ s[i] = x
      BY <1>1 DEF At
    <3>2. it < i
      BY <1>1, <2>1, <2>3, <3>1
    <3>3. it + 1 \in 1 .. Len(s) /\ it + 1 <= i
      BY <1>1, <2>1, <3>1, <3>2
    <3>4. ~(s[it + 1] < x)
      BY <1>1, <2>1, <3>3
    <3>5. s[it + 1] <= x
      BY <1>1, <3>1, <3>3 DEF V!InOrder
    <3>6. s[it + 1] = x
      BY <1>1, <2>3, <3>3, <3>4, <3>5
    <3>7. it + 1 \in At(s, x)
      BY <1>1, <3>3, <3>6 DEF At
    <3>8. it # Len(s)
      BY <1>1, <3>3
    <3> QED
      BY <3>2, <3>6, <3>7, <3>8
  <2>5. ASSUME At(s, x) = {}
        PROVE  it = Len(s) \/ s[it + 1] # x
    <3>1. SUFFICES ASSUME it # Len(s)
                   PROVE  s[it + 1] # x
      OBVIOUS
    <3>3. it \in 0 .. Len(s) /\ Len(s) \in Nat
      BY <1>1, <2>1, Zenon
    <3>4. it + 1 \in 1 .. Len(s)
      BY <3>1, <3>3
    <3>2. it + 1 \in DOMAIN s
      BY <1>1, <3>4
    <3> QED
      BY <2>5, <3>2 DEF At
  <2>6. At(s, x) = {} => V!IndexOf(s, x) = V!NOT_FOUND
    BY <2>2, <2>5 DEF V!NOT_FOUND
  <2>7. At(s, x) # {} => V!IndexOf(s, x) = it
    BY <2>2, <2>4
  <2> QED
    BY <1>1, <2>1, <2>4, <2>6, <2>7 DEF V!OrderOf
<1> QED
    BY <1>2, Zenon DEF Answers

\* vec_.insert behind everything that is not greater keeps the order.
LEMMA InsertedInOrder ==
    ASSUME NEW s, NEW k, NEW x, NEW r, Inserted(s, k, x, r), x \in Items,
           V!InOrder(s), \A i \in 1 .. Len(s) : i < k <=> s[i] <= x
    PROVE  V!InOrder(r)
<1>1. /\ s \in Seq(Items) /\ r \in Seq(Items) /\ Len(s) \in Nat /\ Len(r) = Len(s) + 1
      /\ k \in 1 .. Len(r) /\ r[k] = x /\ DOMAIN s = 1 .. Len(s) /\ DOMAIN r = 1 .. Len(r)
    BY DEF Inserted
<1>I. x \in Int /\ \A i \in 1 .. Len(s) : s[i] \in Int
    BY <1>1, ItemsOf
<1>2. \A j \in 1 .. Len(r) : /\ j < k => j \in 1 .. Len(s) /\ r[j] = s[j] /\ s[j] <= x
                             /\ j > k => j - 1 \in 1 .. Len(s) /\ r[j] = s[j - 1] /\ ~(s[j - 1] <= x)
  <2>1. ASSUME NEW j \in 1 .. Len(r), j < k
        PROVE  j \in 1 .. Len(s) /\ r[j] = s[j] /\ s[j] <= x
    BY <1>1, <2>1 DEF Inserted
  <2>2. ASSUME NEW j \in 1 .. Len(r), j > k
        PROVE  j - 1 \in 1 .. Len(s) /\ r[j] = s[j - 1] /\ ~(s[j - 1] <= x)
    <3>1. j - 1 \in 1 .. Len(s) /\ ~(j - 1 < k) /\ (j - 1) + 1 = j
      BY <1>1, <2>2
    <3> QED
      BY <1>1, <3>1 DEF Inserted
  <2> QED
    BY <2>1, <2>2
<1>3. ASSUME NEW i \in 1 .. Len(r), NEW j \in 1 .. Len(r), i < j
      PROVE  r[i] <= r[j]
  <2>1. CASE i < k /\ j < k
    BY <1>1, <1>2, <1>3, <2>1 DEF V!InOrder
  <2>2. CASE i > k /\ j > k
    <3>1. i - 1 < j - 1
      BY <1>1, <1>3
    <3> QED
      BY <1>1, <1>2, <1>3, <2>2, <3>1 DEF V!InOrder
  <2>3. CASE i <= k /\ j >= k
    <3>1. r[i] <= x
      BY <1>1, <1>I, <1>2, <2>3
    <3>3. r[i] \in Int /\ r[j] \in Int
      BY <1>1, ItemsOf
    <3>4. j = k \/ j > k
      BY <1>1, <2>3
    <3>5. j > k => ~(r[j] <= x)
      BY <1>2
    <3>6. r[j] = x \/ ~(r[j] <= x)
      BY <1>1, <3>4, <3>5
    <3>2. x <= r[j]
      BY <1>I, <3>3, <3>6
    <3> QED
      BY <1>I, <3>1, <3>2, <3>3
  <2> QED
    BY <1>1, <1>3, <2>1, <2>2, <2>3
<1> QED
    BY <1>1, <1>3 DEF V!InOrder

\* What is left of a sorted vector is sorted.
LEMMA RemovedInOrder ==
    ASSUME NEW s, NEW k, NEW x, NEW r, Inserted(s, k, x, r), V!InOrder(r)
    PROVE  V!InOrder(s)
<1> DEFINE Moved(i) == IF i < k THEN i ELSE i + 1
<1>1. /\ s \in Seq(Items) /\ r \in Seq(Items) /\ Len(s) \in Nat /\ Len(r) = Len(s) + 1
      /\ k \in 1 .. Len(r) /\ DOMAIN s = 1 .. Len(s) /\ DOMAIN r = 1 .. Len(r)
    BY DEF Inserted
<1>3. \A i \in 1 .. Len(s) : r[Moved(i)] = s[i]
    BY DEF Inserted
<1>2. \A i, j \in 1 .. Len(s) : i < j => /\ Moved(i) < Moved(j)
                                         /\ Moved(i) \in 1 .. Len(r) /\ Moved(j) \in 1 .. Len(r)
    BY <1>1
<1> HIDE DEF Moved
<1> QED
    BY <1>1, <1>2, <1>3 DEF V!InOrder

\* vec_.insert, vec_.erase and vec_.pop_back.
LEMMA OneMore ==
    ASSUME NEW s \in Seq(Items)
    PROVE  /\ \A k \in 1 .. Len(s) + 1, x \in Items : Inserted(s, k, x, V!InsertAt(s, k, x))
           /\ \A k \in 1 .. Len(s) : Inserted(V!RemoveAt(s, k), k, s[k], s)
           /\ s # <<>> => Inserted(V!Front(s), Len(s), V!Last(s), s)
<1>1. Len(s) \in Nat
    OBVIOUS
<1>2. ASSUME NEW k \in 1 .. Len(s) + 1, NEW x \in Items
      PROVE  Inserted(s, k, x, V!InsertAt(s, k, x))
  <2> DEFINE a == SubSeq(s, 1, k - 1)
             b == SubSeq(s, k, Len(s))
  <2>1. a \in Seq(Items) /\ Len(a) = k - 1 /\ \A i \in 1 .. k - 1 : a[i] = s[i]
    BY <1>1
  <2>2. b \in Seq(Items) /\ Len(b) = Len(s) - k + 1 /\ \A i \in 1 .. Len(s) - k + 1 : b[i] = s[k + i - 1]
    BY <1>1
  <2>3. V!InsertAt(s, k, x) = a \o <<x>> \o b
    BY DEF V!InsertAt
  <2> HIDE DEF a, b
  <2> DEFINE c == a \o <<x>>
  <2>4. c \in Seq(Items) /\ Len(c) = k /\ c[k] = x /\ \A i \in 1 .. k - 1 : c[i] = s[i]
    BY <1>1, <2>1
  <2> HIDE DEF c
  <2>5. /\ c \o b \in Seq(Items) /\ Len(c \o b) = Len(s) + 1
        /\ \A i \in 1 .. k : (c \o b)[i] = c[i]
        /\ \A i \in 1 .. Len(s) - k + 1 : (c \o b)[i + k] = b[i]
    BY <1>1, <2>2, <2>4
  <2>6. ASSUME NEW i \in 1 .. Len(s), ~(i < k)
        PROVE  (c \o b)[i + 1] = s[i]
    <3> DEFINE j == i - k + 1
    <3>1. j \in 1 .. Len(s) - k + 1 /\ j + k = i + 1 /\ k + j - 1 = i
      BY <1>1, <2>6
    <3> HIDE DEF j
    <3> QED
      BY <2>2, <2>5, <3>1
  <2>7. \A i \in 1 .. Len(s) : i < k => (c \o b)[i] = s[i]
    BY <1>1, <2>4, <2>5
  <2> QED
    BY <1>1, <2>3, <2>4, <2>5, <2>6, <2>7 DEF Inserted, c
<1>3. ASSUME NEW k \in 1 .. Len(s)
      PROVE  Inserted(V!RemoveAt(s, k), k, s[k], s)
  <2> DEFINE a == SubSeq(s, 1, k - 1)
             b == SubSeq(s, k + 1, Len(s))
  <2>1. a \in Seq(Items) /\ Len(a) = k - 1 /\ \A i \in 1 .. k - 1 : a[i] = s[i]
    BY <1>1
  <2>2. b \in Seq(Items) /\ Len(b) = Len(s) - k /\ \A i \in 1 .. Len(s) - k : b[i] = s[k + i]
    BY <1>1
  <2>3. V!RemoveAt(s, k) = a \o b
    BY DEF V!RemoveAt
  <2> HIDE DEF a, b
  <2>12. a \in Seq(Items) /\ b \in Seq(Items)
    BY <2>1, <2>2, Zenon
  <2>10. a \o b \in Seq(Items) /\ Len(a \o b) = Len(a) + Len(b)
    BY <2>12
  <2>11. (k - 1) + (Len(s) - k) = Len(s) - 1
    BY <1>1
  <2>4. a \o b \in Seq(Items) /\ Len(a \o b) = Len(s) - 1
    BY <2>1, <2>2, <2>10, <2>11
  <2>8. \A i \in 1 .. Len(a) : (a \o b)[i] = a[i]
    BY <2>1, <2>2
  <2>9. \A i \in 1 .. Len(b) : (a \o b)[i + Len(a)] = b[i]
    BY <2>1, <2>2
  <2>5. /\ a \o b \in Seq(Items) /\ Len(a \o b) = Len(s) - 1
        /\ \A i \in 1 .. k - 1 : (a \o b)[i] = a[i]
        /\ \A i \in 1 .. Len(s) - k : (a \o b)[i + (k - 1)] = b[i]
    BY <2>1, <2>2, <2>4, <2>8, <2>9
  <2>6. ASSUME NEW i \in 1 .. Len(s) - 1, ~(i < k)
        PROVE  (a \o b)[i] = s[i + 1]
    <3> DEFINE j == i - k + 1
    <3>1. j \in 1 .. Len(s) - k /\ j + (k - 1) = i /\ k + j = i + 1
      BY <1>1, <2>6
    <3> HIDE DEF j
    <3> QED
      BY <2>2, <2>5, <3>1
  <2>7. \A i \in 1 .. Len(s) - 1 : i < k => (a \o b)[i] = s[i]
    BY <1>1, <2>1, <2>5
  <2> QED
    BY <1>1, <2>3, <2>5, <2>6, <2>7 DEF Inserted
<1>4. ASSUME s # <<>>
      PROVE  Inserted(V!Front(s), Len(s), V!Last(s), s)
  <2>1. Len(s) \in 1 .. Len(s)
    BY <1>1, <1>4
  <2> DEFINE n == Len(s) - 1
  <2>3. n \in 0 .. Len(s)
    BY <1>1, <2>1
  <2> HIDE DEF n
  <2>4. /\ SubSeq(s, 1, n) \in Seq(Items) /\ Len(SubSeq(s, 1, n)) = n
        /\ \A i \in 1 .. n : SubSeq(s, 1, n)[i] = s[i]
    BY <1>1, <2>3
  <2>2. /\ SubSeq(s, 1, Len(s) - 1) \in Seq(Items) /\ Len(SubSeq(s, 1, Len(s) - 1)) = Len(s) - 1
        /\ \A i \in 1 .. Len(s) - 1 : SubSeq(s, 1, Len(s) - 1)[i] = s[i]
    BY <2>4 DEF n
  <2> QED
    BY <1>1, <2>1, <2>2 DEF V!Front, V!Last, Inserted
<1> QED
    BY <1>2, <1>3, <1>4

\* Each item is greater than those before it.
Increasing(s) == \A i, j \in DOMAIN s : i < j => s[i] < s[j]
ItemSet(s) == {s[i] : i \in DOMAIN s}

\* A greater item at the end keeps the order.
LEMMA Grown ==
    ASSUME NEW s \in Seq(Items), NEW x \in Items, Increasing(s), \A y \in ItemSet(s) : y < x
    PROVE  /\ Append(s, x) \in Seq(Items) /\ Increasing(Append(s, x))
           /\ ItemSet(Append(s, x)) = ItemSet(s) \union {x}
<1>1. /\ Len(s) \in Nat /\ DOMAIN s = 1 .. Len(s)
      /\ Append(s, x) \in Seq(Items) /\ DOMAIN Append(s, x) = 1 .. Len(s) + 1
      /\ \A i \in 1 .. Len(s) : Append(s, x)[i] = s[i]
      /\ Append(s, x)[Len(s) + 1] = x
    OBVIOUS
<1>2. \A i \in 1 .. Len(s) + 1 : i = Len(s) + 1 \/ i \in 1 .. Len(s)
    BY <1>1
<1>3. \A i \in 1 .. Len(s) : s[i] < x
    BY <1>1 DEF ItemSet
<1>4. ItemSet(Append(s, x)) = ItemSet(s) \union {x}
    BY <1>1, <1>2 DEF ItemSet
<1>5. ASSUME NEW i \in 1 .. Len(s) + 1, NEW j \in 1 .. Len(s) + 1, i < j
      PROVE  Append(s, x)[i] < Append(s, x)[j]
  <2>1. i \in 1 .. Len(s)
    BY <1>1, <1>5
  <2>2. CASE j = Len(s) + 1
    BY <1>1, <1>3, <2>1, <2>2
  <2>3. CASE j \in 1 .. Len(s)
    BY <1>1, <1>5, <2>1, <2>3 DEF Increasing
  <2> QED
    BY <1>2, <2>2, <2>3
<1>6. Increasing(Append(s, x))
    BY <1>1, <1>5, Zenon DEF Increasing
<1> QED
    BY <1>1, <1>4, <1>6

\* unique_copy of a sorted vector has each of its items once, in order.
LEMMA UniqueItems ==
    ASSUME NEW s \in Seq(Items), V!InOrder(s)
    PROVE  /\ V!unique_copy(s) \in Seq(Items) /\ Increasing(V!unique_copy(s))
           /\ ItemSet(V!unique_copy(s)) = ItemSet(s)
<1> DEFINE copied == CHOOSE g : g = [i \in 0 .. Len(s) |->
                                         IF i = 0 THEN <<>>
                                         ELSE IF i > 1 /\ s[i] = s[i - 1] THEN g[i - 1]
                                         ELSE Append(g[i - 1], s[i])]
           Upto(m) == {s[i] : i \in 1 .. m}
           Good(m) == /\ copied[m] \in Seq(Items) /\ Increasing(copied[m])
                      /\ ItemSet(copied[m]) = Upto(m)
           Bad == {m \in 0 .. Len(s) : ~Good(m)}
<1>1. /\ Len(s) \in Nat /\ DOMAIN s = 1 .. Len(s)
      /\ \A i \in 1 .. Len(s) : s[i] \in Items /\ s[i] \in Int
    BY ItemsOf
<1>2. \E g : g = [i \in 0 .. Len(s) |-> IF i = 0 THEN <<>>
                                        ELSE IF i > 1 /\ s[i] = s[i - 1] THEN g[i - 1]
                                        ELSE Append(g[i - 1], s[i])]
  <2> DEFINE Next1(g, i) == IF i = 0 THEN <<>>
                            ELSE IF i > 1 /\ s[i] = s[i - 1] THEN g[i - 1]
                            ELSE Append(g[i - 1], s[i])
             Solves(m) == \E g : g = [i \in 0 .. m |-> Next1(g, i)]
             U == {m \in 0 .. Len(s) : ~Solves(m)}
  <2>1. Len(s) \in Nat
    OBVIOUS
  <2>2. Solves(0)
    <3> DEFINE g == [i \in 0 .. 0 |-> <<>>]
    <3>1. g = [i \in 0 .. 0 |-> Next1(g, i)]
      OBVIOUS
    <3> QED
      BY <3>1
  <2>3. ASSUME NEW m \in 1 .. Len(s), Solves(m - 1)
        PROVE  Solves(m)
    <3>1. PICK g : g = [i \in 0 .. m - 1 |-> Next1(g, i)]
      BY <2>3
    <3> DEFINE k == [i \in 0 .. m |-> IF i = m THEN Next1(g, m) ELSE g[i]]
    <3>2. \A i \in 0 .. m - 1 : k[i] = g[i]
      BY <2>1
    <3>3. ASSUME NEW i \in 0 .. m
          PROVE  k[i] = Next1(k, i)
      <4>1. CASE i = m
        <5>1. k[i] = Next1(g, m) /\ k[m - 1] = g[m - 1]
          BY <2>1, <3>2, <4>1
        <5> QED
          BY <4>1, <5>1
      <4>2. CASE i = 0
        BY <3>1, <3>2, <4>2, <2>1
      <4>3. CASE i # m /\ i # 0
        <5>1. i \in 0 .. m - 1 /\ i - 1 \in 0 .. m - 1
          BY <2>1, <4>3
        <5>2. k[i] = g[i] /\ k[i - 1] = g[i - 1]
          BY <3>2, <5>1
        <5>3. g[i] = Next1(g, i)
          BY <3>1, <5>1
        <5> QED
          BY <5>2, <5>3, <4>3
      <4> QED
        BY <4>1, <4>2, <4>3
    <3>4. k = [i \in 0 .. m |-> k[i]]
      OBVIOUS
    <3> HIDE DEF k
    <3>5. k = [i \in 0 .. m |-> Next1(k, i)]
      BY <3>3, <3>4
    <3> QED
      BY <3>5
  <2> HIDE DEF Solves
  <2>4. U = {}
    <3>1. SUFFICES ASSUME U # {}
                   PROVE  FALSE
      OBVIOUS
    <3>2. U \subseteq Nat
      BY <2>1
    <3>3. PICK m \in U : \A j \in U : m <= j
      BY <3>1, <3>2, LeastNumber
    <3>4. m # 0 /\ m \in 0 .. Len(s)
      BY <2>2, <3>3
    <3>5. m - 1 \in 0 .. Len(s) /\ m \in 1 .. Len(s) /\ ~(m <= m - 1)
      BY <2>1, <3>4
    <3>6. Solves(m - 1)
      BY <3>3, <3>5
    <3> QED
      BY <2>3, <3>3, <3>5, <3>6
  <2>5. Solves(Len(s))
    BY <2>1, <2>4
  <2> QED
    BY <2>5 DEF Solves
<1>3. copied = [i \in 0 .. Len(s) |-> IF i = 0 THEN <<>>
                                      ELSE IF i > 1 /\ s[i] = s[i - 1] THEN copied[i - 1]
                                      ELSE Append(copied[i - 1], s[i])]
    BY <1>2
<1>4. V!unique_copy(s) = copied[Len(s)]
    BY DEF V!unique_copy
<1> HIDE DEF copied
<1>5. Good(0)
  <2>1. copied[0] = <<>> /\ Upto(0) = {}
    BY <1>1, <1>3
  <2> QED
    BY <2>1 DEF ItemSet, Increasing
<1>6. ASSUME NEW m \in 1 .. Len(s), Good(m - 1)
      PROVE  Good(m)
  <2> DEFINE Next1(i) == IF i = 0 THEN <<>>
                         ELSE IF i > 1 /\ s[i] = s[i - 1] THEN copied[i - 1]
                         ELSE Append(copied[i - 1], s[i])
  <2>1. m \in 0 .. Len(s) /\ m # 0 /\ s[m] \in Items /\ m \in Nat
    BY <1>1
  <2>2. copied = [i \in 0 .. Len(s) |-> Next1(i)]
    BY <1>3
  <2> HIDE DEF Next1
  <2>3. copied[m] = Next1(m)
    BY <2>1, <2>2
  <2>4. copied[m] = IF m > 1 /\ s[m] = s[m - 1] THEN copied[m - 1]
                    ELSE Append(copied[m - 1], s[m])
    BY <2>1, <2>3, Zenon DEF Next1
  <2>5. Upto(m) = Upto(m - 1) \union {s[m]}
    <3>1. \A i \in 1 .. m : i = m \/ i \in 1 .. m - 1
      BY <1>1
    <3> QED
      BY <1>1, <3>1
  <2>6. CASE m > 1 /\ s[m] = s[m - 1]
    <3>1. m - 1 \in 1 .. m - 1
      BY <2>1, <2>6
    <3>2. s[m] \in Upto(m - 1)
      BY <2>6, <3>1
    <3>3. copied[m] = copied[m - 1]
      BY <2>4, <2>6
    <3> HIDE DEF Upto
    <3>4. Upto(m) = Upto(m - 1)
      BY <2>5, <3>2
    <3> QED
      BY <1>6, <3>3, <3>4
  <2>7. CASE ~(m > 1 /\ s[m] = s[m - 1])
    <3>1. ASSUME NEW y \in Upto(m - 1)
          PROVE  y < s[m]
      <4>1. PICK i \in 1 .. m - 1 : y = s[i]
        OBVIOUS
      <4>2. i \in 1 .. Len(s) /\ m - 1 \in 1 .. Len(s) /\ m > 1 /\ (i = m - 1 \/ i < m - 1)
        BY <1>1, <2>1, <4>1
      <4>3. s[m - 1] <= s[m] /\ s[m - 1] # s[m]
        BY <1>1, <2>1, <2>7, <4>2 DEF V!InOrder
      <4>4. s[i] <= s[m - 1]
        BY <1>1, <4>2 DEF V!InOrder
      <4> QED
        BY <1>1, <4>1, <4>2, <4>3, <4>4
    <3> DEFINE q == copied[m - 1]
    <3>2. copied[m] = Append(q, s[m])
      BY <2>4, <2>7
    <3> HIDE DEF Upto
    <3>3. q \in Seq(Items) /\ Increasing(q) /\ ItemSet(q) = Upto(m - 1)
      BY <1>6
    <3> HIDE DEF q
    <3>4. \A y \in ItemSet(q) : y < s[m]
      BY <3>1, <3>3
    <3>5. /\ Append(q, s[m]) \in Seq(Items) /\ Increasing(Append(q, s[m]))
          /\ ItemSet(Append(q, s[m])) = ItemSet(q) \union {s[m]}
      BY <2>1, <3>3, <3>4, Grown
    <3> QED
      BY <2>5, <3>2, <3>3, <3>5
  <2> QED
    BY <2>6, <2>7
<1> HIDE DEF Good
<1>7. Bad = {}
  <2>1. SUFFICES ASSUME Bad # {}
                 PROVE  FALSE
    OBVIOUS
  <2>2. Bad \subseteq Nat
    BY <1>1
  <2>3. PICK m \in Bad : \A j \in Bad : m <= j
    BY <2>1, <2>2, LeastNumber
  <2>4. m # 0 /\ m \in 0 .. Len(s)
    BY <1>5, <2>3
  <2>5. m - 1 \in 0 .. Len(s) /\ m \in 1 .. Len(s) /\ ~(m <= m - 1)
    BY <1>1, <2>4
  <2>6. Good(m - 1)
    BY <2>3, <2>5
  <2> QED
    BY <1>6, <2>3, <2>5, <2>6
<1>8. Good(Len(s))
    BY <1>1, <1>7
<1>9. Upto(Len(s)) = ItemSet(s)
    BY <1>1 DEF ItemSet
<1> QED
    BY <1>4, <1>8, <1>9 DEF Good

\* What Add puts into a sorted vector.
Added(s, x) == V!InsertAt(s, V!upper_bound(s, x) + 1, x)

\* Add keeps a vector sorted and adds one of x.
LEMMA AddedIs ==
    ASSUME NEW s \in Seq(Items), V!InOrder(s), NEW x \in Items
    PROVE  /\ Added(s, x) \in Seq(Items) /\ Len(Added(s, x)) = Len(s) + 1
           /\ V!InOrder(Added(s, x))
           /\ \A y : Cardinality(At(Added(s, x), y)) =
                         Cardinality(At(s, y)) + (IF y = x THEN 1 ELSE 0)
<1> DEFINE u == V!upper_bound(s, x)
           r == Added(s, x)
<1>1. Len(s) \in Nat
    OBVIOUS
<1>2. u \in 0 .. Len(s) /\ \A i \in 1 .. Len(s) : i <= u <=> s[i] <= x
    BY Bounds
<1> HIDE DEF u
<1>3. u + 1 \in 1 .. Len(s) + 1 /\ \A i \in 1 .. Len(s) : i < u + 1 <=> i <= u
    BY <1>1, <1>2
<1>4. Inserted(s, u + 1, x, r)
    BY <1>3, OneMore DEF Added, u
<1>5. \A i \in 1 .. Len(s) : i < u + 1 <=> s[i] <= x
    BY <1>2, <1>3, Zenon
<1> HIDE DEF r
<1>6. V!InOrder(r)
    BY <1>4, <1>5, InsertedInOrder
<1>7. \A y : Cardinality(At(r, y)) = Cardinality(At(s, y)) + (IF y = x THEN 1 ELSE 0)
    BY <1>4, InsertedCounts
<1>8. r \in Seq(Items) /\ Len(r) = Len(s) + 1
    BY <1>4 DEF Inserted
<1> QED
    BY <1>6, <1>7, <1>8 DEF r

\* Every vector can be sorted, by adding its items one after the other.
LEMMA SortExists ==
    ASSUME NEW s \in Seq(Items)
    PROVE  \E r \in Seq(Items) : /\ Len(r) = Len(s) /\ V!InOrder(r)
                                 /\ \A x : Cardinality(At(r, x)) = Cardinality(At(s, x))
<1> DEFINE Sorts(v) == \E r \in Seq(Items) :
                           /\ Len(r) = Len(v) /\ V!InOrder(r)
                           /\ \A x : Cardinality(At(r, x)) = Cardinality(At(v, x))
           Bad == {n \in Nat : \E v \in Seq(Items) : Len(v) = n /\ ~Sorts(v)}
<1>1. ASSUME NEW v \in Seq(Items), v # <<>>, Sorts(V!Front(v))
      PROVE  Sorts(v)
  <2> DEFINE w == V!Front(v)
             x == V!Last(v)
  <2>1. Inserted(w, Len(v), x, v)
    BY <1>1, OneMore
  <2>2. w \in Seq(Items) /\ Len(v) = Len(w) + 1 /\ x \in Items
    BY <2>1 DEF Inserted
  <2>3. PICK r \in Seq(Items) : /\ Len(r) = Len(w) /\ V!InOrder(r)
                                /\ \A y : Cardinality(At(r, y)) = Cardinality(At(w, y))
    BY <1>1
  <2> HIDE DEF w, x
  <2>4. /\ Added(r, x) \in Seq(Items) /\ Len(Added(r, x)) = Len(r) + 1
        /\ V!InOrder(Added(r, x))
        /\ \A y : Cardinality(At(Added(r, x), y)) =
                      Cardinality(At(r, y)) + (IF y = x THEN 1 ELSE 0)
    BY <2>2, <2>3, AddedIs
  <2>5. \A y : Cardinality(At(v, y)) = Cardinality(At(w, y)) + (IF y = x THEN 1 ELSE 0)
    BY <2>1, InsertedCounts
  <2>6. \A y : Cardinality(At(Added(r, x), y)) = Cardinality(At(v, y))
    BY <2>3, <2>4, <2>5
  <2> QED
    BY <2>2, <2>3, <2>4, <2>6
<1>2. Sorts(<<>>)
  <2>1. <<>> \in Seq(Items) /\ V!InOrder(<<>>)
    BY DEF V!InOrder
  <2> QED
    BY <2>1
<1> HIDE DEF Sorts
<1>3. Bad = {}
  <2>1. SUFFICES ASSUME Bad # {}
                 PROVE  FALSE
    OBVIOUS
  <2>2. PICK n \in Bad : \A m \in Bad : n <= m
    BY <2>1, LeastNumber
  <2>3. PICK v \in Seq(Items) : Len(v) = n /\ ~Sorts(v)
    OBVIOUS
  <2>4. v # <<>>
    BY <1>2, <2>3
  <2>5. Inserted(V!Front(v), Len(v), V!Last(v), v)
    BY <2>4, OneMore
  <2>6. V!Front(v) \in Seq(Items) /\ Len(V!Front(v)) \in Nat /\ n = Len(V!Front(v)) + 1
    BY <2>3, <2>5 DEF Inserted
  <2>7. ~(n <= Len(V!Front(v)))
    BY <2>6
  <2>8. Sorts(V!Front(v))
    BY <2>2, <2>6, <2>7
  <2> QED
    BY <1>1, <2>3, <2>4, <2>8
<1>4. Len(s) \in Nat
    OBVIOUS
<1>5. Sorts(s)
    BY <1>3, <1>4
<1> QED
    BY <1>5 DEF Sorts

\* std::sort puts the same items in order.
LEMMA SortIs ==
    ASSUME NEW s \in Seq(Items)
    PROVE  V!sort(s) \in Seq(Items) /\ V!InOrder(V!sort(s)) /\ V!BagOf(V!sort(s)) = V!BagOf(s)
<1>1. PICK r \in Seq(Items) : /\ Len(r) = Len(s) /\ V!InOrder(r)
                              /\ \A x : Cardinality(At(r, x)) = Cardinality(At(s, x))
    BY SortExists
<1>2. DOMAIN s = 1 .. Len(s) /\ Len(s) \in Nat
    OBVIOUS
<1>3. r \in [DOMAIN s -> Items]
    BY <1>1, <1>2
<1>4. V!BagOf(s) \in [Items -> Nat]
    BY BagType
<1>5. \A x \in Items : Cardinality(At(r, x)) = V!BagOf(s)[x]
    BY <1>1, Places
<1>6. V!BagOf(r) = V!BagOf(s)
    BY <1>4, <1>5, BagIs
<1>7. /\ V!sort(s) \in [DOMAIN s -> Items]
      /\ V!InOrder(V!sort(s)) /\ V!BagOf(V!sort(s)) = V!BagOf(s)
    BY <1>1, <1>3, <1>6, Zenon DEF V!sort
<1>8. \A f \in [1 .. Len(s) -> Items] : f \in Seq(Items)
    BY <1>2
<1> QED
    BY <1>2, <1>7, <1>8

\* A copy is sorted, and has of each item what the vector may have.
LEMMA CopiedIs ==
    ASSUME NEW d \in BOOLEAN, NEW s \in Seq(Items), V!InOrder(s)
    PROVE  /\ V!Copied(d, s) \in Seq(Items) /\ V!InOrder(V!Copied(d, s))
           /\ V!BagOf(V!Copied(d, s)) = V!Capped(d, V!BagOf(s))
<1>1. V!BagOf(s) \in [Items -> Nat]
    BY BagType
<1>2. CASE d
  <2>1. V!Copied(d, s) = s
    BY <1>2 DEF V!Copied
  <2>2. V!Capped(d, V!BagOf(s)) = V!BagOf(s)
    BY <1>1, <1>2 DEF V!Capped
  <2> QED
    BY <2>1, <2>2
<1>3. CASE ~d
  <2> DEFINE r == V!unique_copy(s)
  <2>1. V!Copied(d, s) = r
    BY <1>3 DEF V!Copied
  <2>2. r \in Seq(Items) /\ Increasing(r) /\ ItemSet(r) = ItemSet(s)
    BY UniqueItems
  <2> HIDE DEF r
  <2>3. /\ Len(r) \in Nat /\ DOMAIN r = 1 .. Len(r)
        /\ \A i \in 1 .. Len(r) : r[i] \in Items /\ r[i] \in Int
    BY <2>2, ItemsOf
  <2>4. V!InOrder(r)
    BY <2>2, <2>3 DEF V!InOrder, Increasing
  <2>5. ASSUME NEW x \in Items
        PROVE  Cardinality(At(r, x)) = V!Capped(d, V!BagOf(s))[x]
    <3>1. At(s, x) = {} <=> x \notin ItemSet(s)
      BY DEF At, ItemSet
    <3>2. At(r, x) = {} <=> x \notin ItemSet(r)
      BY DEF At, ItemSet
    <3>3. V!Capped(d, V!BagOf(s))[x] = IF V!BagOf(s)[x] = 0 THEN 0 ELSE 1
      BY <1>1, <1>3 DEF V!Capped
    <3>4. V!BagOf(s)[x] = 0 <=> At(s, x) = {}
      BY Places
    <3>5. CASE At(r, x) = {}
      BY <2>2, <3>1, <3>2, <3>3, <3>4, <3>5, FS_EmptySet
    <3>6. CASE At(r, x) # {}
      <4>1. PICK i : i \in At(r, x)
        BY <3>6
      <4>2. \A j \in At(r, x) : j = i
        BY <2>2, <2>3, <4>1 DEF At, Increasing
      <4>3. At(r, x) = {i}
        BY <4>1, <4>2
      <4>4. Cardinality(At(r, x)) = 1
        BY <4>3, FS_Singleton
      <4> QED
        BY <2>2, <3>1, <3>2, <3>3, <3>4, <3>6, <4>4
    <3> QED
      BY <3>5, <3>6
  <2>6. V!Capped(d, V!BagOf(s)) \in [Items -> Nat]
    BY <1>1 DEF V!Capped
  <2>7. V!BagOf(r) = V!Capped(d, V!BagOf(s))
    BY <2>2, <2>5, <2>6, BagIs
  <2> QED
    BY <2>1, <2>2, <2>4, <2>7
<1> QED
    BY <1>2, <1>3

\* The vectors are sorted and have what they should: HoldsInOrder without the
\* searches, and inductive.
VectorInv ==
    /\ vec \in [BOOLEAN -> Seq(Items)] /\ held \in [BOOLEAN -> [Items -> Nat]]
    /\ \A d \in BOOLEAN : V!InOrder(vec[d]) /\ V!BagOf(vec[d]) = held[d]

\* Empty vectors satisfy the invariant.
LEMMA VectorInit ==
    ASSUME V!Init
    PROVE  VectorInv
<1>1. <<>> \in Seq(Items) /\ V!InOrder(<<>>)
    BY DEF V!InOrder
<1>2. V!Empty \in [Items -> Nat] /\ \A x \in Items : V!Empty[x] = 0
    BY DEF V!Empty
<1>3. \A x : At(<<>>, x) = {}
    BY DEF At
<1>4. \A x \in Items : Cardinality(At(<<>>, x)) = V!Empty[x]
    BY <1>2, <1>3, FS_EmptySet
<1>5. V!BagOf(<<>>) = V!Empty
    BY <1>1, <1>2, <1>4, BagIs
<1> QED
    BY <1>1, <1>2, <1>5 DEF V!Init, VectorInv

\* A vector that becomes sorted with the items it should have.
LEMMA BecomesInv ==
    ASSUME VectorInv, NEW d \in BOOLEAN, NEW s \in Seq(Items), V!InOrder(s),
           V!Becomes(d, s, V!BagOf(s))
    PROVE  VectorInv'
<1>1. V!BagOf(s) \in [Items -> Nat]
    BY BagType
<1>2. vec' = [vec EXCEPT ![d] = s] /\ held' = [held EXCEPT ![d] = V!BagOf(s)]
    BY DEF V!Becomes
<1>3. vec' \in [BOOLEAN -> Seq(Items)] /\ held' \in [BOOLEAN -> [Items -> Nat]]
    BY <1>1, <1>2 DEF VectorInv
<1>4. \A e \in BOOLEAN : /\ vec'[e] = IF e = d THEN s ELSE vec[e]
                         /\ held'[e] = IF e = d THEN V!BagOf(s) ELSE held[e]
    BY <1>2 DEF VectorInv
<1>5. \A e \in BOOLEAN : V!InOrder(vec'[e]) /\ V!BagOf(vec'[e]) = held'[e]
    BY <1>4 DEF VectorInv
<1>6. (\A e \in BOOLEAN : V!InOrder(vec[e]) /\ V!BagOf(vec[e]) = held[e])'
    BY <1>5 DEF V!InOrder, V!BagOf
<1> QED
    BY <1>3, <1>6 DEF VectorInv

\* The constructor from a std::vector, and the other kind's vector assigned.
LEMMA CopyInv ==
    ASSUME VectorInv, NEW d \in BOOLEAN
    PROVE  /\ \A s \in Seq(Items) : V!SortedVectorOf(d, s) => VectorInv'
           /\ \A e \in BOOLEAN : V!Assign(d, e) => VectorInv'
<1>1. ASSUME NEW s \in Seq(Items), V!SortedVectorOf(d, s)
      PROVE  VectorInv'
  <2>1. V!sort(s) \in Seq(Items) /\ V!InOrder(V!sort(s)) /\ V!BagOf(V!sort(s)) = V!BagOf(s)
    BY SortIs
  <2>2. /\ V!Copied(d, V!sort(s)) \in Seq(Items) /\ V!InOrder(V!Copied(d, V!sort(s)))
        /\ V!BagOf(V!Copied(d, V!sort(s))) = V!Capped(d, V!BagOf(s))
    BY <2>1, CopiedIs
  <2>3. V!Becomes(d, V!Copied(d, V!sort(s)), V!BagOf(V!Copied(d, V!sort(s))))
    BY <1>1, <2>2 DEF V!SortedVectorOf, V!SortedOf
  <2> QED
    BY <2>2, <2>3, BecomesInv
<1>2. ASSUME NEW e \in BOOLEAN, V!Assign(d, e)
      PROVE  VectorInv'
  <2>1. CASE d = e
    <3>1. vec' = vec /\ held' = held
      BY <1>2, <2>1 DEF V!Assign
    <3> QED
      BY <3>1 DEF VectorInv, V!InOrder, V!BagOf
  <2>2. CASE d # e
    <3>1. vec[e] \in Seq(Items) /\ V!InOrder(vec[e]) /\ V!BagOf(vec[e]) = held[e]
      BY DEF VectorInv
    <3>2. /\ V!Copied(d, vec[e]) \in Seq(Items) /\ V!InOrder(V!Copied(d, vec[e]))
          /\ V!BagOf(V!Copied(d, vec[e])) = V!Capped(d, held[e])
      BY <3>1, CopiedIs
    <3>3. V!Becomes(d, V!Copied(d, vec[e]), V!BagOf(V!Copied(d, vec[e])))
      BY <1>2, <2>2, <3>2 DEF V!Assign
    <3> QED
      BY <3>2, <3>3, BecomesInv
  <2> QED
    BY <2>1, <2>2
<1> QED
    BY <1>1, <1>2

\* Add, where the item is not yet there or duplicates are allowed.
LEMMA AddInv ==
    ASSUME VectorInv, NEW d \in BOOLEAN, NEW x \in Items, V!Add(d, x)
    PROVE  VectorInv'
<1>1. CASE V!IndexOf(vec[d], x) # V!NOT_FOUND /\ ~d
  <2>1. vec' = vec /\ held' = held
    BY <1>1 DEF V!Add
  <2> QED
    BY <2>1 DEF VectorInv, V!InOrder, V!BagOf
<1>2. CASE ~(V!IndexOf(vec[d], x) # V!NOT_FOUND /\ ~d)
  <2> DEFINE s == vec[d]
             bag == [held[d] EXCEPT ![x] = @ + 1]
  <2>1. s \in Seq(Items) /\ V!InOrder(s) /\ V!BagOf(s) = held[d] /\ held[d] \in [Items -> Nat]
    BY DEF VectorInv
  <2>2. V!Becomes(d, Added(s, x), bag)
    BY <1>2 DEF V!Add, Added
  <2>3. /\ Added(s, x) \in Seq(Items) /\ V!InOrder(Added(s, x))
        /\ \A y : Cardinality(At(Added(s, x), y)) =
                      Cardinality(At(s, y)) + (IF y = x THEN 1 ELSE 0)
    BY <2>1, AddedIs
  <2>4. bag \in [Items -> Nat] /\ \A y \in Items : bag[y] = held[d][y] + (IF y = x THEN 1 ELSE 0)
    BY <2>1
  <2> HIDE DEF s, bag
  <2>5. \A y \in Items : held[d][y] = Cardinality(At(s, y))
    BY <2>1, Places
  <2>6. \A y \in Items : Cardinality(At(Added(s, x), y)) = bag[y]
    BY <2>3, <2>4, <2>5
  <2>7. V!BagOf(Added(s, x)) = bag
    BY <2>3, <2>4, <2>6, BagIs
  <2> QED
    BY <2>2, <2>3, <2>7, BecomesInv
<1> QED
    BY <1>1, <1>2

\* Merge, of a vector whose items are counted by bag, or are those of bag.
LEMMA MergeInv ==
    ASSUME VectorInv, NEW d \in BOOLEAN, NEW rhs \in Seq(Items), NEW bag \in [Items -> Nat],
           \A x \in Items : V!BagOf(rhs)[x] = bag[x] \/ (~d /\ V!BagOf(rhs)[x] = 1 /\ bag[x] # 0),
           V!Merge(d, rhs, bag)
    PROVE  VectorInv'
<1> DEFINE s == vec[d]
           both == s \o rhs
           sum == [x \in Items |-> held[d][x] + bag[x]]
<1>1. s \in Seq(Items) /\ V!BagOf(s) = held[d] /\ held[d] \in [Items -> Nat]
    BY DEF VectorInv
<1>2. both \in Seq(Items)
    BY <1>1
<1>3. \A x \in Items : Cardinality(At(both, x)) = held[d][x] + V!BagOf(rhs)[x]
  <2>1. ASSUME NEW x \in Items
        PROVE  Cardinality(At(both, x)) = held[d][x] + V!BagOf(rhs)[x]
    <3>1. Cardinality(At(both, x)) = Cardinality(At(s, x)) + Cardinality(At(rhs, x))
      BY <1>1, ConcatCounts
    <3> HIDE DEF s, both
    <3>2. held[d][x] = Cardinality(At(s, x)) /\ V!BagOf(rhs)[x] = Cardinality(At(rhs, x))
      BY <1>1, Places
    <3> QED
      BY <3>1, <3>2
  <2> QED
    BY <2>1
<1>4. sum \in [Items -> Nat] /\ \A x \in Items : sum[x] = held[d][x] + bag[x]
    BY <1>1
<1>5. V!BagOf(both) \in [Items -> Nat] /\ V!BagOf(rhs) \in [Items -> Nat]
    BY <1>2, BagType
<1>6. \A x \in Items : V!BagOf(both)[x] = held[d][x] + V!BagOf(rhs)[x]
    BY <1>2, <1>3, Places
<1>7. V!Becomes(d, V!Copied(d, V!sort(both)), V!Capped(d, sum))
    BY DEF V!Merge
<1> HIDE DEF s, both, sum
<1>8. \A x \in Items : /\ d => V!BagOf(both)[x] = sum[x]
                       /\ V!BagOf(both)[x] = 0 <=> sum[x] = 0
    BY <1>1, <1>4, <1>5, <1>6
<1>9. V!Capped(d, V!BagOf(both)) = V!Capped(d, sum)
    BY <1>8 DEF V!Capped
<1>10. /\ V!sort(both) \in Seq(Items) /\ V!InOrder(V!sort(both))
       /\ V!BagOf(V!sort(both)) = V!BagOf(both)
    BY <1>2, SortIs
<1>11. /\ V!Copied(d, V!sort(both)) \in Seq(Items) /\ V!InOrder(V!Copied(d, V!sort(both)))
       /\ V!BagOf(V!Copied(d, V!sort(both))) = V!Capped(d, sum)
    BY <1>9, <1>10, CopiedIs
<1>12. V!Becomes(d, V!Copied(d, V!sort(both)), V!BagOf(V!Copied(d, V!sort(both))))
    BY <1>7, <1>11
<1> QED
    BY <1>11, <1>12, BecomesInv

\* A vector that loses the item at one place.
LEMMA RemoveInv ==
    ASSUME VectorInv, NEW d \in BOOLEAN, NEW k, NEW x \in Items, NEW s,
           Inserted(s, k, x, vec[d]), V!Becomes(d, s, [held[d] EXCEPT ![x] = @ - 1])
    PROVE  VectorInv'
<1> DEFINE bag == [held[d] EXCEPT ![x] = @ - 1]
<1>1. /\ vec[d] \in Seq(Items) /\ V!InOrder(vec[d])
      /\ V!BagOf(vec[d]) = held[d] /\ held[d] \in [Items -> Nat]
    BY DEF VectorInv
<1>2. s \in Seq(Items) /\ V!InOrder(s)
    BY <1>1, RemovedInOrder DEF Inserted
<1>3. \A y : Cardinality(At(vec[d], y)) = Cardinality(At(s, y)) + (IF y = x THEN 1 ELSE 0)
    BY InsertedCounts
<1>4. \A y \in Items : held[d][y] = Cardinality(At(vec[d], y)) /\ Cardinality(At(s, y)) \in Nat
    BY <1>1, <1>2, Places
<1>5. \A y \in Items : bag[y] = held[d][y] - (IF y = x THEN 1 ELSE 0)
    BY <1>1
<1>6. bag = [y \in Items |-> bag[y]]
    BY <1>1
<1> HIDE DEF bag
<1>7. \A y \in Items : bag[y] = Cardinality(At(s, y)) /\ bag[y] \in Nat
    BY <1>1, <1>3, <1>4, <1>5
<1>8. bag \in [Items -> Nat]
    BY <1>6, <1>7
<1>9. V!BagOf(s) = bag
    BY <1>2, <1>7, <1>8, BagIs
<1> QED
    BY <1>2, <1>9, BecomesInv DEF bag

\* Erase(IndexOf(x)), PopBack and Clear.
LEMMA EraseInv ==
    ASSUME VectorInv, NEW d \in BOOLEAN
    PROVE  /\ \A x \in Items : V!Erase(d, x) => VectorInv'
           /\ V!PopBack(d) => VectorInv'
           /\ V!Clear(d) => VectorInv'
<1> DEFINE s == vec[d]
<1>1. s \in Seq(Items) /\ V!InOrder(s) /\ V!BagOf(s) = held[d] /\ held[d] \in [Items -> Nat]
    BY DEF VectorInv
<1>2. Len(s) \in Nat /\ DOMAIN s = 1 .. Len(s) /\ \A i \in 1 .. Len(s) : s[i] \in Items
    BY <1>1, ItemsOf
<1>3. ASSUME NEW x \in Items, V!Erase(d, x)
      PROVE  VectorInv'
  <2> DEFINE index == V!IndexOf(s, x)
  <2>1. /\ At(s, x) = {} => index = -1
        /\ At(s, x) # {} => index + 1 \in At(s, x)
    BY <1>1, Searches DEF Answers, V!NOT_FOUND
  <2>2. V!Becomes(d, V!EraseAt(s, index), [held[d] EXCEPT ![x] = IF @ = 0 THEN 0 ELSE @ - 1])
    BY <1>3 DEF V!Erase
  <2>3. held[d][x] = Cardinality(At(s, x)) /\ (held[d][x] = 0 <=> At(s, x) = {})
    BY <1>1, Places
  <2>4. index = IF V!lower_bound(s, x) = Len(s) \/ s[V!lower_bound(s, x) + 1] # x
                THEN -1 ELSE V!lower_bound(s, x)
    BY DEF V!IndexOf, V!NOT_FOUND
  <2>5. V!lower_bound(s, x) \in 0 .. Len(s)
    BY <1>1, Bounds
  <2> HIDE DEF index, s
  <2>6. CASE At(s, x) = {}
    <3>1. V!EraseAt(s, index) = s
      BY <2>1, <2>6 DEF V!EraseAt, V!NOT_FOUND
    <3>2. held[d][x] = 0
      BY <2>3, <2>6
    <3>3. [held[d] EXCEPT ![x] = IF @ = 0 THEN 0 ELSE @ - 1] = held[d]
      BY <1>1, <3>2
    <3>4. V!Becomes(d, s, V!BagOf(s))
      BY <1>1, <2>2, <3>1, <3>3
    <3> QED
      BY <1>1, <3>4, BecomesInv
  <2>7. CASE At(s, x) # {}
    <3>1. index + 1 \in 1 .. Len(s) /\ s[index + 1] = x
      BY <1>2, <2>1, <2>7 DEF At
    <3>2. index = -1 \/ index \in 0 .. Len(s)
      BY <2>4, <2>5
    <3>3. index # -1 /\ ~(index >= Len(s))
      BY <1>2, <3>1, <3>2
    <3>4. V!EraseAt(s, index) = V!RemoveAt(s, index + 1)
      BY <3>3 DEF V!EraseAt, V!NOT_FOUND
    <3>5. Inserted(V!RemoveAt(s, index + 1), index + 1, x, vec[d])
      BY <1>1, <3>1, OneMore DEF s
    <3>6. [held[d] EXCEPT ![x] = IF @ = 0 THEN 0 ELSE @ - 1] = [held[d] EXCEPT ![x] = @ - 1]
      BY <2>3, <2>7
    <3>7. V!Becomes(d, V!RemoveAt(s, index + 1), [held[d] EXCEPT ![x] = @ - 1])
      BY <2>2, <3>4, <3>6
    <3> QED
      BY <3>5, <3>7, RemoveInv
  <2> QED
    BY <2>6, <2>7
<1>4. ASSUME V!PopBack(d)
      PROVE  VectorInv'
  <2>1. s # <<>> /\ V!Becomes(d, V!Front(s), [held[d] EXCEPT ![V!Last(s)] = @ - 1])
    BY <1>4 DEF V!PopBack
  <2>2. Inserted(V!Front(s), Len(s), V!Last(s), vec[d])
    BY <1>1, <2>1, OneMore
  <2>3. Len(s) \in 1 .. Len(s)
    BY <1>1, <1>2, <2>1
  <2>4. V!Last(s) \in Items
    BY <1>2, <2>3 DEF V!Last
  <2> QED
    BY <2>1, <2>2, <2>4, RemoveInv
<1>5. ASSUME V!Clear(d)
      PROVE  VectorInv'
  <2>1. <<>> \in Seq(Items) /\ V!InOrder(<<>>)
    BY DEF V!InOrder
  <2>2. V!Empty \in [Items -> Nat] /\ \A x \in Items : V!Empty[x] = 0
    BY DEF V!Empty
  <2>3. \A x \in Items : Cardinality(At(<<>>, x)) = V!Empty[x]
    <3>1. \A x : At(<<>>, x) = {}
      BY DEF At
    <3> QED
      BY <2>2, <3>1, FS_EmptySet
  <2>4. V!BagOf(<<>>) = V!Empty
    BY <2>1, <2>2, <2>3, BagIs
  <2> QED
    BY <1>5, <2>1, <2>4, BecomesInv DEF V!Clear
<1> QED
    BY <1>3, <1>4, <1>5

\* EditItemAt, with an item that fits between its neighbours.
LEMMA EditInv ==
    ASSUME VectorInv, NEW d \in BOOLEAN, NEW k \in 1 .. MaxLen, NEW x \in Items,
           V!EditItemAt(d, k, x)
    PROVE  VectorInv'
<1> DEFINE s == vec[d]
           r == [s EXCEPT ![k] = x]
<1>1. s \in Seq(Items) /\ V!InOrder(s)
    BY DEF VectorInv
<1>2. /\ Len(s) \in Nat /\ DOMAIN s = 1 .. Len(s) /\ x \in Int
      /\ \A i \in 1 .. Len(s) : s[i] \in Items /\ s[i] \in Int
    BY <1>1, ItemsOf
<1>3. k \in 1 .. Len(s) /\ (k > 1 => s[k - 1] <= x) /\ (k < Len(s) => x <= s[k + 1])
    BY <1>2 DEF V!EditItemAt
<1>4. V!Becomes(d, r, V!BagOf(r))
    BY DEF V!EditItemAt
<1>5. r \in Seq(Items) /\ DOMAIN r = 1 .. Len(s)
    BY <1>1, <1>2, <1>3
<1>6. \A i \in 1 .. Len(s) : r[i] = IF i = k THEN x ELSE s[i]
    BY <1>2, <1>3
<1>7. \A i, j \in 1 .. Len(s) : i < j => s[i] <= s[j]
    BY <1>1, <1>2 DEF V!InOrder
<1> HIDE DEF s, r
<1>8. ASSUME NEW i \in 1 .. Len(s), NEW j \in 1 .. Len(s), i < j
      PROVE  r[i] <= r[j]
  <2>1. CASE i = k
    <3>1. k + 1 \in 1 .. Len(s) /\ k < Len(s) /\ j # k /\ (j = k + 1 \/ k + 1 < j)
      BY <1>2, <1>3, <1>8, <2>1
    <3>2. x <= s[k + 1] /\ s[k + 1] <= s[j] /\ r[i] = x /\ r[j] = s[j]
      BY <1>2, <1>3, <1>6, <1>7, <2>1, <3>1
    <3> QED
      BY <1>2, <3>1, <3>2
  <2>2. CASE j = k
    <3>1. k - 1 \in 1 .. Len(s) /\ k > 1 /\ i # k /\ (i = k - 1 \/ i < k - 1)
      BY <1>2, <1>3, <1>8, <2>2
    <3>2. s[k - 1] <= x /\ s[i] <= s[k - 1] /\ r[i] = s[i] /\ r[j] = x
      BY <1>2, <1>3, <1>6, <1>7, <2>2, <3>1
    <3> QED
      BY <1>2, <3>1, <3>2
  <2>3. CASE i # k /\ j # k
    BY <1>6, <1>7, <1>8, <2>3
  <2> QED
    BY <2>1, <2>2, <2>3
<1>9. V!InOrder(r)
    BY <1>5, <1>8 DEF V!InOrder
<1> QED
    BY <1>4, <1>5, <1>9, BecomesInv

\* Every call preserves the invariant.
LEMMA VectorNext ==
    ASSUME VectorInv, V!Next
    PROVE  VectorInv'
<1>1. PICK d \in BOOLEAN :
          \/ \E e \in BOOLEAN : V!Assign(d, e)
          \/ \E x \in Items : \/ V!Add(d, x) \/ V!Erase(d, x)
                              \/ \E k \in 1 .. MaxLen : V!EditItemAt(d, k, x)
          \/ \E invec \in V!BoundedSeq(Items, 2) :
                 \/ V!SortedVectorOf(d, invec)
                 \/ V!Merge(d, V!SortedOf(d, invec), V!BagOf(invec))
          \/ V!Merge(d, vec[d], held[d])
          \/ V!PopBack(d) \/ V!Clear(d)
    BY DEF V!Next
<1>2. ASSUME NEW invec \in V!BoundedSeq(Items, 2)
      PROVE  invec \in Seq(Items)
  <2>1. invec \in UNION {[1 .. n -> Items] : n \in 0 .. 2}
    BY <1>2 DEF V!BoundedSeq, V!SeqOf
  <2>2. PICK n \in 0 .. 2 : invec \in [1 .. n -> Items]
    BY <2>1, Zenon
  <2>3. n \in Nat
    OBVIOUS
  <2> QED
    BY <2>2, <2>3
<1>3. ASSUME NEW invec \in Seq(Items), V!Merge(d, V!SortedOf(d, invec), V!BagOf(invec))
      PROVE  VectorInv'
  <2> DEFINE rhs == V!SortedOf(d, invec)
  <2>1. V!sort(invec) \in Seq(Items) /\ V!InOrder(V!sort(invec)) /\ V!BagOf(V!sort(invec)) = V!BagOf(invec)
    BY SortIs
  <2>2. rhs \in Seq(Items) /\ V!BagOf(rhs) = V!Capped(d, V!BagOf(invec))
    BY <2>1, CopiedIs DEF V!SortedOf
  <2>3. V!BagOf(invec) \in [Items -> Nat]
    BY BagType
  <2> HIDE DEF rhs
  <2>4. \A x \in Items : \/ V!BagOf(rhs)[x] = V!BagOf(invec)[x]
                         \/ ~d /\ V!BagOf(rhs)[x] = 1 /\ V!BagOf(invec)[x] # 0
    BY <2>2, <2>3 DEF V!Capped
  <2> QED
    BY <1>3, <2>2, <2>3, <2>4, MergeInv DEF rhs
<1>4. ASSUME V!Merge(d, vec[d], held[d])
      PROVE  VectorInv'
  <2>1. /\ vec[d] \in Seq(Items) /\ held[d] \in [Items -> Nat]
        /\ \A x \in Items : V!BagOf(vec[d])[x] = held[d][x]
    BY DEF VectorInv
  <2> QED
    BY <1>4, <2>1, MergeInv
<1> QED
    BY <1>1, <1>2, <1>3, <1>4, CopyInv, AddInv, EraseInv, EditInv

(* A SortedVector holds what its calls put there, in order, and its binary *)
(* searches answer for it (sorted_vector.h:351, :365), for vectors of any  *)
(* length and any items, with and without duplicates: Add and Merge keep   *)
(* the order IndexOf and OrderOf rely on, and a copy into a vector without *)
(* duplicates leaves one of each item.                                     *)
THEOREM VectorsHoldInOrder == UnitsSpec => []HoldsInOrder
<1>1. UnitsInit => VectorInv
    BY VectorInit DEF UnitsInit
<1>2. VectorInv /\ [UnitsNext /\ UNCHANGED unit]_<<unit, vars, fdVars, obsVars, vecVars>>
      => VectorInv'
  <2> SUFFICES ASSUME VectorInv, V!Next \/ UNCHANGED vecVars
               PROVE  VectorInv'
    BY DEF UnitsNext
  <2>1. CASE UNCHANGED vecVars
    <3>1. vec' = vec /\ held' = held
      BY <2>1 DEF vecVars
    <3> QED
      BY <3>1 DEF VectorInv, V!InOrder, V!BagOf
  <2> QED
    BY <2>1, VectorNext
<1>3. VectorInv => HoldsInOrder
  <2> SUFFICES ASSUME VectorInv, NEW d \in BOOLEAN
               PROVE  /\ V!InOrder(vec[d]) /\ V!BagOf(vec[d]) = held[d]
                      /\ Answers(vec[d])
    BY DEF HoldsInOrder, V!HoldsInOrder, Answers, At
  <2>1. vec[d] \in Seq(Items) /\ V!InOrder(vec[d]) /\ V!BagOf(vec[d]) = held[d]
    BY DEF VectorInv
  <2> QED
    BY <2>1, Searches
<1> QED
    BY <1>1, <1>2, <1>3, PTL DEF UnitsSpec

(***************************************************************************)
(* MappedFile.                                                             *)
(***************************************************************************)
LEMMA PageFacts ==
    /\ Page \in Int /\ Page >= 1 /\ Offsets \subseteq Int /\ Sizes \subseteq Int /\ Hints \subseteq Int
    /\ MaxLength \in Nat /\ Lengths \in [Paths -> -1 .. MaxLength] /\ NoPath \notin Paths
    BY MappedFileConstants

\* Multiples of the page size.
LEMMA Times ==
    ASSUME NEW a \in Int, NEW b \in Int
    PROVE  /\ a * Page \in Int /\ (a + b) * Page = a * Page + b * Page
           /\ (a - b) * Page = a * Page - b * Page
           /\ (a + 1) * Page = a * Page + Page
           /\ a < b => a * Page + Page <= b * Page
           /\ a <= b => a * Page <= b * Page
<1>1. ASSUME NEW c \in Int, NEW p \in Int, c >= 0, p >= 1
      PROVE  c * p >= 0 /\ (c >= 1 => c * p >= p)
    BY <1>1
<1> QED
    BY PageFacts, <1>1

\* A multiple of the page size is a number.
LEMMA Multiple == ASSUME NEW a \in Int PROVE a * Page \in Int
    BY PageFacts

\* Multiples of the page size add up.
LEMMA Sum ==
    ASSUME NEW a \in Int, NEW b \in Int
    PROVE  (a + b) * Page = a * Page + b * Page
    BY PageFacts

\* Quotient and remainder are determined by their bounds.
LEMMA Quotient ==
    ASSUME NEW n \in Int
    PROVE  /\ n \div Page \in Int /\ n % Page \in 0 .. Page - 1
           /\ n = (n \div Page) * Page + (n % Page)
<1>1. ASSUME NEW p \in Int, p >= 1
      PROVE  n % p \in 0 .. p - 1
    BY <1>1, SMTT(20)
<1>2. ASSUME NEW p \in Int, p >= 1
      PROVE  n \div p \in Int
    BY <1>2, SMTT(20)
<1>3. ASSUME NEW p \in Int, p > 0, NEW d \in Int, d = n \div p, NEW r \in Int, r = n % p
      PROVE  n = p * d + r
    BY <1>3, SMTT(20)
<1> DEFINE d == n \div Page
           r == n % Page
<1>4. d \in Int /\ r \in 0 .. Page - 1
    BY PageFacts, <1>1, <1>2, Zenon
<1>5. r \in Int /\ Page > 0
    BY <1>4, PageFacts
<1>6. n = Page * d + r
    BY <1>3, <1>4, <1>5, PageFacts, Zenon
<1> HIDE DEF d, r
<1>7. n = d * Page + r
    BY <1>4, <1>5, <1>6, PageFacts
<1> QED
    BY <1>4, <1>7, Zenon DEF d, r

\* A page and a place in it are the quotient and the remainder of an address.
LEMMA QuotientIs ==
    ASSUME NEW q \in Int, NEW r \in 0 .. Page - 1
    PROVE  (q * Page + r) \div Page = q /\ (q * Page + r) % Page = r
<1> DEFINE n == q * Page + r
<1>1. n \in Int /\ r \in Int
    BY PageFacts, Times
<1>2. n \div Page \in Int /\ n % Page \in 0 .. Page - 1 /\ n = (n \div Page) * Page + (n % Page)
    BY <1>1, Quotient
<1> DEFINE d == n \div Page
<1>3. ~(d < q) /\ ~(q < d)
  <2> HIDE DEF d
  <2>1. d \in Int
    BY <1>2 DEF d
  <2>2. d < q => d * Page + Page <= q * Page
    BY <2>1, Times
  <2>3. q < d => q * Page + Page <= d * Page
    BY <2>1, Times
  <2>4. d * Page \in Int /\ q * Page \in Int
    BY <2>1, Times
  <2> QED
    BY <1>1, <1>2, <2>2, <2>3, <2>4, PageFacts DEF d
<1>4. d = q
    BY <1>2, <1>3
<1>5. q * Page \in Int
    BY Times
<1> QED
    BY <1>1, <1>2, <1>4, <1>5, PageFacts

\* RoundSize is the next multiple of a page.
LEMMA Rounded ==
    ASSUME NEW n \in Int
    PROVE  /\ Pages(n) \in Int /\ RoundSize(n) = Pages(n) * Page /\ RoundSize(n) \in Int
           /\ n <= RoundSize(n) /\ RoundSize(n) < n + Page
<1> DEFINE q == n \div Page
           r == n % Page
           k == IF r = 0 THEN q ELSE q + 1
<1> HIDE DEF q, r
<1>1. q \in Int /\ r \in 0 .. Page - 1 /\ n = q * Page + r
    BY Quotient, Zenon DEF q, r
<1>2. q * Page \in Int /\ (q + 1) * Page = q * Page + Page /\ r \in Int /\ k \in Int /\ k * Page \in Int
    BY <1>1, Times, PageFacts
<1>3. RoundSize(n) = k * Page
    BY <1>1, <1>2 DEF RoundSize, q, r
<1>4. Pages(n) = k
  <2>1. 0 \in 0 .. Page - 1 /\ k * Page + 0 = k * Page
    BY <1>2, PageFacts
  <2> QED
    BY <1>2, <1>3, <2>1, QuotientIs DEF Pages
<1> QED
    BY <1>1, <1>2, <1>3, <1>4, PageFacts

\* RoundSize is the least multiple of the page size that is no smaller.
LEMMA RoundedUp ==
    ASSUME NEW n \in Int, NEW q \in Int
    PROVE  /\ n <= q * Page => RoundSize(n) <= q * Page /\ Pages(n) <= q
           /\ n >= 1 => Pages(n) >= 1
           /\ n <= 0 => RoundSize(n) <= 0
<1>1. Pages(n) \in Int /\ RoundSize(n) = Pages(n) * Page /\ RoundSize(n) \in Int
      /\ n <= RoundSize(n) /\ RoundSize(n) < n + Page
    BY Rounded
<1> DEFINE k == Pages(n)
<1> HIDE DEF k
<1>2. k \in Int /\ k * Page \in Int /\ RoundSize(n) = k * Page
    BY <1>1 DEF k
<1>3. ASSUME NEW c \in Int
      PROVE  c * Page \in Int /\ (c < k => c * Page + Page <= k * Page)
             /\ (k <= c => k * Page <= c * Page)
    BY <1>2, Times
<1>4. n <= q * Page => k <= q
    BY <1>1, <1>2, <1>3, PageFacts
<1>5. 0 * Page = 0
    BY PageFacts
<1>6. n >= 1 => k >= 1
    BY <1>1, <1>2, <1>3, <1>5, PageFacts
<1>7. n <= 0 => RoundSize(n) <= 0
    BY <1>1, <1>2, <1>3, <1>5, PageFacts
<1> QED
    BY <1>2, <1>3, <1>4, <1>6, <1>7 DEF k

\* RoundSize is monotonic.
LEMMA RoundedGrows ==
    ASSUME NEW n \in Int, NEW l \in Int, n <= l
    PROVE  RoundSize(n) <= RoundSize(l)
<1>1. Pages(l) \in Int /\ RoundSize(l) = Pages(l) * Page /\ RoundSize(l) \in Int /\ l <= RoundSize(l)
    BY Rounded
<1>2. n <= RoundSize(l)
    BY <1>1
<1> QED
    BY <1>1, <1>2, RoundedUp

-----------------------------------------------------------------------------
Members == {"live", "mapped", "normed", "isNew", "rStart", "rEnd", "data", "path", "size",
            "offset", "mode", "fd", "write", "shared", "creat", "hint", "skewed"}

\* The system: files have lengths, an address has one page.
SystemOK(s) ==
    /\ DOMAIN s = {"len", "pages", "open", "faults", "lost", "cut"}
    /\ \A p \in Paths : s.len[p] \in Int /\ s.len[p] >= -1
    /\ DOMAIN s.len = Paths
    /\ IsFiniteSet(s.pages) /\ IsFiniteSet(s.open)
    /\ \E b \in Nat : \A x \in s.pages : x[1] \in 1 .. b
    /\ \A x, y \in s.pages : x[1] = y[1] => x = y

\* A set of addresses has a last one.
LEMMA Highest ==
    ASSUME NEW S, NEW b \in Nat, \A x \in S : x \in 1 .. b
    PROVE  Max({0} \union S) \in Nat /\ \A x \in S : x <= Max({0} \union S)
<1> DEFINE N == {c \in Nat : \A x \in S : x <= c}
<1>1. N \subseteq Nat /\ b \in N
    OBVIOUS
<1>2. PICK c \in N : \A d \in N : c <= d
    BY <1>1, LeastNumber, Zenon
<1>3. c \in {0} \union S
  <2> SUFFICES ASSUME c \notin S, c # 0 PROVE FALSE
    OBVIOUS
  <2>1. c - 1 \in Nat /\ \A x \in S : x <= c - 1
    BY <1>2
  <2>2. c - 1 \in N
    BY <2>1
  <2> QED
    BY <1>2, <2>2
<1>4. \A y \in {0} \union S : c >= y
    BY <1>2
<1> DEFINE h == Max({0} \union S)
<1>5. h \in {0} \union S /\ \A y \in {0} \union S : h >= y
    BY <1>3, <1>4, Zenon DEF Max
<1> HIDE DEF h
<1> QED
    BY <1>5 DEF h

\* A set of numbers has a first one.
LEMMA LowestIs ==
    ASSUME NEW S, S \subseteq Nat, S # {}
    PROVE  Min(S) \in S /\ \A x \in S : Min(S) <= x
<1>1. \E n \in S : \A x \in S : n <= x
    BY LeastNumber
<1> QED
    BY <1>1, Zenon DEF Min

\* mmap puts a region where no page is mapped, at the hint or elsewhere.
LEMMA PlaceFits ==
    ASSUME NEW s, SystemOK(s), NEW hint \in Int, NEW n \in Nat
    PROVE  Place(s, hint, n) \in Nat \ {0} /\ Fits(s, Place(s, hint, n), n)
<1> DEFINE high == Max({0} \union Taken(s))
           S    == {a \in 1 .. 1 + Cardinality(s.pages) + n : Fits(s, a, n)} \union {2 + high}
<1>1. high \in Nat /\ \A x \in Taken(s) : x <= high
  <2>1. PICK b \in Nat : \A x \in s.pages : x[1] \in 1 .. b
    BY DEF SystemOK
  <2>2. \A x \in Taken(s) : x \in 1 .. b
    BY <2>1 DEF Taken
  <2> QED
    BY <2>2, Highest, Zenon
<1>2. Fits(s, 2 + high, n)
  <2> HIDE DEF high
  <2>1. \A x \in 2 + high .. 2 + high + n - 1 : x \notin Taken(s)
    BY <1>1
  <2> QED
    BY <1>1, <2>1 DEF Fits
<1>3. \A a \in S : Fits(s, a, n)
    BY <1>2
<1>4. S \subseteq Nat /\ S # {}
  <2>1. Cardinality(s.pages) \in Nat
    BY FS_CardinalityType DEF SystemOK
  <2> HIDE DEF high
  <2> QED
    BY <1>1, <2>1
<1>5. Min(S) \in S
    BY <1>4, LowestIs, Zenon
<1>6. CASE hint % Page = 0 /\ Fits(s, hint \div Page, n)
  <2>1. hint \div Page \in Int
    BY Quotient
  <2>2. Place(s, hint, n) = hint \div Page
    BY <1>6, Zenon DEF Place
  <2>3. hint \div Page > 0
    BY <1>6, Zenon DEF Fits
  <2> DEFINE q == hint \div Page
  <2> HIDE DEF q
  <2>4. q \in Int /\ q > 0 /\ Place(s, hint, n) = q /\ Fits(s, q, n)
    BY <1>6, <2>1, <2>2, <2>3, Zenon DEF q
  <2> QED
    BY <2>4
<1>7. CASE ~(hint % Page = 0 /\ Fits(s, hint \div Page, n))
  <2>1. Place(s, hint, n) = Min(S)
    BY <1>7, Zenon DEF Place
  <2>2. Min(S) \in Nat /\ Fits(s, Min(S), n)
    BY <1>3, <1>4, <1>5, Zenon
  <2>3. Min(S) > 0
    BY <2>2, Zenon DEF Fits
  <2> DEFINE q == Min(S)
  <2> HIDE DEF q, S
  <2>4. q \in Nat /\ q > 0 /\ Place(s, hint, n) = q /\ Fits(s, q, n)
    BY <2>1, <2>2, <2>3, Zenon DEF q
  <2> QED
    BY <2>4
<1> QED
    BY <1>6, <1>7, Zenon

\* What open returns tells an open file from one that is not.
LEMMA DescriptorIs ==
    ASSUME NEW s, SystemOK(s)
    PROVE  Descriptor(s) # NoFd
<1> DEFINE c == Cardinality(s.open)
           F == {x.fd : x \in s.open}
           S == (3 .. 3 + c) \ F
<1>1. c \in Nat /\ IsFiniteSet(s.open)
    BY FS_CardinalityType DEF SystemOK
<1>2. IsFiniteSet(F) /\ Cardinality(F) <= c
  <2>1. [x \in s.open |-> x.fd] \in Surjection(s.open, F)
    BY DEF Surjection
  <2> QED
    BY <1>1, <2>1, FS_Surjection, Zenon
<1>3. IsFiniteSet(3 .. 3 + c) /\ Cardinality(3 .. 3 + c) = c + 1
  <2> HIDE DEF c
  <2>1. 3 \in Int /\ 3 + c \in Int /\ ~(3 > 3 + c) /\ (3 + c) - 3 + 1 = c + 1
    BY <1>1
  <2> QED
    BY <2>1, FS_Interval
<1>4. S # {}
  <2> SUFFICES ASSUME 3 .. 3 + c \subseteq F PROVE FALSE
    OBVIOUS
  <2>1. Cardinality(3 .. 3 + c) <= Cardinality(F)
    BY <1>2, FS_Subset, Zenon
  <2>2. Cardinality(F) \in Nat
    BY <1>2, FS_CardinalityType, Zenon
  <2> QED
    BY <1>1, <1>2, <1>3, <2>1, <2>2
<1>5. S \subseteq Nat
    BY <1>1
<1>6. Min(S) \in S
    BY <1>4, <1>5, LowestIs, Zenon
<1>7. \A x \in S : x # -1
    BY <1>1
<1> QED
    BY <1>6, <1>7, Zenon DEF Descriptor, NoFd

-----------------------------------------------------------------------------
\* The window of m lies in the file, in whole pages.
Shown(m, s) == m.path \in s.cut \/ m.offset + m.size <= RoundSize(s.len[m.path])

\* k pages from address a show the file of m from its page f on.
Backed(m, s, a, k, f) ==
    /\ m.offset + a * Page = m.data + f * Page
    /\ Region(a, k, m.path, f) \subseteq s.pages
    /\ m.path \in s.cut \/ (f + k) * Page <= RoundSize(s.len[m.path])

\* m has the region of k pages from address a.
RegionIs(m, s, a, k) ==
    /\ m.rStart = a * Page /\ m.rEnd = (a + k) * Page - 1
    /\ a .. a + k - 1 \subseteq Taken(s)
    /\ m.rStart <= m.data /\ End(m) <= m.rEnd
    /\ s.lost \/ Pages(m.size) = k
    /\ IF m.skewed THEN m.rEnd - End(m) < Page ELSE \E f \in Nat : Backed(m, s, a, k, f)

MemberTypes(m) ==
    /\ DOMAIN m = Members
    /\ m.path \in Paths \union {NoPath}
    /\ m.offset \in Int /\ m.size \in Int /\ m.hint \in Int /\ m.data \in Int
    /\ m.mapped \in BOOLEAN /\ m.normed \in BOOLEAN

\* What Normalize leaves for Map, and OpenFile for what follows.
NormedOK(m, s) ==
    /\ m.size >= 1 /\ m.offset >= 0
    /\ IF m.fd = NoFd THEN m.offset % Page = 0 /\ (m.isNew \/ (m.path \in Paths /\ Shown(m, s)))
       ELSE m.offset % Page # 0 \/ Shown(m, s)

OpenOK(m, s) == m.path \in Paths /\ (m.path \in s.cut \/ s.len[m.path] >= 1)

MappedOK(m, s) == m.normed /\ m.fd # NoFd /\ \E a, k \in Nat \ {0} : RegionIs(m, s, a, k)

ObjectOK(m, s) ==
    /\ MemberTypes(m)
    /\ m.normed => NormedOK(m, s)
    /\ m.fd # NoFd => OpenOK(m, s)
    /\ m.mapped => MappedOK(m, s)

\* From s to t nothing goes but the pages R and the contents of the files cut.
Frame(s, t, R) ==
    /\ \A x \in s.pages : x[1] \notin R => x \in t.pages
    /\ s.lost => t.lost
    /\ s.cut \subseteq t.cut
    /\ \A p \in Paths : p \in t.cut \/ t.len[p] >= s.len[p] \/ s.len[p] <= 0

\* A method that makes n of object m and t of system s.
Moves(m, s, n, t) ==
    /\ SystemOK(t) /\ ObjectOK(n, t)
    /\ Frame(s, t, RegionPages(m))
    /\ RegionPages(n) \intersect (Taken(s) \ RegionPages(m)) = {}
    /\ t.lost \/ Taken(t) \subseteq (Taken(s) \ RegionPages(m)) \union RegionPages(n)

-----------------------------------------------------------------------------
\* What Unmap hands to munmap are whole pages, from rStart_ on for size_.
LEMMA UnmapPagesIs ==
    ASSUME NEW m, NEW a \in Int, m.rStart = a * Page, m.size \in Int
    PROVE  UnmapPages(m) = a .. a + Pages(m.size) - 1
<1>1. Pages(m.size) \in Int /\ RoundSize(m.size) = Pages(m.size) * Page
    BY Rounded
<1>2. m.rStart + RoundSize(m.size) = (a + Pages(m.size)) * Page
    BY <1>1, Times
<1>3. 0 \in 0 .. Page - 1 /\ \A c \in Int : c * Page + 0 = c * Page
    BY PageFacts, Times
<1>4. m.rStart \div Page = a /\ (m.rStart + RoundSize(m.size)) \div Page = a + Pages(m.size)
  <2>1. a + Pages(m.size) \in Int
    BY <1>1
  <2>2. \A c \in Int : (c * Page) \div Page = c
    BY <1>3, QuotientIs
  <2> QED
    BY <1>2, <2>1, <2>2
<1>5. ASSUME NEW u, NEW v, u = a, v = a + Pages(m.size)
      PROVE  u .. v - 1 = a .. a + Pages(m.size) - 1
    BY <1>1, <1>5
<1> QED
    BY <1>4, <1>5, Zenon DEF UnmapPages

\* The pages from rStart_ to rEnd_ are the pages of the region.
LEMMA RegionPagesIs ==
    ASSUME NEW m, NEW s, NEW a \in Nat \ {0}, NEW k \in Nat \ {0}, RegionIs(m, s, a, k), m.mapped
    PROVE  RegionPages(m) = a .. a + k - 1
<1>1. m.rStart = a * Page + 0 /\ m.rEnd = (a + k - 1) * Page + (Page - 1)
  <2>1. a * Page \in Int /\ (a + k - 1) * Page \in Int /\ ((a + k - 1) + 1) * Page = (a + k - 1) * Page + Page
    BY a \in Int, a + k - 1 \in Int, Times, Zenon
  <2>2. (a + k - 1) + 1 = a + k
    OBVIOUS
  <2> QED
    BY <2>1, <2>2, PageFacts DEF RegionIs
<1>2. 0 \in 0 .. Page - 1 /\ Page - 1 \in 0 .. Page - 1 /\ a \in Int /\ a + k - 1 \in Int
    BY PageFacts
<1>3. m.rStart \div Page = a /\ m.rEnd \div Page = a + k - 1
    BY <1>1, <1>2, QuotientIs, Zenon
<1> QED
    BY <1>3 DEF RegionPages

\* The pages of a region are mapped.
LEMMA OneRegion ==
    ASSUME NEW m, NEW s, ObjectOK(m, s), m.mapped
    PROVE  RegionPages(m) \subseteq Taken(s)
<1>1. PICK a, k \in Nat \ {0} : RegionIs(m, s, a, k)
    BY DEF ObjectOK, MappedOK
<1> QED
    BY <1>1, RegionPagesIs, Zenon DEF RegionIs

\* Pages outside R stay mapped, and what lay in a file still does unless it was
\* cut.
LEMMA Kept ==
    ASSUME NEW s, NEW t, SystemOK(s), SystemOK(t), NEW R, Frame(s, t, R)
    PROVE  /\ Taken(s) \ R \subseteq Taken(t)
           /\ \A p \in Paths, n \in Int :
                  n >= 1 => \/ p \in t.cut
                            \/ n <= RoundSize(s.len[p]) => n <= RoundSize(t.len[p])
<1>1. Taken(s) \ R \subseteq Taken(t)
    BY DEF Frame, Taken
<1>2. ASSUME NEW p \in Paths, NEW n \in Int, n >= 1, p \notin t.cut, n <= RoundSize(s.len[p])
      PROVE  n <= RoundSize(t.len[p])
  <2>1. s.len[p] \in Int /\ t.len[p] \in Int /\ (t.len[p] >= s.len[p] \/ s.len[p] <= 0)
    BY <1>2 DEF SystemOK, Frame
  <2>2. RoundSize(s.len[p]) \in Int /\ RoundSize(t.len[p]) \in Int
    BY <2>1, Rounded
  <2>3. s.len[p] <= 0 => RoundSize(s.len[p]) <= 0
    BY <2>1, RoundedUp
  <2>4. t.len[p] >= s.len[p] => RoundSize(s.len[p]) <= RoundSize(t.len[p])
    BY <2>1, RoundedGrows
  <2> QED
    BY <1>2, <2>1, <2>2, <2>3, <2>4
<1> QED
    BY <1>1, <1>2

\* Other objects do not notice.
LEMMA Others ==
    ASSUME NEW s, NEW t, SystemOK(s), SystemOK(t), NEW R, Frame(s, t, R),
           NEW z, ObjectOK(z, s), RegionPages(z) \intersect R = {}
    PROVE  ObjectOK(z, t)
<1>1. ASSUME NEW n, n.path = z.path, n.offset \in Int, n.size \in Int, n.size >= 1, n.offset >= 0,
             Shown(n, s), n.path \in Paths
      PROVE  Shown(n, t)
  <2>1. n.offset + n.size \in Int /\ n.offset + n.size >= 1
    BY <1>1
  <2> QED
    BY <1>1, <2>1, Kept DEF Shown, Frame
<1>2. z.normed => NormedOK(z, t)
    BY <1>1 DEF ObjectOK, NormedOK, MemberTypes, OpenOK
<1>3. z.fd # NoFd => OpenOK(z, t)
  <2>1. ASSUME z.path \in Paths
        PROVE  s.len[z.path] \in Int /\ t.len[z.path] \in Int
    BY <2>1 DEF SystemOK
  <2> QED
    BY <2>1 DEF ObjectOK, OpenOK, Frame
<1>4. z.mapped => MappedOK(z, t)
  <2> SUFFICES ASSUME z.mapped PROVE MappedOK(z, t)
    OBVIOUS
  <2>1. PICK a, k \in Nat \ {0} : RegionIs(z, s, a, k)
    BY DEF ObjectOK, MappedOK
  <2>2. RegionPages(z) = a .. a + k - 1
    BY <2>1, RegionPagesIs
  <2>3. a .. a + k - 1 \subseteq Taken(t)
    BY <2>1, <2>2, Kept DEF RegionIs
  <2>4. ASSUME NEW f \in Nat, Backed(z, s, a, k, f)
        PROVE  Backed(z, t, a, k, f)
    <3>1. Region(a, k, z.path, f) \subseteq t.pages
      <4> SUFFICES ASSUME NEW i \in 0 .. k - 1 PROVE <<a + i, z.path, f + i>> \in t.pages
        BY DEF Region
      <4>1. <<a + i, z.path, f + i>> \in s.pages
        BY <2>4 DEF Backed, Region
      <4>2. a + i \in RegionPages(z)
        BY <2>2
      <4> QED
        BY <4>1, <4>2 DEF Frame
    <3>2. (f + k) * Page \in Int /\ (f + k) * Page >= 1 /\ z.path \in Paths
      <4>1. 0 < f + k /\ f + k \in Int
        OBVIOUS
      <4>2. 0 * Page = 0 /\ 0 * Page + Page <= (f + k) * Page /\ (f + k) * Page \in Int
        BY <4>1, Times, PageFacts
      <4>3. z.path \in Paths
        BY DEF ObjectOK, MappedOK, OpenOK
      <4> QED
        BY <4>2, <4>3, PageFacts
    <3>3. z.path \in t.cut \/ (f + k) * Page <= RoundSize(t.len[z.path])
      BY <2>4, <3>2, Kept DEF Backed, Frame
    <3> QED
      BY <2>4, <3>1, <3>3 DEF Backed
  <2>5. RegionIs(z, t, a, k)
    BY <2>1, <2>3, <2>4 DEF RegionIs, Frame
  <2> QED
    BY <2>5 DEF ObjectOK, MappedOK
<1> QED
    BY <1>2, <1>3, <1>4 DEF ObjectOK

\* An object that is not mapped has no pages.
LEMMA NoRegion == ASSUME NEW m, ~m.mapped PROVE RegionPages(m) = {}
    BY DEF RegionPages

\* The pages of an object are mapped.
LEMMA RegionTaken ==
    ASSUME NEW m, NEW s, ObjectOK(m, s)
    PROVE  RegionPages(m) \subseteq Taken(s)
    BY OneRegion, NoRegion

\* All objects and the system.
FilesOK(g, s) ==
    /\ SystemOK(s) /\ DOMAIN g = Objects
    /\ \A x \in Objects : ObjectOK(g[x], s)
    /\ \A x, y \in Objects : x # y => RegionPages(g[x]) \intersect RegionPages(g[y]) = {}
    /\ s.lost \/ \A a \in Taken(s) : \E x \in Objects : a \in RegionPages(g[x])

\* A method of one object leaves the others and the accounts of pages as they
\* should be.
LEMMA MovesFiles ==
    ASSUME NEW g, NEW s, FilesOK(g, s), NEW x \in Objects, NEW n, NEW t, Moves(g[x], s, n, t)
    PROVE  FilesOK([g EXCEPT ![x] = n], t)
<1> DEFINE h == [g EXCEPT ![x] = n]
           R == RegionPages(g[x])
<1>1. DOMAIN h = Objects /\ h[x] = n /\ \A y \in Objects : y # x => h[y] = g[y]
    BY DEF FilesOK
<1> HIDE DEF h
<1>2. SystemOK(s) /\ SystemOK(t) /\ ObjectOK(n, t) /\ Frame(s, t, R)
    BY DEF FilesOK, Moves
<1>3. \A y \in Objects : /\ ObjectOK(g[y], s) /\ RegionPages(g[y]) \subseteq Taken(s)
                         /\ y # x => RegionPages(g[y]) \intersect R = {}
    BY RegionTaken DEF FilesOK
<1>4. \A y \in Objects : ObjectOK(h[y], t)
  <2> SUFFICES ASSUME NEW y \in Objects, y # x PROVE ObjectOK(g[y], t)
    BY <1>1, <1>2
  <2> HIDE DEF R
  <2> QED
    BY <1>2, <1>3, Others, Zenon
<1>5. \A y \in Objects : y # x => RegionPages(n) \intersect RegionPages(g[y]) = {}
    BY <1>3 DEF Moves
<1>6. ASSUME NEW y \in Objects, NEW z \in Objects, y # z
      PROVE  RegionPages(h[y]) \intersect RegionPages(h[z]) = {}
  <2>1. RegionPages(g[y]) \intersect RegionPages(g[z]) = {}
    BY <1>6 DEF FilesOK
  <2> QED
    BY <1>1, <1>5, <1>6, <2>1
<1>7. ASSUME ~t.lost, NEW a \in Taken(t)
      PROVE  \E y \in Objects : a \in RegionPages(h[y])
  <2>1. CASE a \in RegionPages(n)
    BY <1>1, <2>1
  <2>2. CASE a \in Taken(s) \ R
    <3>1. ~s.lost
      BY <1>2, <1>7 DEF Frame
    <3>2. PICK y \in Objects : a \in RegionPages(g[y])
      BY <2>2, <3>1 DEF FilesOK
    <3>3. y # x
      BY <2>2, <3>2
    <3> QED
      BY <1>1, <3>2, <3>3
  <2> QED
    BY <1>7, <2>1, <2>2 DEF Moves
<1> QED
    BY <1>1, <1>2, <1>4, <1>6, <1>7 DEF FilesOK, h

\* An object without a mapping, or whose mapping is written off, is replaced.
LEMMA Forget ==
    ASSUME NEW g, NEW s, FilesOK(g, s), NEW x \in Objects, s.lost \/ ~g[x].mapped,
           NEW n, ObjectOK(n, s), ~n.mapped
    PROVE  FilesOK([g EXCEPT ![x] = n], s)
<1> DEFINE h == [g EXCEPT ![x] = n]
<1>1. DOMAIN h = Objects /\ h[x] = n /\ \A y \in Objects : y # x => h[y] = g[y]
    BY DEF FilesOK
<1> HIDE DEF h
<1>2. RegionPages(n) = {} /\ (s.lost \/ RegionPages(g[x]) = {})
    BY NoRegion
<1>3. \A y \in Objects : ObjectOK(h[y], s)
    BY <1>1 DEF FilesOK
<1>4. ASSUME NEW y \in Objects, NEW z \in Objects, y # z
      PROVE  RegionPages(h[y]) \intersect RegionPages(h[z]) = {}
  <2>1. RegionPages(g[y]) \intersect RegionPages(g[z]) = {}
    BY <1>4 DEF FilesOK
  <2> QED
    BY <1>1, <1>2, <1>4, <2>1
<1>5. ASSUME ~s.lost, NEW a \in Taken(s)
      PROVE  \E y \in Objects : a \in RegionPages(h[y])
  <2>1. PICK y \in Objects : a \in RegionPages(g[y])
    BY <1>5 DEF FilesOK
  <2>2. y # x
    BY <1>2, <1>5, <2>1
  <2> QED
    BY <1>1, <2>1, <2>2
<1> QED
    BY <1>1, <1>3, <1>4, <1>5 DEF FilesOK, h

\* The target of a move has nothing mapped.
LEMMA HandedOn ==
    ASSUME NEW g, NEW s, FilesOK(g, s), NEW x \in Objects, NEW y \in Objects, x # y, ~g[y].mapped,
           NEW n, ObjectOK(n, s), ~n.mapped
    PROVE  FilesOK([g EXCEPT ![y] = g[x], ![x] = n], s)
<1> DEFINE h == [g EXCEPT ![y] = g[x], ![x] = n]
<1>1. /\ DOMAIN h = Objects /\ h[x] = n /\ h[y] = g[x]
      /\ \A z \in Objects : z # x /\ z # y => h[z] = g[z]
    BY DEF FilesOK
<1> HIDE DEF h
<1>2. RegionPages(n) = {} /\ RegionPages(g[y]) = {}
    BY NoRegion
<1>3. \A z \in Objects : ObjectOK(h[z], s)
    BY <1>1 DEF FilesOK
<1>4. ASSUME NEW v \in Objects, NEW w \in Objects, v # w
      PROVE  RegionPages(h[v]) \intersect RegionPages(h[w]) = {}
  <2>1. \A z \in Objects : z # x => RegionPages(g[x]) \intersect RegionPages(g[z]) = {}
    BY DEF FilesOK
  <2>2. RegionPages(g[v]) \intersect RegionPages(g[w]) = {}
    BY <1>4 DEF FilesOK
  <2> QED
    BY <1>1, <1>2, <1>4, <2>1, <2>2
<1>5. ASSUME ~s.lost, NEW a \in Taken(s)
      PROVE  \E z \in Objects : a \in RegionPages(h[z])
  <2>1. PICK z \in Objects : a \in RegionPages(g[z])
    BY <1>5 DEF FilesOK
  <2>2. z # y
    BY <1>2, <2>1
  <2> QED
    BY <1>1, <2>1, <2>2
<1> QED
    BY <1>1, <1>3, <1>4, <1>5 DEF FilesOK, h

-----------------------------------------------------------------------------
\* Methods follow each other.
LEMMA MovesThen ==
    ASSUME NEW m, NEW s, SystemOK(s), NEW n, NEW t, Moves(m, s, n, t),
           NEW q, NEW u, Moves(n, t, q, u)
    PROVE  Moves(m, s, q, u)
<1>1. SystemOK(t) /\ SystemOK(u) /\ ObjectOK(q, u)
    BY DEF Moves
<1>2. \A p \in Paths : s.len[p] \in Int /\ t.len[p] \in Int /\ u.len[p] \in Int
                       /\ s.len[p] >= -1 /\ t.len[p] >= -1 /\ u.len[p] >= -1
    BY <1>1 DEF SystemOK
<1>3. Taken(s) \ RegionPages(m) \subseteq Taken(t) \ RegionPages(n)
    BY <1>1, Kept DEF Moves
<1>4. Frame(s, u, RegionPages(m))
  <2>1. ASSUME NEW x \in s.pages, x[1] \notin RegionPages(m)
        PROVE  x \in u.pages
    <3>1. x \in t.pages /\ x[1] \in Taken(s) \ RegionPages(m)
      BY <2>1 DEF Moves, Frame, Taken
    <3>2. x[1] \notin RegionPages(n)
      BY <1>3, <3>1
    <3> QED
      BY <3>1, <3>2 DEF Moves, Frame
  <2>2. s.cut \subseteq u.cut /\ (s.lost => u.lost)
    BY DEF Moves, Frame
  <2>3. ASSUME NEW p \in Paths
        PROVE  p \in u.cut \/ u.len[p] >= s.len[p] \/ s.len[p] <= 0
    <3>1. p \in u.cut \/ u.len[p] >= t.len[p] \/ t.len[p] <= 0
      BY DEF Moves, Frame
    <3>2. p \in u.cut \/ t.len[p] >= s.len[p] \/ s.len[p] <= 0
      BY DEF Moves, Frame
    <3> QED
      BY <1>2, <3>1, <3>2
  <2> QED
    BY <2>1, <2>2, <2>3 DEF Frame
<1>5. RegionPages(q) \intersect (Taken(s) \ RegionPages(m)) = {}
    BY <1>3 DEF Moves
<1>6. u.lost \/ Taken(u) \subseteq (Taken(s) \ RegionPages(m)) \union RegionPages(q)
    BY DEF Moves, Frame
<1> QED
    BY <1>1, <1>4, <1>5, <1>6 DEF Moves

\* A step that no file and no mapping notices.
Quiet(s, t) ==
    /\ SystemOK(t) /\ t.len = s.len /\ t.pages = s.pages /\ t.cut = s.cut
    /\ s.lost => t.lost

\* A call that fails before it changes anything is a step of the object.
LEMMA QuietMoves ==
    ASSUME NEW m, NEW s, SystemOK(s), ObjectOK(m, s), NEW t, Quiet(s, t)
    PROVE  Moves(m, s, m, t)
<1>1. SystemOK(t) /\ Frame(s, t, {}) /\ Frame(s, t, RegionPages(m)) /\ Taken(t) = Taken(s)
  <2>1. \A p \in Paths : t.len[p] >= s.len[p]
    BY DEF Quiet, SystemOK
  <2> QED
    BY <2>1 DEF Quiet, Frame, Taken
<1>2. ObjectOK(m, t)
    BY <1>1, Others
<1>3. \A p \in Paths : t.len[p] >= s.len[p]
    BY DEF Quiet, SystemOK
<1> QED
    BY <1>1, <1>2, <1>3 DEF Moves

\* An object without a mapping that sets members only.
LEMMA QuietSets ==
    ASSUME NEW m, NEW s, SystemOK(s), ObjectOK(m, s), ~m.mapped,
           NEW n, ObjectOK(n, s), ~n.mapped, NEW t, Quiet(s, t)
    PROVE  Moves(m, s, n, t)
<1>1. SystemOK(t) /\ Frame(s, t, {}) /\ Taken(t) = Taken(s) /\ \A p \in Paths : t.len[p] >= s.len[p]
  <2>1. \A p \in Paths : t.len[p] >= s.len[p]
    BY DEF Quiet, SystemOK
  <2> QED
    BY <2>1 DEF Quiet, Frame, Taken
<1>2. ObjectOK(n, t)
    BY <1>1, Others
<1>3. RegionPages(m) = {} /\ RegionPages(n) = {}
    BY NoRegion
<1> QED
    BY <1>1, <1>2, <1>3 DEF Moves

-----------------------------------------------------------------------------
\* A failing system call changes neither the object nor files and pages.
LEMMA FaultIs ==
    ASSUME NEW m, NEW s, SystemOK(s), NEW o \in Fault(m, s)
    PROVE  o.m = m /\ o.res = "err" /\ Quiet(s, o.s)
<1> DEFINE t == [s EXCEPT !.faults = @ - 1]
<1>1. /\ DOMAIN t = DOMAIN s /\ t.len = s.len /\ t.pages = s.pages /\ t.cut = s.cut
      /\ t.lost = s.lost /\ t.open = s.open
    BY DEF SystemOK
<1>2. o = [res |-> "err", m |-> m, s |-> t]
    BY DEF Fault, Err
<1> HIDE DEF t
<1>3. SystemOK(t)
    BY <1>1 DEF SystemOK
<1> QED
    BY <1>1, <1>2, <1>3 DEF Quiet

\* The outcome of a call that is over.
LEMMA OkIs ==
    ASSUME NEW m, NEW s, NEW o
    PROVE  /\ o \in Ok(m, s) => o.m = m /\ o.s = s /\ o.res = "ok"
           /\ o \in Err(m, s) => o.m = m /\ o.s = s /\ o.res = "err"
    BY DEF Ok, Err

\* Doing nothing goes unnoticed.
LEMMA SystemQuiet == ASSUME NEW s, SystemOK(s) PROVE Quiet(s, s)
    BY DEF Quiet

\* The smaller of two numbers.
LEMMA Least2 ==
    ASSUME NEW a \in Int, NEW b \in Int
    PROVE  Min({a, b}) \in {a, b} /\ Min({a, b}) <= a /\ Min({a, b}) <= b
<1>1. \E x \in {a, b} : \A y \in {a, b} : x <= y
    OBVIOUS
<1>2. Min({a, b}) \in {a, b} /\ \A y \in {a, b} : Min({a, b}) <= y
    BY <1>1, Zenon DEF Min
<1> QED
    BY <1>2, Zenon

\* ValidMappedSize yields no more than was asked for and than the last page
\* holds.
LEMMA ValidIs ==
    ASSUME NEW n \in Int, n >= 0, NEW len \in Int, NEW offset \in Int
    PROVE  LET v == ValidMappedSize(n, len, offset)
           IN  v \in Int /\ v >= 0 /\ v <= n /\ (v # 0 => offset + v <= RoundSize(len))
<1> DEFINE max == RoundSize(len) - offset
<1>1. RoundSize(len) \in Int /\ max \in Int
    BY Rounded
<1>2. Min({n, max}) \in {n, max} /\ Min({n, max}) <= n /\ Min({n, max}) <= max
    BY <1>1, Least2, Zenon
<1>3. ValidMappedSize(n, len, offset) = IF max <= 0 THEN 0 ELSE Min({n, max})
    BY DEF ValidMappedSize
<1> DEFINE w == Min({n, max})
<1>4. w \in {n, max} /\ w <= n /\ w <= max
    BY <1>2, Zenon
<1>5. ValidMappedSize(n, len, offset) = IF max <= 0 THEN 0 ELSE w
    BY <1>3, Zenon
<1> HIDE DEF w
<1> QED
    BY <1>1, <1>4, <1>5

\* n is m but for size_ and isNewFile_.
Sized(m, n) ==
    /\ DOMAIN n = Members /\ n.path = m.path /\ n.offset = m.offset /\ n.hint = m.hint
    /\ n.data = m.data /\ n.mapped = m.mapped /\ n.normed = m.normed /\ n.fd = m.fd

\* NormalizeSize leaves a size that the file can show, or an object without a
\* file.
LEMMA NormalizeSizeIs ==
    ASSUME NEW m, NEW s, SystemOK(s), ObjectOK(m, s), NEW o \in NormalizeSize(m, s)
    PROVE  /\ Quiet(s, o.s) /\ Sized(m, o.m) /\ o.m.size \in Int /\ o.m.path = m.path
           /\ o.res = "ok" =>
                  /\ o.m.size >= 1
                  /\ o.m.isNew \/ (m.path \in Paths /\ Shown(o.m, s))
                  /\ m.fd # NoFd => Shown(o.m, s)
<1>1. /\ DOMAIN m = Members /\ m.size \in Int /\ m.path \in Paths \union {NoPath}
      /\ m.offset \in Int /\ (m.fd # NoFd => OpenOK(m, s))
    BY DEF ObjectOK, MemberTypes
<1>2. Quiet(s, s) /\ Sized(m, m)
    BY <1>1, SystemQuiet DEF Sized
<1>3. ASSUME NEW n \in Int, NEW q, q = [m EXCEPT !.size = n]
      PROVE  Sized(m, q) /\ q.size = n /\ q.path = m.path
    BY <1>1, <1>3 DEF Sized, Members
<1>4. Page \in Int /\ Page >= 1
    BY PageFacts
<1>5. CASE o \in Err(m, s)
    BY <1>1, <1>2, <1>5, OkIs
<1>6. CASE o \in Fault(m, s)
    BY <1>1, <1>2, <1>6, FaultIs
<1>7. CASE ~Exists(s, m.path) /\ m.size # 0 /\ ~(m.size < Default) /\
           o \in Ok([m EXCEPT !.size = IF @ = Default THEN Page ELSE @, !.isNew = TRUE], s)
  <2> DEFINE q == [m EXCEPT !.size = IF @ = Default THEN Page ELSE @, !.isNew = TRUE]
  <2>1. o.m = q /\ o.s = s
    BY <1>7, OkIs
  <2>2. /\ Sized(m, q) /\ q.size = (IF m.size = Default THEN Page ELSE m.size) /\ q.isNew
    BY <1>1 DEF Sized, Members
  <2>3. m.path \in Paths => s.len[m.path] = -1
    BY <1>7, PageFacts DEF Exists, SystemOK
  <2>4. m.fd # NoFd => m.path \in s.cut
    BY <1>1, <2>3 DEF OpenOK
  <2> HIDE DEF q
  <2>5. q.size \in Int /\ q.size >= 1
    BY <1>1, <1>4, <1>7, <2>2 DEF Default
  <2>6. q.path = m.path /\ (m.fd # NoFd => Shown(q, s))
    BY <2>2, <2>3, <2>4 DEF Sized, Shown
  <2> QED
    BY <1>2, <2>1, <2>2, <2>5, <2>6
<1>8. CASE Exists(s, m.path) /\ m.size # 0 /\ ~(m.size < Default) /\
           LET asked == IF m.size = Default THEN s.len[m.path] ELSE m.size
               valid == ValidMappedSize(asked, s.len[m.path], m.offset)
           IN  o \in Fault([m EXCEPT !.size = Page], s) \union
                     IF valid = 0 THEN Err([m EXCEPT !.size = asked], s)
                     ELSE Ok([m EXCEPT !.size = valid], s)
  <2> DEFINE asked == IF m.size = Default THEN s.len[m.path] ELSE m.size
             valid == ValidMappedSize(asked, s.len[m.path], m.offset)
             len   == s.len[m.path]
  <2>1. m.path \in Paths /\ len \in Int /\ len >= 0
    BY <1>1, <1>8 DEF Exists, SystemOK
  <2>2. asked \in Int /\ asked >= 0
    BY <1>1, <1>8, <2>1 DEF Default
  <2>3. valid \in Int /\ valid >= 0 /\ (valid # 0 => m.offset + valid <= RoundSize(len))
    BY <1>1, <2>1, <2>2, ValidIs
  <2>4. CASE o \in Fault([m EXCEPT !.size = Page], s)
    <3>1. o.m = [m EXCEPT !.size = Page] /\ o.res = "err" /\ Quiet(s, o.s)
      BY <2>4, FaultIs
    <3> QED
      BY <1>3, <1>4, <3>1
  <2>5. CASE valid = 0 /\ o \in Err([m EXCEPT !.size = asked], s)
    <3>1. o.m = [m EXCEPT !.size = asked] /\ o.res = "err" /\ o.s = s
      BY <2>5, OkIs
    <3> QED
      BY <1>2, <1>3, <2>2, <3>1
  <2>6. CASE valid # 0 /\ o \in Ok([m EXCEPT !.size = valid], s)
    <3>1. o.m = [m EXCEPT !.size = valid] /\ o.s = s
      BY <2>6, OkIs
    <3> HIDE DEF valid
    <3>2. Sized(m, o.m) /\ o.m.size = valid /\ o.m.path = m.path
      BY <1>3, <2>3, <3>1
    <3>3. Shown(o.m, s)
      BY <2>3, <2>6, <3>2 DEF Shown, Sized
    <3> QED
      BY <1>2, <2>1, <2>3, <2>6, <3>1, <3>2, <3>3
  <2> QED
    BY <1>8, <2>4, <2>5, <2>6
<1> QED
    BY <1>5, <1>6, <1>7, <1>8 DEF NormalizeSize

\* Normalize, of an object that is not mapped, is a step of it.
LEMMA NormalizeIs ==
    ASSUME NEW m, NEW s, SystemOK(s), ObjectOK(m, s), ~m.mapped, NEW o \in Normalize(m, s)
    PROVE  /\ Moves(m, s, o.m, o.s) /\ o.m.path = m.path /\ o.m.fd = m.fd
           /\ ~o.m.mapped /\ (o.res = "ok" => o.m.normed)
<1>1. CASE m.normed /\ o \in Ok(m, s)
    BY <1>1, OkIs, SystemQuiet, QuietMoves
<1>2. CASE o \in Err(m, s)
    BY <1>2, OkIs, SystemQuiet, QuietMoves
<1>3. CASE ~m.normed /\ ~(m.offset < 0 \/ m.offset % Page # 0)
  <2>1. PICK x \in NormalizeSize(m, s) :
            IF x.res = "ok" THEN o \in Ok([NormalizeMode(x.m) EXCEPT !.normed = TRUE], x.s) ELSE o = x
    BY <1>3 DEF Normalize, Then
  <2>2. /\ Quiet(s, x.s) /\ Sized(m, x.m) /\ x.m.size \in Int /\ x.m.path = m.path
        /\ x.res = "ok" => /\ x.m.size >= 1
                           /\ x.m.isNew \/ (m.path \in Paths /\ Shown(x.m, s))
                           /\ m.fd # NoFd => Shown(x.m, s)
    BY NormalizeSizeIs
  <2>3. CASE x.res # "ok"
    <3>1. ObjectOK(x.m, s) /\ ~x.m.mapped
      BY <1>3, <2>2 DEF ObjectOK, MemberTypes, Sized, OpenOK
    <3> QED
      BY <2>1, <2>2, <2>3, <3>1, QuietSets DEF Sized
  <2>4. CASE x.res = "ok"
    <3> DEFINE q == [NormalizeMode(x.m) EXCEPT !.normed = TRUE]
    <3>1. o.m = q /\ o.s = x.s
      BY <2>1, <2>4, OkIs
    <3>2. /\ DOMAIN q = Members /\ q.path = m.path /\ q.offset = m.offset /\ q.hint = m.hint
          /\ q.data = m.data /\ q.mapped = m.mapped /\ q.normed = TRUE /\ q.fd = m.fd
          /\ q.size = x.m.size /\ q.isNew = x.m.isNew
      BY <2>2 DEF NormalizeMode, Sized, Members
    <3> HIDE DEF q
    <3>3. Shown(x.m, s) => Shown(q, s)
      BY <2>2, <3>2 DEF Shown, Sized
    <3>4. MemberTypes(q)
      BY <2>2, <3>2 DEF ObjectOK, MemberTypes
    <3>5. NormedOK(q, s)
      <4>1. q.size >= 1 /\ m.offset % Page = 0 /\ q.offset >= 0
        BY <1>3, <2>2, <2>4, <3>2 DEF ObjectOK, MemberTypes
      <4> QED
        BY <2>2, <2>4, <3>2, <3>3, <4>1 DEF NormedOK
    <3>6. ObjectOK(q, s) /\ ~q.mapped
      BY <3>2, <3>4, <3>5 DEF ObjectOK, OpenOK
    <3>7. q.path = m.path
      BY <2>2, <3>2
    <3> QED
      BY <2>2, <3>1, <3>2, <3>6, <3>7, QuietSets
  <2> QED
    BY <2>3, <2>4
<1> QED
    BY <1>1, <1>2, <1>3 DEF Normalize

-----------------------------------------------------------------------------
\* A system with other descriptors and another length of file p, which a
\* shorter one puts among those cut.
Refiled(s, t, p, n) ==
    /\ DOMAIN t = DOMAIN s /\ t.pages = s.pages /\ t.lost = s.lost /\ IsFiniteSet(t.open)
    /\ t.len = [s.len EXCEPT ![p] = n]
    /\ t.cut = IF 0 < s.len[p] /\ n < s.len[p] THEN s.cut \union {p} ELSE s.cut

\* Giving the file of an object another length is a step of the object.
LEMMA RefiledMoves ==
    ASSUME NEW m, NEW s, SystemOK(s), ObjectOK(m, s), ~m.mapped,
           m.path \in Paths, NEW t, NEW n \in Int, n >= -1, Refiled(s, t, m.path, n),
           NEW q, ObjectOK(q, t), ~q.mapped
    PROVE  Moves(m, s, q, t)
<1>1. DOMAIN t.len = Paths /\ t.len[m.path] = n /\ \A p \in Paths : p # m.path => t.len[p] = s.len[p]
    BY DEF SystemOK, Refiled
<1>2. SystemOK(t)
    BY <1>1 DEF SystemOK, Refiled
<1>3. \A p \in Paths : s.len[p] \in Int /\ t.len[p] \in Int
    BY <1>2 DEF SystemOK
<1>4. Frame(s, t, {}) /\ Taken(t) = Taken(s)
    BY <1>1, <1>3 DEF Refiled, Frame, Taken
<1>5. RegionPages(m) = {} /\ RegionPages(q) = {}
    BY NoRegion
<1> QED
    BY <1>2, <1>4, <1>5 DEF Moves

\* open is a step of the object.
LEMMA OpenFileIs ==
    ASSUME NEW m, NEW s, SystemOK(s), ObjectOK(m, s), ~m.mapped, m.normed, m.fd = NoFd,
           NEW o \in OpenFile(m, s)
    PROVE  /\ Moves(m, s, o.m, o.s) /\ ~o.m.mapped
           /\ o.res = "ok" => /\ o.m.normed /\ m.path \in Paths /\ o.m.path = m.path
                              /\ o.m.isNew = m.isNew
                              /\ IF m.isNew THEN o.m.fd = NoFd ELSE o.m.fd # NoFd
<1> DEFINE desc == Descriptor(s)
           s1 == [s EXCEPT !.open = @ \union {[fd |-> desc, write |-> m.write]},
                           !.len[m.path] = IF @ < 0 THEN 0 ELSE @]
           len == s.len[m.path]
           len1 == IF len < 0 THEN 0 ELSE len
           q == IF m.isNew THEN m ELSE [m EXCEPT !.fd = desc]
<1>1. CASE o \in Fault(m, s)
    BY <1>1, FaultIs, QuietMoves
<1>2. CASE o \in Err(m, s)
    BY <1>2, OkIs, SystemQuiet, QuietMoves
<1>3. CASE m.path # NoPath /\ o \in Ok(q, s1)
  <2>1. /\ m.path \in Paths /\ len \in Int /\ len >= -1 /\ DOMAIN m = Members
        /\ m.size \in Int /\ m.offset \in Int /\ m.size >= 1 /\ m.offset >= 0
        /\ m.offset % Page = 0 /\ (m.isNew \/ Shown(m, s))
    BY <1>3 DEF ObjectOK, MemberTypes, NormedOK, SystemOK
  <2>2. desc # NoFd
    BY DescriptorIs
  <2> HIDE DEF desc
  <2>3. /\ DOMAIN s1 = DOMAIN s /\ s1.pages = s.pages /\ s1.lost = s.lost /\ s1.cut = s.cut
        /\ s1.open = s.open \union {[fd |-> desc, write |-> m.write]}
        /\ s1.len = [s.len EXCEPT ![m.path] = len1]
    BY DEF SystemOK
  <2>4. IsFiniteSet(s1.open)
    BY <2>3, FS_AddElement DEF SystemOK
  <2>10. o.m = q /\ o.s = s1 /\ o.res = "ok"
    <3> HIDE DEF q, s1
    <3> QED
      BY <1>3, OkIs
  <2> HIDE DEF s1
  <2>5. Refiled(s, s1, m.path, len1) /\ len1 \in Int /\ len1 >= 0 /\ len1 >= len
    BY <2>1, <2>3, <2>4 DEF Refiled
  <2>6. s1.len[m.path] = len1
    BY <2>1, <2>3 DEF SystemOK
  <2>7. /\ DOMAIN q = Members /\ q.path = m.path /\ q.offset = m.offset /\ q.hint = m.hint
        /\ q.data = m.data /\ q.mapped = m.mapped /\ q.normed = m.normed
        /\ q.size = m.size /\ q.isNew = m.isNew /\ (m.isNew => q.fd = NoFd) /\ (~m.isNew => q.fd = desc)
    BY <2>1 DEF Members
  <2> HIDE DEF q
  <2>8. NormedOK(q, s1) /\ (q.fd # NoFd => OpenOK(q, s1))
    <3>1. CASE m.isNew
      BY <2>1, <2>7, <3>1 DEF NormedOK
    <3>2. CASE ~m.isNew
      <4>1. RoundSize(len) \in Int /\ (len <= 0 => RoundSize(len) <= 0)
        BY <2>1, Rounded, RoundedUp
      <4>2. m.path \in s.cut \/ (m.offset + m.size <= RoundSize(len) /\ len >= 1)
        BY <2>1, <3>2, <4>1 DEF Shown
      <4>3. s1.cut = s.cut /\ (len >= 1 => len1 = len)
        BY <2>1, <2>3
      <4> QED
        BY <2>1, <2>2, <2>6, <2>7, <3>2, <4>2, <4>3 DEF NormedOK, OpenOK, Shown
    <3> QED
      BY <3>1, <3>2
  <2>9. ObjectOK(q, s1) /\ ~q.mapped
    BY <2>7, <2>8 DEF ObjectOK, MemberTypes
  <2>11. Moves(m, s, q, s1)
    BY <2>1, <2>5, <2>9, RefiledMoves
  <2> QED
    BY <2>1, <2>2, <2>7, <2>9, <2>10, <2>11
<1> QED
    BY <1>1, <1>2, <1>3 DEF OpenFile

\* A call that makes t of s, or fails and changes nothing.
LEMMA TriesIs ==
    ASSUME NEW s, SystemOK(s), NEW t, NEW u \in Tries(s, t)
    PROVE  u = t \/ Quiet(s, u)
<1> DEFINE v == [s EXCEPT !.faults = @ - 1]
<1>1. /\ DOMAIN v = DOMAIN s /\ v.len = s.len /\ v.pages = s.pages /\ v.cut = s.cut
      /\ v.lost = s.lost /\ v.open = s.open
    BY DEF SystemOK
<1>2. u = t \/ u = v
    BY DEF Tries
<1> HIDE DEF v
<1>3. SystemOK(v)
    BY <1>1 DEF SystemOK
<1> QED
    BY <1>1, <1>2, <1>3 DEF Quiet

\* A closed descriptor goes unnoticed.
LEMMA ClosedQuiet ==
    ASSUME NEW s, SystemOK(s), NEW d
    PROVE  Quiet(s, Closed(s, d))
<1> DEFINE t == Closed(s, d)
<1>1. /\ DOMAIN t = DOMAIN s /\ t.len = s.len /\ t.pages = s.pages /\ t.cut = s.cut
      /\ t.lost = s.lost /\ t.open \subseteq s.open
    BY DEF Closed, SystemOK
<1> HIDE DEF t
<1>2. IsFiniteSet(t.open)
    BY <1>1, FS_Subset DEF SystemOK
<1>3. SystemOK(t)
    BY <1>1, <1>2 DEF SystemOK
<1> QED
    BY <1>1, <1>3 DEF Quiet, t

\* Another length of a file.
LEMMA TruncateIs ==
    ASSUME NEW s, SystemOK(s), NEW p \in Paths, NEW n \in Int
    PROVE  Refiled(s, Truncate(s, p, n), p, n)
    BY DEF Refiled, Truncate, SystemOK

\* What ftruncate makes of a file, or of one that is no longer known by its name.
LEMMA FtruncateIs ==
    ASSUME NEW s, SystemOK(s), NEW p \in Paths, NEW n \in Int, NEW u \in Ftruncate(s, p, n)
    PROVE  Refiled(s, u, p, n) \/ (u = s /\ p \in s.cut)
<1>1. u = Truncate(s, p, n) \/ (u = s /\ p \in s.cut)
    BY DEF Ftruncate
<1> QED
    BY <1>1, TruncateIs

\* A new file that OpenFile cannot give its length is closed and removed again.
LEMMA UndoneIs ==
    ASSUME NEW m, NEW s, SystemOK(s), ObjectOK(m, s), ~m.mapped, m.normed, m.fd = NoFd, m.isNew,
           m.path \in Paths, NEW d, NEW u \in Undone(s, m.path, d)
    PROVE  Moves(m, s, m, u)
<1>1. PICK t \in Tries(s, Closed(s, d)) : u \in Tries(t, Truncate(t, m.path, -1))
    BY DEF Undone
<1>2. Quiet(s, t)
    BY <1>1, ClosedQuiet, TriesIs
<1>3. Moves(m, s, m, t) /\ SystemOK(t) /\ ObjectOK(m, t)
    BY <1>2, QuietMoves DEF Moves
<1>4. CASE Quiet(t, u)
    BY <1>3, <1>4, QuietMoves, MovesThen
<1>5. CASE u = Truncate(t, m.path, -1)
  <2>1. Refiled(t, u, m.path, -1)
    BY <1>3, <1>5, TruncateIs
  <2>2. NormedOK(m, u)
    BY DEF NormedOK, ObjectOK
  <2>3. ObjectOK(m, u)
    BY <2>2 DEF ObjectOK
  <2>4. Moves(m, t, m, u)
    BY <1>3, <2>1, <2>3, RefiledMoves
  <2> QED
    BY <1>3, <2>4, MovesThen
<1> QED
    BY <1>1, <1>3, <1>4, <1>5, TriesIs

\* A new file that is given its length, or is undone, is a step of the object.
LEMMA SizeFileIs ==
    ASSUME NEW m, NEW s, SystemOK(s), ObjectOK(m, s), ~m.mapped, m.normed, m.fd = NoFd, m.isNew,
           m.path \in Paths, NEW d, d # NoFd, NEW o \in SizeFile(m, s, d)
    PROVE  /\ Moves(m, s, o.m, o.s) /\ ~o.m.mapped
           /\ o.res = "ok" => o.m.normed /\ o.m.fd # NoFd
<1> DEFINE less == [s EXCEPT !.faults = @ - 1]
<1>1. CASE \E u \in Undone(s, m.path, d) : o \in Err(m, u)
    BY <1>1, UndoneIs, OkIs
<1>2. CASE \E u \in Undone(less, m.path, d) : o \in Err(m, u)
  <2>1. less \in Tries(s, s) \/ Quiet(s, less)
    <3>1. /\ DOMAIN less = DOMAIN s /\ less.len = s.len /\ less.pages = s.pages /\ less.cut = s.cut
          /\ less.lost = s.lost /\ less.open = s.open
      BY DEF SystemOK
    <3> HIDE DEF less
    <3>2. SystemOK(less)
      BY <3>1 DEF SystemOK
    <3> QED
      BY <3>1, <3>2 DEF Quiet
  <2>2. Quiet(s, less)
    BY <2>1, TriesIs, SystemQuiet
  <2> HIDE DEF less
  <2>3. Moves(m, s, m, less) /\ SystemOK(less) /\ ObjectOK(m, less)
    BY <2>2, QuietMoves DEF Moves
  <2>4. PICK u \in Undone(less, m.path, d) : o \in Err(m, u)
    BY <1>2
  <2>5. Moves(m, less, m, u)
    BY <2>3, UndoneIs
  <2> QED
    BY <2>3, <2>4, <2>5, MovesThen, OkIs
<1>3. CASE \E u \in Ftruncate(s, m.path, EndOffset(m) + 1) :
               o \in Ok([m EXCEPT !.fd = d, !.isNew = FALSE], u)
  <2> DEFINE q == [m EXCEPT !.fd = d, !.isNew = FALSE]
             end == m.offset + m.size
  <2>1. PICK u \in Ftruncate(s, m.path, EndOffset(m) + 1) : o \in Ok(q, u)
    BY <1>3
  <2>2. o.m = q /\ o.s = u
    <3> HIDE DEF q
    <3> QED
      BY <2>1, OkIs
  <2>3. /\ DOMAIN m = Members /\ m.size \in Int /\ m.offset \in Int /\ m.size >= 1 /\ m.offset >= 0
        /\ m.offset % Page = 0
    BY DEF ObjectOK, MemberTypes, NormedOK
  <2>4. /\ DOMAIN q = Members /\ q.path = m.path /\ q.offset = m.offset /\ q.hint = m.hint
        /\ q.data = m.data /\ q.mapped = m.mapped /\ q.normed = m.normed /\ q.fd = d
        /\ q.size = m.size /\ ~q.isNew
    BY <2>3 DEF Members
  <2> HIDE DEF q
  <2>5. EndOffset(m) + 1 = end /\ end \in Int /\ end >= 1
    BY <2>3 DEF EndOffset, Default
  <2> HIDE DEF end
  <2>6. Refiled(s, u, m.path, end) \/ (u = s /\ m.path \in s.cut)
    BY <2>1, <2>5, FtruncateIs
  <2>7. CASE Refiled(s, u, m.path, end)
    <3>1. u.len[m.path] = end /\ end <= RoundSize(end)
      BY <2>5, <2>7, Rounded DEF SystemOK, Refiled
    <3>2. NormedOK(q, u) /\ OpenOK(q, u)
      BY <2>3, <2>4, <2>5, <3>1 DEF NormedOK, OpenOK, Shown, end
    <3>3. ObjectOK(q, u) /\ ~q.mapped
      BY <2>4, <3>2 DEF ObjectOK, MemberTypes
    <3>4. Moves(m, s, q, u)
      BY <2>5, <2>7, <3>3, RefiledMoves
    <3> QED
      BY <2>2, <2>4, <3>3, <3>4
  <2>8. CASE u = s /\ m.path \in s.cut
    <3>1. NormedOK(q, s) /\ OpenOK(q, s)
      BY <2>3, <2>4, <2>8 DEF NormedOK, OpenOK, Shown
    <3>2. ObjectOK(q, s) /\ ~q.mapped
      BY <2>4, <3>1 DEF ObjectOK, MemberTypes
    <3>3. Moves(m, s, q, u)
      BY <2>8, <3>2, QuietSets, SystemQuiet
    <3> QED
      BY <2>2, <2>4, <3>2, <3>3
  <2> QED
    BY <2>6, <2>7, <2>8
<1> QED
    BY <1>1, <1>2, <1>3 DEF SizeFile

-----------------------------------------------------------------------------
\* t is s with other pages.
Repaged(s, t, pages) ==
    /\ DOMAIN t = DOMAIN s /\ t.len = s.len /\ t.open = s.open /\ t.cut = s.cut
    /\ t.pages = pages /\ (s.lost => t.lost)

\* A region put where no page is mapped takes the address of no other page.
LEMMA PagesPut ==
    ASSUME NEW s, SystemOK(s), NEW a \in Nat \ {0}, NEW k \in Nat \ {0}, NEW p, NEW f, Fits(s, a, k),
           NEW t, Repaged(s, t, s.pages \union Region(a, k, p, f))
    PROVE  SystemOK(t) /\ Taken(t) = Taken(s) \union (a .. a + k - 1)
<1> DEFINE new == Region(a, k, p, f)
<1>1. IsFiniteSet(new)
  <2>1. [i \in 0 .. k - 1 |-> <<a + i, p, f + i>>] \in Surjection(0 .. k - 1, new)
    BY DEF Surjection, Region
  <2>2. IsFiniteSet(0 .. k - 1)
    BY FS_Interval
  <2> QED
    BY <2>1, <2>2, FS_Surjection, Zenon
<1>2. IsFiniteSet(t.pages)
  <2>1. IsFiniteSet(s.pages) /\ t.pages = s.pages \union new
    BY DEF Repaged, SystemOK
  <2> QED
    BY <1>1, <2>1, FS_Union, Zenon
<1>3. \A x \in new : \E i \in 0 .. k - 1 : x = <<a + i, p, f + i>> /\ x[1] = a + i
    BY DEF Region
<1>4. \A i \in 0 .. k - 1 : <<a + i, p, f + i>> \in new
    BY DEF Region
<1>5. Taken(t) = Taken(s) \union (a .. a + k - 1)
  <2>1. ASSUME NEW y \in a .. a + k - 1
        PROVE  \E x \in new : x[1] = y
    <3>1. y - a \in 0 .. k - 1 /\ a + (y - a) = y
      OBVIOUS
    <3> QED
      BY <1>4, <3>1
  <2>2. \A x \in new : x[1] \in a .. a + k - 1
    BY <1>3
  <2> HIDE DEF new
  <2>3. t.pages = s.pages \union new
    BY DEF Repaged, new
  <2> QED
    BY <2>1, <2>2, <2>3 DEF Taken
<1>6. PICK b \in Nat : \A x \in s.pages : x[1] \in 1 .. b
    BY DEF SystemOK
<1>7. \E c \in Nat : \A x \in t.pages : x[1] \in 1 .. c
  <2>1. \A x \in t.pages : x[1] \in 1 .. b + a + k
    BY <1>3, <1>6 DEF Repaged
  <2>2. b + a + k \in Nat
    OBVIOUS
  <2> QED
    BY <2>1, <2>2
<1>8. ASSUME NEW x \in t.pages, NEW y \in t.pages, x[1] = y[1]
      PROVE  x = y
  <2>1. \A z \in new, w \in s.pages : z[1] # w[1]
    <3>1. \A z \in new : z[1] \in a .. a + k - 1
      BY <1>3
    <3>2. \A w \in s.pages : w[1] \in Taken(s)
      BY DEF Taken
    <3> QED
      BY <3>1, <3>2 DEF Fits
  <2>2. \A z, w \in new : z[1] = w[1] => z = w
    BY <1>3
  <2> HIDE DEF new
  <2>3. t.pages = s.pages \union new
    BY DEF Repaged, new
  <2> QED
    BY <1>8, <2>1, <2>2, <2>3 DEF SystemOK
<1> QED
    BY <1>2, <1>5, <1>7, <1>8 DEF SystemOK, Repaged

\* munmap takes away the pages of its range and no others.
LEMMA PagesGone ==
    ASSUME NEW s, SystemOK(s), NEW U, NEW t, Repaged(s, t, {x \in s.pages : x[1] \notin U})
    PROVE  SystemOK(t) /\ Taken(t) = Taken(s) \ U
<1>1. t.pages \subseteq s.pages /\ t.pages = {x \in s.pages : x[1] \notin U}
    BY DEF Repaged
<1>2. IsFiniteSet(t.pages)
    BY <1>1, FS_Subset DEF SystemOK
<1>3. Taken(t) = Taken(s) \ U
    BY <1>1 DEF Taken
<1>4. PICK b \in Nat : \A x \in s.pages : x[1] \in 1 .. b
    BY DEF SystemOK
<1>5. \A x \in t.pages : x[1] \in 1 .. b
    BY <1>1, <1>4
<1> QED
    BY <1>1, <1>2, <1>3, <1>5 DEF SystemOK, Repaged

\* A window that starts with its region.
LEMMA RegionPut ==
    ASSUME NEW q, NEW t, SystemOK(t), NEW a \in Nat \ {0}, MemberTypes(q), q.size >= 1,
           q.rStart = a * Page, q.rEnd = a * Page + RoundSize(q.size) - 1, q.data = a * Page,
           a .. a + Pages(q.size) - 1 \subseteq Taken(t),
           q.skewed \/ \E f \in Nat : /\ q.offset = f * Page /\ q.path \in Paths
                                      /\ Region(a, Pages(q.size), q.path, f) \subseteq t.pages
                                      /\ Shown(q, t)
    PROVE  RegionIs(q, t, a, Pages(q.size)) /\ Pages(q.size) \in Nat \ {0}
<1> DEFINE k == Pages(q.size)
           n == q.size
<1>1. n \in Int /\ k \in Int /\ RoundSize(n) = k * Page /\ RoundSize(n) \in Int
      /\ n <= RoundSize(n) /\ RoundSize(n) < n + Page
    BY Rounded DEF MemberTypes
<1>2. k >= 1
    BY <1>1, RoundedUp
<1> HIDE DEF k
<1>3. a * Page \in Int /\ (a + k) * Page = a * Page + RoundSize(n) /\ a \in Int
    BY <1>1, Times
<1>4. q.rEnd = (a + k) * Page - 1 /\ End(q) <= q.rEnd /\ q.rStart <= q.data /\ q.rEnd - End(q) < Page
    BY <1>1, <1>3, PageFacts DEF End
<1>5. ASSUME NEW f \in Nat, q.offset = f * Page, q.path \in Paths,
             Region(a, k, q.path, f) \subseteq t.pages, Shown(q, t)
      PROVE  Backed(q, t, a, k, f)
  <2>1. q.offset + a * Page = q.data + f * Page
    BY <1>3, <1>5, Times
  <2>2. ASSUME q.offset + n <= RoundSize(t.len[q.path])
        PROVE  (f + k) * Page <= RoundSize(t.len[q.path])
    <3> DEFINE l == t.len[q.path]
               L == Pages(l)
    <3>1. l \in Int
      BY <1>5 DEF SystemOK
    <3>2. L \in Int /\ RoundSize(l) = L * Page
      BY <3>1, Rounded
    <3> HIDE DEF l, L
    <3>3. (L - f) * Page = L * Page - f * Page /\ (f + k) * Page = f * Page + k * Page
          /\ L * Page \in Int /\ f * Page \in Int /\ k * Page \in Int /\ L - f \in Int
      <4>1. L \in Int /\ f \in Int /\ k \in Int /\ L - f \in Int
        BY <1>1, <3>2
      <4> QED
        BY <4>1, Times, Zenon
    <3>4. n <= (L - f) * Page
      BY <1>1, <1>5, <2>2, <3>2, <3>3 DEF l
    <3>5. RoundSize(n) <= (L - f) * Page
      BY <1>1, <3>3, <3>4, RoundedUp
    <3> QED
      BY <1>1, <3>2, <3>3, <3>5 DEF l
  <2> QED
    BY <1>5, <2>1, <2>2 DEF Backed, Shown
<1>6. q.skewed \/ \E f \in Nat : Backed(q, t, a, k, f)
    BY <1>5 DEF k
<1> QED
    BY <1>1, <1>2, <1>4, <1>6 DEF RegionIs, k

\* The mapping mmap makes shows the file from offset_ on.
LEMMA MappedIs ==
    ASSUME NEW m, NEW s, SystemOK(s), ObjectOK(m, s), ~m.mapped, m.normed, m.fd # NoFd,
           m.offset % Page = 0, NEW a \in Nat \ {0}, Fits(s, a, Pages(m.size)), NEW o \in Mapped(m, s, a)
    PROVE  Moves(m, s, o.m, o.s) /\ o.m.path = m.path /\ o.res = "ok" /\ o.m.fd = m.fd
<1> DEFINE q == [m EXCEPT !.rStart = a * Page, !.rEnd = a * Page + RoundSize(m.size) - 1,
                          !.data = a * Page, !.mapped = TRUE, !.skewed = FALSE]
           k == Pages(m.size)
           f == m.offset \div Page
           t == [s EXCEPT !.pages = @ \union Region(a, k, m.path, f)]
<1>1. o.m = q /\ o.s = t /\ o.res = "ok"
    BY OkIs DEF Mapped
<1>2. MemberTypes(m) /\ DOMAIN m = Members /\ m.size >= 1 /\ m.offset >= 0 /\ OpenOK(m, s) /\ Shown(m, s)
    BY DEF ObjectOK, MemberTypes, NormedOK
<1>3. /\ DOMAIN q = Members /\ q.path = m.path /\ q.offset = m.offset /\ q.hint = m.hint
      /\ q.size = m.size /\ q.fd = m.fd /\ q.isNew = m.isNew /\ q.normed = m.normed
      /\ q.rStart = a * Page /\ q.rEnd = a * Page + RoundSize(m.size) - 1
      /\ q.data = a * Page /\ q.mapped = TRUE /\ q.skewed = FALSE
    BY <1>2 DEF Members
<1> HIDE DEF q
<1>4. Repaged(s, t, s.pages \union Region(a, k, m.path, f)) /\ t.lost = s.lost
    BY DEF Repaged, SystemOK
<1> HIDE DEF t
<1>5. k \in Nat \ {0}
    BY <1>2, Rounded, RoundedUp DEF MemberTypes
<1>6. f \in Int /\ m.offset = f * Page
  <2>1. f \in Int /\ m.offset = f * Page + (m.offset % Page)
    BY <1>2, Quotient, Zenon DEF MemberTypes
  <2> HIDE DEF f
  <2>2. f * Page \in Int
    BY <2>1, Times
  <2> QED
    BY <2>1, <2>2
<1> HIDE DEF f, k
<1>7. f \in Nat
  <2>1. ~(f < 0)
    <3>1. f < 0 => f * Page + Page <= 0 * Page
      BY <1>6, Times
    <3>2. 0 * Page = 0 /\ f * Page \in Int
      BY <1>6, Times, PageFacts
    <3> QED
      BY <1>2, <1>6, <3>1, <3>2, PageFacts
  <2> QED
    BY <1>6, <2>1
<1>8. SystemOK(t) /\ Taken(t) = Taken(s) \union (a .. a + k - 1)
    BY <1>4, <1>5, PagesPut DEF k
<1>9. /\ Region(a, k, q.path, f) \subseteq t.pages /\ MemberTypes(q) /\ Shown(q, t) /\ Shown(q, s)
      /\ OpenOK(q, t) /\ NormedOK(q, t)
  <2>1. Region(a, k, q.path, f) \subseteq t.pages /\ t.len = s.len /\ t.cut = s.cut
    BY <1>3, <1>4 DEF Repaged
  <2>2. MemberTypes(q)
    <3>1. a * Page \in Int
      BY Times
    <3> QED
      BY <1>2, <1>3, <3>1 DEF MemberTypes
  <2>3. Shown(q, t) /\ Shown(q, s) /\ OpenOK(q, t)
    BY <1>2, <1>3, <2>1 DEF Shown, OpenOK
  <2> QED
    BY <1>2, <1>3, <2>1, <2>2, <2>3 DEF NormedOK
<1>10. RegionIs(q, t, a, k)
  <2>1. q.offset = f * Page /\ q.path \in Paths /\ q.size >= 1 /\ Pages(q.size) = k
    BY <1>2, <1>3, <1>6 DEF OpenOK, k
  <2> QED
    BY <1>3, <1>7, <1>8, <1>9, <2>1, RegionPut
<1>11. ObjectOK(q, t)
    BY <1>3, <1>5, <1>9, <1>10 DEF ObjectOK, MappedOK
<1>12. RegionPages(q) = a .. a + k - 1 /\ RegionPages(m) = {}
    BY <1>3, <1>5, <1>10, RegionPagesIs, NoRegion
<1>13. \A p \in Paths : t.len[p] >= s.len[p]
    BY <1>4 DEF Repaged, SystemOK
<1>14. Frame(s, t, {})
    BY <1>4, <1>13 DEF Frame, Repaged
<1>15. (a .. a + k - 1) \intersect Taken(s) = {}
    BY DEF Fits, k
<1> QED
    BY <1>1, <1>3, <1>8, <1>11, <1>12, <1>13, <1>14, <1>15 DEF Moves

\* The mapping aside, members that stay the same stay right.
LEMMA SameMembers ==
    ASSUME NEW m, NEW s, ObjectOK(m, s), NEW q, MemberTypes(q), ~q.mapped, q.path = m.path,
           q.offset = m.offset, q.size = m.size, q.fd = m.fd, q.isNew = m.isNew, q.normed = m.normed
    PROVE  ObjectOK(q, s) /\ q.path = m.path
<1>1. Shown(m, s) <=> Shown(q, s)
    BY DEF Shown
<1>2. q.normed => NormedOK(q, s)
    BY <1>1 DEF NormedOK, ObjectOK
<1>3. q.fd # NoFd => OpenOK(q, s)
    BY DEF OpenOK, ObjectOK
<1>4. q.path = m.path
    OBVIOUS
<1> QED
    BY <1>2, <1>3, <1>4 DEF ObjectOK

\* The attempts of Map, with the hint and without, are steps of the object.
LEMMA MmapIs ==
    ASSUME NEW m, NEW s, SystemOK(s), ObjectOK(m, s), ~m.mapped, m.normed, m.fd # NoFd,
           NEW o \in Mmap(m, s)
    PROVE  /\ Moves(m, s, o.m, o.s) /\ o.m.path = m.path /\ o.m.fd = m.fd
           /\ o.res # "ok" => ~o.m.mapped
<1> DEFINE bare == [m EXCEPT !.hint = 0]
           again == [s EXCEPT !.faults = @ - 1]
           k == Pages(m.size)
<1>1. DOMAIN m = Members /\ MemberTypes(m) /\ m.size \in Int /\ m.size >= 1 /\ m.hint \in Int
    BY DEF ObjectOK, MemberTypes, NormedOK
<1>2. /\ DOMAIN bare = Members /\ bare.path = m.path /\ bare.offset = m.offset /\ bare.hint = 0
      /\ bare.size = m.size /\ bare.fd = m.fd /\ bare.isNew = m.isNew /\ bare.normed = m.normed
      /\ bare.data = m.data /\ bare.mapped = m.mapped
    BY <1>1 DEF Members
<1> HIDE DEF bare
<1>3. ObjectOK(bare, s) /\ bare.path = m.path
  <2>1. MemberTypes(bare)
    BY <1>1, <1>2 DEF MemberTypes
  <2> QED
    BY <1>2, <2>1, SameMembers
<1>4. Quiet(s, again) /\ SystemOK(again) /\ again.pages = s.pages
  <2>1. /\ DOMAIN again = DOMAIN s /\ again.len = s.len /\ again.pages = s.pages
        /\ again.cut = s.cut /\ again.lost = s.lost /\ again.open = s.open
    BY DEF SystemOK
  <2> HIDE DEF again
  <2> QED
    BY <2>1 DEF Quiet, SystemOK
<1> HIDE DEF again
<1>5. Moves(m, s, bare, s) /\ Moves(m, s, bare, again)
    BY <1>2, <1>3, <1>4, QuietSets, SystemQuiet
<1>6. ObjectOK(bare, again)
    BY <1>5 DEF Moves
<1>7. k \in Nat /\ \A hint \in Int : Place(s, hint, k) \in Nat \ {0} /\ Fits(s, Place(s, hint, k), k)
  <2>1. k \in Nat
    BY <1>1, Rounded, RoundedUp
  <2> QED
    BY <2>1, PlaceFits, Zenon
<1>8. CASE MmapRefused(m, s) /\ o \in Err(bare, s)
    BY <1>2, <1>3, <1>5, <1>8, OkIs
<1>9. CASE ~MmapRefused(m, s) /\ o \in Mapped(m, s, Place(s, m.hint, k))
  <2>1. m.offset % Page = 0
    BY <1>9 DEF MmapRefused
  <2>2. PICK a \in Nat \ {0} : Fits(s, a, Pages(m.size)) /\ o \in Mapped(m, s, a)
    BY <1>1, <1>7, <1>9, Zenon
  <2> QED
    BY <2>1, <2>2, MappedIs
<1>10. CASE o \in Fault(m, s)
    BY <1>10, FaultIs, QuietMoves
<1>11. CASE ~MmapRefused(m, s) /\ o \in Mapped(bare, again, Place(s, 0, k))
  <2>1. bare.offset % Page = 0 /\ Pages(bare.size) = k
    BY <1>2, <1>11 DEF MmapRefused
  <2>2. Place(s, 0, k) \in Nat \ {0} /\ Fits(again, Place(s, 0, k), k)
    BY <1>4, <1>7 DEF Fits, Taken
  <2>3. PICK a \in Nat \ {0} : Fits(again, a, Pages(bare.size)) /\ o \in Mapped(bare, again, a)
    BY <1>11, <2>1, <2>2, Zenon
  <2>4. ~bare.mapped /\ bare.normed /\ bare.fd # NoFd
    BY <1>2
  <2>5. Moves(bare, again, o.m, o.s) /\ o.m.path = bare.path /\ o.res = "ok" /\ o.m.fd = bare.fd
    BY <1>4, <1>6, <2>1, <2>3, <2>4, MappedIs
  <2> QED
    BY <1>2, <1>3, <1>5, <2>5, MovesThen
<1>12. CASE o \in Fault(bare, again)
  <2>1. o.m = bare /\ o.res = "err" /\ Quiet(again, o.s)
    BY <1>4, <1>12, FaultIs
  <2>2. Moves(bare, again, bare, o.s)
    BY <1>4, <1>6, <2>1, QuietMoves
  <2> QED
    BY <1>2, <1>3, <1>5, <2>1, <2>2, MovesThen
<1> QED
    BY <1>8, <1>9, <1>10, <1>11, <1>12 DEF Mmap, bare, again

\* Map of an open file is a step of the object; after a failure the object is
\* as unmapped as before.
LEMMA MapIs ==
    ASSUME NEW m, NEW s, SystemOK(s), ObjectOK(m, s), m.fd # NoFd, NEW o \in Map(m, s)
    PROVE  /\ Moves(m, s, o.m, o.s) /\ o.m.path = m.path /\ o.m.fd = m.fd
           /\ ~m.mapped /\ o.res # "ok" => ~o.m.mapped
<1>1. CASE m.mapped
    BY <1>1, OkIs, SystemQuiet, QuietMoves DEF Map
<1>2. CASE ~m.mapped
  <2>1. PICK x \in Normalize(m, s) : IF x.res = "ok" THEN o \in Mmap(x.m, x.s) ELSE o = x
    BY <1>2 DEF Map, Then
  <2>2. /\ Moves(m, s, x.m, x.s) /\ x.m.path = m.path /\ x.m.fd = m.fd
        /\ ~x.m.mapped /\ (x.res = "ok" => x.m.normed)
    BY <1>2, <2>1, NormalizeIs
  <2>3. ObjectOK(x.m, x.s) /\ SystemOK(x.s)
    BY <2>2 DEF Moves
  <2>4. CASE x.res # "ok"
    BY <2>1, <2>2, <2>4
  <2>5. CASE x.res = "ok"
    <3>1. /\ Moves(x.m, x.s, o.m, o.s) /\ o.m.path = x.m.path /\ o.m.fd = x.m.fd
          /\ o.res # "ok" => ~o.m.mapped
      BY <2>1, <2>2, <2>3, <2>5, MmapIs
    <3>2. Moves(m, s, o.m, o.s)
      BY <2>2, <3>1, MovesThen
    <3> QED
      BY <2>2, <3>1, <3>2
  <2> QED
    BY <2>4, <2>5
<1> QED
    BY <1>1, <1>2

-----------------------------------------------------------------------------
\* Of the region of m the pages of the first n units go.
LEMMA UnmapMoves ==
    ASSUME NEW m, NEW s, SystemOK(s), ObjectOK(m, s), m.mapped,
           NEW v, v.rStart = m.rStart, v.size \in Int, v.size >= 1, v.size <= m.size,
           NEW t, Repaged(s, t, {x \in s.pages : x[1] \notin UnmapPages(v)}),
           t.lost \/ Pages(v.size) >= Pages(m.size),
           NEW q, ObjectOK(q, s), ~q.mapped
    PROVE  Moves(m, s, q, t)
<1>1. PICK a, k \in Nat \ {0} : RegionIs(m, s, a, k)
    BY DEF ObjectOK, MappedOK
<1> DEFINE U == UnmapPages(v)
           R == RegionPages(m)
           n == v.size
<1>2. U = a .. a + Pages(n) - 1 /\ R = a .. a + k - 1
  <2>1. v.rStart = a * Page /\ a \in Int
    BY <1>1 DEF RegionIs
  <2>2. R = a .. a + k - 1
    BY <1>1, RegionPagesIs
  <2> QED
    BY <2>1, <2>2, UnmapPagesIs, Zenon
<1>3. m.size \in Int /\ Pages(n) \in Int /\ Pages(m.size) \in Int
    BY Rounded DEF ObjectOK, MemberTypes
<1>4. Pages(n) <= k /\ (s.lost \/ Pages(m.size) = k)
  <2>1. a * Page \in Int /\ k * Page \in Int /\ (a + k) * Page = a * Page + k * Page
    BY a \in Int, k \in Int, Times, Zenon
  <2>2. m.size <= k * Page
    BY <1>1, <1>3, <2>1 DEF RegionIs, End, ObjectOK, MemberTypes
  <2>3. n <= k * Page /\ k \in Int
    BY <1>3, <2>1, <2>2
  <2> QED
    BY <1>1, <1>3, <2>3, RoundedUp DEF RegionIs
<1>5. U \subseteq R /\ (t.lost \/ R \subseteq U)
    BY <1>2, <1>3, <1>4 DEF Repaged
<1>6. SystemOK(t) /\ Taken(t) = Taken(s) \ U
    BY PagesGone
<1>7. \A p \in Paths : t.len[p] >= s.len[p]
    BY DEF Repaged, SystemOK
<1>8. Frame(s, t, R)
    BY <1>5, <1>7 DEF Frame, Repaged
<1>9. RegionPages(q) = {}
    BY NoRegion
<1>10. ObjectOK(q, t)
    BY <1>6, <1>8, <1>9, Others
<1> QED
    BY <1>5, <1>6, <1>7, <1>8, <1>9, <1>10 DEF Moves

\* m without its mapping.
Unmapped(m) == [m EXCEPT !.rStart = 0, !.rEnd = 0, !.data = 0, !.mapped = FALSE, !.skewed = FALSE]

\* Unmap clears the members of the mapping and leaves the others.
LEMMA UnmappedIs ==
    ASSUME NEW m, DOMAIN m = Members
    PROVE  LET q == Unmapped(m)
           IN  /\ DOMAIN q = Members /\ q.path = m.path /\ q.offset = m.offset /\ q.hint = m.hint
               /\ q.size = m.size /\ q.fd = m.fd /\ q.isNew = m.isNew /\ q.normed = m.normed
               /\ q.data = 0 /\ q.mapped = FALSE
    BY DEF Unmapped, Members

\* Unmap is a step of the object; a munmap that fails leaves it mapped.
LEMMA UnmapIs ==
    ASSUME NEW m, NEW s, SystemOK(s), ObjectOK(m, s), NEW o \in Unmap(m, s)
    PROVE  /\ Moves(m, s, o.m, o.s) /\ o.m.path = m.path
           /\ IF o.res = "ok" THEN ~o.m.mapped ELSE o.m = m
<1>1. CASE o \in Err(m, s) \union Fault(m, s)
    BY <1>1, OkIs, FaultIs, SystemQuiet, QuietMoves
<1>2. CASE m.mapped /\ o \in Ok(Unmapped(m), [s EXCEPT !.pages = {x \in @ : x[1] \notin UnmapPages(m)}])
  <2> DEFINE t == [s EXCEPT !.pages = {x \in @ : x[1] \notin UnmapPages(m)}]
             q == Unmapped(m)
  <2>1. o.m = q /\ o.s = t /\ o.res = "ok"
    BY <1>2, OkIs
  <2>2. Repaged(s, t, {x \in s.pages : x[1] \notin UnmapPages(m)}) /\ t.lost = s.lost
    BY DEF Repaged, SystemOK
  <2> HIDE DEF t
  <2>3. DOMAIN m = Members /\ m.normed /\ m.size \in Int /\ m.size >= 1
    BY <1>2 DEF ObjectOK, MemberTypes, MappedOK, NormedOK
  <2>4. /\ DOMAIN q = Members /\ q.path = m.path /\ q.offset = m.offset /\ q.hint = m.hint
        /\ q.size = m.size /\ q.fd = m.fd /\ q.isNew = m.isNew /\ q.normed = m.normed
        /\ q.data = 0 /\ q.mapped = FALSE
    BY <2>3, UnmappedIs
  <2> HIDE DEF q
  <2>5. ObjectOK(q, s) /\ q.path = m.path
    <3>1. MemberTypes(q)
      <4>1. MemberTypes(m)
        BY DEF ObjectOK
      <4>2. q.mapped \in BOOLEAN /\ q.normed \in BOOLEAN /\ q.path \in Paths \union {NoPath}
        BY <2>4, <4>1, Zenon DEF MemberTypes
      <4>3. q.offset \in Int /\ q.size \in Int /\ q.hint \in Int /\ q.data \in Int
        BY <2>4, <4>1 DEF MemberTypes
      <4> QED
        BY <2>4, <4>2, <4>3, Zenon DEF MemberTypes
    <3> QED
      BY <2>4, <3>1, SameMembers
  <2>6. Pages(m.size) \in Int
    BY <2>3, Rounded
  <2>7. Moves(m, s, q, t)
    BY <1>2, <2>2, <2>3, <2>4, <2>5, <2>6, UnmapMoves
  <2> QED
    BY <2>1, <2>4, <2>5, <2>7
<1> QED
    BY <1>1, <1>2 DEF Unmap, Unmapped

-----------------------------------------------------------------------------
\* mremap is a step of the object, whether the region moves or not.
LEMMA MremapIs ==
    ASSUME NEW m, NEW s, SystemOK(s), ObjectOK(m, s), m.mapped, NEW n \in Int, n >= 1,
           \/ m.offset % Page # 0 \/ m.path \in s.cut
           \/ m.offset + n <= RoundSize(s.len[m.path]),
           NEW o \in Mremap(m, s, n)
    PROVE  Moves(m, s, o.m, o.s) /\ o.m.path = m.path
<1> DEFINE old   == UnmapPages(m)
           count == Pages(n)
           first == CHOOSE x \in s.pages : x[1] = m.rStart \div Page
           rest  == {x \in s.pages : x[1] \notin old}
           there == [s EXCEPT !.pages = rest]
           a     == Place(there, m.rStart, count)
           q == [m EXCEPT !.rStart = a * Page, !.rEnd = a * Page + RoundSize(n) - 1,
                          !.data = a * Page, !.size = n,
                          !.skewed = @ \/ m.data # m.rStart]
           t == [s EXCEPT !.pages = rest \union Region(a, count, first[2], first[3])]
           R == RegionPages(m)
<1>1. CASE o \in Fault(m, s)
    BY <1>1, FaultIs, QuietMoves
<1>2. CASE o \in Ok(q, t)
  <2>1. o.m = q /\ o.s = t
    BY <1>2, OkIs
  <2>2. PICK b, k \in Nat \ {0} : RegionIs(m, s, b, k)
    BY DEF ObjectOK, MappedOK
  <2>3. /\ DOMAIN m = Members /\ MemberTypes(m) /\ m.size \in Int /\ m.offset >= 0 /\ m.normed
        /\ m.fd # NoFd /\ OpenOK(m, s) /\ m.path \in Paths
    BY DEF ObjectOK, MemberTypes, MappedOK, NormedOK, OpenOK
  <2>4. /\ Pages(m.size) \in Int /\ count \in Nat \ {0} /\ m.rStart = b * Page /\ m.rStart \in Int
        /\ b \in Int /\ k \in Int
    <3>1. m.rStart = b * Page /\ b \in Int /\ k \in Int
      BY <2>2 DEF RegionIs
    <3>2. Pages(m.size) \in Int
      BY <2>3, Rounded
    <3>3. count \in Int /\ count >= 1
      BY Rounded, RoundedUp
    <3> QED
      BY <3>1, <3>2, <3>3, Multiple
  <2>5. old = b .. b + Pages(m.size) - 1 /\ R = b .. b + k - 1
    BY <2>2, <2>3, <2>4, UnmapPagesIs, RegionPagesIs
  <2>6. Pages(m.size) <= k /\ (s.lost \/ Pages(m.size) = k)
    <3>1. b * Page \in Int /\ k * Page \in Int /\ (b + k) * Page = b * Page + k * Page
      BY <2>4, Multiple, Sum
    <3>2. m.size <= k * Page
      BY <2>2, <2>3, <3>1 DEF RegionIs, End, MemberTypes
    <3> QED
      BY <2>2, <2>3, <2>4, <3>2, RoundedUp DEF RegionIs
  <2>7. old \subseteq R /\ (s.lost \/ R = old)
    BY <2>4, <2>5, <2>6
  <2>8. Repaged(s, there, rest) /\ there.pages = rest /\ there.lost = s.lost
    BY DEF Repaged, SystemOK
  <2>9. Repaged(there, t, there.pages \union Region(a, count, first[2], first[3])) /\ t.lost = s.lost
        /\ t.len = s.len /\ t.cut = s.cut
    BY DEF Repaged, SystemOK
  <2>10. /\ DOMAIN q = Members /\ q.path = m.path /\ q.offset = m.offset /\ q.hint = m.hint
         /\ q.size = n /\ q.fd = m.fd /\ q.isNew = m.isNew /\ q.normed = m.normed
         /\ q.rStart = a * Page /\ q.rEnd = a * Page + RoundSize(n) - 1
         /\ q.data = a * Page /\ q.mapped = m.mapped
         /\ q.skewed = (m.skewed \/ m.data # m.rStart)
    BY <2>3 DEF Members
  <2> HIDE DEF there, t, q, first
  <2>11. SystemOK(there) /\ Taken(there) = Taken(s) \ old
    BY <2>8, PagesGone
  <2>12. a \in Nat \ {0} /\ Fits(there, a, count)
    BY <2>4, <2>11, PlaceFits
  <2> HIDE DEF a, rest, old, count, R
  <2>13. SystemOK(t) /\ Taken(t) = Taken(there) \union (a .. a + count - 1)
    BY <2>4, <2>9, <2>11, <2>12, PagesPut
  <2>14. MemberTypes(q)
    <3>1. q.mapped \in BOOLEAN /\ q.normed \in BOOLEAN /\ q.path \in Paths \union {NoPath}
      BY <2>3, <2>10, Zenon DEF MemberTypes
    <3>2. a * Page \in Int
      BY <2>12, Times
    <3>3. q.offset \in Int /\ q.size \in Int /\ q.hint \in Int /\ q.data \in Int
      BY <2>3, <2>10, <3>2 DEF MemberTypes
    <3> QED
      BY <2>10, <3>1, <3>3, Zenon DEF MemberTypes
  <2>15. q.offset % Page # 0 \/ Shown(q, t)
    BY <2>9, <2>10 DEF Shown
  <2>16. q.skewed \/ \E f \in Nat : /\ q.offset = f * Page /\ q.path \in Paths
                                    /\ Region(a, count, q.path, f) \subseteq t.pages
                                    /\ Shown(q, t)
    <3> SUFFICES ASSUME ~q.skewed
                 PROVE  \E f \in Nat : /\ q.offset = f * Page /\ q.path \in Paths
                                       /\ Region(a, count, q.path, f) \subseteq t.pages
                                       /\ Shown(q, t)
      OBVIOUS
    <3>1. ~m.skewed /\ m.data = m.rStart
      BY <2>10
    <3>2. PICK f \in Nat : Backed(m, s, b, k, f)
      BY <2>2, <3>1 DEF RegionIs
    <3>3. f * Page \in Int /\ b * Page \in Int /\ f \in Int
      BY <2>4, Multiple
    <3>4. m.offset = f * Page
      BY <2>3, <2>4, <3>1, <3>2, <3>3 DEF Backed, MemberTypes
    <3>5. m.offset % Page = 0
      <4>1. 0 \in 0 .. Page - 1 /\ f * Page + 0 = f * Page
        BY <3>3, PageFacts
      <4> QED
        BY <3>3, <3>4, <4>1, QuotientIs
    <3>6. first[2] = m.path /\ first[3] = f
      <4>1. <<b + 0, m.path, f + 0>> \in s.pages
        BY <3>2 DEF Backed, Region
      <4>2. b + 0 = b /\ f + 0 = f
        OBVIOUS
      <4>3. <<b, m.path, f>> \in s.pages
        BY <4>1, <4>2
      <4>4. m.rStart \div Page = b
        <5>1. 0 \in 0 .. Page - 1 /\ b * Page + 0 = b * Page
          BY <3>3, PageFacts
        <5> QED
          BY <2>4, <5>1, QuotientIs
      <4>5. first \in s.pages /\ first[1] = b
        <5>1. \E x \in s.pages : x[1] = m.rStart \div Page
          BY <4>3, <4>4
        <5>2. first \in s.pages /\ first[1] = m.rStart \div Page
          BY <5>1, Zenon DEF first
        <5> QED
          BY <4>4, <5>2
      <4>6. first = <<b, m.path, f>>
        BY <4>3, <4>5 DEF SystemOK
      <4> QED
        BY <4>6
    <3>7. Region(a, count, q.path, f) \subseteq t.pages
      BY <2>9, <2>10, <3>6 DEF Repaged
    <3> QED
      BY <2>3, <2>10, <2>15, <3>4, <3>5, <3>7
  <2>17. a .. a + count - 1 \subseteq Taken(t)
    BY <2>13
  <2>18. RegionIs(q, t, a, count)
    <3>1. q.rEnd = a * Page + RoundSize(q.size) - 1 /\ q.size >= 1 /\ Pages(q.size) = count
      BY <2>10 DEF count
    <3> QED
      BY <2>10, <2>12, <2>13, <2>14, <2>16, <2>17, <3>1, RegionPut
  <2>19. ObjectOK(q, t)
    <3>1. OpenOK(q, t) /\ NormedOK(q, t)
      BY <2>3, <2>9, <2>10, <2>15 DEF OpenOK, NormedOK
    <3> QED
      BY <2>3, <2>4, <2>10, <2>12, <2>14, <2>18, <3>1 DEF ObjectOK, MappedOK
  <2>20. RegionPages(q) = a .. a + count - 1
    <3>1. q.mapped
      BY <2>10
    <3>2. a \in Nat \ {0} /\ count \in Nat \ {0}
      BY <2>4, <2>12
    <3> QED
      BY <2>18, <3>1, <3>2, RegionPagesIs
  <2>21. \A p \in Paths : t.len[p] >= s.len[p]
    BY <2>9 DEF SystemOK
  <2>22. Frame(s, t, R)
    <3>1. rest \subseteq t.pages
      BY <2>8, <2>9 DEF Repaged
    <3>2. \A x \in s.pages : x[1] \notin R => x \in t.pages
      BY <2>7, <3>1 DEF rest
    <3> QED
      BY <2>9, <2>21, <3>2 DEF Frame
  <2>23. RegionPages(q) \intersect (Taken(s) \ R) = {}
    BY <2>7, <2>11, <2>12, <2>20 DEF Fits
  <2>24. t.lost \/ Taken(t) \subseteq (Taken(s) \ R) \union RegionPages(q)
    BY <2>7, <2>9, <2>11, <2>13, <2>20
  <2> QED
    BY <2>1, <2>10, <2>13, <2>19, <2>21, <2>22, <2>23, <2>24 DEF Moves, R
<1> QED
    BY <1>1, <1>2 DEF Mremap

\* SyncFileSize makes the file long enough for the new size, or fails.
LEMMA SyncFileSizeIs ==
    ASSUME NEW m, NEW s, SystemOK(s), ObjectOK(m, s), NEW n \in Int, n >= 1, m.normed,
           NEW o \in SyncFileSize(m, s, n)
    PROVE  /\ Moves(m, s, m, o.s) /\ o.m = m
           /\ o.res = "ok" => n <= m.size \/ m.offset + n <= o.s.len[m.path] \/ m.path \in o.s.cut
<1>1. CASE o \in Err(m, s) \union Fault(m, s)
    BY <1>1, OkIs, FaultIs, SystemQuiet, QuietMoves
<1>2. CASE o \in Ok(m, s) /\ (n <= m.size \/ m.offset + n <= s.len[m.path])
    BY <1>2, OkIs, SystemQuiet, QuietMoves
<1>3. CASE /\ Exists(s, m.path) /\ ~(m.offset + n <= s.len[m.path])
           /\ \E u \in Ftruncate(s, m.path, m.offset + n) : o \in Ok(m, u)
  <2>1. PICK t \in Ftruncate(s, m.path, m.offset + n) : o \in Ok(m, t)
    BY <1>3
  <2>2. m.path \in Paths /\ m.offset \in Int /\ s.len[m.path] \in Int /\ s.len[m.path] >= 0
    BY <1>3 DEF Exists, ObjectOK, MemberTypes, SystemOK
  <2>3. o.m = m /\ o.s = t
    BY <2>1, OkIs
  <2>4. CASE t = s /\ m.path \in s.cut
    BY <2>3, <2>4, SystemQuiet, QuietMoves
  <2>5. CASE Refiled(s, t, m.path, m.offset + n)
    <3>1. m.offset + n \in Int /\ m.offset + n > s.len[m.path]
      BY <1>3, <2>2
    <3>2. /\ DOMAIN t = DOMAIN s /\ t.pages = s.pages /\ t.lost = s.lost /\ IsFiniteSet(t.open)
          /\ t.cut = s.cut /\ DOMAIN t.len = Paths /\ t.len[m.path] = m.offset + n
          /\ \A p \in Paths : p # m.path => t.len[p] = s.len[p]
      BY <2>2, <2>5, <3>1 DEF SystemOK, Refiled
    <3>3. \A p \in Paths : t.len[p] \in Int /\ t.len[p] >= s.len[p] /\ t.len[p] >= -1
      BY <2>2, <3>1, <3>2 DEF SystemOK
    <3>4. SystemOK(t)
      BY <3>2, <3>3 DEF SystemOK
    <3>5. Frame(s, t, {}) /\ Frame(s, t, RegionPages(m)) /\ Taken(t) = Taken(s)
      BY <3>2, <3>3 DEF Frame, Taken
    <3>6. ObjectOK(m, t)
      BY <3>4, <3>5, Others
    <3>7. t.len[m.path] \in Int /\ m.offset + n <= t.len[m.path]
      BY <2>2, <3>2
    <3> QED
      BY <2>3, <3>4, <3>5, <3>6, <3>7 DEF Moves
  <2>6. m.offset + n \in Int
    BY <2>2
  <2> QED
    BY <2>2, <2>4, <2>5, <2>6, FtruncateIs
<1> QED
    BY <1>1, <1>2, <1>3 DEF SyncFileSize

\* Resize with a size that is settled is a step of the object.
LEMMA ResizeByIs ==
    ASSUME NEW m, NEW s, SystemOK(s), ObjectOK(m, s), NEW n \in Int, n # Default, NEW sync \in BOOLEAN,
           NEW o \in ResizeBy(m, s, n, sync)
    PROVE  Moves(m, s, o.m, o.s)
<1>1. CASE o \in Err(m, s) \union Fault(m, s)
    BY <1>1, OkIs, FaultIs, SystemQuiet, QuietMoves
<1>2. CASE ~(n = 0 \/ n < Default \/ n = m.size \/ ~m.mapped)
  <2>1. Exists(s, m.path) => m.path \in Paths /\ s.len[m.path] \in Int /\ s.len[m.path] >= 0
    BY DEF Exists, ObjectOK, MemberTypes, SystemOK
  <2>2. n \in Int /\ n >= 1
    BY <1>2 DEF Default
  <2>3. /\ m.mapped /\ m.normed /\ m.fd # NoFd /\ m.size \in Int /\ m.offset \in Int /\ m.path \in Paths
        /\ m.offset % Page # 0 \/ Shown(m, s)
    BY <1>2 DEF ObjectOK, MappedOK, NormedOK, MemberTypes, OpenOK
  <2>4. CASE sync
    <3>1. PICK x \in SyncFileSize(m, s, n) : IF x.res = "ok" THEN o \in Mremap(x.m, x.s, n) ELSE o = x
      BY <1>2, <2>4 DEF ResizeBy, Then
    <3>2. /\ Moves(m, s, m, x.s) /\ x.m = m
          /\ x.res = "ok" => n <= m.size \/ m.offset + n <= x.s.len[m.path] \/ m.path \in x.s.cut
      BY <2>2, <2>3, SyncFileSizeIs
    <3>3. SystemOK(x.s) /\ ObjectOK(m, x.s)
      BY <3>2 DEF Moves
    <3>4. CASE x.res = "ok"
      <4>1. m.offset % Page # 0 \/ Shown(m, x.s)
        BY <2>3, <3>3 DEF ObjectOK, NormedOK
      <4>2. x.s.len[m.path] \in Int /\ RoundSize(x.s.len[m.path]) \in Int
            /\ x.s.len[m.path] <= RoundSize(x.s.len[m.path])
        BY <2>3, <3>3, Rounded DEF SystemOK
      <4>3. \/ m.offset % Page # 0 \/ m.path \in x.s.cut
            \/ m.offset + n <= RoundSize(x.s.len[m.path])
        BY <2>2, <2>3, <3>2, <3>4, <4>1, <4>2 DEF Shown
      <4>4. Moves(m, x.s, o.m, o.s)
        BY <2>2, <2>3, <3>1, <3>2, <3>3, <3>4, <4>3, MremapIs
      <4> QED
        BY <3>2, <4>4, MovesThen
    <3>5. CASE x.res # "ok"
      BY <3>1, <3>2, <3>5
    <3> QED
      BY <3>4, <3>5
  <2>5. CASE ~sync
    <3> DEFINE valid == ValidMappedSize(n, s.len[m.path], m.offset)
    <3>1. CASE Exists(s, m.path) /\ valid # 0 /\ o \in Mremap(m, s, valid)
      <4>1. valid \in Int /\ valid >= 1 /\ m.offset + valid <= RoundSize(s.len[m.path])
        <5>1. n >= 0 /\ s.len[m.path] \in Int
          BY <2>1, <2>2, <3>1
        <5>2. valid \in Int /\ valid >= 0 /\ (valid # 0 => m.offset + valid <= RoundSize(s.len[m.path]))
          BY <2>2, <2>3, <5>1, ValidIs
        <5> HIDE DEF valid
        <5> QED
          BY <3>1, <5>2
      <4> HIDE DEF valid
      <4> QED
        BY <2>3, <3>1, <4>1, MremapIs
    <3> QED
      BY <1>1, <1>2, <2>5, <3>1 DEF ResizeBy
  <2> QED
    BY <2>4, <2>5
<1> QED
    BY <1>1, <1>2 DEF ResizeBy

\* Resize(newSize, sync) is a step of the object.
LEMMA ResizeToIs ==
    ASSUME NEW m, NEW s, SystemOK(s), ObjectOK(m, s), NEW new \in Int, NEW sync \in BOOLEAN,
           NEW o \in ResizeTo(m, s, new, sync)
    PROVE  Moves(m, s, o.m, o.s)
<1> DEFINE less == [s EXCEPT !.faults = @ - 1]
           n == IF Exists(s, m.path) THEN s.len[m.path] ELSE Page
<1>1. CASE new # Default /\ o \in ResizeBy(m, s, new, sync)
    BY <1>1, ResizeByIs
<1>2. CASE o \in ResizeBy(m, s, n, sync)
  <2>1. Exists(s, m.path) => s.len[m.path] \in Int /\ s.len[m.path] >= 0
    BY DEF Exists, ObjectOK, MemberTypes, SystemOK
  <2>2. n \in Int /\ n # Default
    BY <2>1, PageFacts DEF Default
  <2> HIDE DEF n
  <2> QED
    BY <1>2, <2>2, ResizeByIs
<1>3. CASE s.faults > 0 /\ o \in ResizeBy(m, less, Page, sync)
  <2>1. /\ DOMAIN less = DOMAIN s /\ less.len = s.len /\ less.pages = s.pages /\ less.cut = s.cut
        /\ less.lost = s.lost /\ less.open = s.open
    BY DEF SystemOK
  <2> HIDE DEF less
  <2>2. Quiet(s, less)
    BY <2>1 DEF Quiet, SystemOK
  <2>3. Moves(m, s, m, less) /\ SystemOK(less) /\ ObjectOK(m, less)
    BY <2>2, QuietMoves DEF Moves
  <2>4. Page \in Int /\ Page # Default
    BY PageFacts DEF Default
  <2>5. Moves(m, less, o.m, o.s)
    BY <1>3, <2>3, <2>4, ResizeByIs
  <2> QED
    BY <2>3, <2>5, MovesThen
<1> QED
    BY <1>1, <1>2, <1>3 DEF ResizeTo

-----------------------------------------------------------------------------
\* A window that lay in its file still does.
LEMMA ShownKept ==
    ASSUME NEW m, NEW s, NEW t, SystemOK(s), SystemOK(t), NEW R, Frame(s, t, R), m.path \in Paths,
           m.offset \in Int, m.size \in Int, m.size >= 1, m.offset >= 0, Shown(m, s)
    PROVE  Shown(m, t)
<1>1. m.offset + m.size \in Int /\ m.offset + m.size >= 1
    OBVIOUS
<1> QED
    BY <1>1, Kept DEF Shown, Frame

\* An object without a mapping, or whose mapping is written off, may have its
\* members set.
LEMMA MovesSets ==
    ASSUME NEW m, NEW s, NEW n, NEW t, Moves(m, s, n, t), t.lost \/ ~n.mapped,
           NEW q, ObjectOK(q, t), ~q.mapped
    PROVE  Moves(m, s, q, t)
<1>1. (t.lost \/ RegionPages(n) = {}) /\ RegionPages(q) = {}
    BY NoRegion
<1> QED
    BY <1>1 DEF Moves

\* Equal members make equal objects.
LEMMA Alike ==
    ASSUME NEW m, NEW s, ObjectOK(m, s), NEW q, DOMAIN q = Members, q.path = m.path,
           q.offset = m.offset, q.size = m.size, q.fd = m.fd, q.isNew = m.isNew, q.normed = m.normed,
           q.hint = m.hint, q.data = m.data, q.mapped = m.mapped, q.rStart = m.rStart,
           q.rEnd = m.rEnd, q.skewed = m.skewed
    PROVE  ObjectOK(q, s) /\ RegionPages(q) = RegionPages(m)
<1>1. MemberTypes(q)
  <2>1. MemberTypes(m)
    BY DEF ObjectOK
  <2>2. q.mapped \in BOOLEAN /\ q.normed \in BOOLEAN /\ q.path \in Paths \union {NoPath}
    BY <2>1, Zenon DEF MemberTypes
  <2>3. q.offset \in Int /\ q.size \in Int /\ q.hint \in Int /\ q.data \in Int
    BY <2>1 DEF MemberTypes
  <2> QED
    BY <2>2, <2>3, Zenon DEF MemberTypes
<1>2. Shown(m, s) <=> Shown(q, s)
    BY DEF Shown
<1>3. q.normed => NormedOK(q, s)
    BY <1>2 DEF NormedOK, ObjectOK
<1>4. q.fd # NoFd => OpenOK(q, s)
    BY DEF OpenOK, ObjectOK
<1>5. End(q) = End(m)
    BY DEF End
<1>6. ASSUME NEW a, NEW k, RegionIs(m, s, a, k)
      PROVE  RegionIs(q, s, a, k)
  <2>1. \A f : Backed(m, s, a, k, f) => Backed(q, s, a, k, f)
    BY DEF Backed
  <2> QED
    BY <1>5, <1>6, <2>1 DEF RegionIs
<1>7. q.mapped => MappedOK(q, s)
    BY <1>6 DEF MappedOK, ObjectOK
<1>8. RegionPages(q) = RegionPages(m)
    BY DEF RegionPages
<1> QED
    BY <1>1, <1>3, <1>4, <1>7, <1>8 DEF ObjectOK

\* What the methods that Map calls yield.
IsOutcome(o) == DOMAIN o = {"res", "m", "s"}

\* Outcomes are records of a result, an object and a system.
LEMMA OutcomeIs ==
    ASSUME NEW m, NEW s, NEW o, o \in Ok(m, s) \/ o \in Err(m, s) \/ o \in Fault(m, s)
    PROVE  IsOutcome(o)
    BY DEF Ok, Err, Fault, IsOutcome

\* Map yields such records.
LEMMA MapOutcome ==
    ASSUME NEW m, NEW s, NEW o \in Map(m, s)
    PROVE  IsOutcome(o)
<1>1. ASSUME NEW n, NEW t, NEW x \in Normalize(n, t)
      PROVE  IsOutcome(x)
  <2>1. ASSUME NEW y \in NormalizeSize(n, t)
        PROVE  IsOutcome(y)
    BY OutcomeIs DEF NormalizeSize
  <2>2. CASE ~n.normed /\ ~(n.offset < 0 \/ n.offset % Page # 0)
    <3>1. PICK y \in NormalizeSize(n, t) :
              IF y.res = "ok" THEN x \in Ok([NormalizeMode(y.m) EXCEPT !.normed = TRUE], y.s) ELSE x = y
      BY <1>1, <2>2 DEF Normalize, Then
    <3> QED
      BY <2>1, <3>1, OutcomeIs
  <2>3. CASE n.normed \/ n.offset < 0 \/ n.offset % Page # 0
    <3>1. x \in Ok(n, t) \/ x \in Err(n, t)
      BY <1>1, <2>3 DEF Normalize
    <3> QED
      BY <3>1, OutcomeIs
  <2> QED
    BY <2>2, <2>3
<1>3. ASSUME NEW n, NEW t, NEW x \in Mmap(n, t)
      PROVE  IsOutcome(x)
    BY <1>3, OutcomeIs DEF Mmap, Mapped
<1>4. CASE m.mapped
    BY <1>4, OutcomeIs DEF Map
<1>5. CASE ~m.mapped
  <2>1. PICK x \in Normalize(m, s) : IF x.res = "ok" THEN o \in Mmap(x.m, x.s) ELSE o = x
    BY <1>5 DEF Map, Then
  <2> QED
    BY <1>1, <1>3, <2>1
<1> QED
    BY <1>4, <1>5

\* TurnNext with a new region is a step of the object, also when Map fails
\* after Unmap.
LEMMA TurnRegionIs ==
    ASSUME NEW m, NEW s, SystemOK(s), ObjectOK(m, s), m.mapped,
           EndOffset(m) + 1 < s.len[m.path], NEW o \in TurnRegion(m, s)
    PROVE  Moves(m, s, o.m, o.s)
<1> DEFINE left == s.len[m.path] - EndOffset(m) - 1
           n    == Min({m.size, left})
           next == [m EXCEPT !.size = n, !.normed = FALSE,
                             !.hint = m.rStart, !.offset = @ + m.size]
           s1   == [s EXCEPT !.lost = @ \/ Pages(next.size) < Pages(m.size)]
<1>1. /\ DOMAIN m = Members /\ MemberTypes(m) /\ m.size \in Int /\ m.size >= 1 /\ m.offset \in Int
      /\ m.offset >= 0 /\ m.normed /\ m.fd # NoFd /\ OpenOK(m, s) /\ m.path \in Paths
      /\ (m.offset % Page # 0 \/ Shown(m, s))
    BY DEF ObjectOK, MemberTypes, MappedOK, NormedOK, OpenOK
<1>2. n \in Int /\ n >= 1 /\ n <= m.size
  <2>1. s.len[m.path] \in Int /\ EndOffset(m) \in Int
    BY <1>1 DEF SystemOK, EndOffset, Default
  <2>2. left \in Int /\ left >= 1
    BY <2>1
  <2> HIDE DEF left
  <2>3. Min({m.size, left}) \in {m.size, left} /\ Min({m.size, left}) <= m.size
    BY <1>1, <2>2, Least2, Zenon
  <2> HIDE DEF n
  <2>4. n \in {m.size, left} /\ n <= m.size
    BY <2>3, Zenon DEF n
  <2> QED
    BY <1>1, <2>2, <2>4
<1> HIDE DEF n
<1>3. m.rStart \in Int
  <2>1. PICK a \in Nat \ {0} : m.rStart = a * Page
    BY DEF ObjectOK, MappedOK, RegionIs
  <2>2. a \in Int
    OBVIOUS
  <2> QED
    BY <2>1, <2>2, Multiple
<1>4. /\ DOMAIN next = Members /\ next.path = m.path /\ next.offset = m.offset + m.size
      /\ next.hint = m.rStart /\ next.size = n /\ next.fd = m.fd /\ next.isNew = m.isNew
      /\ next.normed = FALSE /\ next.data = m.data /\ next.mapped = m.mapped
      /\ next.rStart = m.rStart /\ next.rEnd = m.rEnd /\ next.skewed = m.skewed
    BY <1>1 DEF Members
<1> HIDE DEF next
<1>5. /\ DOMAIN s1 = DOMAIN s /\ s1.len = s.len /\ s1.pages = s.pages /\ s1.open = s.open
      /\ s1.cut = s.cut /\ (s.lost => s1.lost) /\ (s1.lost \/ ~(Pages(n) < Pages(m.size)))
    BY <1>4 DEF SystemOK
<1> HIDE DEF s1
<1>6. SystemOK(s1) /\ Quiet(s, s1)
    BY <1>5 DEF SystemOK, Quiet
<1>7. PICK x : /\ o = Restored(m, x)
               /\ \E y \in Unmap(next, s1) : IF y.res = "ok" THEN x \in Resize(y.m, y.s) ELSE x = y
    BY DEF TurnRegion, Then, next, s1, n, left
<1>8. PICK y \in Unmap(next, s1) : IF y.res = "ok" THEN x \in Resize(y.m, y.s) ELSE x = y
    BY <1>7
<1>9. x.res = "ok" => o.m = x.m /\ o.s = x.s
    BY <1>7 DEF Restored
<1>10. ASSUME x.res # "ok", IsOutcome(x), DOMAIN x.m = Members
       PROVE  /\ o.s = x.s /\ DOMAIN o.m = Members /\ o.m.offset = m.offset /\ o.m.size = m.size
              /\ o.m.hint = m.hint /\ o.m.normed = TRUE /\ o.m.path = x.m.path
              /\ o.m.fd = x.m.fd /\ o.m.isNew = x.m.isNew /\ o.m.data = x.m.data
              /\ o.m.mapped = x.m.mapped /\ o.m.rStart = x.m.rStart /\ o.m.rEnd = x.m.rEnd
              /\ o.m.skewed = x.m.skewed
  <2>1. o = [x EXCEPT !.m.offset = m.offset, !.m.size = m.size, !.m.hint = m.hint, !.m.normed = TRUE]
    BY <1>7, <1>10 DEF Restored
  <2> QED
    BY <1>10, <2>1 DEF Members, IsOutcome
<1>11. CASE y.res # "ok"
  <2>1. y \in Fault(next, s1)
    BY <1>4, <1>8, <1>11, OkIs DEF Unmap
  <2>2. x = y /\ x.m = next /\ x.res # "ok" /\ Quiet(s1, x.s) /\ IsOutcome(x)
    BY <1>6, <1>8, <1>11, <2>1, FaultIs, OutcomeIs
  <2>3. ObjectOK(o.m, s) /\ RegionPages(o.m) = RegionPages(m) /\ o.s = x.s
        /\ o.m.path = m.path /\ o.m.isNew = m.isNew
    <3>1. /\ o.s = x.s /\ DOMAIN o.m = Members /\ o.m.offset = m.offset /\ o.m.size = m.size
          /\ o.m.hint = m.hint /\ o.m.normed = TRUE /\ o.m.path = m.path
          /\ o.m.fd = m.fd /\ o.m.isNew = m.isNew /\ o.m.data = m.data
          /\ o.m.mapped = m.mapped /\ o.m.rStart = m.rStart /\ o.m.rEnd = m.rEnd
          /\ o.m.skewed = m.skewed
      BY <1>4, <1>10, <2>2
    <3>2. m.normed = TRUE
      BY <1>1 DEF MemberTypes
    <3> QED
      BY <3>1, <3>2, Alike
  <2>4. Quiet(s, o.s)
    BY <1>6, <2>2, <2>3 DEF Quiet
  <2>5. Moves(o.m, s, o.m, o.s)
    BY <2>3, <2>4, QuietMoves
  <2> QED
    BY <2>3, <2>5 DEF Moves
<1>12. CASE y.res = "ok"
  <2> DEFINE q == Unmapped(next)
             t == [s1 EXCEPT !.pages = {z \in @ : z[1] \notin UnmapPages(next)}]
  <2>1. y \in Ok(q, t)
    BY <1>4, <1>6, <1>8, <1>12, OkIs, FaultIs DEF Unmap, Unmapped
  <2>2. y.m = q /\ y.s = t
    BY <2>1, OkIs
  <2>3. Repaged(s, t, {z \in s.pages : z[1] \notin UnmapPages(next)}) /\ (t.lost \/ ~(Pages(n) < Pages(m.size)))
    BY <1>5 DEF Repaged, SystemOK
  <2> HIDE DEF t
  <2>4. /\ DOMAIN q = Members /\ q.path = m.path /\ q.offset = m.offset + m.size /\ q.hint = m.rStart
        /\ q.size = n /\ q.fd = m.fd /\ q.isNew = m.isNew /\ q.normed = FALSE
        /\ q.data = 0 /\ q.mapped = FALSE
    BY <1>4, UnmappedIs
  <2> HIDE DEF q
  <2>5. ObjectOK(q, s) /\ q.path = m.path
    <3>1. MemberTypes(q)
      <4>1. q.offset \in Int /\ q.size \in Int /\ q.hint \in Int /\ q.data \in Int
        BY <1>1, <1>2, <1>3, <2>4
      <4>2. q.mapped \in BOOLEAN /\ q.normed \in BOOLEAN /\ q.path \in Paths \union {NoPath}
        BY <1>1, <2>4, Zenon
      <4> QED
        BY <2>4, <4>1, <4>2, Zenon DEF MemberTypes
    <3> QED
      BY <1>1, <2>4, <3>1 DEF ObjectOK, OpenOK
  <2>6. Pages(n) \in Int /\ Pages(m.size) \in Int
    BY <1>1, <1>2, Rounded
  <2>7. t.lost \/ Pages(n) >= Pages(m.size)
    BY <2>3, <2>6
  <2>8. Moves(m, s, q, t)
    BY <1>2, <1>4, <2>3, <2>4, <2>5, <2>7, UnmapMoves
  <2>9. ObjectOK(q, t) /\ SystemOK(t)
    BY <2>8 DEF Moves
  <2>10. x \in Map(q, t)
    BY <1>8, <1>12, <2>2, <2>4 DEF Resize
  <2>11. /\ Moves(q, t, x.m, x.s) /\ x.m.path = q.path /\ x.m.fd = m.fd
         /\ (x.res # "ok" => ~x.m.mapped) /\ IsOutcome(x)
    BY <1>1, <2>4, <2>9, <2>10, MapIs, MapOutcome
  <2>12. Moves(m, s, x.m, x.s)
    BY <2>5, <2>8, <2>11, MovesThen
  <2>13. CASE x.res = "ok"
    BY <1>9, <2>12, <2>13
  <2>14. CASE x.res # "ok"
    <3>1. ObjectOK(x.m, x.s) /\ SystemOK(x.s) /\ ~x.m.mapped /\ DOMAIN x.m = Members /\ x.m.path = m.path
          /\ Frame(s, x.s, RegionPages(m))
      BY <2>4, <2>11, <2>12, <2>14 DEF Moves, ObjectOK, MemberTypes
    <3>2. /\ o.s = x.s /\ DOMAIN o.m = Members /\ o.m.offset = m.offset /\ o.m.size = m.size
          /\ o.m.hint = m.hint /\ o.m.normed = TRUE /\ o.m.path = m.path
          /\ o.m.fd = m.fd /\ o.m.data = x.m.data /\ o.m.mapped = x.m.mapped
      BY <1>10, <2>11, <2>14, <3>1
    <3>3. Shown(m, s) => Shown(m, x.s)
      BY <1>1, <3>1, ShownKept
    <3>4. NormedOK(o.m, x.s)
      <4>1. Shown(m, x.s) => Shown(o.m, x.s)
        BY <3>2 DEF Shown
      <4> QED
        BY <1>1, <3>2, <3>3, <4>1 DEF NormedOK
    <3>5. OpenOK(o.m, x.s) /\ MemberTypes(o.m)
      <4>1. OpenOK(o.m, x.s)
        BY <1>1, <2>11, <3>1, <3>2 DEF OpenOK, ObjectOK
      <4>2. o.m.mapped \in BOOLEAN /\ o.m.normed \in BOOLEAN
        BY <3>1, <3>2 DEF ObjectOK, MemberTypes
      <4>3. o.m.data \in Int /\ o.m.hint \in Int
        BY <1>1, <3>1, <3>2 DEF ObjectOK, MemberTypes
      <4> QED
        BY <1>1, <3>2, <4>1, <4>2, <4>3 DEF MemberTypes
    <3>6. ObjectOK(o.m, x.s) /\ ~o.m.mapped
      BY <3>1, <3>2, <3>4, <3>5 DEF ObjectOK
    <3> QED
      BY <2>12, <3>1, <3>2, <3>6, MovesSets
  <2> QED
    BY <2>13, <2>14
<1> QED
    BY <1>11, <1>12

\* TurnNext inside the region moves the window with its offset.
LEMMA TurnWindowIs ==
    ASSUME NEW m, NEW s, SystemOK(s), ObjectOK(m, s), m.mapped, End(m) # m.rEnd,
           EndOffset(m) + 1 < s.len[m.path], NEW o \in TurnWindow(m, s)
    PROVE  Moves(m, s, o.m, o.s)
<1> DEFINE n == IF End(m) + m.size > m.rEnd THEN m.rEnd - End(m) ELSE m.size
           q == [m EXCEPT !.size = n, !.data = @ + m.size, !.offset = @ + m.size]
           t == [s EXCEPT !.lost = @ \/ RoundSize(n) < m.rEnd - m.rStart + 1]
<1>1. o.m = q /\ o.s = t
    BY OkIs DEF TurnWindow
<1>2. PICK a, k \in Nat \ {0} : RegionIs(m, s, a, k)
    BY DEF ObjectOK, MappedOK
<1>3. /\ DOMAIN m = Members /\ MemberTypes(m) /\ m.size \in Int /\ m.size >= 1 /\ m.offset \in Int
      /\ m.offset >= 0 /\ m.data \in Int /\ m.normed /\ m.fd # NoFd /\ OpenOK(m, s)
      /\ m.path \in Paths /\ s.len[m.path] \in Int
    BY DEF ObjectOK, MemberTypes, MappedOK, NormedOK, OpenOK, SystemOK
<1>4. /\ a \in Int /\ k \in Int /\ a * Page \in Int /\ k * Page \in Int
      /\ (a + k) * Page = a * Page + k * Page
  <2>1. a \in Int /\ k \in Int
    OBVIOUS
  <2> QED
    BY <2>1, Multiple, Sum
<1>5. /\ m.rStart = a * Page /\ m.rEnd = a * Page + k * Page - 1 /\ m.rEnd \in Int /\ m.rStart \in Int
      /\ m.rStart <= m.data /\ End(m) <= m.rEnd /\ End(m) = m.data + m.size - 1 /\ End(m) \in Int
    BY <1>2, <1>3, <1>4 DEF RegionIs, End
<1>6. n \in Int /\ n >= 1 /\ n <= m.rEnd - End(m)
    BY <1>3, <1>5
<1>7. /\ DOMAIN q = Members /\ q.path = m.path /\ q.offset = m.offset + m.size /\ q.hint = m.hint
      /\ q.size = n /\ q.fd = m.fd /\ q.isNew = m.isNew /\ q.normed = m.normed
      /\ q.rStart = m.rStart /\ q.rEnd = m.rEnd /\ q.data = m.data + m.size
      /\ q.mapped = m.mapped /\ q.skewed = m.skewed
    BY <1>3 DEF Members
<1>8. /\ DOMAIN t = DOMAIN s /\ t.len = s.len /\ t.pages = s.pages /\ t.open = s.open
      /\ t.cut = s.cut /\ (s.lost => t.lost)
      /\ t.lost \/ ~(RoundSize(n) < m.rEnd - m.rStart + 1)
    BY DEF SystemOK
<1> HIDE DEF n, q, t
<1>9. SystemOK(t) /\ Taken(t) = Taken(s)
    BY <1>8 DEF SystemOK, Taken
<1>10. End(q) = End(m) + n /\ End(q) <= q.rEnd /\ q.rStart <= q.data
    BY <1>3, <1>5, <1>6, <1>7 DEF End
<1>11. t.lost \/ Pages(n) = k
  <2>1. Pages(n) \in Int /\ RoundSize(n) = Pages(n) * Page /\ Pages(n) * Page \in Int
    BY <1>6, Rounded, Multiple
  <2>2. n <= k * Page
    BY <1>3, <1>4, <1>5, <1>6
  <2>3. Pages(n) <= k
    BY <1>4, <1>6, <2>2, RoundedUp
  <2>4. Pages(n) < k => Pages(n) * Page + Page <= k * Page
    BY <1>4, <2>1, Times
  <2>5. m.rEnd - m.rStart + 1 = k * Page
    BY <1>4, <1>5
  <2>6. t.lost \/ ~(Pages(n) * Page < k * Page)
    BY <1>8, <2>1, <2>5
  <2> DEFINE kp == k * Page
             np == Pages(n) * Page
  <2>7. kp \in Int /\ np \in Int /\ (t.lost \/ ~(np < kp)) /\ (Pages(n) < k => np + Page <= kp)
    BY <1>4, <2>1, <2>4, <2>6
  <2> HIDE DEF kp, np
  <2> QED
    BY <1>4, <2>1, <2>3, <2>7, PageFacts
<1>12. ASSUME NEW f \in Nat, Backed(m, s, a, k, f)
       PROVE  Backed(q, t, a, k, f) /\ Shown(q, t)
  <2>1. f * Page \in Int /\ (f + k) * Page = f * Page + k * Page
    BY <1>4, f \in Int, Multiple, Sum
  <2>2. m.offset + a * Page = m.data + f * Page
    BY <1>12 DEF Backed
  <2>3. q.offset + a * Page = q.data + f * Page
    BY <1>3, <1>4, <1>7, <2>1, <2>2
  <2>4. Backed(q, t, a, k, f)
    BY <1>7, <1>8, <1>12, <2>3 DEF Backed
  <2>5. q.offset + q.size <= (f + k) * Page
    BY <1>3, <1>4, <1>5, <1>6, <1>7, <2>1, <2>2
  <2>6. RoundSize(t.len[q.path]) \in Int /\ q.offset + q.size \in Int /\ (f + k) * Page \in Int
    BY <1>3, <1>4, <1>6, <1>7, <1>8, <2>1, Rounded
  <2> QED
    BY <2>4, <2>5, <2>6 DEF Backed, Shown
<1>13. ASSUME m.rEnd - End(m) < Page, q.offset % Page = 0
       PROVE  Shown(q, t)
  <2> DEFINE g == q.offset \div Page
             len == s.len[m.path]
             L == Pages(len)
  <2>1. q.offset \in Int /\ q.offset = EndOffset(m) + 1 /\ q.offset < len
    BY <1>3, <1>7 DEF EndOffset, Default
  <2>2. g \in Int /\ q.offset = g * Page
    <3>1. g \in Int /\ q.offset = g * Page + (q.offset % Page)
      BY <2>1, Quotient, Zenon
    <3> HIDE DEF g
    <3> QED
      BY <1>13, <3>1, Multiple
  <2>3. L \in Int /\ RoundSize(len) = L * Page /\ len <= RoundSize(len) /\ RoundSize(len) \in Int
    BY <1>3, Rounded
  <2> HIDE DEF g, L
  <2>4. ~(L <= g)
    <3>1. L <= g => L * Page <= g * Page
      BY <2>2, <2>3, Times
    <3> QED
      BY <1>3, <2>1, <2>2, <2>3, <3>1
  <2>5. g * Page + Page <= L * Page
    BY <2>2, <2>3, <2>4, Times
  <2>6. q.offset + q.size <= RoundSize(len)
    <3>1. q.size < Page /\ q.size \in Int
      BY <1>5, <1>6, <1>7, <1>13, PageFacts
    <3> DEFINE gp == g * Page
    <3>2. q.offset = gp /\ gp + Page <= RoundSize(len)
      BY <2>2, <2>3, <2>5
    <3> HIDE DEF gp
    <3> QED
      BY <2>1, <2>3, <3>1, <3>2, PageFacts
  <2> QED
    BY <1>7, <1>8, <2>6 DEF Shown
<1>14. IF m.skewed THEN m.rEnd - End(m) < Page ELSE \E f \in Nat : Backed(m, s, a, k, f)
    BY <1>2 DEF RegionIs
<1>15. RegionIs(q, t, a, k)
  <2>1. q.rStart = a * Page /\ q.rEnd = (a + k) * Page - 1
    BY <1>2, <1>7 DEF RegionIs
  <2>2. a .. a + k - 1 \subseteq Taken(t)
    BY <1>2, <1>9 DEF RegionIs
  <2>3. t.lost \/ Pages(q.size) = k
    BY <1>7, <1>11
  <2>4. CASE m.skewed
    <3>1. q.rEnd - End(q) < Page
      BY <1>5, <1>6, <1>7, <1>10, <1>14, <2>4, PageFacts
    <3> QED
      BY <1>7, <1>10, <2>1, <2>2, <2>3, <2>4, <3>1 DEF RegionIs
  <2>5. CASE ~m.skewed
    <3>1. \E f \in Nat : Backed(q, t, a, k, f)
      BY <1>12, <1>14, <2>5
    <3> QED
      BY <1>7, <1>10, <2>1, <2>2, <2>3, <2>5, <3>1 DEF RegionIs
  <2> QED
    BY <2>4, <2>5
<1>16. q.offset % Page # 0 \/ Shown(q, t)
    BY <1>12, <1>13, <1>14
<1>17. MemberTypes(q)
  <2>1. q.mapped \in BOOLEAN /\ q.normed \in BOOLEAN /\ q.path \in Paths \union {NoPath}
    BY <1>3, <1>7, Zenon DEF MemberTypes
  <2>2. q.offset \in Int /\ q.size \in Int /\ q.hint \in Int /\ q.data \in Int
    BY <1>3, <1>6, <1>7 DEF MemberTypes
  <2> QED
    BY <1>7, <2>1, <2>2, Zenon DEF MemberTypes
<1>18. ObjectOK(q, t)
  <2>1. OpenOK(q, t)
    BY <1>3, <1>7, <1>8 DEF OpenOK
  <2>2. q.size >= 1 /\ q.offset >= 0 /\ q.fd # NoFd
    BY <1>3, <1>6, <1>7
  <2>3. NormedOK(q, t)
    BY <1>16, <2>2 DEF NormedOK
  <2> QED
    BY <1>3, <1>7, <1>15, <1>17, <2>1, <2>2, <2>3 DEF ObjectOK, MappedOK
<1>19. RegionPages(q) = RegionPages(m)
    BY <1>7 DEF RegionPages
<1>20. \A p \in Paths : t.len[p] >= s.len[p]
    BY <1>8 DEF SystemOK
<1>21. Frame(s, t, RegionPages(m))
    BY <1>8, <1>20 DEF Frame
<1> QED
    BY <1>1, <1>9, <1>18, <1>19, <1>20, <1>21 DEF Moves

\* TurnNext is a step of the object.
LEMMA TurnNextIs ==
    ASSUME NEW m, NEW s, SystemOK(s), ObjectOK(m, s), NEW o \in TurnNext(m, s)
    PROVE  Moves(m, s, o.m, o.s)
<1>1. CASE o \in Err(m, s) \union Fault(m, s)
    BY <1>1, OkIs, FaultIs, SystemQuiet, QuietMoves
<1>2. CASE ~m.mapped /\ o \in Ok([m EXCEPT !.offset = @ + Page, !.normed = FALSE], s)
  <2> DEFINE q == [m EXCEPT !.offset = @ + Page, !.normed = FALSE]
  <2>1. o.m = q /\ o.s = s
    BY <1>2, OkIs
  <2>2. MemberTypes(m) /\ DOMAIN m = Members
    BY DEF ObjectOK, MemberTypes
  <2>3. /\ DOMAIN q = Members /\ q.path = m.path /\ q.offset = m.offset + Page /\ q.hint = m.hint
        /\ q.size = m.size /\ q.fd = m.fd /\ q.normed = FALSE /\ q.data = m.data
        /\ q.mapped = m.mapped
    BY <2>2 DEF Members
  <2> HIDE DEF q
  <2>4. MemberTypes(q)
    <3>1. q.offset \in Int /\ q.size \in Int /\ q.hint \in Int /\ q.data \in Int
      BY <2>2, <2>3, PageFacts DEF MemberTypes
    <3>2. q.mapped \in BOOLEAN /\ q.normed \in BOOLEAN /\ q.path \in Paths \union {NoPath}
      BY <2>2, <2>3, Zenon DEF MemberTypes
    <3> QED
      BY <2>3, <3>1, <3>2, Zenon DEF MemberTypes
  <2>5. ObjectOK(q, s) /\ ~q.mapped
    BY <1>2, <2>3, <2>4 DEF ObjectOK, OpenOK
  <2> QED
    BY <1>2, <2>1, <2>5, QuietSets, SystemQuiet
<1>3. CASE /\ Exists(s, m.path) /\ ~(EndOffset(m) + 1 >= s.len[m.path]) /\ m.mapped
           /\ IF End(m) = m.rEnd THEN o \in TurnRegion(m, s) ELSE o \in TurnWindow(m, s)
  <2>1. EndOffset(m) + 1 < s.len[m.path]
    <3>1. m.path \in Paths /\ s.len[m.path] \in Int /\ m.size \in Int /\ m.offset \in Int
      BY <1>3 DEF ObjectOK, MappedOK, OpenOK, SystemOK, MemberTypes
    <3> QED
      BY <1>3, <3>1 DEF EndOffset, Default
  <2> QED
    BY <1>3, <2>1, TurnRegionIs, TurnWindowIs
<1> QED
    BY <1>1, <1>2, <1>3 DEF TurnNext

-----------------------------------------------------------------------------
\* No method but the destructor ends the life of its object.
Lives(m) == "live" \in DOMAIN m /\ m.live

LiveOutcome(o) == IsOutcome(o) /\ Lives(o.m)

\* A call that is over leaves a living object alive.
LEMMA LiveIs ==
    ASSUME NEW m, Lives(m), NEW s, NEW o, o \in Ok(m, s) \/ o \in Err(m, s) \/ o \in Fault(m, s)
    PROVE  LiveOutcome(o)
    BY DEF Ok, Err, Fault, IsOutcome, LiveOutcome

\* So do Normalize, the steps of Map and Map.
LEMMA LiveMap ==
    ASSUME NEW m, Lives(m), NEW s
    PROVE  /\ \A o \in Normalize(m, s) : LiveOutcome(o)
           /\ \A o \in OpenFile(m, s) : LiveOutcome(o)
           /\ \A d : \A o \in SizeFile(m, s, d) : LiveOutcome(o)
           /\ \A o \in Mmap(m, s) : LiveOutcome(o)
           /\ \A o \in Map(m, s) : LiveOutcome(o)
<1>1. ASSUME NEW n, Lives(n), NEW t, NEW x \in Normalize(n, t)
      PROVE  LiveOutcome(x)
  <2>1. ASSUME NEW y \in NormalizeSize(n, t)
        PROVE  LiveOutcome(y)
    <3>1. \/ y \in Ok(n, t) \/ y \in Err(n, t) \/ y \in Fault(n, t)
          \/ \E c : y \in Ok([n EXCEPT !.size = c, !.isNew = TRUE], t)
          \/ \E c : \/ y \in Ok([n EXCEPT !.size = c], t)
                   \/ y \in Err([n EXCEPT !.size = c], t)
                   \/ y \in Fault([n EXCEPT !.size = c], t)
      BY <2>1 DEF NormalizeSize
    <3>2. \A c : Lives([n EXCEPT !.size = c, !.isNew = TRUE]) /\ Lives([n EXCEPT !.size = c])
      BY <1>1 DEF Lives
    <3> QED
      BY <1>1, <3>1, <3>2, LiveIs
  <2>2. CASE ~n.normed /\ ~(n.offset < 0 \/ n.offset % Page # 0)
    <3>1. PICK y \in NormalizeSize(n, t) :
              IF y.res = "ok" THEN x \in Ok([NormalizeMode(y.m) EXCEPT !.normed = TRUE], y.s) ELSE x = y
      BY <1>1, <2>2 DEF Normalize, Then
    <3>2. LiveOutcome(y)
      BY <2>1
    <3>3. Lives([NormalizeMode(y.m) EXCEPT !.normed = TRUE])
      BY <3>2 DEF NormalizeMode, LiveOutcome, Lives
    <3> QED
      BY <3>1, <3>2, <3>3, LiveIs
  <2>3. CASE n.normed \/ n.offset < 0 \/ n.offset % Page # 0
    <3>1. x \in Ok(n, t) \/ x \in Err(n, t)
      BY <1>1, <2>3 DEF Normalize
    <3> QED
      BY <1>1, <3>1, LiveIs
  <2> QED
    BY <2>2, <2>3
<1>2. ASSUME NEW x \in OpenFile(m, s)
      PROVE  LiveOutcome(x)
  <2>1. \A c : Lives([m EXCEPT !.fd = c])
    BY DEF Lives
  <2>2. /\ \A z, u : z \in Ok(m, u) \/ z \in Err(m, u) \/ z \in Fault(m, u) => LiveOutcome(z)
        /\ \A c, u, z : z \in Ok([m EXCEPT !.fd = c], u) => LiveOutcome(z)
    BY <2>1, LiveIs
  <2> QED
    BY <1>2, <2>2, Zenon DEF OpenFile
<1>5. ASSUME NEW d, NEW x \in SizeFile(m, s, d)
      PROVE  LiveOutcome(x)
  <2>1. Lives([m EXCEPT !.fd = d, !.isNew = FALSE])
    BY DEF Lives
  <2>2. \E u : x \in Err(m, u) \/ x \in Ok([m EXCEPT !.fd = d, !.isNew = FALSE], u)
    BY <1>5 DEF SizeFile
  <2> QED
    BY <2>1, <2>2, LiveIs
<1>3. ASSUME NEW n, Lives(n), NEW t, NEW x \in Mmap(n, t)
      PROVE  LiveOutcome(x)
  <2>1. ASSUME NEW u, Lives(u), NEW v, NEW a, NEW z \in Mapped(u, v, a)
        PROVE  LiveOutcome(z)
    <3>1. Lives([u EXCEPT !.rStart = a * Page, !.rEnd = a * Page + RoundSize(u.size) - 1,
                          !.data = a * Page, !.mapped = TRUE, !.skewed = FALSE])
      BY <2>1 DEF Lives
    <3> QED
      BY <2>1, <3>1, LiveIs, Zenon DEF Mapped
  <2>2. Lives([n EXCEPT !.hint = 0])
    BY <1>3 DEF Lives
  <2>3. /\ \A z, u : z \in Err(n, u) \/ z \in Fault(n, u) => LiveOutcome(z)
        /\ \A z, u : z \in Err([n EXCEPT !.hint = 0], u) \/ z \in Fault([n EXCEPT !.hint = 0], u)
                     => LiveOutcome(z)
    BY <1>3, <2>2, LiveIs
  <2>4. \E u, a : \/ x \in Err([n EXCEPT !.hint = 0], u) \/ x \in Fault([n EXCEPT !.hint = 0], u)
                  \/ x \in Fault(n, u) \/ x \in Mapped(n, u, a) \/ x \in Mapped([n EXCEPT !.hint = 0], u, a)
    BY <1>3, Zenon DEF Mmap
  <2> QED
    BY <1>3, <2>1, <2>2, <2>3, <2>4
<1>4. ASSUME NEW o \in Map(m, s)
      PROVE  LiveOutcome(o)
  <2>1. CASE m.mapped
    BY <1>4, <2>1, LiveIs DEF Map
  <2>2. CASE ~m.mapped
    <3>1. PICK x \in Normalize(m, s) : IF x.res = "ok" THEN o \in Mmap(x.m, x.s) ELSE o = x
      BY <1>4, <2>2 DEF Map, Then
    <3>2. LiveOutcome(x)
      BY <1>1, <3>1
    <3> QED
      BY <1>3, <3>1, <3>2 DEF LiveOutcome
  <2> QED
    BY <2>1, <2>2
<1> QED
    BY <1>1, <1>2, <1>3, <1>4, <1>5

\* So does Unmap.
LEMMA LiveUnmap ==
    ASSUME NEW m, Lives(m), NEW s, NEW o \in Unmap(m, s)
    PROVE  LiveOutcome(o)
<1>1. Lives(Unmapped(m))
    BY DEF Lives, Unmapped
<1>2. \A z, u : z \in Ok(Unmapped(m), u) => LiveOutcome(z)
    BY <1>1, LiveIs
<1> QED
    BY <1>2, LiveIs DEF Unmap, Unmapped

\* So does TurnNext.
LEMMA LiveTurn ==
    ASSUME NEW m, Lives(m), NEW s, NEW o \in TurnNext(m, s)
    PROVE  Lives(o.m)
<1>1. \A t, x : x \in Ok(m, t) \/ x \in Err(m, t) \/ x \in Fault(m, t) => Lives(x.m)
    BY LiveIs DEF LiveOutcome
<1>2. ASSUME o \in TurnRegion(m, s)
      PROVE  Lives(o.m)
  <2>1. PICK next, t : Lives(next) /\ o \in {Restored(m, x) : x \in Then(Unmap(next, t), Resize)}
    BY <1>2 DEF TurnRegion, Lives
  <2>2. PICK x : /\ o = Restored(m, x)
                 /\ \E y \in Unmap(next, t) : IF y.res = "ok" THEN x \in Resize(y.m, y.s) ELSE x = y
    BY <2>1 DEF Then
  <2>3. PICK y \in Unmap(next, t) : IF y.res = "ok" THEN x \in Resize(y.m, y.s) ELSE x = y
    BY <2>2
  <2>4. LiveOutcome(y)
    BY <2>1, LiveUnmap
  <2>5. LiveOutcome(x)
    <3>1. CASE y.res = "ok"
      <4>1. x \in Map(y.m, y.s) \/ x \in Err(y.m, y.s)
        BY <2>3, <3>1 DEF Resize
      <4> QED
        BY <2>4, <4>1, LiveMap, LiveIs DEF LiveOutcome
    <3> QED
      BY <2>3, <2>4, <3>1
  <2>6. CASE x.res = "ok"
    BY <2>2, <2>5, <2>6 DEF Restored, LiveOutcome
  <2>7. CASE x.res # "ok"
    <3>1. o = [x EXCEPT !.m.offset = m.offset, !.m.size = m.size, !.m.hint = m.hint, !.m.normed = TRUE]
      BY <2>2, <2>7 DEF Restored
    <3> QED
      BY <2>5, <3>1 DEF LiveOutcome, Lives, IsOutcome
  <2> QED
    BY <2>6, <2>7
<1>3. ASSUME o \in TurnWindow(m, s)
      PROVE  Lives(o.m)
  <2>1. PICK q, t : Lives(q) /\ o \in Ok(q, t)
    BY <1>3 DEF TurnWindow, Lives
  <2> QED
    BY <2>1, LiveIs DEF LiveOutcome
<1>4. ASSUME o \in Ok([m EXCEPT !.offset = @ + Page, !.normed = FALSE], s)
      PROVE  Lives(o.m)
  <2>1. Lives([m EXCEPT !.offset = @ + Page, !.normed = FALSE])
    BY DEF Lives
  <2> QED
    BY <1>4, <2>1, LiveIs DEF LiveOutcome
<1> QED
    BY <1>1, <1>2, <1>3, <1>4 DEF TurnNext

\* So does Resize with a size that is settled.
LEMMA LiveResizeBy ==
    ASSUME NEW m, Lives(m), NEW s, NEW n, NEW sync, NEW o \in ResizeBy(m, s, n, sync)
    PROVE  Lives(o.m)
<1>1. \A t, x : x \in Ok(m, t) \/ x \in Err(m, t) \/ x \in Fault(m, t) => Lives(x.m) /\ x.m = m
    BY LiveIs DEF LiveOutcome, Ok, Err, Fault
<1>2. ASSUME NEW t, NEW c, NEW x \in Mremap(m, t, c)
      PROVE  Lives(x.m)
  <2>1. CASE x \in Fault(m, t)
    BY <1>1, <2>1
  <2>2. CASE x \notin Fault(m, t)
    <3>1. PICK q, u : Lives(q) /\ x \in Ok(q, u)
      BY <1>2, <2>2 DEF Mremap, Lives
    <3> QED
      BY <3>1, LiveIs DEF LiveOutcome
  <2> QED
    BY <2>1, <2>2
<1>3. ASSUME NEW x \in SyncFileSize(m, s, n)
      PROVE  x.m = m
    BY <1>1, <1>3 DEF SyncFileSize
<1>4. CASE sync /\ ~(n = 0 \/ n < Default \/ n = m.size \/ ~m.mapped)
  <2>1. PICK x \in SyncFileSize(m, s, n) : IF x.res = "ok" THEN o \in Mremap(x.m, x.s, n) ELSE o = x
    BY <1>4 DEF ResizeBy, Then
  <2> QED
    BY <1>2, <1>3, <2>1
<1>5. CASE ~sync \/ n = 0 \/ n < Default \/ n = m.size \/ ~m.mapped
  <2>1. \/ o \in Err(m, s) \/ o \in Fault(m, s)
        \/ \E v : o \in Mremap(m, s, v)
    BY <1>5, Zenon DEF ResizeBy
  <2> QED
    BY <1>1, <1>2, <2>1
<1> QED
    BY <1>4, <1>5

\* So does Resize(newSize, sync).
LEMMA LiveResize ==
    ASSUME NEW m, Lives(m), NEW s, NEW new, NEW sync, NEW o \in ResizeTo(m, s, new, sync)
    PROVE  Lives(o.m)
<1>1. \E t, n : o \in ResizeBy(m, t, n, sync)
    BY Zenon DEF ResizeTo
<1> QED
    BY <1>1, LiveResizeBy

-----------------------------------------------------------------------------
\* An object that has been given parameters and nothing else.
LEMMA Untouched ==
    ASSUME NEW q, MemberTypes(q), ~q.mapped, ~q.normed, q.fd = NoFd, NEW s
    PROVE  ObjectOK(q, s)
    BY DEF ObjectOK

\* Objects constructed, reset by Reset() or gone have nothing mapped.
LEMMA NewIs ==
    ASSUME NEW q, q \in {Reset, Dead} \union Constructed, NEW s
    PROVE  ObjectOK(q, s) /\ ~q.mapped /\ (q = Reset \/ q \in Constructed => Lives(q))
<1>1. /\ DOMAIN Reset = Members /\ Reset.path = NoPath /\ Reset.offset = 0 /\ Reset.size = Default
      /\ Reset.hint = 0 /\ Reset.data = 0 /\ Reset.mapped = FALSE /\ Reset.normed = FALSE
      /\ Reset.fd = NoFd /\ Reset.live = TRUE
    BY DEF Reset, Members
<1> DEFINE Plain(r) == /\ DOMAIN r = Members /\ r.path \in Paths \union {NoPath}
                       /\ r.offset \in Int /\ r.size \in Int /\ r.hint \in Int /\ r.data \in Int
                       /\ r.mapped = FALSE /\ r.normed = FALSE /\ r.fd = NoFd
<1>2. Plain(Reset) /\ Lives(Reset)
    BY <1>1 DEF Default, Lives, Members
<1>3. Plain(Dead)
    BY <1>1 DEF Dead, Default, Members
<1>4. ASSUME q \in Constructed
      PROVE  Plain(q) /\ Lives(q)
  <2>1. PICK p \in Paths, mode \in Modes, d \in Offsets, n \in Sizes, h \in Hints : q = New(p, mode, d, n, h)
    BY <1>4 DEF Constructed
  <2>2. d \in Int /\ n \in Int /\ h \in Int
    BY MappedFileConstants
  <2>3. /\ DOMAIN q = Members /\ q.path = p /\ q.offset = d /\ q.size = n /\ q.hint = h /\ q.data = 0
        /\ q.mapped = FALSE /\ q.normed = FALSE /\ q.fd = NoFd /\ q.live = TRUE
    BY <1>1, <2>1 DEF New, Members
  <2> QED
    BY <2>2, <2>3 DEF Lives, Members
<1>5. Plain(q) /\ (q = Reset \/ q \in Constructed => Lives(q))
    BY <1>2, <1>3, <1>4
<1>6. MemberTypes(q) /\ ~q.mapped /\ ~q.normed /\ q.fd = NoFd
    BY <1>5, Zenon DEF MemberTypes
<1> QED
    BY <1>5, <1>6, Untouched

\* The methods that unmap first.
LEMMA UnmapFirst ==
    ASSUME NEW m, NEW s, SystemOK(s), ObjectOK(m, s), Lives(m),
           NEW w \in IF m.mapped THEN Unmap(m, s) ELSE Ok(m, s)
    PROVE  /\ Moves(m, s, w.m, w.s) /\ w.m.path = m.path /\ LiveOutcome(w)
           /\ w.res = "ok" => ~w.m.mapped
<1>1. CASE m.mapped
    BY <1>1, UnmapIs, LiveUnmap
<1>2. CASE ~m.mapped
    BY <1>2, OkIs, SystemQuiet, QuietMoves, LiveIs
<1> QED
    BY <1>1, <1>2

\* Closing the descriptor changes no file and no mapping.
LEMMA CloseIs ==
    ASSUME NEW m, NEW s, SystemOK(s), NEW o \in Close(m, s)
    PROVE  o.m = m /\ Quiet(s, o.s)
<1>1. CASE o \in Ok(m, s) \/ o \in Fault(m, s)
    BY <1>1, OkIs, FaultIs, SystemQuiet
<1>2. CASE o \in Ok(m, Closed(s, m.fd))
  <2> DEFINE t == Closed(s, m.fd)
  <2>1. /\ DOMAIN t = DOMAIN s /\ t.len = s.len /\ t.pages = s.pages /\ t.cut = s.cut
        /\ t.lost = s.lost /\ t.open \subseteq s.open
    BY DEF Closed, SystemOK
  <2> HIDE DEF t
  <2>2. IsFiniteSet(t.open)
    BY <2>1, FS_Subset DEF SystemOK
  <2>3. SystemOK(t)
    BY <2>1, <2>2 DEF SystemOK
  <2> QED
    BY <1>2, <2>1, <2>3, OkIs DEF Quiet, t
<1> QED
    BY <1>1, <1>2 DEF Close

\* Clear is a step of the object; a forced one writes off what munmap failed to
\* return.
LEMMA ClearIs ==
    ASSUME NEW m, NEW s, SystemOK(s), ObjectOK(m, s), Lives(m), NEW force \in BOOLEAN,
           NEW o \in Clear(m, s, force)
    PROVE  /\ Moves(m, s, o.m, o.s) /\ Lives(o.m)
           /\ force => o.s.lost \/ ~o.m.mapped
           /\ IsOutcome(o)
<1> DEFINE unmapped == IF m.mapped THEN Unmap(m, s) ELSE Ok(m, s)
           goOn == IF ~force THEN unmapped
                   ELSE {[x EXCEPT !.res = "ok", !.s.lost = @ \/ x.res # "ok"] : x \in unmapped}
<1> DEFINE Rest(x) == IF x.res = "ok" THEN \E y \in Close(x.m, x.s) : IF y.res = "ok" THEN o \in Ok(Reset, y.s) ELSE o = y
                      ELSE o = x
<1>0. ASSUME NEW S,
             o \in UNION {IF x.res = "ok"
                          THEN UNION {IF y.res = "ok" THEN Ok(Reset, y.s) ELSE {y} : y \in Close(x.m, x.s)}
                          ELSE {x} : x \in S}
      PROVE  \E x \in S : Rest(x)
    BY <1>0
<1>1. PICK x \in goOn : Rest(x)
  <2> HIDE DEF Rest
  <2> QED
    BY <1>0, Zenon DEF Clear, Then
<1>2. /\ Moves(m, s, x.m, x.s) /\ x.m.path = m.path /\ LiveOutcome(x)
      /\ x.res = "ok" => x.s.lost \/ ~x.m.mapped
      /\ force => x.res = "ok"
  <2>1. CASE ~force
    BY <2>1, UnmapFirst
  <2>2. CASE force
    <3>1. PICK w \in unmapped : x = [w EXCEPT !.res = "ok", !.s.lost = @ \/ w.res # "ok"]
      BY <2>2
    <3>2. /\ Moves(m, s, w.m, w.s) /\ w.m.path = m.path /\ LiveOutcome(w)
          /\ w.res = "ok" => ~w.m.mapped
      BY UnmapFirst
    <3>3. SystemOK(w.s) /\ ObjectOK(w.m, w.s)
      BY <3>2 DEF Moves
    <3>4. /\ IsOutcome(x) /\ x.m = w.m /\ x.res = "ok" /\ DOMAIN x.s = DOMAIN w.s
          /\ x.s.len = w.s.len /\ x.s.pages = w.s.pages /\ x.s.open = w.s.open
          /\ x.s.cut = w.s.cut /\ (w.s.lost => x.s.lost) /\ (w.res # "ok" => x.s.lost)
      BY <3>1, <3>2, <3>3 DEF LiveOutcome, IsOutcome, SystemOK
    <3>5. Quiet(w.s, x.s)
      BY <3>3, <3>4 DEF Quiet, SystemOK
    <3>6. Moves(w.m, w.s, w.m, x.s)
      BY <3>3, <3>5, QuietMoves
    <3>7. Moves(m, s, w.m, x.s)
      BY <3>2, <3>6, MovesThen
    <3> QED
      BY <3>2, <3>4, <3>7 DEF LiveOutcome
  <2> QED
    BY <2>1, <2>2
<1> HIDE DEF goOn, unmapped
<1>3. CASE x.res # "ok"
    BY <1>1, <1>2, <1>3 DEF LiveOutcome, IsOutcome
<1>4. CASE x.res = "ok"
  <2>1. PICK y \in Close(x.m, x.s) : IF y.res = "ok" THEN o \in Ok(Reset, y.s) ELSE o = y
    BY <1>1, <1>4
  <2>2. SystemOK(x.s) /\ ObjectOK(x.m, x.s)
    BY <1>2 DEF Moves
  <2>3. y.m = x.m /\ Quiet(x.s, y.s)
    BY <2>2, CloseIs
  <2>4. Moves(x.m, x.s, x.m, y.s)
    BY <2>2, <2>3, QuietMoves
  <2>5. Moves(m, s, y.m, y.s) /\ (y.s.lost \/ ~y.m.mapped)
    BY <1>2, <1>4, <2>3, <2>4, MovesThen DEF Quiet
  <2>6. IsOutcome(y)
    BY OutcomeIs DEF Close
  <2>7. CASE y.res # "ok"
    BY <1>2, <2>1, <2>3, <2>5, <2>6, <2>7 DEF LiveOutcome, IsOutcome
  <2>8. CASE y.res = "ok"
    <3>1. o \in Ok(Reset, y.s)
      BY <2>1, <2>8
    <3>4. o.m = Reset /\ o.s = y.s /\ IsOutcome(o)
      BY <3>1, OkIs, OutcomeIs
    <3>2. ObjectOK(Reset, y.s) /\ ~Reset.mapped /\ Lives(Reset)
      BY NewIs
    <3>3. Moves(m, s, Reset, y.s)
      BY <2>5, <3>2, MovesSets
    <3> QED
      BY <3>2, <3>3, <3>4
  <2> QED
    BY <2>7, <2>8
<1> QED
    BY <1>3, <1>4

\* ChangeOffset, ChangeSize, ChangeHint and ChangeMode are steps of the object.
LEMMA ChangeIs ==
    ASSUME NEW m, NEW s, SystemOK(s), ObjectOK(m, s), Lives(m),
           NEW member \in {"offset", "size", "hint", "mode"}, NEW v, member = "mode" \/ v \in Int,
           NEW o \in Change(m, s, member, v)
    PROVE  Moves(m, s, o.m, o.s) /\ Lives(o.m)
<1>1. PICK w \in (IF m.mapped THEN Unmap(m, s) ELSE Ok(m, s)) :
          IF w.res = "ok" THEN o \in Ok([w.m EXCEPT ![member] = v, !.normed = FALSE], w.s) ELSE o = w
    BY DEF Change, Then
<1>2. /\ Moves(m, s, w.m, w.s) /\ LiveOutcome(w)
      /\ w.res = "ok" => ~w.m.mapped
    BY UnmapFirst
<1>3. CASE w.res # "ok"
    BY <1>1, <1>2, <1>3 DEF LiveOutcome
<1>4. CASE w.res = "ok"
  <2> DEFINE q == [w.m EXCEPT ![member] = v, !.normed = FALSE]
  <2>0. o \in Ok(q, w.s)
    BY <1>1, <1>4
  <2>1. o.m = q /\ o.s = w.s
    <3> HIDE DEF q
    <3> QED
      BY <2>0, OkIs
  <2>2. ObjectOK(w.m, w.s) /\ MemberTypes(w.m) /\ DOMAIN w.m = Members
    BY <1>2 DEF Moves, ObjectOK, MemberTypes
  <2>3. /\ DOMAIN q = Members /\ q.path = w.m.path /\ q.fd = w.m.fd /\ q.data = w.m.data
        /\ q.mapped = w.m.mapped /\ q.live = w.m.live /\ q.normed = FALSE
    BY <2>2 DEF Members
  <2>4. q.offset \in Int /\ q.size \in Int /\ q.hint \in Int /\ q.data \in Int
    BY <2>2 DEF Members, MemberTypes
  <2> HIDE DEF q
  <2>5. MemberTypes(q)
    <3>1. q.mapped \in BOOLEAN /\ q.normed \in BOOLEAN /\ q.path \in Paths \union {NoPath}
      BY <2>2, <2>3, Zenon DEF MemberTypes
    <3> QED
      BY <2>3, <2>4, <3>1, Zenon DEF MemberTypes
  <2>6. ObjectOK(q, w.s) /\ ~q.mapped
    BY <1>2, <1>4, <2>2, <2>3, <2>5 DEF ObjectOK, OpenOK
  <2>7. Lives(q)
    BY <1>2, <2>3 DEF LiveOutcome, Lives, Members
  <2> QED
    BY <1>2, <1>4, <2>1, <2>6, <2>7, MovesSets
<1> QED
    BY <1>3, <1>4

\* ChangePath is a step of the object: no mapping survives the change of file.
LEMMA ChangePathIs ==
    ASSUME NEW m, NEW s, SystemOK(s), ObjectOK(m, s), Lives(m), NEW p \in Paths,
           NEW o \in ChangePath(m, s, p)
    PROVE  Moves(m, s, o.m, o.s) /\ Lives(o.m)
<1>1. PICK w, y :
          /\ w \in IF m.mapped THEN Unmap(m, s) ELSE Ok(m, s)
          /\ IF w.res = "ok" THEN y \in Close(w.m, w.s) ELSE y = w
          /\ IF y.res = "ok" THEN o \in Ok([y.m EXCEPT !.path = p, !.normed = FALSE, !.fd = NoFd], y.s) ELSE o = y
    BY DEF ChangePath, Then
<1>2. /\ Moves(m, s, w.m, w.s) /\ w.m.path = m.path /\ LiveOutcome(w)
      /\ w.res = "ok" => ~w.m.mapped
    BY <1>1, UnmapFirst
<1>3. SystemOK(w.s) /\ ObjectOK(w.m, w.s)
    BY <1>2 DEF Moves
<1>4. Moves(m, s, y.m, y.s) /\ Lives(y.m) /\ (y.res = "ok" => ~y.m.mapped)
  <2>1. CASE w.res # "ok"
    BY <1>1, <1>2, <2>1 DEF LiveOutcome
  <2>2. CASE w.res = "ok"
    <3>1. y.m = w.m /\ Quiet(w.s, y.s)
      BY <1>1, <1>3, <2>2, CloseIs
    <3>2. Moves(w.m, w.s, w.m, y.s)
      BY <1>3, <3>1, QuietMoves
    <3> QED
      BY <1>2, <2>2, <3>1, <3>2, MovesThen DEF LiveOutcome
  <2> QED
    BY <2>1, <2>2
<1>5. CASE y.res # "ok"
    BY <1>1, <1>4, <1>5
<1>6. CASE y.res = "ok"
  <2> DEFINE q == [y.m EXCEPT !.path = p, !.normed = FALSE, !.fd = NoFd]
  <2>1. o.m = q /\ o.s = y.s
    BY <1>1, <1>6, OkIs
  <2>2. MemberTypes(y.m) /\ DOMAIN y.m = Members
    BY <1>4 DEF Moves, ObjectOK, MemberTypes
  <2>3. /\ DOMAIN q = Members /\ q.path = p /\ q.fd = NoFd /\ q.data = y.m.data
        /\ q.mapped = y.m.mapped /\ q.live = y.m.live /\ q.normed = FALSE
        /\ q.offset = y.m.offset /\ q.size = y.m.size /\ q.hint = y.m.hint
    BY <2>2 DEF Members
  <2> HIDE DEF q
  <2>4. MemberTypes(q)
    <3>1. q.offset \in Int /\ q.size \in Int /\ q.hint \in Int /\ q.data \in Int
      BY <2>2, <2>3 DEF MemberTypes
    <3>2. q.mapped \in BOOLEAN /\ q.normed \in BOOLEAN /\ q.path \in Paths \union {NoPath}
      BY <2>2, <2>3, Zenon DEF MemberTypes
    <3> QED
      BY <2>3, <3>1, <3>2, Zenon DEF MemberTypes
  <2>5. ObjectOK(q, y.s) /\ ~q.mapped
    BY <1>4, <1>6, <2>3, <2>4, Untouched
  <2>6. Lives(q)
    BY <1>4, <2>3 DEF Lives, Members
  <2> QED
    BY <1>4, <1>6, <2>1, <2>5, <2>6, MovesSets
<1> QED
    BY <1>5, <1>6

-----------------------------------------------------------------------------
\* What object m with the local fd d is when its Map comes to step a.
StageOK(a, m, d) ==
    /\ a # "idle" => m.live /\ ~m.mapped /\ m.normed
    /\ a = "open" => m.fd = NoFd
    /\ a = "size" => m.fd = NoFd /\ m.isNew /\ m.path \in Paths /\ d # NoFd
    /\ a = "mmap" => m.fd # NoFd

StagesOK ==
    /\ at = [x \in Objects |-> at[x]] /\ local = [x \in Objects |-> local[x]]
    /\ \A x \in Objects : StageOK(at[x], obj[x], local[x])

FilesInv ==
    /\ FilesOK(obj, sys) /\ StagesOK
    /\ \A x \in Objects : obj[x].live \/ ~obj[x].mapped

\* One object, just constructed, and no mappings.
LEMMA FilesInit == Init => FilesInv
<1> SUFFICES ASSUME Init PROVE FilesInv
    OBVIOUS
<1>1. PICK m \in Constructed, first \in Objects :
          obj = [x \in Objects |-> IF x = first THEN m ELSE Dead]
    BY DEF Init
<1>2. DOMAIN obj = Objects /\ \A x \in Objects : obj[x] \in {Reset, Dead} \union Constructed
    BY <1>1
<1>3. /\ DOMAIN sys = {"len", "pages", "open", "faults", "lost", "cut"}
      /\ sys.len = Lengths /\ sys.pages = {} /\ sys.open = {}
    BY DEF Init
<1>4. SystemOK(sys)
  <2>1. DOMAIN sys.len = Paths /\ \A p \in Paths : sys.len[p] \in Int /\ sys.len[p] >= -1
    BY <1>3, MappedFileConstants
  <2>2. IsFiniteSet(sys.pages) /\ IsFiniteSet(sys.open)
    BY <1>3, FS_EmptySet
  <2> QED
    BY <1>3, <2>1, <2>2 DEF SystemOK
<1>5. \A x \in Objects : ObjectOK(obj[x], sys) /\ ~obj[x].mapped
    BY <1>2, NewIs
<1>6. \A x \in Objects : RegionPages(obj[x]) = {}
    BY <1>5, NoRegion
<1>7. Taken(sys) = {}
    BY <1>3 DEF Taken
<1>8. StagesOK
    BY DEF Init, StagesOK, StageOK
<1> QED
    BY <1>2, <1>4, <1>5, <1>6, <1>7, <1>8 DEF FilesInv, FilesOK

\* A step of an object other than a move.
LEMMA StepInv ==
    ASSUME FilesInv, NEW x \in Objects, NEW n, NEW t, Moves(obj[x], sys, n, t), n.live \/ ~n.mapped,
           obj' = [obj EXCEPT ![x] = n], sys' = t,
           NEW a, NEW d, at' = [at EXCEPT ![x] = a], local' = [local EXCEPT ![x] = d], StageOK(a, n, d)
    PROVE  FilesInv'
<1>1. FilesOK(obj', sys')
    BY MovesFiles DEF FilesInv
<1>2. /\ DOMAIN obj = Objects
      /\ at = [y \in Objects |-> at[y]] /\ local = [y \in Objects |-> local[y]]
    BY DEF FilesInv, FilesOK, StagesOK
<1>3. /\ obj'[x] = n /\ at'[x] = a /\ local'[x] = d
      /\ \A y \in Objects : y # x => obj'[y] = obj[y] /\ at'[y] = at[y] /\ local'[y] = local[y]
      /\ at' = [y \in Objects |-> at'[y]] /\ local' = [y \in Objects |-> local'[y]]
    BY <1>2
<1>4. \A y \in Objects : obj'[y].live \/ ~obj'[y].mapped
    BY <1>3 DEF FilesInv
<1>5. ASSUME NEW y \in Objects
      PROVE  StageOK(at'[y], obj'[y], local'[y])
  <2>1. CASE y = x
    BY <1>3, <2>1
  <2>2. CASE y # x
    <3>1. StageOK(at[y], obj[y], local[y])
      BY DEF FilesInv, StagesOK
    <3>2. at'[y] = at[y] /\ obj'[y] = obj[y] /\ local'[y] = local[y]
      BY <1>3, <2>2
    <3> QED
      BY <3>1, <3>2
  <2> QED
    BY <2>1, <2>2
<1>6. StagesOK'
    BY <1>3, <1>5 DEF StagesOK
<1> QED
    BY <1>1, <1>4, <1>6 DEF FilesInv

\* A method called on x, which is not in a Map.
LEMMA CallInv ==
    ASSUME FilesInv, NEW x \in Objects, NEW n, NEW t, Moves(obj[x], sys, n, t), n.live \/ ~n.mapped,
           obj' = [obj EXCEPT ![x] = n], sys' = t, at[x] = "idle", UNCHANGED <<at, local>>
    PROVE  FilesInv'
<1>1. at' = [at EXCEPT ![x] = "idle"] /\ local' = [local EXCEPT ![x] = local[x]]
  <2>1. \A f, v : f[x] = v /\ f = [y \in Objects |-> f[y]] => f = [f EXCEPT ![x] = v]
    OBVIOUS
  <2> QED
    BY <2>1 DEF FilesInv, StagesOK
<1>2. StageOK("idle", n, local[x])
    BY DEF StageOK
<1> QED
    BY <1>1, <1>2, StepInv

\* The destructor leaves no page to an object that is gone.
LEMMA DestroyInv ==
    ASSUME FilesInv, NEW x \in Objects, Destroy(x)
    PROVE  FilesInv'
<1>1. ObjectOK(obj[x], sys) /\ SystemOK(sys) /\ Lives(obj[x])
    BY DEF FilesInv, FilesOK, ObjectOK, MemberTypes, Destroy, Call, Enter, Lives, Members
<1>2. PICK o \in Clear(obj[x], sys, TRUE) : Commit(x, [o EXCEPT !.m = Dead])
    BY DEF Destroy
<1>3. /\ Moves(obj[x], sys, o.m, o.s) /\ IsOutcome(o) /\ (o.s.lost \/ ~o.m.mapped)
    BY <1>1, ClearIs
<1>4. obj' = [obj EXCEPT ![x] = Dead] /\ sys' = o.s
    BY <1>2, <1>3 DEF Commit, IsOutcome
<1>5. ObjectOK(Dead, o.s) /\ ~Dead.mapped
    BY NewIs
<1>6. Moves(obj[x], sys, Dead, o.s)
    BY <1>3, <1>5, MovesSets
<1> QED
    BY <1>4, <1>5, <1>6, CallInv DEF Destroy, Call, Enter

\* Objects that are not in a Map may be moved.
LEMMA StagesTaken ==
    ASSUME StagesOK, DOMAIN obj = Objects, NEW x \in Objects, NEW y \in Objects, at[x] = "idle",
           at[y] = "idle", obj' = Take(x, y), at' = at, local' = local
    PROVE  StagesOK'
<1>1. \A z \in Objects : z # x /\ z # y => obj'[z] = obj[z]
    BY DEF Take
<1>2. ASSUME NEW z \in Objects
      PROVE  StageOK(at'[z], obj'[z], local'[z])
  <2>1. CASE z = x \/ z = y
    BY <2>1 DEF StageOK
  <2>2. CASE z # x /\ z # y
    BY <1>1, <2>2 DEF StagesOK
  <2> QED
    BY <2>1, <2>2
<1> QED
    BY <1>2 DEF StagesOK

\* operator=(MappedFile&&) clears its target before it takes over the mapping.
LEMMA MoveAssignInv ==
    ASSUME FilesInv, NEW x \in Objects, NEW y \in Objects \ {x}, MoveAssign(x, y)
    PROVE  FilesInv'
<1>1. /\ ObjectOK(obj[y], sys) /\ SystemOK(sys) /\ Lives(obj[y]) /\ DOMAIN obj = Objects
      /\ Lives(obj[x]) /\ FilesOK(obj, sys)
    BY DEF FilesInv, FilesOK, ObjectOK, MemberTypes, MoveAssign, Call, Enter, Lives, Members
<1>2. PICK o \in Clear(obj[y], sys, TRUE) : obj' = Take(x, y) /\ sys' = o.s
    BY DEF MoveAssign
<1>3. Moves(obj[y], sys, o.m, o.s) /\ (o.s.lost \/ ~o.m.mapped)
    BY <1>1, ClearIs
<1>4. ObjectOK(Reset, o.s) /\ ~Reset.mapped /\ Lives(Reset)
    BY NewIs
<1>5. Moves(obj[y], sys, Reset, o.s)
    BY <1>3, <1>4, MovesSets
<1> DEFINE g == [obj EXCEPT ![y] = Reset]
<1>6. FilesOK(g, o.s)
    BY <1>1, <1>5, MovesFiles
<1>7. g[y] = Reset /\ g[x] = obj[x] /\ [g EXCEPT ![y] = g[x], ![x] = Reset] = Take(x, y)
    BY <1>1 DEF Take
<1> HIDE DEF g
<1>8. FilesOK([g EXCEPT ![y] = g[x], ![x] = Reset], o.s)
  <2>1. ~g[y].mapped /\ x # y
    BY <1>4, <1>7
  <2> QED
    BY <1>4, <1>6, <2>1, HandedOn
<1>9. FilesOK(obj', sys')
    BY <1>2, <1>7, <1>8
<1>10. StagesOK'
  <2>1. at[x] = "idle" /\ at[y] = "idle" /\ at' = at /\ local' = local
    BY DEF MoveAssign, Call, Enter
  <2> QED
    BY <1>1, <1>2, <2>1, StagesTaken DEF FilesInv
<1>11. \A z \in Objects : obj'[z].live \/ ~obj'[z].mapped
  <2>1. /\ obj'[x] = Reset /\ obj'[y] = obj[x]
        /\ \A z \in Objects : z # x /\ z # y => obj'[z] = obj[z]
    BY <1>1, <1>2 DEF Take
  <2> QED
    BY <1>1, <1>4, <2>1 DEF FilesInv, Lives
<1> QED
    BY <1>9, <1>10, <1>11 DEF FilesInv

\* MappedFile(MappedFile&&) hands the mapping on.
LEMMA MoveConstructInv ==
    ASSUME FilesInv, NEW x \in Objects, NEW y \in Objects \ {x}, MoveConstruct(x, y)
    PROVE  FilesInv'
<1>1. /\ SystemOK(sys) /\ DOMAIN obj = Objects /\ obj[x].live /\ ~obj[y].mapped /\ FilesOK(obj, sys)
      /\ obj' = Take(x, y) /\ sys' = sys
    BY DEF FilesInv, FilesOK, MoveConstruct, Call, Enter
<1>2. ObjectOK(Reset, sys) /\ ~Reset.mapped
    BY NewIs
<1>3. FilesOK(obj', sys')
    BY <1>1, <1>2, HandedOn DEF Take
<1>4. \A z \in Objects : obj'[z].live \/ ~obj'[z].mapped
  <2>1. /\ obj'[x] = Reset /\ obj'[y] = obj[x]
        /\ \A z \in Objects : z # x /\ z # y => obj'[z] = obj[z]
    BY <1>1 DEF Take
  <2> QED
    BY <1>1, <1>2, <2>1 DEF FilesInv
<1>5. StagesOK'
  <2>1. at[x] = "idle" /\ at' = at /\ local' = local
    BY DEF MoveConstruct, Call, Enter
  <2>2. at[y] = "idle"
    BY DEF MoveConstruct, FilesInv, StagesOK, StageOK
  <2> QED
    BY <1>1, <2>1, <2>2, StagesTaken DEF FilesInv
<1> QED
    BY <1>3, <1>4, <1>5 DEF FilesInv

\* A constructor maps nothing.
LEMMA ConstructInv ==
    ASSUME FilesInv, NEW x \in Objects, Construct(x)
    PROVE  FilesInv'
<1>1. PICK m \in Constructed : obj' = [obj EXCEPT ![x] = m]
    BY DEF Construct
<1>2. ~obj[x].mapped /\ sys' = sys /\ FilesOK(obj, sys) /\ SystemOK(sys) /\ DOMAIN obj = Objects
    BY DEF Construct, FilesInv, FilesOK
<1>3. ObjectOK(m, sys) /\ ~m.mapped
    BY NewIs
<1>4. FilesOK(obj', sys')
    BY <1>1, <1>2, <1>3, Forget
<1>5. \A z \in Objects : obj'[z].live \/ ~obj'[z].mapped
    BY <1>1, <1>2, <1>3 DEF FilesInv
<1>6. StagesOK'
  <2>1. at[x] = "idle" /\ at' = at /\ local' = local
    BY DEF Construct, FilesInv, StagesOK, StageOK
  <2>2. \A z \in Objects : z # x => obj'[z] = obj[z]
    BY <1>1, <1>2
  <2>3. ASSUME NEW z \in Objects
        PROVE  StageOK(at'[z], obj'[z], local'[z])
    <3>1. CASE z = x
      BY <2>1, <3>1 DEF StageOK
    <3>2. CASE z # x
      BY <2>1, <2>2, <3>2 DEF FilesInv, StagesOK
    <3> QED
      BY <3>1, <3>2
  <2> QED
    BY <2>1, <2>3 DEF FilesInv, StagesOK
<1> QED
    BY <1>4, <1>5, <1>6 DEF FilesInv

\* A file that grows elsewhere takes nothing from a window.
LEMMA GrowInv ==
    ASSUME FilesInv, Grow
    PROVE  FilesInv'
<1>1. PICK p \in Paths, n \in 1 .. MaxLength : n > sys.len[p] /\ sys' = [sys EXCEPT !.len[p] = n]
    BY DEF Grow
<1>2. SystemOK(sys) /\ obj' = obj /\ n \in Int /\ n >= 1
    BY MappedFileConstants DEF FilesInv, FilesOK, Grow
<1>3. /\ DOMAIN sys' = DOMAIN sys /\ sys'.pages = sys.pages /\ sys'.open = sys.open
      /\ sys'.cut = sys.cut /\ sys'.lost = sys.lost /\ DOMAIN sys'.len = Paths /\ sys'.len[p] = n
      /\ \A r \in Paths : r # p => sys'.len[r] = sys.len[r]
    BY <1>1, <1>2 DEF SystemOK
<1>4. SystemOK(sys')
  <2>1. \A r \in Paths : sys'.len[r] \in Int /\ sys'.len[r] >= -1
    BY <1>2, <1>3 DEF SystemOK
  <2> QED
    BY <1>2, <1>3, <2>1 DEF SystemOK
<1>5. \A r \in Paths : sys'.len[r] >= sys.len[r]
    BY <1>1, <1>2, <1>3 DEF SystemOK
<1>6. Frame(sys, sys', {}) /\ Taken(sys') = Taken(sys)
    BY <1>3, <1>5 DEF Frame, Taken
<1>7. \A x \in Objects : ObjectOK(obj[x], sys')
  <2> SUFFICES ASSUME NEW x \in Objects PROVE ObjectOK(obj[x], sys')
    OBVIOUS
  <2>1. ObjectOK(obj[x], sys) /\ RegionPages(obj[x]) \intersect {} = {}
    BY DEF FilesInv, FilesOK
  <2> QED
    BY <1>2, <1>4, <1>6, <2>1, Others
<1>8. FilesOK(obj', sys')
    BY <1>2, <1>3, <1>4, <1>6, <1>7 DEF FilesInv, FilesOK
<1>9. StagesOK'
    BY <1>2 DEF Grow, FilesInv, StagesOK
<1> QED
    BY <1>2, <1>8, <1>9 DEF FilesInv

\* What FileExists and stat found.
LEMMA MapNormalizeInv ==
    ASSUME FilesInv, NEW x \in Objects, MapNormalize(x)
    PROVE  FilesInv'
<1>1. ObjectOK(obj[x], sys) /\ SystemOK(sys) /\ Lives(obj[x])
    BY DEF FilesInv, FilesOK, ObjectOK, MemberTypes, MapNormalize, Enter, Lives, Members
<1>2. PICK o \in IF obj[x].mapped THEN Err(obj[x], sys) ELSE Normalize(obj[x], sys) :
          Commit(x, o) /\ GoesOn(x, o, IF o.m.fd = NoFd THEN "open" ELSE "mmap")
    BY DEF MapNormalize
<1> DEFINE a == IF o.res = "ok" THEN IF o.m.fd = NoFd THEN "open" ELSE "mmap" ELSE "idle"
<1>3. /\ obj' = [obj EXCEPT ![x] = o.m] /\ sys' = o.s /\ at' = [at EXCEPT ![x] = a]
      /\ local' = [local EXCEPT ![x] = local[x]]
  <2>1. local' = local /\ local = [y \in Objects |-> local[y]]
    BY DEF MapNormalize, FilesInv, StagesOK
  <2> QED
    BY <1>2, <2>1 DEF Commit, GoesOn
<1>4. /\ Moves(obj[x], sys, o.m, o.s) /\ Lives(o.m)
      /\ o.res = "ok" => ~o.m.mapped /\ o.m.normed
  <2>1. CASE obj[x].mapped
    BY <1>1, <1>2, <2>1, OkIs, SystemQuiet, QuietMoves
  <2>2. CASE ~obj[x].mapped
    BY <1>1, <1>2, <2>2, NormalizeIs, LiveMap DEF LiveOutcome
  <2> QED
    BY <2>1, <2>2
<1>5. StageOK(a, o.m, local[x])
    BY <1>4 DEF StageOK, Lives
<1> HIDE DEF a
<1> QED
    BY <1>3, <1>4, <1>5, StepInv DEF Lives

\* The file is open, and the descriptor of a new one kept in a local variable.
LEMMA MapOpenInv ==
    ASSUME FilesInv, NEW x \in Objects, MapOpen(x)
    PROVE  FilesInv'
<1>1. /\ ObjectOK(obj[x], sys) /\ SystemOK(sys) /\ Lives(obj[x])
      /\ ~obj[x].mapped /\ obj[x].normed /\ obj[x].fd = NoFd
    BY DEF FilesInv, FilesOK, StagesOK, StageOK, ObjectOK, MemberTypes, MapOpen, Lives, Members
<1>2. PICK o \in OpenFile(obj[x], sys) :
          /\ Commit(x, o) /\ GoesOn(x, o, IF obj[x].isNew THEN "size" ELSE "mmap")
          /\ local' = [local EXCEPT ![x] = IF at'[x] = "size" THEN Descriptor(sys) ELSE NoFd]
    BY DEF MapOpen
<1> DEFINE a == IF o.res = "ok" THEN IF obj[x].isNew THEN "size" ELSE "mmap" ELSE "idle"
           d == IF at'[x] = "size" THEN Descriptor(sys) ELSE NoFd
<1>3. /\ obj' = [obj EXCEPT ![x] = o.m] /\ sys' = o.s /\ at' = [at EXCEPT ![x] = a]
      /\ local' = [local EXCEPT ![x] = d] /\ at'[x] = a
    BY <1>2 DEF Commit, GoesOn, FilesInv, StagesOK
<1>4. /\ Moves(obj[x], sys, o.m, o.s) /\ ~o.m.mapped
      /\ o.res = "ok" => /\ o.m.normed /\ obj[x].path \in Paths /\ o.m.path = obj[x].path
                         /\ o.m.isNew = obj[x].isNew
                         /\ IF obj[x].isNew THEN o.m.fd = NoFd ELSE o.m.fd # NoFd
    BY <1>1, OpenFileIs
<1>5. Lives(o.m)
    BY <1>1, LiveMap DEF LiveOutcome
<1>6. Descriptor(sys) # NoFd
    BY <1>1, DescriptorIs
<1>7. StageOK(a, o.m, d)
    BY <1>3, <1>4, <1>5, <1>6 DEF StageOK, Lives
<1> HIDE DEF a, d
<1> QED
    BY <1>3, <1>4, <1>5, <1>7, StepInv DEF Lives

\* More files among those cut.
LEMMA CutMoves ==
    ASSUME NEW m, NEW s, SystemOK(s), ObjectOK(m, s), NEW C, s.cut \subseteq C
    PROVE  Moves(m, s, m, [s EXCEPT !.cut = C])
<1> DEFINE t == [s EXCEPT !.cut = C]
<1>1. /\ DOMAIN t = DOMAIN s /\ t.len = s.len /\ t.pages = s.pages /\ t.cut = C
      /\ t.lost = s.lost /\ t.open = s.open
    BY DEF SystemOK
<1> HIDE DEF t
<1>2. SystemOK(t)
    BY <1>1 DEF SystemOK
<1>3. \A p \in Paths : t.len[p] >= s.len[p]
    BY <1>1 DEF SystemOK
<1>4. Frame(s, t, {}) /\ Frame(s, t, RegionPages(m)) /\ Taken(t) = Taken(s)
    BY <1>1, <1>3 DEF Frame, Taken
<1>5. ObjectOK(m, t)
    BY <1>2, <1>4, Others
<1> QED
    BY <1>2, <1>4, <1>5 DEF Moves, t

\* A new file has its length, or is gone again.
LEMMA MapSizeInv ==
    ASSUME FilesInv, NEW x \in Objects, MapSize(x)
    PROVE  FilesInv'
<1>1. /\ ObjectOK(obj[x], sys) /\ SystemOK(sys) /\ Lives(obj[x])
      /\ ~obj[x].mapped /\ obj[x].normed /\ obj[x].fd = NoFd /\ obj[x].isNew
      /\ obj[x].path \in Paths /\ local[x] # NoFd
    BY DEF FilesInv, FilesOK, StagesOK, StageOK, ObjectOK, MemberTypes, MapSize, Lives, Members
<1>2. PICK o \in SizeFile(obj[x], sys, local[x]) :
          /\ obj' = [obj EXCEPT ![x] = o.m] /\ GoesOn(x, o, "mmap")
          /\ sys' = [o.s EXCEPT !.cut = IF /\ ~Exists(o.s, obj[x].path)
                                          /\ \E y \in Objects \ {x} : Opened(y, obj[x].path)
                                       THEN @ \union {obj[x].path} ELSE @]
    BY DEF MapSize
<1>3. local' = [local EXCEPT ![x] = NoFd]
    BY DEF MapSize
<1> DEFINE a == IF o.res = "ok" THEN "mmap" ELSE "idle"
<1>4. at' = [at EXCEPT ![x] = a]
    BY <1>2 DEF GoesOn
<1>5. /\ Moves(obj[x], sys, o.m, o.s) /\ ~o.m.mapped
      /\ o.res = "ok" => o.m.normed /\ o.m.fd # NoFd
    BY <1>1, SizeFileIs
<1>6. SystemOK(o.s) /\ ObjectOK(o.m, o.s)
    BY <1>5 DEF Moves
<1>7. PICK C : o.s.cut \subseteq C /\ sys' = [o.s EXCEPT !.cut = C]
    BY <1>2
<1>8. Moves(o.m, o.s, o.m, sys')
    BY <1>6, <1>7, CutMoves
<1>9. Moves(obj[x], sys, o.m, sys')
    BY <1>1, <1>5, <1>8, MovesThen
<1>10. Lives(o.m)
    BY <1>1, LiveMap DEF LiveOutcome
<1>11. StageOK(a, o.m, NoFd)
    BY <1>5, <1>10 DEF StageOK, Lives
<1> HIDE DEF a
<1>12. PICK t : t = sys'
    OBVIOUS
<1> QED
    BY <1>2, <1>3, <1>4, <1>5, <1>9, <1>11, <1>12, StepInv

\* The file is mapped.
LEMMA MapMmapInv ==
    ASSUME FilesInv, NEW x \in Objects, MapMmap(x)
    PROVE  FilesInv'
<1>1. /\ ObjectOK(obj[x], sys) /\ SystemOK(sys) /\ Lives(obj[x])
      /\ ~obj[x].mapped /\ obj[x].normed /\ obj[x].fd # NoFd
    BY DEF FilesInv, FilesOK, StagesOK, StageOK, ObjectOK, MemberTypes, MapMmap, Lives, Members
<1>2. PICK o \in Mmap(obj[x], sys) : Commit(x, o) /\ GoesOn(x, o, "idle")
    BY DEF MapMmap
<1>3. /\ obj' = [obj EXCEPT ![x] = o.m] /\ sys' = o.s /\ at' = [at EXCEPT ![x] = "idle"]
      /\ local' = [local EXCEPT ![x] = local[x]]
  <2>1. local' = local /\ local = [y \in Objects |-> local[y]]
    BY DEF MapMmap, FilesInv, StagesOK
  <2> QED
    BY <1>2, <2>1 DEF Commit, GoesOn
<1>4. Moves(obj[x], sys, o.m, o.s) /\ Lives(o.m)
    BY <1>1, MmapIs, LiveMap DEF LiveOutcome
<1>5. StageOK("idle", o.m, local[x])
    BY DEF StageOK
<1> QED
    BY <1>3, <1>4, <1>5, StepInv DEF Lives

\* Every step keeps the invariant.
LEMMA FilesNext ==
    ASSUME FilesInv, Next
    PROVE  FilesInv'
<1>1. ASSUME NEW x \in Objects, Call(x)
      PROVE  ObjectOK(obj[x], sys) /\ SystemOK(sys) /\ Lives(obj[x])
    BY <1>1 DEF FilesInv, FilesOK, ObjectOK, MemberTypes, Call, Enter, Lives, Members
<1>2. ASSUME NEW x \in Objects, Call(x), NEW o, Commit(x, o), Moves(obj[x], sys, o.m, o.s), Lives(o.m)
      PROVE  FilesInv'
    BY <1>2, CallInv DEF Commit, Lives, Call, Enter
<1>3. CASE \E x \in Objects : MapNormalize(x) \/ MapOpen(x) \/ MapSize(x) \/ MapMmap(x)
    BY <1>3, MapNormalizeInv, MapOpenInv, MapSizeInv, MapMmapInv
<1>4. ASSUME NEW x \in Objects, DoNorm(x)
      PROVE  FilesInv'
  <2>1. PICK o \in Normalize(obj[x], sys) : Commit(x, o)
    BY <1>4 DEF DoNorm
  <2>2. ~obj[x].mapped
    BY <1>1, <1>4 DEF DoNorm, ObjectOK, MappedOK
  <2>3. Moves(obj[x], sys, o.m, o.s) /\ Lives(o.m)
    BY <1>1, <1>4, <2>2, NormalizeIs, LiveMap DEF DoNorm, LiveOutcome
  <2> QED
    BY <1>2, <2>1, <2>3, <1>4 DEF DoNorm
<1>5. ASSUME NEW x \in Objects, DoUnmap(x)
      PROVE  FilesInv'
  <2>1. PICK o \in Unmap(obj[x], sys) : Commit(x, o)
    BY <1>5 DEF DoUnmap
  <2>2. Moves(obj[x], sys, o.m, o.s) /\ Lives(o.m)
    BY <1>1, <1>5, UnmapIs, LiveUnmap DEF DoUnmap, LiveOutcome
  <2> QED
    BY <1>2, <2>1, <2>2, <1>5 DEF DoUnmap
<1>6. ASSUME NEW x \in Objects, DoTurn(x)
      PROVE  FilesInv'
  <2>1. PICK o \in TurnNext(obj[x], sys) : Commit(x, o)
    BY <1>6 DEF DoTurn
  <2>2. Moves(obj[x], sys, o.m, o.s) /\ Lives(o.m)
    BY <1>1, <1>6, TurnNextIs, LiveTurn DEF DoTurn
  <2> QED
    BY <1>2, <2>1, <2>2, <1>6 DEF DoTurn
<1>7. ASSUME NEW x \in Objects, DoResize(x)
      PROVE  FilesInv'
  <2>1. PICK n \in Sizes, sync \in BOOLEAN : \E o \in ResizeTo(obj[x], sys, n, sync) : Commit(x, o)
    BY <1>7 DEF DoResize
  <2>2. PICK o \in ResizeTo(obj[x], sys, n, sync) : Commit(x, o)
    BY <2>1
  <2>3. n \in Int
    BY MappedFileConstants
  <2>4. Moves(obj[x], sys, o.m, o.s) /\ Lives(o.m)
    BY <1>1, <1>7, <2>3, ResizeToIs, LiveResize DEF DoResize
  <2> QED
    BY <1>2, <2>2, <2>4, <1>7 DEF DoResize
<1>8. ASSUME NEW x \in Objects, DoClear(x)
      PROVE  FilesInv'
  <2>1. PICK force \in BOOLEAN : \E o \in Clear(obj[x], sys, force) : Commit(x, o)
    BY <1>8 DEF DoClear
  <2>2. PICK o \in Clear(obj[x], sys, force) : Commit(x, o)
    BY <2>1
  <2>3. Moves(obj[x], sys, o.m, o.s) /\ Lives(o.m)
    BY <1>1, <1>8, ClearIs DEF DoClear
  <2> QED
    BY <1>2, <2>2, <2>3, <1>8 DEF DoClear
<1>9. ASSUME NEW x \in Objects, DoChange(x)
      PROVE  FilesInv'
  <2>1. PICK member \in {"offset", "size", "hint", "mode"} :
            \E v : /\ member = "mode" \/ v \in Int
                  /\ \E o \in Change(obj[x], sys, member, v) : Commit(x, o)
    <3>1. Offsets \subseteq Int /\ Sizes \subseteq Int /\ Hints \subseteq Int
      BY MappedFileConstants
    <3> QED
      BY <1>9, <3>1, Zenon DEF DoChange
  <2>2. PICK v : /\ member = "mode" \/ v \in Int
                 /\ \E o \in Change(obj[x], sys, member, v) : Commit(x, o)
    BY <2>1
  <2>3. PICK o \in Change(obj[x], sys, member, v) : Commit(x, o)
    BY <2>2
  <2>4. Call(x)
    BY <1>9 DEF DoChange
  <2>5. Moves(obj[x], sys, o.m, o.s) /\ Lives(o.m)
    BY <1>1, <2>2, <2>4, ChangeIs
  <2> QED
    BY <1>2, <2>3, <2>5, <2>4
<1>10. ASSUME NEW x \in Objects, DoChangePath(x)
       PROVE  FilesInv'
  <2>1. PICK p \in Paths : \E o \in ChangePath(obj[x], sys, p) : Commit(x, o)
    BY <1>10 DEF DoChangePath
  <2>2. PICK o \in ChangePath(obj[x], sys, p) : Commit(x, o)
    BY <2>1
  <2>3. Moves(obj[x], sys, o.m, o.s) /\ Lives(o.m)
    BY <1>1, <1>10, ChangePathIs DEF DoChangePath
  <2> QED
    BY <1>2, <2>2, <2>3, <1>10 DEF DoChangePath
<1>11. CASE \E x \in Objects : Construct(x) \/ Destroy(x)
    BY <1>11, ConstructInv, DestroyInv
<1>12. CASE \E x \in Objects : \E y \in Objects \ {x} : MoveConstruct(x, y) \/ MoveAssign(x, y)
    BY <1>12, MoveConstructInv, MoveAssignInv
<1> QED
    BY <1>3, <1>4, <1>5, <1>6, <1>7, <1>8, <1>9, <1>10, <1>11, <1>12, GrowInv DEF Next

-----------------------------------------------------------------------------
\* A window in its region shows the file, unit by unit.
LEMMA WindowIs ==
    ASSUME NEW m, NEW s, SystemOK(s), ObjectOK(m, s), m.mapped
    PROVE  /\ m.rStart <= m.data /\ End(m) <= m.rEnd
           /\ ~m.skewed => \A i \in 0 .. m.size - 1 :
                  /\ <<(m.data + i) \div Page, m.path, (m.offset + i) \div Page>> \in s.pages
                  /\ (m.data + i) % Page = (m.offset + i) % Page
                  /\ m.path \in s.cut \/ m.offset + i < RoundSize(s.len[m.path])
<1>1. PICK a, k \in Nat \ {0} : RegionIs(m, s, a, k)
    BY DEF ObjectOK, MappedOK
<1>2. /\ m.size \in Int /\ m.offset \in Int /\ m.data \in Int
      /\ m.path \in Paths /\ s.len[m.path] \in Int
    BY DEF ObjectOK, MemberTypes, MappedOK, OpenOK, SystemOK
<1>3. m.rStart <= m.data /\ End(m) <= m.rEnd
    BY <1>1 DEF RegionIs
<1> SUFFICES ASSUME ~m.skewed, NEW i \in 0 .. m.size - 1
             PROVE  /\ <<(m.data + i) \div Page, m.path, (m.offset + i) \div Page>> \in s.pages
                    /\ (m.data + i) % Page = (m.offset + i) % Page
                    /\ m.path \in s.cut \/ m.offset + i < RoundSize(s.len[m.path])
    BY <1>3
<1>4. PICK f \in Nat : Backed(m, s, a, k, f)
    BY <1>1 DEF RegionIs
<1> DEFINE j == m.data + i - a * Page
           c == j \div Page
           r == j % Page
<1>5. /\ a \in Int /\ k \in Int /\ f \in Int /\ i \in Int /\ a * Page \in Int /\ k * Page \in Int
      /\ f * Page \in Int /\ (a + k) * Page = a * Page + k * Page /\ (f + k) * Page = f * Page + k * Page
  <2>1. a \in Int /\ k \in Int /\ f \in Int /\ i \in Int
    OBVIOUS
  <2> QED
    BY <2>1, Multiple, Sum
<1>6. j \in Int /\ j >= 0 /\ j < k * Page /\ m.data + i = a * Page + j /\ m.offset + i = f * Page + j
    BY <1>1, <1>2, <1>3, <1>4, <1>5 DEF RegionIs, End, Backed
<1> HIDE DEF j
<1>7. c \in Int /\ r \in 0 .. Page - 1 /\ j = c * Page + r
    BY <1>6, Quotient
<1> HIDE DEF c, r
<1>8. c * Page \in Int /\ (a + c) * Page = a * Page + c * Page /\ (f + c) * Page = f * Page + c * Page
    BY <1>5, <1>7, Multiple, Sum
<1>9. c \in 0 .. k - 1
  <2>1. ~(c < 0)
    <3>1. c < 0 => c * Page + Page <= 0 * Page
      BY <1>7, Times
    <3>2. 0 * Page = 0
      BY PageFacts
    <3> QED
      BY <1>6, <1>7, <1>8, <3>1, <3>2, PageFacts
  <2>2. ~(k <= c)
    <3>1. k <= c => k * Page <= c * Page
      BY <1>5, <1>7, Times
    <3> QED
      BY <1>5, <1>6, <1>7, <1>8, <3>1, PageFacts
  <2> QED
    BY <1>5, <1>7, <2>1, <2>2
<1>10. m.data + i = (a + c) * Page + r /\ m.offset + i = (f + c) * Page + r
  <2>1. r \in Int
    BY <1>7, PageFacts
  <2> QED
    BY <1>5, <1>6, <1>7, <1>8, <2>1
<1>11. /\ (m.data + i) \div Page = a + c /\ (m.data + i) % Page = r
       /\ (m.offset + i) \div Page = f + c /\ (m.offset + i) % Page = r
  <2>1. a + c \in Int /\ f + c \in Int
    BY <1>5, <1>7
  <2>2. /\ ((a + c) * Page + r) \div Page = a + c /\ ((a + c) * Page + r) % Page = r
        /\ ((f + c) * Page + r) \div Page = f + c /\ ((f + c) * Page + r) % Page = r
    BY <1>7, <2>1, QuotientIs
  <2> QED
    BY <1>10, <2>2, Zenon
<1>12. <<a + c, m.path, f + c>> \in s.pages
    BY <1>4, <1>9 DEF Backed, Region
<1>13. <<(m.data + i) \div Page, m.path, (m.offset + i) \div Page>> \in s.pages
    BY <1>11, <1>12, Zenon
<1>14. m.path \in s.cut \/ m.offset + i < RoundSize(s.len[m.path])
  <2>1. RoundSize(s.len[m.path]) \in Int
    BY <1>2, Rounded
  <2> QED
    BY <1>2, <1>4, <1>5, <1>6, <2>1 DEF Backed
<1> QED
    BY <1>11, <1>13, <1>14, Zenon

\* What the invariant of the files is for.
LEMMA FilesFacts == FilesInv => PagesAccounted /\ WindowShowsFile
<1> SUFFICES ASSUME FilesInv PROVE PagesAccounted /\ WindowShowsFile
    OBVIOUS
<1>1. SystemOK(sys) /\ \A x \in Objects : ObjectOK(obj[x], sys)
    BY DEF FilesInv, FilesOK
<1>2. PagesAccounted
  <2>1. \A x \in Objects : RegionPages(obj[x]) \subseteq Taken(sys)
    BY <1>1, RegionTaken
  <2>2. ~sys.lost => Taken(sys) = UNION {RegionPages(obj[x]) : x \in Objects}
    BY <2>1 DEF FilesInv, FilesOK
  <2> QED
    BY <2>2 DEF PagesAccounted, FilesInv, FilesOK
<1>3. WindowShowsFile
  <2> SUFFICES ASSUME NEW x \in Objects, obj[x].mapped
               PROVE  LET m == obj[x]
                      IN  /\ m.rStart <= m.data /\ End(m) <= m.rEnd
                          /\ ~m.skewed => \A i \in 0 .. m.size - 1 :
                                 /\ Shows(m.path, m.data + i, m.offset + i)
                                 /\ m.path \in sys.cut \/ m.offset + i < RoundSize(sys.len[m.path])
    BY DEF WindowShowsFile
  <2> QED
    BY <1>1, WindowIs DEF Shows
<1> QED
    BY <1>2, <1>3

\* The invariant of the files, in a behaviour of the units.
LEMMA FilesUnits ==
    /\ UnitsInit => FilesInv
    /\ FilesInv /\ [UnitsNext /\ UNCHANGED unit]_<<unit, vars, fdVars, obsVars, vecVars>>
       => FilesInv'
<1>1. UnitsInit => FilesInv
    BY FilesInit DEF UnitsInit
<1>2. ASSUME FilesInv, Next \/ UNCHANGED vars
      PROVE  FilesInv'
  <2>1. CASE UNCHANGED vars
    <3>1. obj' = obj /\ sys' = sys /\ at' = at /\ local' = local
      BY <2>1 DEF vars
    <3> QED
      BY <1>2, <3>1 DEF FilesInv, StagesOK
  <2> QED
    BY <1>2, <2>1, FilesNext
<1> QED
    BY <1>1, <1>2 DEF UnitsNext

(* Unit i of a window, from Begin(), is unit StartOffset() + i of the file *)
(* and lies inside its last page (mapped_file.cpp:32), whatever calls,     *)
(* failures of system calls and growing files came before, for any number  *)
(* of objects and files, any page size and any parameters: what TurnNext,  *)
(* Resize, the Change methods and a failed Map leave in offset_, size_ and *)
(* data_ agrees with what is mapped, until a Resize of a region whose      *)
(* window did not begin with it.                                           *)
THEOREM WindowsShowTheFile == UnitsSpec => []WindowShowsFile
<1>1. FilesInv => WindowShowsFile
    BY FilesFacts
<1> QED
    BY <1>1, FilesUnits, PTL DEF UnitsSpec

(* No two objects have a page in common, and no page is without an object  *)
(* until a TurnNext that leaves Unmap too small a size_, or an object that *)
(* goes with a failed munmap, has written some off (mapped_file.cpp:256,   *)
(* :374, :480), for any number of objects, also through moves, failed      *)
(* calls and regions that mremap moves.                                    *)
THEOREM PagesHaveOneObject == UnitsSpec => []PagesAccounted
<1>1. FilesInv => PagesAccounted
    BY FilesFacts
<1> QED
    BY <1>1, FilesUnits, PTL DEF UnitsSpec
=============================================================================
