------------------------ MODULE IOEventReactorProofs ------------------------
(***************************************************************************)
(* IOEventReactor keeps epoll informed and calls a stopped handler back at *)
(* most once, for any handlers, descriptors and threads.                   *)
(***************************************************************************)
EXTENDS IOEventReactor, WellFoundedInduction, TLAPS

Elems(q) == {q[i] : i \in DOMAIN q}
Once(q) == \A i, j \in DOMAIN q : q[i] = q[j] => i = j
Unique(X) == \A t, u \in X : t = u

-----------------------------------------------------------------------------
(* The inductive invariant.                                                *)

EventNames == {"READ", "WRITE"} \union UNION Masks
EpollFlags == {"IN", "PRI", "OUT", "ERR"}

Calls == [op   : {"idle", "add", "upd", "rem", "clean"},
          h    : Handlers \union {None},
          fds  : Seq(Fds),
          step : {"none", "lock", "clean", "mask", "ctl", "store"},
          mask : SUBSET EventNames]

Loops == [pc    : {"out", "top", "lock", "poll", "handle"},
          got   : SUBSET (Fds \X SUBSET {"CLOSE", "ERROR", "READ", "WRITE"}),
          tasks : Seq(Handlers)]

TypeOK ==
    /\ events \in [Handlers -> SUBSET EventNames]
    /\ active \in [Handlers -> BOOLEAN]
    /\ slot \in [Fds -> SUBSET EventNames]
    /\ size \in InitFdNums .. 2 * MaxFd
    /\ kernel \in [Fds -> (SUBSET EpollFlags) \union {Unregistered}]
    /\ call \in [Apps -> Calls]
    /\ loop \in Loops
    /\ late \in [Handlers -> Nat]

\* A handler is linked once, to the list of its descriptor, which has a slot.
ListAt(f) ==
    /\ Once(list[f])
    /\ \A h \in Elems(list[f]) : FdOf[h] = f
    /\ list[f] # <<>> => f < size
ListInv == list \in [Fds -> Seq(Handlers)] /\ \A f \in Fds : ListAt(f)

\* A thread inside UpdateToDemultiplexer.
Syncs(t) == call[t].step \in {"mask", "ctl", "store"}

\* What a call is about, and what it relies on between its steps.
CallOf(t) ==
    LET c == call[t]
    IN  /\ c.op = "idle" => c = Idle
        /\ c.op \in {"add", "upd", "rem"} => c.h \in Handlers /\ c.fds = <<FdOf[c.h]>>
        /\ c.op = "clean" => c.h = None
        /\ c.step = "clean" => c.op = "clean"
        /\ Syncs(t) => c.op # "idle" /\ c.fds # <<>>
        /\ c.op = "add" /\ c.step = "lock" => ~Linked(c.h)
        /\ c.op = "rem" /\ Syncs(t) => ~Linked(c.h)
CallInv ==
    /\ \A t \in Apps : CallOf(t)
    /\ \A t, u \in Apps : call[t].h = call[u].h => t = u \/ call[t].h = None

\* The threads between the mask and the store of f, and those about to store.
syncers == [f \in Fds |-> {t \in Apps : Syncs(t) /\ Head(call[t].fds) = f}]
storing == [f \in Fds |-> {t \in syncers[f] : call[t].step = "store"}]

\* The events epoll was last told of.
Told(f) == IF storing[f] # {} THEN Union(f) ELSE slot[f]

SyncAt(f) ==
    /\ Unique(syncers[f])
    /\ \A t \in syncers[f] : /\ call[t].step # "mask" => call[t].mask = Union(f)
                             /\ call[t].step = "ctl" => call[t].mask # slot[f]
    /\ f \in interest <=> Told(f) # {}
    /\ kernel[f] = IF Told(f) = {} THEN Unregistered ELSE Reactor2Epoll(Told(f))
    /\ \A h \in Elems(list[f]) : ~Busy(h) => events[h] \subseteq slot[f]
SyncInv == \A f \in Fds \ trouble : SyncAt(f)

\* A handler that is stopped is not linked; it may be in taskQue once.
LateInv ==
    /\ Once(loop.tasks)
    /\ \A h \in Elems(loop.tasks) : late[h] = 0
    /\ \A h \in Handlers : /\ late[h] <= 1
                           /\ h \notin stopped => late[h] = 0
                           /\ h \in stopped => ~Linked(h)

Inv == TypeOK /\ ListInv /\ CallInv /\ SyncInv /\ LateInv
-----------------------------------------------------------------------------
(* Sequences.                                                              *)

\* A nonempty set of numbers has a least element: the form of induction used
\* below, without a predicate as a parameter.
LEMMA Least ==
    ASSUME NEW T, T \subseteq Nat, T # {}
    PROVE  \E n \in T : \A m \in T : n <= m
<1> DEFINE R == {p \in Nat \X Nat : p[1] < p[2]}
<1>1. IsWellFoundedOn(R, Nat)
    BY NatLessThanWellFounded, Zenon DEF OpToRel
<1>2. PICK n \in T : \A m \in T : ~(<<m, n>> \in R)
    BY <1>1, WFMin
<1>3. ASSUME NEW m \in T
      PROVE  n <= m
  <2>1. <<m, n>> \in Nat \X Nat /\ <<m, n>>[1] = m /\ <<m, n>>[2] = n /\ <<m, n>> \notin R
    BY <1>2
  <2>2. ~(m < n)
    BY <2>1
  <2> QED
    BY <2>2
<1> QED
    BY <1>3

\* push_back adds one element.
LEMMA PushedBack ==
    ASSUME NEW S, NEW s \in Seq(S), NEW e \in S
    PROVE  /\ Append(s, e) \in Seq(S) /\ Elems(Append(s, e)) = Elems(s) \union {e}
           /\ Once(s) /\ e \notin Elems(s) => Once(Append(s, e))
<1>1. /\ Len(s) \in Nat /\ DOMAIN s = 1 .. Len(s)
      /\ Append(s, e) \in Seq(S) /\ DOMAIN Append(s, e) = 1 .. Len(s) + 1
      /\ \A i \in 1 .. Len(s) : Append(s, e)[i] = s[i]
      /\ Append(s, e)[Len(s) + 1] = e
    OBVIOUS
<1>2. \A i \in 1 .. Len(s) + 1 : i = Len(s) + 1 \/ i \in 1 .. Len(s)
    BY <1>1
<1>3. Elems(Append(s, e)) = Elems(s) \union {e}
    BY <1>1, <1>2 DEF Elems
<1>4. ASSUME Once(s), e \notin Elems(s)
      PROVE  Once(Append(s, e))
  <2>1. \A i \in 1 .. Len(s) : s[i] # e
    BY <1>1, <1>4 DEF Elems
  <2> QED
    BY <1>1, <1>2, <1>4, <2>1 DEF Once
<1> QED
    BY <1>1, <1>3, <1>4

\* push_front adds one element.
LEMMA PushedFront ==
    ASSUME NEW S, NEW s \in Seq(S), NEW e \in S
    PROVE  /\ <<e>> \o s \in Seq(S) /\ Elems(<<e>> \o s) = Elems(s) \union {e}
           /\ Once(s) /\ e \notin Elems(s) => Once(<<e>> \o s)
           /\ <<e>> \o s # <<>>
<1> DEFINE q == <<e>> \o s
<1>1. Len(s) \in Nat /\ DOMAIN s = 1 .. Len(s)
    OBVIOUS
<1>2. /\ q \in Seq(S) /\ DOMAIN q = 1 .. Len(s) + 1 /\ q # <<>>
      /\ q[1] = e
      /\ \A i \in 1 .. Len(s) : q[i + 1] = s[i]
    OBVIOUS
<1> HIDE DEF q
<1>3. \A i \in 1 .. Len(s) + 1 : i = 1 \/ (i - 1 \in 1 .. Len(s) /\ i = (i - 1) + 1)
    BY <1>1
<1>4. Elems(q) = Elems(s) \union {e}
  <2>1. Elems(q) \subseteq Elems(s) \union {e}
    <3>1. ASSUME NEW i \in 1 .. Len(s) + 1, i # 1
          PROVE  q[i] = s[i - 1] /\ i - 1 \in 1 .. Len(s)
      <4>1. i - 1 \in 1 .. Len(s) /\ i = (i - 1) + 1
        BY <1>3, <3>1
      <4> QED
        BY <1>2, <4>1
    <3> QED
      BY <1>1, <1>2, <3>1 DEF Elems
  <2>2. Elems(s) \union {e} \subseteq Elems(q)
    <3>1. ASSUME NEW i \in 1 .. Len(s)
          PROVE  s[i] \in Elems(q)
      <4>1. i + 1 \in 1 .. Len(s) + 1
        BY <1>1
      <4> QED
        BY <1>2, <4>1 DEF Elems
    <3>2. e \in Elems(q)
      BY <1>1, <1>2 DEF Elems
    <3> QED
      BY <1>1, <3>1, <3>2 DEF Elems
  <2> QED
    BY <2>1, <2>2
<1>5. ASSUME Once(s), e \notin Elems(s)
      PROVE  Once(q)
  <2>1. \A i \in 1 .. Len(s) : s[i] # e
    BY <1>1, <1>5 DEF Elems
  <2>2. ASSUME NEW i \in 1 .. Len(s) + 1, NEW j \in 1 .. Len(s) + 1, q[i] = q[j]
        PROVE  i = j
    <3>1. CASE i = 1 \/ j = 1
      BY <1>2, <1>3, <2>1, <2>2, <3>1
    <3>2. CASE i # 1 /\ j # 1
      <4>1. i - 1 \in 1 .. Len(s) /\ j - 1 \in 1 .. Len(s) /\ i = (i - 1) + 1 /\ j = (j - 1) + 1
        BY <1>3, <3>2
      <4>2. q[i] = s[i - 1] /\ q[j] = s[j - 1]
        BY <1>2, <4>1
      <4>3. i - 1 = j - 1
        BY <1>1, <1>5, <2>2, <4>1, <4>2 DEF Once
      <4> QED
        BY <4>1, <4>3
    <3> QED
      BY <3>1, <3>2
  <2> QED
    BY <1>2, <2>2 DEF Once
<1> QED
    BY <1>2, <1>4, <1>5 DEF q

\* Kept(s, K) has the elements of s that are in K, each as often as s.
LEMMA KeptIs ==
    ASSUME NEW S, NEW s \in Seq(S), NEW K
    PROVE  /\ Kept(s, K) \in Seq(S)
           /\ Elems(Kept(s, K)) = Elems(s) \intersect K
           /\ Once(s) => Once(Kept(s, K))
<1> DEFINE kept == CHOOSE g : g = [i \in 0 .. Len(s) |->
                                       IF i = 0 THEN <<>>
                                       ELSE IF s[i] \in K THEN Append(g[i - 1], s[i])
                                       ELSE g[i - 1]]
           Upto(m) == {s[i] : i \in 1 .. m}
           Good(m) == /\ kept[m] \in Seq(S)
                      /\ Elems(kept[m]) = Upto(m) \intersect K
                      /\ Once(s) => Once(kept[m])
           T == {m \in 0 .. Len(s) : ~Good(m)}
<1>1. Len(s) \in Nat /\ DOMAIN s = 1 .. Len(s) /\ \A i \in 1 .. Len(s) : s[i] \in S
    OBVIOUS
<1>2. \E g : g = [i \in 0 .. Len(s) |-> IF i = 0 THEN <<>>
                                        ELSE IF s[i] \in K THEN Append(g[i - 1], s[i])
                                        ELSE g[i - 1]]
  <2> DEFINE Next1(g, i) == IF i = 0 THEN <<>>
                            ELSE IF s[i] \in K THEN Append(g[i - 1], s[i]) ELSE g[i - 1]
             Solves(m) == \E g : g = [i \in 0 .. m |-> Next1(g, i)]
             U == {m \in 0 .. Len(s) : ~Solves(m)}
  <2>1. Len(s) \in Nat
      OBVIOUS
  <2>2. Solves(0)
    <3> DEFINE g == [i \in 0 .. 0 |-> <<>>]
    <3>1. g = [i \in 0 .. 0 |-> Next1(g, i)]
      OBVIOUS
    <3> QED
      BY <3>1
  <2>3. ASSUME NEW m \in 1 .. Len(s), Solves(m - 1)
        PROVE  Solves(m)
    <3>1. PICK g : g = [i \in 0 .. m - 1 |-> Next1(g, i)]
      BY <2>3
    <3> DEFINE k == [i \in 0 .. m |-> IF i = m THEN Next1(g, m) ELSE g[i]]
    <3>2. \A i \in 0 .. m - 1 : k[i] = g[i]
      BY <2>1
    <3>3. ASSUME NEW i \in 0 .. m
          PROVE  k[i] = Next1(k, i)
      <4>1. CASE i = m
        <5>1. k[i] = Next1(g, m) /\ k[m - 1] = g[m - 1]
          BY <2>1, <3>2, <4>1
        <5> QED
          BY <4>1, <5>1
      <4>2. CASE i = 0
        BY <3>1, <3>2, <4>2, <2>1
      <4>3. CASE i # m /\ i # 0
        <5>1. i \in 0 .. m - 1 /\ i - 1 \in 0 .. m - 1
          BY <2>1, <4>3
        <5>2. k[i] = g[i] /\ k[i - 1] = g[i - 1]
          BY <3>2, <5>1
        <5>3. g[i] = Next1(g, i)
          BY <3>1, <5>1
        <5> QED
          BY <5>2, <5>3, <4>3
      <4> QED
        BY <4>1, <4>2, <4>3
    <3>4. k = [i \in 0 .. m |-> k[i]]
      OBVIOUS
    <3> HIDE DEF k
    <3>5. k = [i \in 0 .. m |-> Next1(k, i)]
      BY <3>3, <3>4
    <3> QED
      BY <3>5
  <2> HIDE DEF Solves
  <2>4. U = {}
    <3>1. SUFFICES ASSUME U # {}
                   PROVE  FALSE
      OBVIOUS
    <3>2. U \subseteq Nat
      BY <2>1
    <3>3. PICK m \in U : \A j \in U : m <= j
      BY <3>1, <3>2, Least
    <3>4. m # 0 /\ m \in 0 .. Len(s)
      BY <2>2, <3>3
    <3>5. m - 1 \in 0 .. Len(s) /\ m \in 1 .. Len(s) /\ ~(m <= m - 1)
      BY <2>1, <3>4
    <3>6. Solves(m - 1)
      BY <3>3, <3>5
    <3> QED
      BY <2>3, <3>3, <3>5, <3>6
  <2>5. Solves(Len(s))
      BY <2>1, <2>4
  <2> QED
      BY <2>5 DEF Solves
<1>3. kept = [i \in 0 .. Len(s) |-> IF i = 0 THEN <<>>
                                    ELSE IF s[i] \in K THEN Append(kept[i - 1], s[i])
                                    ELSE kept[i - 1]]
    BY <1>2
<1>4. Kept(s, K) = kept[Len(s)]
    BY DEF Kept
<1> HIDE DEF kept
<1>5. Good(0)
  <2>1. kept[0] = <<>> /\ Upto(0) = {}
    BY <1>1, <1>3
  <2> QED
    BY <2>1 DEF Elems, Once
<1>6. ASSUME NEW m \in 1 .. Len(s), Good(m - 1)
      PROVE  Good(m)
  <2> DEFINE Next1(i) == IF i = 0 THEN <<>>
                         ELSE IF s[i] \in K THEN Append(kept[i - 1], s[i]) ELSE kept[i - 1]
  <2>6. m \in 0 .. Len(s) /\ m # 0 /\ s[m] \in S
    BY <1>1
  <2>7. kept = [i \in 0 .. Len(s) |-> Next1(i)]
    BY <1>3
  <2> HIDE DEF Next1
  <2>8. kept[m] = Next1(m)
    BY <2>6, <2>7
  <2>1. kept[m] = IF s[m] \in K THEN Append(kept[m - 1], s[m]) ELSE kept[m - 1]
    BY <2>6, <2>8, Zenon DEF Next1
  <2>2. Upto(m) = Upto(m - 1) \union {s[m]}
    <3>1. \A i \in 1 .. m : i = m \/ i \in 1 .. m - 1
      BY <1>1
    <3> QED
      BY <1>1, <3>1
  <2>3. Once(s) => s[m] \notin Upto(m - 1)
    <3>1. \A i \in 1 .. m - 1 : i # m /\ i \in DOMAIN s
      BY <1>1
    <3> QED
      BY <1>1, <3>1 DEF Once
  <2> HIDE DEF Upto
  <2>4. CASE s[m] \in K
    <3> DEFINE q == kept[m - 1]
    <3>4. q \in Seq(S)
      BY <1>6
    <3> HIDE DEF q
    <3>5. \A e \in S : /\ Append(q, e) \in Seq(S)
                       /\ Elems(Append(q, e)) = Elems(q) \union {e}
                       /\ Once(q) /\ e \notin Elems(q) => Once(Append(q, e))
      BY <3>4, PushedBack
    <3>1. /\ Append(q, s[m]) \in Seq(S) /\ Elems(Append(q, s[m])) = Elems(q) \union {s[m]}
          /\ Once(q) /\ s[m] \notin Elems(q) => Once(Append(q, s[m]))
      BY <3>5, <2>6, Zenon
    <3>2. Elems(q) = Upto(m - 1) \intersect K /\ (Once(s) => Once(q))
      BY <1>6 DEF q
    <3>3. kept[m] = Append(q, s[m])
      BY <2>1, <2>4 DEF q
    <3> QED
      BY <2>2, <2>3, <2>4, <3>1, <3>2, <3>3
  <2>5. CASE s[m] \notin K
    BY <1>6, <2>1, <2>2, <2>5
  <2> QED
    BY <2>4, <2>5
<1> HIDE DEF Good
<1>7. T = {}
  <2>1. SUFFICES ASSUME T # {}
                 PROVE  FALSE
    OBVIOUS
  <2>2. T \subseteq Nat
    BY <1>1
  <2>3. PICK m \in T : \A j \in T : m <= j
    BY <2>1, <2>2, Least
  <2>4. m # 0 /\ m \in 0 .. Len(s)
    BY <1>5, <2>3
  <2>5. m - 1 \in 0 .. Len(s) /\ m \in 1 .. Len(s) /\ ~(m <= m - 1)
    BY <1>1, <2>4
  <2>6. Good(m - 1)
    BY <2>3, <2>5
  <2> QED
    BY <1>6, <2>3, <2>5, <2>6
<1>8. Good(Len(s))
    BY <1>1, <1>7
<1>9. Upto(Len(s)) = Elems(s)
    BY <1>1 DEF Elems
<1> QED
    BY <1>4, <1>8, <1>9 DEF Good

\* What is left of a list behind its head.
LEMMA Tailed ==
    ASSUME NEW S, NEW s \in Seq(S), s # <<>>
    PROVE  /\ Head(s) \in S /\ Tail(s) \in Seq(S)
           /\ Head(s) \in Elems(s) /\ Elems(Tail(s)) \subseteq Elems(s)
           /\ Once(s) => Once(Tail(s)) /\ Head(s) \notin Elems(Tail(s))
<1>1. /\ Len(s) \in Nat /\ Len(s) > 0 /\ DOMAIN s = 1 .. Len(s)
      /\ Head(s) \in S /\ Head(s) = s[1]
      /\ Tail(s) \in Seq(S) /\ DOMAIN Tail(s) = 1 .. Len(s) - 1
      /\ \A i \in 1 .. Len(s) - 1 : Tail(s)[i] = s[i + 1]
    OBVIOUS
<1>2. \A i \in 1 .. Len(s) - 1 : i + 1 \in DOMAIN s /\ i + 1 # 1
    BY <1>1
<1>3. \A i, j \in 1 .. Len(s) - 1 : i + 1 = j + 1 => i = j
    BY <1>1
<1>4. 1 \in DOMAIN s
    BY <1>1
<1> QED
    BY <1>1, <1>2, <1>3, <1>4 DEF Elems, Once

-----------------------------------------------------------------------------
(* Descriptors, lists and unions.                                          *)

\* Every handler's descriptor has a place in the largest table.
LEMMA FdFacts ==
    /\ MaxFd \in Nat /\ MaxFd > 0 /\ InitFdNums \in Nat /\ InitFdNums > 0
    /\ InitFdNums <= 2 * MaxFd
    /\ Fds \subseteq Nat /\ \A f \in Nat : f < 2 * MaxFd => f \in Fds
    /\ FdOf \in [Handlers -> Fds] /\ \A h \in Handlers : FdOf[h] <= MaxFd
    /\ Events \in [Handlers -> Masks]
    /\ None \notin Handlers /\ None \notin Apps
    BY ReactorConstants DEF Fds

\* Linked speaks of the elements of the list of the handler's descriptor.
LEMMA LinkedIs ==
    ASSUME NEW h
    PROVE  Linked(h) <=> h \in Elems(list[FdOf[h]])
    BY DEF Linked, Elems

\* The same in the next state.
LEMMA LinkedIsNext ==
    ASSUME NEW h
    PROVE  Linked(h)' <=> h \in Elems(list'[FdOf[h]])
    BY DEF Linked, Elems

\* The mask that UpdateToDemultiplexer computes holds the events of every
\* handler of the list, and no other.
LEMMA UnionIs ==
    ASSUME NEW f
    PROVE  \A e : e \in Union(f) <=> \E h \in Elems(list[f]) : e \in events[h]
    BY DEF Union, Elems

\* The same in the next state.
LEMMA UnionIsNext ==
    ASSUME NEW f
    PROVE  \A e : e \in Union(f)' <=> \E h \in Elems(list'[f]) : e \in events'[h]
    BY DEF Union, Elems

\* The union depends on the list and on the events of its handlers alone.
LEMMA UnionSame ==
    ASSUME NEW f, list'[f] = list[f], \A h \in Elems(list[f]) : events'[h] = events[h]
    PROVE  Union(f)' = Union(f)
    BY UnionIs, UnionIsNext

\* The union is a set of events.
LEMMA UnionType ==
    ASSUME TypeOK, ListInv, NEW f \in Fds
    PROVE  Union(f) \subseteq EventNames
<1>1. Elems(list[f]) \subseteq Handlers
    BY DEF ListInv, Elems
<1> QED
    BY <1>1, UnionIs DEF TypeOK

\* The elements of an empty list, and of one that is not.
LEMMA ElemsEmpty ==
    ASSUME NEW S, NEW s \in Seq(S)
    PROVE  s = <<>> <=> Elems(s) = {}
<1>1. Len(s) \in Nat /\ DOMAIN s = 1 .. Len(s)
    OBVIOUS
<1>2. ASSUME s = <<>>
      PROVE  Elems(s) = {}
    BY <1>2 DEF Elems
<1>3. ASSUME s # <<>>
      PROVE  Elems(s) # {}
  <2>1. 1 \in DOMAIN s
    BY <1>3
  <2> QED
    BY <2>1 DEF Elems
<1> QED
    BY <1>2, <1>3

-----------------------------------------------------------------------------
(* How a step of one thread moves the parts of the invariant.              *)

\* A thread other than t keeps what its call relies on, if t links no handler
\* but its own.
LEMMA CallsStep ==
    ASSUME TypeOK, CallInv, NEW t \in Apps, NEW c \in Calls,
           call' = [call EXCEPT ![t] = c],
           \A h \in Handlers : Linked(h)' => Linked(h) \/ h = call[t].h,
           \/ c.h = None
           \/ c.h = call[t].h
           \/ ~Busy(c.h),
           CallOf(t)'
    PROVE  CallInv' /\ call' \in [Apps -> Calls]
<1>1. /\ call \in [Apps -> Calls] /\ call' \in [Apps -> Calls]
      /\ call'[t] = c /\ \A u \in Apps \ {t} : call'[u] = call[u]
    BY DEF TypeOK
<1>2. ASSUME NEW u \in Apps \ {t}
      PROVE  CallOf(u)'
  <2>1. /\ CallOf(u) /\ call'[u] = call[u]
        /\ call[u].h = call[t].h => call[u].h = None
    BY <1>1 DEF CallInv
  <2>2. call[u].op \in {"add", "upd", "rem"} => call[u].h \in Handlers
    BY <2>1 DEF CallOf
  <2>3. call[u].op \in {"add", "rem"} => (Linked(call[u].h)' => Linked(call[u].h))
    BY <2>1, <2>2, FdFacts
  <2> QED
    BY <2>1, <2>2, <2>3 DEF CallOf, Syncs, Idle, Linked
<1>3. ASSUME NEW u \in Apps, NEW v \in Apps, call'[u].h = call'[v].h
      PROVE  u = v \/ call'[u].h = None
    BY <1>1, <1>3 DEF CallInv, Busy
<1> QED
    BY <1>1, <1>2, <1>3 DEF CallInv

\* What t does elsewhere leaves a descriptor in order.
LEMMA SyncElsewhere ==
    ASSUME TypeOK, NEW f \in Fds, SyncAt(f), NEW t \in Apps, NEW c \in Calls,
           call' = [call EXCEPT ![t] = c],
           t \notin syncers[f], t \notin syncers'[f],
           list'[f] = list[f], slot'[f] = slot[f], kernel'[f] = kernel[f],
           f \in interest' <=> f \in interest,
           \A h \in Elems(list[f]) : /\ events'[h] = events[h]
                                     /\ h # call[t].h \/ h = c.h
    PROVE  SyncAt(f)'
<1>1. /\ call \in [Apps -> Calls] /\ call' \in [Apps -> Calls]
      /\ call'[t] = c /\ \A u \in Apps \ {t} : call'[u] = call[u]
    BY DEF TypeOK
<1>2. /\ syncers'[f] = syncers[f]
      /\ \A u \in syncers[f] : u \in Apps /\ call'[u] = call[u]
    BY <1>1 DEF syncers, Syncs
<1>3. storing'[f] = storing[f]
    BY <1>2 DEF storing
<1>4. Union(f)' = Union(f)
    BY UnionSame
<1>5. Told(f)' = Told(f)
    BY <1>3, <1>4 DEF Told
<1>6. \A h \in Elems(list[f]) : Busy(h) => Busy(h)'
    BY <1>1 DEF Busy
<1> QED
    BY <1>2, <1>4, <1>5, <1>6 DEF SyncAt, Unique

\* On a descriptor where no thread is between the mask and the store, the
\* slot is what epoll was told; a thread may begin there.
LEMMA SyncBegins ==
    ASSUME NEW f \in Fds, SyncAt(f), NEW t \in Apps,
           syncers[f] = {}, syncers'[f] \subseteq {t},
           t \in syncers'[f] => call'[t].step = "mask",
           slot'[f] = slot[f], kernel'[f] = kernel[f],
           f \in interest' <=> f \in interest,
           \A h \in Elems(list'[f]) : Busy(h)' \/ events'[h] \subseteq slot[f]
    PROVE  SyncAt(f)'
<1>1. storing[f] = {} /\ storing'[f] = {}
    BY DEF storing
<1>2. Told(f) = slot[f] /\ Told(f)' = slot[f]
    BY <1>1 DEF Told
<1> QED
    BY <1>2 DEF SyncAt, Unique

\* The thread that ends leaves the slot with the union epoll was told.
LEMMA SyncEnds ==
    ASSUME NEW f \in Fds, SyncAt(f),
           syncers'[f] = {}, slot'[f] = Told(f), Told(f) = Union(f),
           list'[f] = list[f], kernel'[f] = kernel[f],
           f \in interest' <=> f \in interest,
           \A h \in Elems(list[f]) : events'[h] = events[h]
    PROVE  SyncAt(f)'
<1>1. storing'[f] = {}
    BY DEF storing
<1>2. Told(f)' = Told(f)
    BY <1>1 DEF Told
<1>3. \A h \in Elems(list'[f]) : events'[h] \subseteq slot'[f]
    BY UnionIs
<1> QED
    BY <1>2, <1>3 DEF SyncAt, Unique

\* The call that is in no step of UpdateToDemultiplexer is not a syncer, one
\* that is, is the syncer of the descriptor at the head of its list.
LEMMA SyncersAre ==
    ASSUME NEW f \in Fds, NEW t \in Apps
    PROVE  /\ t \in syncers[f] <=> Syncs(t) /\ Head(call[t].fds) = f
           /\ t \in syncers'[f] <=> Syncs(t)' /\ Head(call'[t].fds) = f
           /\ t \in storing[f] <=> call[t].step = "store" /\ Head(call[t].fds) = f
    BY DEF syncers, storing, Syncs

\* With no overlap noted, only t itself may be between mask and store.
LEMMA NoOverlap ==
    ASSUME TypeOK, CallInv, NEW f \in Fds, NEW t, Overlap(t, f) = {}
    PROVE  syncers[f] \subseteq {t}
<1>1. Syncing(t, f) = {}
    BY DEF Overlap
<1> QED
    BY <1>1 DEF Syncing, syncers, Syncs, CallInv, CallOf

\* A step that touches nothing SyncInv speaks of.
LEMMA SyncSame ==
    ASSUME SyncInv, UNCHANGED <<list, events, slot, epoll, call, trouble>>
    PROVE  SyncInv'
<1>1. UNCHANGED <<syncers, storing>>
    BY DEF syncers, storing, Syncs
<1>2. ASSUME NEW f \in Fds \ trouble
      PROVE  SyncAt(f)'
  <2>1. UNCHANGED <<Union(f), Told(f)>>
    BY <1>1 DEF Union, Told
  <2>2. \A h : Busy(h)' <=> Busy(h)
    BY DEF Busy
  <2> QED
    BY <1>1, <2>1, <2>2 DEF SyncInv, SyncAt, Unique, epoll
<1> QED
    BY <1>2 DEF SyncInv

-----------------------------------------------------------------------------
(* One lemma per step: it keeps the invariant.                             *)

\* A new reactor satisfies the invariant.
LEMMA InitInv ==
    ASSUME Init
    PROVE  Inv
<1> USE FdFacts, ReactorConstants
<1>1. \A f \in Fds : Elems(list[f]) = {}
    BY DEF Init, Elems
<1>2. TypeOK
  <2>1. events \in [Handlers -> SUBSET EventNames]
    BY DEF Init, EventNames
  <2>2. Idle \in Calls
    BY DEF Idle, Calls
  <2>3. size \in InitFdNums .. 2 * MaxFd
    BY DEF Init
  <2>4. kernel \in [Fds -> (SUBSET EpollFlags) \union {Unregistered}]
    BY DEF Init
  <2>5. loop \in Loops
    BY DEF Init, Loops
  <2> QED
    BY <2>1, <2>2, <2>3, <2>4, <2>5 DEF Init, TypeOK
<1>3. ListInv
    BY <1>1 DEF Init, ListInv, ListAt, Once
<1>4. CallInv
    BY DEF Init, CallInv, CallOf, Idle, Syncs
<1>5. SyncInv
  <2>1. ASSUME NEW f \in Fds
        PROVE  SyncAt(f)
    <3>1. syncers[f] = {} /\ storing[f] = {}
      BY DEF Init, syncers, storing, Syncs, Idle
    <3>2. Told(f) = {}
      BY <3>1 DEF Told, Init
    <3> QED
      BY <1>1, <3>1, <3>2 DEF SyncAt, Unique, Init
  <2> QED
    BY <2>1 DEF SyncInv
<1>6. LateInv
    BY DEF Init, LateInv, Once, Elems
<1> QED
    BY <1>2, <1>3, <1>4, <1>5, <1>6 DEF Inv

\* A step that changes only the loop's position, its batch, the flags, the
\* conditions and the budget.
LEMMA Quiet ==
    ASSUME Inv,
           UNCHANGED <<list, events, active, slot, size, epoll, call, ghosts>>,
           loop' \in Loops, loop'.tasks = loop.tasks
    PROVE  Inv'
<1>1. TypeOK'
    BY DEF Inv, TypeOK, ghosts, epoll
<1>2. ListInv'
    BY DEF Inv, ListInv, ListAt
<1>3. CallInv'
    BY DEF Inv, CallInv, CallOf, Syncs, Linked
<1>4. SyncInv'
    BY SyncSame DEF Inv, ghosts
<1>5. LateInv'
    BY DEF Inv, LateInv, Linked, ghosts
<1> QED
    BY <1>1, <1>2, <1>3, <1>4, <1>5 DEF Inv

\* The steps of Run up to HandleAll, and the world around it.
LEMMA LoopQuiet ==
    ASSUME Inv, Run \/ LoopTop \/ LockToPoll \/ Polling \/ PollFails \/ Control \/ Arrive
    PROVE  Inv'
<1>1. loop \in Loops
    BY DEF Inv, TypeOK
<1>2. /\ UNCHANGED <<list, events, active, slot, size, epoll, call, ghosts>>
      /\ loop' \in Loops /\ loop'.tasks = loop.tasks
  <2>1. CASE Run
    BY <1>1, <2>1 DEF Run, Goto, Loops, objects
  <2>2. CASE LoopTop
    BY <1>1, <2>2 DEF LoopTop, Goto, Loops, objects
  <2>3. CASE LockToPoll
    BY <1>1, <2>3 DEF LockToPoll, Goto, Loops, objects
  <2>4. CASE Polling
    <3> DEFINE got == {<<f, Epoll2Reactor(Reported(f))>> : f \in ReadyFds}
    <3>1. got \in SUBSET (Fds \X SUBSET {"CLOSE", "ERROR", "READ", "WRITE"})
      BY DEF ReadyFds, Epoll2Reactor
    <3> HIDE DEF got
    <3>2. \/ loop' = [loop EXCEPT !.pc = "handle", !.got = got]
          \/ loop' = [loop EXCEPT !.pc = "top"]
      BY <2>4 DEF Polling, Goto, got
    <3> QED
      BY <1>1, <2>4, <3>1, <3>2 DEF Polling, Loops, objects
  <2>5. CASE PollFails
    BY <1>1, <2>5 DEF PollFails, Goto, Loops, objects
  <2>6. CASE Control
    BY <1>1, <2>6 DEF Control, objects
  <2>7. CASE Arrive
    BY <1>1, <2>7 DEF Arrive, objects
  <2> QED
    BY <2>1, <2>2, <2>3, <2>4, <2>5, <2>6, <2>7
<1> QED
    BY <1>2, Quiet

\* HandleEvents copies handlers that are linked, and so not stopped.
LEMMA HandleEventsInv ==
    ASSUME Inv, HandleEvents
    PROVE  Inv'
<1>1. loop \in Loops
    BY DEF Inv, TypeOK
<1>2. PICK g \in loop.got :
          Handle(loop.got \ {g}, IF slot[g[1]] \intersect g[2] = {} THEN <<>>
                                 ELSE Collect(g[1], g[2]))
    BY DEF HandleEvents
<1> DEFINE f == g[1]
           q == Collect(f, g[2])
<1>3. f \in Fds
    BY <1>1 DEF Loops
<1>4. list[f] \in Seq(Handlers) /\ ListAt(f)
    BY <1>3 DEF Inv, ListInv
<1>5. q \in Seq(Handlers) /\ Once(q) /\ Elems(q) \subseteq Elems(list[f])
    BY <1>4, KeptIs DEF Collect, ListAt
<1>6. /\ <<>> \in Seq(Handlers) /\ Once(<<>>) /\ Elems(<<>>) = {}
    BY DEF Once, Elems
<1> HIDE DEF q
<1>7. loop'.tasks \in {<<>>, q} /\ loop' \in Loops
    BY <1>1, <1>2, <1>5, <1>6 DEF Handle, Loops, q
<1>8. UNCHANGED <<list, events, active, slot, size, epoll, call, ghosts>>
    BY DEF HandleEvents, objects
<1>9. TypeOK'
    BY <1>7, <1>8 DEF Inv, TypeOK, ghosts, epoll
<1>10. ListInv'
    BY <1>8 DEF Inv, ListInv, ListAt
<1>11. CallInv'
    BY <1>8 DEF Inv, CallInv, CallOf, Syncs, Linked
<1>12. SyncInv'
    BY <1>8, SyncSame DEF Inv, ghosts
<1>13. LateInv'
  <2>1. ASSUME NEW h \in Elems(list[f])
        PROVE  late[h] = 0
    <3>1. h \in Handlers /\ FdOf[h] = f
      BY <1>4, <2>1 DEF ListAt, Elems
    <3>2. Linked(h)
      BY <2>1, <3>1, LinkedIs
    <3> QED
      BY <3>1, <3>2 DEF Inv, LateInv
  <2>2. Once(loop'.tasks) /\ \A h \in Elems(loop'.tasks) : late[h] = 0
    BY <1>5, <1>6, <1>7, <2>1
  <2>3. \A h \in Handlers : Linked(h)' <=> Linked(h)
    BY <1>8 DEF Linked
  <2> QED
    BY <1>8, <2>2, <2>3 DEF Inv, LateInv, ghosts
<1> QED
    BY <1>9, <1>10, <1>11, <1>12, <1>13 DEF Inv

\* Execute runs the callback of one copy and drops it.
LEMMA ExecuteInv ==
    ASSUME Inv, Execute
    PROVE  Inv'
<1> DEFINE h == Head(loop.tasks)
<1>1. loop \in Loops /\ loop.tasks \in Seq(Handlers) /\ loop.tasks # <<>>
    BY DEF Inv, TypeOK, Loops, Execute
<1>2. /\ h \in Handlers /\ Tail(loop.tasks) \in Seq(Handlers)
      /\ h \in Elems(loop.tasks) /\ Elems(Tail(loop.tasks)) \subseteq Elems(loop.tasks)
      /\ Once(Tail(loop.tasks)) /\ h \notin Elems(Tail(loop.tasks))
    BY <1>1, Tailed DEF Inv, LateInv
<1>3. loop'.tasks = Tail(loop.tasks) /\ loop' \in Loops
    BY <1>1, <1>2 DEF Execute, Handle, Rest, Loops
<1>4. /\ UNCHANGED <<list, events, active, slot, size, epoll, call, trouble, stopped>>
      /\ late' = IF h \in stopped THEN [late EXCEPT ![h] = @ + 1] ELSE late
    BY DEF Execute, objects
<1> HIDE DEF h
<1>5. late \in [Handlers -> Nat] /\ late[h] = 0
    BY <1>2 DEF Inv, TypeOK, LateInv
<1>6. /\ late' \in [Handlers -> Nat] /\ \A g \in Handlers \ {h} : late'[g] = late[g]
      /\ late'[h] <= 1 /\ (h \notin stopped => late'[h] = 0)
    BY <1>2, <1>4, <1>5
<1>9. TypeOK'
    BY <1>3, <1>4, <1>6 DEF Inv, TypeOK, epoll
<1>10. ListInv'
    BY <1>4 DEF Inv, ListInv, ListAt
<1>11. CallInv'
    BY <1>4 DEF Inv, CallInv, CallOf, Syncs, Linked
<1>12. SyncInv'
    BY <1>4, SyncSame DEF Inv
<1>13. LateInv'
  <2>1. \A g \in Handlers : Linked(g)' <=> Linked(g)
    BY <1>4 DEF Linked
  <2>2. \A g \in Elems(Tail(loop.tasks)) : g \in Handlers
    BY <1>2 DEF Elems
  <2> QED
    BY <1>2, <1>3, <1>4, <1>6, <2>1, <2>2 DEF Inv, LateInv
<1> QED
    BY <1>9, <1>10, <1>11, <1>12, <1>13 DEF Inv

\* A call that waits for the mutex has changed nothing that others rely on.
LEMMA EnterInv ==
    ASSUME Inv, NEW t \in Apps, NEW op \in {"add", "rem", "clean"},
           NEW h \in Handlers \union {None}, NEW fds \in Seq(Fds),
           Enter(t, op, h, fds, "lock"),
           UNCHANGED <<list, events, slot, size, epoll, loop, ghosts>>,
           active' \in [Handlers -> BOOLEAN],
           h = None <=> op = "clean",
           op # "clean" => ~Busy(h) /\ fds = <<FdOf[h]>>,
           op = "add" => ~Linked(h)
    PROVE  Inv'
<1> DEFINE c == [op |-> op, h |-> h, fds |-> fds, step |-> "lock", mask |-> {}]
<1>1. c \in Calls /\ c.h = h /\ c.op = op /\ c.fds = fds /\ c.step = "lock"
    BY DEF Calls
<1>2. call[t] = Idle /\ call' = [call EXCEPT ![t] = c]
    BY DEF Enter
<1> HIDE DEF c
<1>3. call \in [Apps -> Calls] /\ call'[t] = c
    BY <1>2 DEF Inv, TypeOK
<1>4. \A g : Linked(g)' <=> Linked(g)
    BY DEF Linked
<1>5. CallOf(t)'
    BY <1>1, <1>3, <1>4, FdFacts DEF CallOf, Syncs, Idle, Linked
<1>6. CallInv' /\ call' \in [Apps -> Calls]
    BY <1>1, <1>2, <1>4, <1>5, CallsStep DEF Inv
<1>7. TypeOK'
    BY <1>6 DEF Inv, TypeOK, ghosts, epoll
<1>8. ListInv'
    BY DEF Inv, ListInv, ListAt
<1>9. SyncInv'
  <2>1. ASSUME NEW f \in Fds \ trouble
        PROVE  SyncAt(f)'
    <3>1. t \notin syncers[f] /\ t \notin syncers'[f]
      BY <1>1, <1>2, <1>3 DEF syncers, Syncs, Idle
    <3>2. \A g \in Elems(list[f]) : g \in Handlers
      BY DEF Inv, ListInv, Elems
    <3>3. call[t].h = None
      BY <1>2 DEF Idle
    <3> QED
      BY <1>1, <1>2, <3>1, <3>2, <3>3, SyncElsewhere, FdFacts DEF Inv, SyncInv, epoll
  <2> QED
    BY <2>1 DEF SyncInv, ghosts
<1>10. LateInv'
    BY <1>4 DEF Inv, LateInv, ghosts
<1> QED
    BY <1>6, <1>7, <1>8, <1>9, <1>10 DEF Inv

\* Start waits for the mutex.
LEMMA StartInv ==
    ASSUME Inv, NEW t \in Apps, NEW h \in Handlers, Start(t, h)
    PROVE  Inv'
<1>1. <<FdOf[h]>> \in Seq(Fds) /\ h # None
    BY FdFacts
<1>2. UNCHANGED <<list, events, active, slot, size, epoll, loop, ghosts>>
    BY DEF Start, objects
<1>3. active' \in [Handlers -> BOOLEAN]
    BY <1>2 DEF Inv, TypeOK
<1> QED
    BY <1>1, <1>2, <1>3, EnterInv DEF Start

\* Stop clears enabled_ and waits for the mutex.
LEMMA StopInv ==
    ASSUME Inv, NEW t \in Apps, NEW h \in Handlers, Stop(t, h)
    PROVE  Inv'
<1>1. <<FdOf[h]>> \in Seq(Fds) /\ h # None
    BY FdFacts
<1>2. active' \in [Handlers -> BOOLEAN]
    BY DEF Stop, Inv, TypeOK
<1>3. UNCHANGED <<list, events, slot, size, epoll, loop, ghosts>>
    BY DEF Stop
<1>4. Enter(t, "rem", h, <<FdOf[h]>>, "lock") /\ ~Busy(h)
    BY DEF Stop
<1> QED
    BY <1>1, <1>2, <1>3, <1>4, EnterInv

\* Clean and CleanUp wait for the mutex.
LEMMA CleanInv ==
    ASSUME Inv, NEW t \in Apps, Clean(t)
    PROVE  Inv'
<1>1. UNCHANGED <<list, events, active, slot, size, epoll, loop, ghosts>>
    BY DEF Clean, objects
<1>2. active' \in [Handlers -> BOOLEAN]
    BY <1>1 DEF Inv, TypeOK
<1>3. PICK fds \in {<<FdOf[h]>> : h \in Handlers} \union {<<>>} :
          Enter(t, "clean", None, fds, "lock")
    BY DEF Clean
<1>4. \A h \in Handlers : <<FdOf[h]>> \in Seq(Fds)
    BY FdFacts
<1>5. <<>> \in Seq(Fds)
    OBVIOUS
<1>6. fds \in Seq(Fds)
    BY <1>4, <1>5, Zenon
<1> QED
    BY <1>1, <1>2, <1>3, <1>6, EnterInv

\* Update of a linked handler begins a synchronisation without the mutex.
LEMMA UpdateInv ==
    ASSUME Inv, NEW t \in Apps, NEW h \in Handlers, Update(t, h)
    PROVE  Inv'
<1> DEFINE f == FdOf[h]
           c == [op |-> "upd", h |-> h, fds |-> <<f>>, step |-> "mask", mask |-> {}]
<1>1. f \in Fds /\ h # None
    BY FdFacts
<1>2. /\ c \in Calls /\ c.h = h /\ c.op = "upd" /\ c.fds = <<f>> /\ c.step = "mask"
      /\ c.fds # <<>> /\ Head(c.fds) = f
    BY <1>1 DEF Calls
<1>3. call[t] = Idle /\ call' = [call EXCEPT ![t] = c] /\ ~Busy(h)
    BY DEF Enter, Update
<1> HIDE DEF c, f
<1>4. call \in [Apps -> Calls] /\ call'[t] = c /\ call[t].h = None
    BY <1>3 DEF Inv, TypeOK, Idle
<1>5. UNCHANGED <<list, active, slot, size, epoll, loop, stopped, late>>
    BY DEF Update
<1>6. PICK m \in Edits(events[h]) : events' = [events EXCEPT ![h] = m]
    BY DEF Update
<1>7. \A g : Linked(g)' <=> Linked(g)
    BY <1>5 DEF Linked
<1>8. CallOf(t)'
    BY <1>1, <1>2, <1>4 DEF CallOf, Syncs, f
<1>9. CallInv' /\ call' \in [Apps -> Calls]
    BY <1>2, <1>3, <1>7, <1>8, CallsStep DEF Inv
<1>10. TypeOK'
  <2>1. m \subseteq EventNames
    BY <1>6 DEF Edits, EventNames, Inv, TypeOK
  <2> QED
    BY <1>5, <1>6, <1>9, <2>1 DEF Inv, TypeOK, epoll
<1>11. ListInv'
    BY <1>5 DEF Inv, ListInv, ListAt
<1>12. SyncInv'
  <2>1. ASSUME NEW e \in Fds \ trouble'
        PROVE  SyncAt(e)'
    <3>1. trouble' = trouble \union Overlap(t, f)
      BY DEF Update, f
    <3>2. SyncAt(e) /\ e \in Fds
      BY <2>1, <3>1 DEF Inv, SyncInv
    <3>3. \A g \in Elems(list[e]) : g \in Handlers /\ FdOf[g] = e
      BY <3>2 DEF Inv, ListInv, ListAt, Elems
    <3>4. t \notin syncers[e] /\ (t \in syncers'[e] <=> e = f)
      BY <1>2, <1>3, <1>4, <3>2 DEF syncers, Syncs, Idle
    <3>5. CASE e # f
      <4>1. \A g \in Elems(list[e]) : events'[g] = events[g] /\ g # None
        BY <1>6, <3>3, <3>5, FdFacts DEF Inv, TypeOK, f
      <4> QED
        BY <1>2, <1>3, <1>4, <1>5, <3>2, <3>4, <3>5, <4>1, SyncElsewhere DEF Inv, epoll
    <3>6. CASE e = f
      <4>1. Overlap(t, f) = {}
        BY <2>1, <3>1, <3>6 DEF Overlap
      <4>2. syncers[f] = {}
        BY <1>1, <4>1, <3>4, <3>6, NoOverlap DEF Inv
      <4>3. syncers'[f] \subseteq {t}
        BY <1>1, <1>3, <1>4, <4>2 DEF syncers, Syncs
      <4>4. Busy(h)' /\ \A g \in Handlers \ {h} : events'[g] = events[g] /\ (Busy(g) => Busy(g)')
        BY <1>2, <1>3, <1>4, <1>6, FdFacts DEF Busy, Inv, TypeOK
      <4>5. \A g \in Elems(list'[f]) : Busy(g)' \/ events'[g] \subseteq slot[f]
        BY <1>5, <3>2, <3>3, <3>6, <4>4 DEF SyncAt
      <4> QED
        BY <1>1, <1>2, <1>4, <1>5, <3>2, <3>6, <4>2, <4>3, <4>5, SyncBegins DEF epoll
    <3> QED
      BY <3>5, <3>6
  <2> QED
    BY <2>1 DEF SyncInv
<1>13. LateInv'
    BY <1>5, <1>7 DEF Inv, LateInv
<1> QED
    BY <1>9, <1>10, <1>11, <1>12, <1>13 DEF Inv

\* Writing one list.
LEMMA ListStep ==
    ASSUME ListInv, NEW f \in Fds, NEW q \in Seq(Handlers), list' = [list EXCEPT ![f] = q]
    PROVE  /\ list' \in [Fds -> Seq(Handlers)] /\ list'[f] = q
           /\ \A e \in Fds \ {f} : list'[e] = list[e]
           /\ \A h \in Handlers : FdOf[h] # f => (Linked(h)' <=> Linked(h))
           /\ \A h \in Handlers : FdOf[h] = f => (Linked(h)' <=> h \in Elems(q))
<1>1. /\ list' \in [Fds -> Seq(Handlers)] /\ list'[f] = q
      /\ \A e \in Fds \ {f} : list'[e] = list[e]
    BY DEF ListInv
<1> QED
    BY <1>1, LinkedIsNext, LinkedIs, FdFacts

\* A call changes its step.
LEMMA StepIs ==
    ASSUME TypeOK, NEW t \in Apps, NEW s, Step(t, s)
    PROVE  \E c : /\ call' = [call EXCEPT ![t] = c]
                  /\ c.op = call[t].op /\ c.h = call[t].h /\ c.fds = call[t].fds
                  /\ c.step = s /\ c.mask = call[t].mask
                  /\ s \in {"none", "lock", "clean", "mask", "ctl", "store"} => c \in Calls
<1> DEFINE c == [call[t] EXCEPT !.step = s]
<1>1. call[t] \in Calls
    BY DEF TypeOK
<1>2. call' = [call EXCEPT ![t] = c]
    BY DEF Step, TypeOK
<1>3. /\ c.op = call[t].op /\ c.h = call[t].h /\ c.fds = call[t].fds
      /\ c.step = s /\ c.mask = call[t].mask
      /\ s \in {"none", "lock", "clean", "mask", "ctl", "store"} => c \in Calls
    BY <1>1 DEF Calls
<1> HIDE DEF c
<1> QED
    BY <1>2, <1>3

\* A thread outside every call.
LEMMA IdleIs ==
    /\ Idle \in Calls /\ Idle.op = "idle" /\ Idle.h = None /\ Idle.fds = <<>>
    /\ Idle.step = "none"
    BY DEF Idle, Calls

\* AddHandler links the handler, and returns at once only if the slot covers its
\* events.
LEMMA AddHandlerInv ==
    ASSUME Inv, NEW t \in Apps, AddHandler(t)
    PROVE  Inv'
<1>0. PICK h \in Handlers : h = call[t].h
    BY DEF AddHandler, Inv, CallInv, CallOf
<1> DEFINE f == FdOf[h]
<1>1. /\ call[t] \in Calls /\ call[t].op = "add" /\ call[t].step = "lock"
      /\ CallOf(t) /\ h \in Handlers /\ call[t].fds = <<f>> /\ ~Linked(h)
    BY <1>0 DEF AddHandler, Inv, TypeOK, CallInv, CallOf
<1>2. f \in Fds /\ f <= MaxFd /\ h # None /\ Head(call[t].fds) = f /\ call[t].fds # <<>>
    BY <1>1, FdFacts
<1>3. /\ size' = (IF f > size - 1 THEN f * 2 ELSE size)
      /\ list' = [list EXCEPT ![f] = <<h>> \o list[f]]
      /\ stopped' = stopped \ {h} /\ late' = [late EXCEPT ![h] = 0]
      /\ trouble' = trouble \union Overlap(t, f)
      /\ UNCHANGED <<events, slot, epoll, loop>>
    <2>1. [list EXCEPT ![f] = <<h>> \o @] = [list EXCEPT ![f] = <<h>> \o list[f]]
      BY <1>2 DEF Inv, ListInv
    <2> QED
      BY <1>0, <2>1 DEF AddHandler, InsertNodeFront
<1>4. active' \in [Handlers -> BOOLEAN]
    BY <1>0, <1>1 DEF AddHandler, Inv, TypeOK
<1>5. PICK c \in Calls :
          /\ call' = [call EXCEPT ![t] = c]
          /\ \/ Covered(h) /\ c = Idle
             \/ c.op = "add" /\ c.h = h /\ c.fds = <<f>> /\ c.step = "mask"
  <2>1. CASE Covered(h)
    BY <1>0, <2>1, <1>1, IdleIs DEF AddHandler, Return
  <2>2. CASE ~Covered(h)
    <3>1. Step(t, "mask")
      BY <1>0, <2>2 DEF AddHandler
    <3> QED
      BY <1>0, <1>1, <3>1, StepIs DEF Inv
  <2> QED
    BY <2>1, <2>2
<1> HIDE DEF f
<1> DEFINE q == <<h>> \o list[f]
<1>6. /\ list[f] \in Seq(Handlers) /\ ListAt(f) /\ h \notin Elems(list[f])
    BY <1>1, <1>2, LinkedIs DEF Inv, ListInv, f
<1>7. /\ q \in Seq(Handlers) /\ Elems(q) = Elems(list[f]) \union {h} /\ Once(q)
    BY <1>1, <1>6, PushedFront DEF ListAt
<1> HIDE DEF q
<1>8. /\ list' \in [Fds -> Seq(Handlers)] /\ list'[f] = q
      /\ \A e \in Fds \ {f} : list'[e] = list[e]
      /\ \A g \in Handlers : FdOf[g] # f => (Linked(g)' <=> Linked(g))
      /\ \A g \in Handlers : FdOf[g] = f => (Linked(g)' <=> g \in Elems(q))
    BY <1>2, <1>3, <1>7, ListStep DEF Inv, q
<1>9. \A g \in Handlers \ {h} : Linked(g)' <=> Linked(g)
    BY <1>7, <1>8, LinkedIs
<1>10. size' \in InitFdNums .. 2 * MaxFd /\ f < size' /\ size <= size'
    BY <1>2, <1>3, FdFacts DEF Inv, TypeOK
<1>11. ListInv'
  <2>1. ASSUME NEW e \in Fds
        PROVE  ListAt(e)'
    <3>1. CASE e = f
      BY <1>6, <1>7, <1>8, <1>10, <3>1 DEF ListAt, f
    <3>2. CASE e # f
      <4>1. ListAt(e) /\ list'[e] = list[e]
        BY <1>8, <3>2 DEF Inv, ListInv
      <4> QED
        BY <1>10, <2>1, <4>1, FdFacts DEF ListAt, Inv, TypeOK
    <3> QED
      BY <3>1, <3>2
  <2> QED
    BY <1>8, <2>1 DEF ListInv
<1>12. call \in [Apps -> Calls] /\ call'[t] = c
    BY <1>5 DEF Inv, TypeOK
<1>13. CallOf(t)'
    BY <1>1, <1>2, <1>5, <1>12, IdleIs DEF CallOf, Syncs, f
<1>14. CallInv' /\ call' \in [Apps -> Calls]
    BY <1>0, <1>5, <1>9, <1>13, CallsStep, IdleIs DEF Inv
<1>15. TypeOK'
    BY <1>1, <1>3, <1>4, <1>10, <1>14 DEF Inv, TypeOK, epoll
<1>16. SyncInv'
  <2>1. ASSUME NEW e \in Fds \ trouble'
        PROVE  SyncAt(e)'
    <3>1. SyncAt(e) /\ e \in Fds
      BY <1>3, <2>1 DEF Inv, SyncInv
    <3>2. \A g \in Elems(list[e]) : g \in Handlers /\ FdOf[g] = e
      BY <3>1 DEF Inv, ListInv, ListAt, Elems
    <3>3. t \notin syncers[e] /\ (t \in syncers'[e] => e = f /\ c.step = "mask")
      BY <1>1, <1>2, <1>5, <1>12, <3>1, IdleIs DEF syncers, Syncs
    <3>4. CASE e # f
      BY <1>0, <1>1, <1>3, <1>5, <1>8, <3>1, <3>2, <3>3, <3>4, SyncElsewhere DEF Inv, epoll, f
    <3>5. CASE e = f
      <4>1. Overlap(t, f) = {}
        BY <1>3, <2>1, <3>5 DEF Overlap
      <4>2. syncers[f] = {}
        BY <1>2, <4>1, <3>3, <3>5, NoOverlap DEF Inv
      <4>3. syncers'[f] \subseteq {t}
        BY <1>2, <1>5, <1>12, <4>2 DEF syncers, Syncs
      <4>4. /\ Busy(h)' \/ events[h] \subseteq slot[f]
            /\ \A g \in Handlers \ {h} : Busy(g) => Busy(g)'
        <5>1. CASE Covered(h) /\ c = Idle
          BY <1>0, <1>5, <1>12, <5>1 DEF Covered, f, Busy
        <5>2. CASE c.h = h
          BY <1>0, <1>5, <1>12, <5>2 DEF Busy
        <5> QED
          BY <1>5, <5>1, <5>2
      <4>5. \A g \in Elems(list'[f]) : Busy(g)' \/ events'[g] \subseteq slot[f]
        <5>1. \A g \in Elems(list[f]) : g \in Handlers /\ (Busy(g) \/ events[g] \subseteq slot[f])
          BY <3>1, <3>2, <3>5 DEF SyncAt
        <5>2. list'[f] = q /\ Elems(q) = Elems(list[f]) \union {h} /\ events' = events
          BY <1>3, <1>7, <1>8
        <5> QED
          BY <4>4, <5>1, <5>2
      <4> QED
        BY <1>2, <1>3, <1>5, <1>12, <3>1, <3>3, <3>5, <4>2, <4>3, <4>5, SyncBegins DEF epoll
    <3> QED
      BY <3>4, <3>5
  <2> QED
    BY <2>1 DEF SyncInv
<1>17. LateInv'
  <2>1. /\ late'[h] = 0 /\ \A g \in Handlers \ {h} : late'[g] = late[g]
    BY <1>1, <1>3 DEF Inv, TypeOK
  <2>2. \A g \in Elems(loop.tasks) : g \in Handlers
    BY DEF Inv, TypeOK, Loops, Elems
  <2> QED
    BY <1>3, <1>9, <2>1, <2>2 DEF Inv, LateInv
<1> QED
    BY <1>11, <1>14, <1>15, <1>16, <1>17 DEF Inv

\* RemoveHandler unlinks the handler and begins a synchronisation under the
\* mutex; one that is not linked is left alone.
LEMMA RemoveHandlerInv ==
    ASSUME Inv, NEW t \in Apps, RemoveHandler(t)
    PROVE  Inv'
<1>0. PICK h \in Handlers : h = call[t].h
    BY DEF RemoveHandler, Inv, CallInv, CallOf
<1> DEFINE f == FdOf[h]
           q == IF Linked(h) THEN Kept(list[f], Handlers \ {h}) ELSE list[f]
<1>1. /\ call[t] \in Calls /\ call[t].op = "rem" /\ call[t].step = "lock"
      /\ CallOf(t) /\ h \in Handlers /\ call[t].fds = <<f>>
    BY <1>0 DEF RemoveHandler, Inv, TypeOK, CallInv, CallOf
<1>2. f \in Fds /\ h # None /\ Head(call[t].fds) = f /\ call[t].fds # <<>>
    BY <1>1, FdFacts
<1>3. /\ UNCHANGED <<events, slot, size, epoll, loop, stopped, late>>
      /\ active' \in [Handlers -> BOOLEAN]
      /\ trouble' = trouble \/ trouble' = trouble \union Overlap(t, f)
    BY <1>0, <1>1 DEF RemoveHandler, Inv, TypeOK
<1>4. list' = [list EXCEPT ![f] = q]
  <2>1. CASE Linked(h)
    <3>1. [list EXCEPT ![f] = Kept(@, Handlers \ {h})] = [list EXCEPT ![f] = Kept(list[f], Handlers \ {h})]
      BY <1>2 DEF Inv, ListInv
    <3> QED
      BY <1>0, <2>1, <3>1 DEF RemoveHandler, RemoveNode
  <2>2. CASE ~Linked(h)
    BY <1>0, <1>2, <2>2 DEF RemoveHandler, Inv, ListInv
  <2> QED
    BY <2>1, <2>2
<1>5. PICK c \in Calls :
          /\ call' = [call EXCEPT ![t] = c]
          /\ \/ ~Linked(h) /\ c = Idle
             \/ /\ Linked(h) /\ c.op = "rem" /\ c.h = h /\ c.fds = <<f>> /\ c.step = "mask"
                /\ trouble' = trouble \union Overlap(t, f)
  <2>1. CASE ~Linked(h)
    BY <1>0, <2>1, <1>1, IdleIs DEF RemoveHandler, Return
  <2>2. CASE Linked(h)
    <3>1. Step(t, "mask") /\ trouble' = trouble \union Overlap(t, f)
      BY <1>0, <2>2 DEF RemoveHandler
    <3> QED
      BY <1>0, <1>1, <2>2, <3>1, StepIs DEF Inv
  <2> QED
    BY <2>1, <2>2
<1>6. /\ list[f] \in Seq(Handlers) /\ ListAt(f) /\ Elems(list[f]) \subseteq Handlers
    BY <1>2 DEF Inv, ListInv, Elems
<1>7. /\ q \in Seq(Handlers) /\ Elems(q) = Elems(list[f]) \ {h} /\ Once(q)
  <2>1. CASE Linked(h)
    BY <1>6, <2>1, KeptIs DEF ListAt
  <2>2. CASE ~Linked(h)
    BY <1>6, <2>2, LinkedIs DEF ListAt
  <2> QED
    BY <2>1, <2>2
<1> HIDE DEF q, f
<1>8. /\ list' \in [Fds -> Seq(Handlers)] /\ list'[f] = q
      /\ \A e \in Fds \ {f} : list'[e] = list[e]
      /\ \A g \in Handlers : FdOf[g] # f => (Linked(g)' <=> Linked(g))
      /\ \A g \in Handlers : FdOf[g] = f => (Linked(g)' <=> g \in Elems(q))
    BY <1>2, <1>4, <1>7, ListStep DEF Inv
<1>9. ~Linked(h)' /\ \A g \in Handlers : Linked(g)' => Linked(g)
    BY <1>1, <1>7, <1>8, LinkedIs DEF f
<1>11. ListInv'
  <2>1. ASSUME NEW e \in Fds
        PROVE  ListAt(e)'
    <3>1. CASE e = f
      <4>1. q # <<>> => list[f] # <<>>
        BY <1>6, <1>7, ElemsEmpty
      <4> QED
        BY <1>3, <1>6, <1>7, <1>8, <3>1, <4>1 DEF ListAt
    <3>2. CASE e # f
      BY <1>3, <1>8, <3>2 DEF Inv, ListInv, ListAt
    <3> QED
      BY <3>1, <3>2
  <2> QED
    BY <1>8, <2>1 DEF ListInv
<1>12. call \in [Apps -> Calls] /\ call'[t] = c
    BY <1>5 DEF Inv, TypeOK
<1>13. CallOf(t)'
  <2>1. CASE c = Idle
    BY <1>12, <2>1, IdleIs DEF CallOf, Syncs
  <2>2. CASE c # Idle
    BY <1>1, <1>2, <1>5, <1>9, <1>12, <2>2 DEF CallOf, Syncs, f, Linked
  <2> QED
    BY <2>1, <2>2
<1>14. CallInv' /\ call' \in [Apps -> Calls]
    BY <1>0, <1>5, <1>9, <1>13, CallsStep, IdleIs DEF Inv
<1>15. TypeOK'
    BY <1>3, <1>14 DEF Inv, TypeOK, epoll
<1>16. SyncInv'
  <2>1. ASSUME NEW e \in Fds \ trouble'
        PROVE  SyncAt(e)'
    <3>1. SyncAt(e) /\ e \in Fds
      BY <1>3, <2>1 DEF Inv, SyncInv
    <3>2. \A g \in Elems(list[e]) : g \in Handlers /\ FdOf[g] = e
      BY <3>1 DEF Inv, ListInv, ListAt, Elems
    <3>3. t \notin syncers[e] /\ (t \in syncers'[e] => e = f /\ c.step = "mask")
      BY <1>1, <1>2, <1>5, <1>12, <3>1, IdleIs DEF syncers, Syncs
    <3>4. CASE e # f
      BY <1>0, <1>1, <1>3, <1>5, <1>8, <3>1, <3>2, <3>3, <3>4, SyncElsewhere DEF Inv, epoll, f
    <3>5. CASE e = f /\ ~Linked(h)
      <4>1. h \notin Elems(list[e]) /\ list'[e] = list[e]
        BY <1>8, <3>5, LinkedIs DEF q, f
      <4>2. t \notin syncers'[e] /\ events' = events
        BY <1>3, <1>5, <1>12, <3>5, IdleIs DEF syncers, Syncs
      <4> QED
        BY <1>0, <1>3, <1>5, <3>1, <3>3, <4>1, <4>2, SyncElsewhere DEF Inv, epoll
    <3>6. CASE e = f /\ Linked(h)
      <4>1. Overlap(t, f) = {}
        BY <1>5, <2>1, <3>6 DEF Overlap
      <4>2. syncers[f] = {}
        BY <1>2, <4>1, <3>3, <3>6, NoOverlap DEF Inv
      <4>3. syncers'[f] \subseteq {t}
        BY <1>2, <1>5, <1>12, <4>2 DEF syncers, Syncs
      <4>4. c.h = h
        BY <1>5, <3>6
      <4>5. \A g \in Handlers : Busy(g) => Busy(g)'
        BY <1>0, <1>5, <1>12, <4>4 DEF Busy
      <4>6. \A g \in Elems(list[f]) : g \in Handlers /\ (Busy(g) \/ events[g] \subseteq slot[f])
        BY <3>1, <3>2, <3>6 DEF SyncAt
      <4>7. \A g \in Elems(list'[f]) : Busy(g)' \/ events'[g] \subseteq slot[f]
        BY <1>3, <1>7, <1>8, <4>5, <4>6
      <4> QED
        BY <1>2, <1>3, <1>5, <1>12, <3>1, <3>3, <3>6, <4>2, <4>3, <4>7, SyncBegins DEF epoll
    <3> QED
      BY <3>4, <3>5, <3>6
  <2> QED
    BY <2>1 DEF SyncInv
<1>17. LateInv'
    BY <1>3, <1>9 DEF Inv, LateInv
<1> QED
    BY <1>11, <1>14, <1>15, <1>16, <1>17 DEF Inv

\* Clean and CleanUp have the mutex and know their descriptors.
LEMMA LockToCleanInv ==
    ASSUME Inv, NEW t \in Apps, LockToClean(t)
    PROVE  Inv'
<1> DEFINE fds == IF call[t].fds = <<>> THEN [i \in 1 .. size |-> i - 1] ELSE call[t].fds
           c == [call[t] EXCEPT !.fds = fds, !.step = "clean"]
<1>1. /\ call[t] \in Calls /\ call[t].op = "clean" /\ call[t].step = "lock"
      /\ call[t].h = None /\ ~Syncs(t)
    BY DEF LockToClean, Inv, TypeOK, CallInv, CallOf, Syncs
<1>2. fds \in Seq(Fds)
  <2>1. size \in Nat /\ size <= 2 * MaxFd
    BY FdFacts DEF Inv, TypeOK
  <2>2. \A i \in 1 .. size : i - 1 \in Fds
    BY <2>1, FdFacts
  <2>3. [i \in 1 .. size |-> i - 1] \in Seq(Fds)
    BY <2>1, <2>2
  <2> QED
    BY <1>1, <2>3 DEF Calls
<1>3. UNCHANGED <<list, events, active, slot, size, epoll, loop, stopped, late>>
      /\ trouble \subseteq trouble'
    BY DEF LockToClean, objects
<1>4. call' = [call EXCEPT ![t] = c]
    BY DEF LockToClean, Inv, TypeOK
<1> HIDE DEF fds
<1>5. c \in Calls /\ c.op = "clean" /\ c.h = None /\ c.step = "clean"
    BY <1>1, <1>2 DEF Calls
<1> HIDE DEF c
<1>6. call \in [Apps -> Calls] /\ call'[t] = c
    BY <1>4 DEF Inv, TypeOK
<1>7. \A g : Linked(g)' <=> Linked(g)
    BY <1>3 DEF Linked
<1>8. CallOf(t)' /\ ~Syncs(t)'
    BY <1>5, <1>6 DEF CallOf, Syncs
<1>9. CallInv' /\ call' \in [Apps -> Calls]
    BY <1>4, <1>5, <1>7, <1>8, CallsStep DEF Inv
<1>10. TypeOK'
    BY <1>3, <1>9 DEF Inv, TypeOK, epoll
<1>11. ListInv'
    BY <1>3 DEF Inv, ListInv, ListAt
<1>12. ASSUME NEW f \in Fds \ trouble'
       PROVE  SyncAt(f)'
  <2>1. t \notin syncers[f] /\ t \notin syncers'[f] /\ SyncAt(f)
    BY <1>1, <1>3, <1>8, <1>12, SyncersAre DEF Inv, SyncInv
  <2>2. \A g \in Elems(list[f]) : g \in Handlers /\ g # None
    <3>1. f \in Fds /\ list[f] \in Seq(Handlers)
      BY <1>12 DEF Inv, ListInv
    <3> QED
      BY <3>1, FdFacts DEF Elems
  <2> QED
    BY <1>1, <1>3, <1>4, <1>5, <2>1, <2>2, SyncElsewhere DEF Inv, epoll
<1>13. LateInv'
    BY <1>3, <1>7 DEF Inv, LateInv
<1> QED
    BY <1>9, <1>10, <1>11, <1>12, <1>13 DEF Inv, SyncInv

\* DoClean empties one list; an empty one is passed over.
LEMMA DoCleanInv ==
    ASSUME Inv, NEW t \in Apps, DoClean(t)
    PROVE  Inv'
<1> DEFINE f == Head(call[t].fds)
<1>1. /\ call[t] \in Calls /\ call[t].op = "clean" /\ call[t].step = "clean"
      /\ CallOf(t) /\ call[t].h = None /\ call[t].fds \in Seq(Fds) /\ call[t].fds # <<>>
    BY DEF DoClean, Inv, TypeOK, CallInv, CallOf, Calls
<1>2. f \in Fds /\ Tail(call[t].fds) \in Seq(Fds)
    BY <1>1, Tailed
<1>3. /\ UNCHANGED <<events, slot, size, epoll, loop, stopped, late>>
      /\ active' \in [Handlers -> BOOLEAN]
      /\ trouble' = trouble \/ trouble' = trouble \union Overlap(t, f)
      /\ list' = [list EXCEPT ![f] = <<>>]
  <2>1. \A h \in Handlers : active[h] \in BOOLEAN
    BY DEF Inv, TypeOK
  <2>2. active' \in [Handlers -> BOOLEAN]
    BY <2>1 DEF DoClean
  <2> QED
    BY <2>2 DEF DoClean
<1>5. PICK c \in Calls :
          /\ call' = [call EXCEPT ![t] = c] /\ c.op = "clean" /\ c.h = None
          /\ \/ list[f] = <<>> /\ c.step = "clean"
             \/ /\ list[f] # <<>> /\ c.fds = call[t].fds /\ c.step = "mask"
                /\ trouble' = trouble \union Overlap(t, f)
  <2>1. CASE list[f] = <<>>
    <3> DEFINE d == [call[t] EXCEPT !.fds = Tail(@), !.step = "clean"]
    <3>1. call' = [call EXCEPT ![t] = d]
      BY <2>1 DEF DoClean, Inv, TypeOK
    <3>2. d \in Calls /\ d.op = "clean" /\ d.h = None /\ d.step = "clean"
      BY <1>1, <1>2 DEF Calls
    <3> HIDE DEF d
    <3> QED
      BY <2>1, <3>1, <3>2
  <2>2. CASE list[f] # <<>>
    <3>1. Step(t, "mask") /\ trouble' = trouble \union Overlap(t, f)
      BY <2>2 DEF DoClean
    <3> QED
      BY <1>1, <2>2, <3>1, StepIs DEF Inv
  <2> QED
    BY <2>1, <2>2
<1> HIDE DEF f
<1>6. <<>> \in Seq(Handlers) /\ Elems(<<>>) = {} /\ Once(<<>>)
    BY DEF Elems, Once
<1>8. /\ list' \in [Fds -> Seq(Handlers)] /\ list'[f] = <<>>
      /\ \A e \in Fds \ {f} : list'[e] = list[e]
      /\ \A g \in Handlers : FdOf[g] # f => (Linked(g)' <=> Linked(g))
      /\ \A g \in Handlers : FdOf[g] = f => (Linked(g)' <=> g \in Elems(<<>>))
    BY <1>2, <1>3, <1>6, ListStep DEF Inv
<1>9. \A g \in Handlers : Linked(g)' => Linked(g)
    BY <1>6, <1>8
<1>11. ListInv'
  <2>1. ASSUME NEW e \in Fds
        PROVE  ListAt(e)'
    <3>1. CASE e = f
      BY <1>6, <1>8, <3>1 DEF ListAt
    <3>2. CASE e # f
      BY <1>3, <1>8, <3>2 DEF Inv, ListInv, ListAt
    <3> QED
      BY <3>1, <3>2
  <2> QED
    BY <1>8, <2>1 DEF ListInv
<1>12. call \in [Apps -> Calls] /\ call'[t] = c
    BY <1>5 DEF Inv, TypeOK
<1>13. CallOf(t)'
    BY <1>1, <1>5, <1>12 DEF CallOf, Syncs
<1>14. CallInv' /\ call' \in [Apps -> Calls]
    BY <1>5, <1>9, <1>13, CallsStep DEF Inv
<1>15. TypeOK'
    BY <1>3, <1>14 DEF Inv, TypeOK, epoll
<1>16. SyncInv'
  <2>1. ASSUME NEW e \in Fds \ trouble'
        PROVE  SyncAt(e)'
    <3>1. SyncAt(e) /\ e \in Fds
      BY <1>3, <2>1 DEF Inv, SyncInv
    <3>2. \A g \in Elems(list[e]) : g \in Handlers /\ FdOf[g] = e /\ g # None
      BY <3>1, FdFacts DEF Inv, ListInv, ListAt, Elems
    <3>3. t \notin syncers[e] /\ (t \in syncers'[e] => e = f /\ c.step = "mask")
      BY <1>1, <1>2, <1>5, <1>12, <3>1 DEF syncers, Syncs, f
    <3>4. CASE e # f \/ list[f] = <<>>
      <4>1. list'[e] = list[e] /\ t \notin syncers'[e]
        BY <1>5, <1>8, <3>1, <3>3, <3>4
      <4> QED
        BY <1>1, <1>3, <1>5, <3>1, <3>2, <3>3, <4>1, SyncElsewhere DEF Inv, epoll
    <3>5. CASE e = f /\ list[f] # <<>>
      <4>1. Overlap(t, f) = {}
        BY <1>5, <2>1, <3>5 DEF Overlap
      <4>2. syncers[f] = {}
        BY <1>2, <4>1, <3>3, <3>5, NoOverlap DEF Inv
      <4>3. syncers'[f] \subseteq {t}
        BY <1>2, <1>5, <1>12, <4>2 DEF syncers, Syncs
      <4>4. \A g \in Elems(list'[f]) : Busy(g)' \/ events'[g] \subseteq slot[f]
        BY <1>6, <1>8
      <4> QED
        BY <1>2, <1>3, <1>5, <1>12, <3>1, <3>3, <3>5, <4>2, <4>3, <4>4, SyncBegins DEF epoll
    <3> QED
      BY <3>4, <3>5
  <2> QED
    BY <2>1 DEF SyncInv
<1>17. LateInv'
    BY <1>3, <1>9 DEF Inv, LateInv
<1> QED
    BY <1>11, <1>14, <1>15, <1>16, <1>17 DEF Inv

\* The end of a call of UpdateToDemultiplexer: the caller returns, or goes on
\* to the next descriptor, and every other descriptor is as it was.
LEMMA FinishInv ==
    ASSUME Inv, NEW t \in Apps, NEW ok \in BOOLEAN, Syncs(t), Finish(t, ok),
           NEW f \in Fds, f = Head(call[t].fds),
           UNCHANGED <<list, events, size, epoll, loop>>,
           slot' \in [Fds -> SUBSET EventNames],
           \A e \in Fds \ {f} : slot'[e] = slot[e],
           trouble \subseteq trouble',
           f \notin trouble' => /\ slot'[f] = Union(f)
                                /\ Told(f) = Union(f)
    PROVE  Inv'
<1>1. /\ call[t] \in Calls /\ CallOf(t) /\ call[t].op # "idle" /\ call[t].fds # <<>>
      /\ call[t].fds \in Seq(Fds) /\ call \in [Apps -> Calls]
    BY DEF Inv, TypeOK, CallInv, CallOf, Calls
<1>2. /\ call[t].op # "clean" => call[t].h \in Handlers /\ FdOf[call[t].h] = f
      /\ call[t].op = "clean" => call[t].h = None
      /\ call[t].op = "rem" => ~Linked(call[t].h)
    BY <1>1 DEF CallOf, Calls
<1>3. PICK c \in Calls : /\ call' = [call EXCEPT ![t] = c]
                         /\ c.h = None /\ c.step \in {"none", "clean"}
                         /\ c = Idle \/ c.op = "clean"
  <2>1. CASE call[t].op = "clean"
    <3> DEFINE d == [call[t] EXCEPT !.fds = Tail(@), !.step = "clean"]
    <3>1. call' = [call EXCEPT ![t] = d]
      BY <1>1, <2>1 DEF Finish
    <3>2. Tail(call[t].fds) \in Seq(Fds)
      BY <1>1, Tailed
    <3>3. d \in Calls /\ d.op = "clean" /\ d.h = None /\ d.step = "clean"
      BY <1>1, <1>2, <2>1, <3>2 DEF Calls
    <3> HIDE DEF d
    <3> QED
      BY <3>1, <3>3
  <2>2. CASE call[t].op # "clean"
    BY <2>2, IdleIs DEF Finish, Return
  <2> QED
    BY <2>1, <2>2
<1>4. call'[t] = c
    BY <1>1, <1>3
<1>5. active' \in [Handlers -> BOOLEAN]
  <2>1. active \in [Handlers -> BOOLEAN]
    BY DEF Inv, TypeOK
  <2>2. active' \in {active, [active EXCEPT ![call[t].h] = TRUE]}
    BY DEF Finish
  <2>3. [active EXCEPT ![call[t].h] = TRUE] \in [Handlers -> BOOLEAN]
    BY <2>1
  <2> QED
    BY <2>1, <2>2, <2>3
<1>6. /\ late' = late
      /\ stopped' = stopped \/ (call[t].op = "rem" /\ stopped' = stopped \union {call[t].h})
    BY DEF Finish
<1>7. \A g : Linked(g)' <=> Linked(g)
    BY DEF Linked
<1>8. CallOf(t)'
    BY <1>3, <1>4, IdleIs DEF CallOf, Syncs
<1>9. CallInv' /\ call' \in [Apps -> Calls]
    BY <1>3, <1>7, <1>8, CallsStep DEF Inv
<1>10. TypeOK'
    BY <1>5, <1>6, <1>9 DEF Inv, TypeOK, epoll
<1>11. ListInv'
    BY DEF Inv, ListInv, ListAt
<1>12. SyncInv'
  <2>1. ASSUME NEW e \in Fds \ trouble'
        PROVE  SyncAt(e)'
    <3>1. SyncAt(e) /\ e \in Fds
      BY <2>1 DEF Inv, SyncInv
    <3>2. \A g \in Elems(list[e]) : g \in Handlers /\ FdOf[g] = e
      BY <3>1 DEF Inv, ListInv, ListAt, Elems
    <3>3. t \notin syncers'[e] /\ (t \in syncers[e] <=> e = f)
      BY <1>3, <1>4, <3>1 DEF syncers, Syncs
    <3>4. CASE e # f
      <4>1. \A g \in Elems(list[e]) : events'[g] = events[g] /\ g # call[t].h
        BY <1>2, <3>2, <3>4, FdFacts
      <4> QED
        BY <1>3, <3>1, <3>3, <3>4, <4>1, SyncElsewhere DEF Inv, epoll
    <3>5. CASE e = f
      <4>1. syncers[e] \subseteq {t}
        BY <3>1, <3>3, <3>5 DEF SyncAt, Unique
      <4>2. syncers'[e] = {}
        BY <1>1, <1>3, <3>1, <3>3, <4>1 DEF syncers, Syncs
      <4> QED
        BY <2>1, <3>1, <3>5, <4>2, SyncEnds DEF epoll
    <3> QED
      BY <3>4, <3>5
  <2> QED
    BY <2>1 DEF SyncInv
<1>13. LateInv'
    BY <1>2, <1>6, <1>7 DEF Inv, LateInv
<1> QED
    BY <1>9, <1>10, <1>11, <1>12, <1>13 DEF Inv

\* A synchroniser whose descriptor is in order is the only one there.
LEMMA SyncerIs ==
    ASSUME Inv, NEW t \in Apps, Syncs(t)
    PROVE  /\ call[t] \in Calls /\ call[t].fds \in Seq(Fds) /\ call[t].fds # <<>>
           /\ Head(call[t].fds) \in Fds
           /\ Head(call[t].fds) \notin trouble =>
                  /\ SyncAt(Head(call[t].fds))
                  /\ syncers[Head(call[t].fds)] = {t}
                  /\ storing[Head(call[t].fds)] = IF call[t].step = "store" THEN {t} ELSE {}
<1> DEFINE f == Head(call[t].fds)
<1>1. call[t] \in Calls /\ call[t].fds \in Seq(Fds) /\ call[t].fds # <<>>
    BY DEF Inv, TypeOK, Calls, CallInv, CallOf
<1>2. f \in Fds
    BY <1>1
<1>3. ASSUME f \notin trouble
      PROVE  /\ SyncAt(f) /\ syncers[f] = {t}
             /\ storing[f] = IF call[t].step = "store" THEN {t} ELSE {}
  <2>1. SyncAt(f)
    BY <1>2, <1>3 DEF Inv, SyncInv
  <2>2. t \in syncers[f]
    BY <1>2, SyncersAre
  <2>3. syncers[f] = {t}
    BY <2>1, <2>2 DEF SyncAt, Unique
  <2> QED
    BY <1>2, <2>1, <2>3 DEF storing
<1> QED
    BY <1>1, <1>2, <1>3

\* The mask: nothing to do if the slot is up to date, else the union is kept.
LEMMA ComputeMaskInv ==
    ASSUME Inv, NEW t \in Apps, ComputeMask(t)
    PROVE  Inv'
<1>1. Syncs(t) /\ call[t].step = "mask"
    BY DEF ComputeMask, Syncs
<1>2. PICK f \in Fds : f = Head(call[t].fds)
    BY <1>1, SyncerIs
<1>3. /\ call[t] \in Calls /\ call[t].fds # <<>> /\ call \in [Apps -> Calls]
      /\ f \notin trouble => SyncAt(f) /\ syncers[f] = {t} /\ storing[f] = {}
    BY <1>1, <1>2, SyncerIs DEF Inv, TypeOK
<1>4. UNCHANGED <<list, events, slot, size, epoll, loop, trouble>>
    BY DEF ComputeMask
<1>5. CASE Union(f) = slot[f] /\ Finish(t, TRUE)
  <2>1. slot' \in [Fds -> SUBSET EventNames]
    BY <1>4 DEF Inv, TypeOK
  <2>2. f \notin trouble' => slot'[f] = Union(f) /\ Told(f) = Union(f)
    BY <1>3, <1>4, <1>5 DEF Told
  <2> QED
    BY <1>1, <1>2, <1>4, <1>5, <2>1, <2>2, FinishInv
<1>6. CASE /\ Union(f) # slot[f]
           /\ call' = [call EXCEPT ![t].step = "ctl", ![t].mask = Union(f)]
           /\ UNCHANGED <<active, stopped, late>>
  <2> DEFINE d == [call[t] EXCEPT !.step = "ctl", !.mask = Union(f)]
  <2>1. call' = [call EXCEPT ![t] = d]
    BY <1>3, <1>6
  <2>2. /\ d \in Calls /\ d.op = call[t].op /\ d.h = call[t].h /\ d.fds = call[t].fds
        /\ d.step = "ctl" /\ d.mask = Union(f)
    BY <1>3, UnionType DEF Calls, Inv
  <2> HIDE DEF d
  <2>3. PICK c \in Calls : /\ call' = [call EXCEPT ![t] = c]
                           /\ c.op = call[t].op /\ c.h = call[t].h /\ c.fds = call[t].fds
                           /\ c.step = "ctl" /\ c.mask = Union(f)
    BY <2>1, <2>2
  <2>4. call'[t] = c /\ \A u \in Apps : call'[u].h = call[u].h
    BY <1>3, <2>3
  <2>5. \A g : (Linked(g)' <=> Linked(g)) /\ (Busy(g)' <=> Busy(g))
    BY <1>4, <2>4 DEF Linked, Busy
  <2>6. CallOf(t)'
    BY <1>1, <1>4, <2>3, <2>4 DEF CallOf, Syncs, Idle, Inv, CallInv, Linked
  <2>7. CallInv' /\ call' \in [Apps -> Calls]
    BY <2>3, <2>5, <2>6, CallsStep DEF Inv
  <2>8. TypeOK'
    BY <1>4, <1>6, <2>7 DEF Inv, TypeOK, epoll
  <2>9. ListInv'
    BY <1>4 DEF Inv, ListInv, ListAt
  <2>10. ASSUME NEW e \in Fds \ trouble'
         PROVE  SyncAt(e)'
    <3>1. SyncAt(e) /\ e \in Fds
      BY <1>4, <2>10 DEF Inv, SyncInv
    <3>2. CASE e # f
      <4>1. t \notin syncers[e] /\ t \notin syncers'[e]
        BY <1>2, <2>3, <2>4, <3>1, <3>2 DEF syncers
      <4> QED
        BY <1>4, <2>3, <3>1, <4>1, SyncElsewhere DEF Inv, epoll
    <3>3. CASE e = f
      <4>1. syncers[e] = {t} /\ storing[e] = {}
        BY <1>3, <1>4, <2>10, <3>3
      <4>2. syncers'[e] = {t}
        BY <1>2, <1>3, <2>3, <2>4, <3>1, <3>3, <4>1 DEF syncers, Syncs
      <4>3. storing'[e] = {}
        BY <2>3, <2>4, <3>1, <4>2 DEF storing
      <4>4. Union(e)' = Union(e)
        BY <1>4, UnionSame
      <4>5. Told(e)' = Told(e)
        BY <1>4, <4>1, <4>3 DEF Told
      <4>6. \A u \in syncers'[e] : call'[u].step = "ctl" /\ call'[u].mask = Union(e) /\ Union(e) # slot[e]
        BY <1>6, <2>3, <2>4, <3>3, <4>2
      <4> QED
        BY <1>4, <2>5, <3>1, <4>2, <4>4, <4>5, <4>6 DEF SyncAt, Unique, epoll
    <3> QED
      BY <3>2, <3>3
  <2>11. LateInv'
    BY <1>4, <1>6, <2>5 DEF Inv, LateInv
  <2> QED
    BY <2>7, <2>8, <2>9, <2>10, <2>11 DEF Inv, SyncInv
<1> QED
    BY <1>2, <1>5, <1>6 DEF ComputeMask

\* The store: the slot becomes what epoll was told.
LEMMA StoreMaskInv ==
    ASSUME Inv, NEW t \in Apps, StoreMask(t)
    PROVE  Inv'
<1>1. Syncs(t) /\ call[t].step = "store"
    BY DEF StoreMask, Syncs
<1>2. PICK f \in Fds : f = Head(call[t].fds)
    BY <1>1, SyncerIs
<1>3. /\ call[t] \in Calls
      /\ f \notin trouble => SyncAt(f) /\ syncers[f] = {t} /\ storing[f] = {t}
    BY <1>1, <1>2, SyncerIs
<1>4. /\ UNCHANGED <<list, events, size, epoll, loop, trouble>> /\ Finish(t, TRUE)
      /\ slot' = [slot EXCEPT ![f] = call[t].mask]
    BY <1>2 DEF StoreMask
<1>5. call[t].mask \subseteq EventNames
    BY <1>3 DEF Calls
<1>6. /\ slot' \in [Fds -> SUBSET EventNames] /\ slot'[f] = call[t].mask
      /\ \A e \in Fds \ {f} : slot'[e] = slot[e]
    BY <1>4, <1>5 DEF Inv, TypeOK
<1>7. f \notin trouble' => slot'[f] = Union(f) /\ Told(f) = Union(f)
    BY <1>1, <1>3, <1>4, <1>6 DEF Told, SyncAt
<1> QED
    BY <1>1, <1>2, <1>4, <1>6, <1>7, FinishInv

\* ModifyEvents: epoll is told of the union, or the descriptor is in trouble.
LEMMA ModifyEventsInv ==
    ASSUME Inv, NEW t \in Apps, ModifyEvents(t)
    PROVE  Inv'
<1>1. Syncs(t) /\ call[t].step = "ctl"
    BY DEF ModifyEvents, Syncs
<1>2. PICK f \in Fds : f = Head(call[t].fds)
    BY <1>1, SyncerIs
<1>3. /\ call[t] \in Calls /\ call[t].fds # <<>> /\ call \in [Apps -> Calls]
      /\ f \notin trouble => SyncAt(f) /\ syncers[f] = {t} /\ storing[f] = {}
    BY <1>1, <1>2, SyncerIs DEF Inv, TypeOK
<1>4. UNCHANGED <<list, events, slot, size, loop>>
    BY DEF ModifyEvents
<1>5. CASE trouble' = trouble \union {f} /\ Finish(t, FALSE) /\ UNCHANGED epoll
  <2>1. slot' \in [Fds -> SUBSET EventNames]
    BY <1>4 DEF Inv, TypeOK
  <2> QED
    BY <1>1, <1>2, <1>4, <1>5, <2>1, FinishInv
<1>6. CASE /\ OperateEpoll(f, call[t].mask) /\ Step(t, "store")
           /\ UNCHANGED <<active, trouble, stopped, late>>
  <2>1. PICK c \in Calls : /\ call' = [call EXCEPT ![t] = c]
                           /\ c.op = call[t].op /\ c.h = call[t].h /\ c.fds = call[t].fds
                           /\ c.step = "store" /\ c.mask = call[t].mask
    BY <1>6, StepIs DEF Inv
  <2>2. PICK m : m = call[t].mask
    OBVIOUS
  <2>3. /\ kernel' = [kernel EXCEPT ![f] = IF CtlOp(f, m) = "DEL" THEN Unregistered ELSE Reactor2Epoll(m)]
        /\ interest' = IF CtlOp(f, m) = "DEL" THEN interest \ {f} ELSE interest \union {f}
    BY <1>6, <2>2 DEF OperateEpoll
  <2>4. call'[t] = c /\ \A u \in Apps : call'[u].h = call[u].h
    BY <1>3, <2>1
  <2>5. \A g : (Linked(g)' <=> Linked(g)) /\ (Busy(g)' <=> Busy(g))
    BY <1>4, <2>4 DEF Linked, Busy
  <2>6. CallOf(t)'
    BY <1>1, <1>4, <2>1, <2>4 DEF CallOf, Syncs, Idle, Inv, CallInv, Linked
  <2>7. CallInv' /\ call' \in [Apps -> Calls]
    BY <2>1, <2>5, <2>6, CallsStep DEF Inv
  <2>8. /\ kernel' \in [Fds -> (SUBSET EpollFlags) \union {Unregistered}]
        /\ kernel'[f] = (IF CtlOp(f, m) = "DEL" THEN Unregistered ELSE Reactor2Epoll(m))
        /\ \A e \in Fds \ {f} : kernel'[e] = kernel[e] /\ (e \in interest' <=> e \in interest)
    <3>1. Reactor2Epoll(m) \in SUBSET EpollFlags
      BY DEF Reactor2Epoll, EpollFlags
    <3> QED
      BY <2>3, <3>1 DEF Inv, TypeOK
  <2>9. TypeOK'
    BY <1>4, <1>6, <2>7, <2>8 DEF Inv, TypeOK
  <2>10. ListInv'
    BY <1>4 DEF Inv, ListInv, ListAt
  <2>11. ASSUME NEW e \in Fds \ trouble'
         PROVE  SyncAt(e)'
    <3>1. SyncAt(e) /\ e \in Fds
      BY <1>6, <2>11 DEF Inv, SyncInv
    <3>2. CASE e # f
      <4>1. t \notin syncers[e] /\ t \notin syncers'[e]
        BY <1>2, <2>1, <2>4, <3>1, <3>2 DEF syncers
      <4> QED
        BY <1>4, <2>1, <2>8, <3>1, <3>2, <4>1, SyncElsewhere DEF Inv
    <3>3. CASE e = f
      <4>1. syncers[e] = {t} /\ storing[e] = {}
        BY <1>3, <1>6, <2>11, <3>3
      <4>2. syncers'[e] = {t}
        BY <1>2, <1>3, <2>1, <2>4, <3>1, <3>3, <4>1 DEF syncers, Syncs
      <4>3. storing'[e] = {t}
        BY <2>1, <2>4, <3>1, <4>2 DEF storing
      <4>4. Union(e)' = Union(e)
        BY <1>4, UnionSame
      <4>5. m = Union(e) /\ m # slot[e] /\ Told(e) = slot[e]
        BY <1>1, <2>2, <3>1, <4>1 DEF SyncAt, Told
      <4>6. Told(e)' = m
        BY <4>3, <4>4, <4>5 DEF Told
      <4>7. (CtlOp(e, m) = "DEL" <=> m = {}) /\ (e \in interest' <=> m # {})
        BY <2>3, <3>1, <3>3, <4>5 DEF CtlOp, SyncAt
      <4>8. kernel'[e] = IF m = {} THEN Unregistered ELSE Reactor2Epoll(m)
        BY <2>8, <3>3, <4>7
      <4>9. \A u \in syncers'[e] : call'[u].step = "store" /\ call'[u].mask = Union(e)
        BY <2>1, <2>2, <2>4, <4>2, <4>5
      <4> QED
        BY <1>4, <2>5, <3>1, <4>2, <4>4, <4>6, <4>7, <4>8, <4>9 DEF SyncAt, Unique
    <3> QED
      BY <3>2, <3>3
  <2>12. LateInv'
    BY <1>4, <1>6, <2>5 DEF Inv, LateInv
  <2> QED
    BY <2>7, <2>9, <2>10, <2>11, <2>12 DEF Inv, SyncInv
<1> QED
    BY <1>2, <1>5, <1>6 DEF ModifyEvents

\* Clean and CleanUp return.
LEMMA CleanDoneInv ==
    ASSUME Inv, NEW t \in Apps, CleanDone(t)
    PROVE  Inv'
<1>1. /\ call \in [Apps -> Calls] /\ call[t].h = None /\ ~Syncs(t)
      /\ call' = [call EXCEPT ![t] = Idle] /\ call'[t] = Idle
    BY DEF CleanDone, Return, Inv, TypeOK, CallInv, CallOf
<1>2. UNCHANGED <<list, events, active, slot, size, epoll, loop, ghosts>>
    BY DEF CleanDone, objects
<1>3. \A g : Linked(g)' <=> Linked(g)
    BY <1>2 DEF Linked
<1>4. CallOf(t)'
    BY <1>1, IdleIs DEF CallOf, Syncs
<1>5. CallInv' /\ call' \in [Apps -> Calls]
    BY <1>1, <1>3, <1>4, CallsStep, IdleIs DEF Inv
<1>6. TypeOK'
    BY <1>2, <1>5 DEF Inv, TypeOK, ghosts, epoll
<1>7. ListInv'
    BY <1>2 DEF Inv, ListInv, ListAt
<1>8. ASSUME NEW f \in Fds \ trouble
      PROVE  SyncAt(f)'
  <2>1. t \notin syncers[f] /\ t \notin syncers'[f] /\ SyncAt(f)
    BY <1>1, <1>8, SyncersAre, IdleIs DEF Syncs, Inv, SyncInv
  <2>2. \A g \in Elems(list[f]) : g \in Handlers /\ g # None
    BY FdFacts DEF Inv, ListInv, Elems
  <2> QED
    BY <1>1, <1>2, <2>1, <2>2, SyncElsewhere, IdleIs DEF Inv, epoll
<1>9. LateInv'
    BY <1>2, <1>3 DEF Inv, LateInv, ghosts
<1> QED
    BY <1>2, <1>5, <1>6, <1>7, <1>8, <1>9 DEF Inv, SyncInv, ghosts

\* ~IOEventHandler unlinks without telling anyone: what is left is covered.
LEMMA DestroyInv ==
    ASSUME Inv, NEW h \in Handlers, Destroy(h)
    PROVE  Inv'
<1> DEFINE f == FdOf[h]
           q == Kept(list[f], Handlers \ {h})
<1>1. f \in Fds /\ h # None /\ ~Busy(h) /\ Linked(h)
    BY FdFacts DEF Destroy
<1>2. /\ UNCHANGED <<slot, size, epoll, call, loop, late>>
      /\ active' \in [Handlers -> BOOLEAN] /\ stopped' = stopped \union {h}
      /\ trouble' = trouble \union Overlap(None, f)
    BY DEF Destroy, Inv, TypeOK
<1>3. list' = [list EXCEPT ![f] = q]
  <2>1. [list EXCEPT ![f] = Kept(@, Handlers \ {h})] = [list EXCEPT ![f] = q]
    BY <1>1 DEF Inv, ListInv
  <2> QED
    BY <2>1 DEF Destroy, RemoveNode
<1>4. PICK m \in Masks : events' = [events EXCEPT ![h] = m]
    BY DEF Destroy
<1>5. /\ events' \in [Handlers -> SUBSET EventNames]
      /\ \A g \in Handlers \ {h} : events'[g] = events[g]
  <2>1. m \subseteq EventNames
    BY DEF EventNames
  <2> QED
    BY <1>4, <2>1 DEF Inv, TypeOK
<1>6. /\ list[f] \in Seq(Handlers) /\ ListAt(f) /\ Elems(list[f]) \subseteq Handlers
    BY <1>1 DEF Inv, ListInv, Elems
<1>7. /\ q \in Seq(Handlers) /\ Elems(q) = Elems(list[f]) \ {h} /\ Once(q)
    BY <1>6, KeptIs DEF ListAt
<1> HIDE DEF q, f
<1>8. /\ list' \in [Fds -> Seq(Handlers)] /\ list'[f] = q
      /\ \A e \in Fds \ {f} : list'[e] = list[e]
      /\ \A g \in Handlers : FdOf[g] # f => (Linked(g)' <=> Linked(g))
      /\ \A g \in Handlers : FdOf[g] = f => (Linked(g)' <=> g \in Elems(q))
    BY <1>1, <1>3, <1>7, ListStep DEF Inv
<1>9. ~Linked(h)' /\ \A g \in Handlers : Linked(g)' => Linked(g)
    BY <1>7, <1>8, LinkedIs DEF f
<1>10. TypeOK'
    BY <1>2, <1>5 DEF Inv, TypeOK, epoll
<1>11. ListInv'
  <2>1. ASSUME NEW e \in Fds
        PROVE  ListAt(e)'
    <3>1. CASE e = f
      <4>1. q # <<>> => list[f] # <<>>
        BY <1>6, <1>7, ElemsEmpty
      <4> QED
        BY <1>2, <1>6, <1>7, <1>8, <3>1, <4>1 DEF ListAt
    <3>2. CASE e # f
      BY <1>2, <1>8, <3>2 DEF Inv, ListInv, ListAt
    <3> QED
      BY <3>1, <3>2
  <2> QED
    BY <1>8, <2>1 DEF ListInv
<1>12. CallInv'
  <2>1. ASSUME NEW u \in Apps
        PROVE  CallOf(u)'
    <3>1. CallOf(u) /\ call' = call
      BY <1>2 DEF Inv, CallInv
    <3>2. call[u].op \in {"add", "upd", "rem"} => (Linked(call[u].h)' => Linked(call[u].h))
      BY <1>9, <3>1 DEF CallOf, Linked
    <3> QED
      BY <3>1, <3>2 DEF CallOf, Syncs, Idle, Linked
  <2> QED
    BY <1>2, <2>1 DEF Inv, CallInv
<1>13. ASSUME NEW e \in Fds \ trouble'
       PROVE  SyncAt(e)'
  <2>1. SyncAt(e) /\ e \in Fds
    BY <1>2, <1>13 DEF Inv, SyncInv
  <2>2. \A g \in Elems(list[e]) : g \in Handlers /\ FdOf[g] = e
    BY <2>1 DEF Inv, ListInv, ListAt, Elems
  <2>3. UNCHANGED <<syncers, storing>> /\ \A g : Busy(g)' <=> Busy(g)
    BY <1>2 DEF syncers, storing, Syncs, Busy
  <2>4. CASE e # f
    <3>1. \A g \in Elems(list[e]) : events'[g] = events[g]
      BY <1>5, <2>2, <2>4 DEF f
    <3>2. list'[e] = list[e]
      BY <1>8, <2>1, <2>4
    <3>3. Union(e)' = Union(e)
      BY <3>1, <3>2, UnionSame
    <3>4. Told(e)' = Told(e)
      BY <1>2, <2>3, <3>3 DEF Told
    <3> QED
      BY <1>2, <2>1, <2>3, <3>1, <3>2, <3>3, <3>4 DEF SyncAt, Unique, epoll
  <2>5. CASE e = f
    <3>1. Overlap(None, f) = {}
      BY <1>2, <1>13, <2>5 DEF Overlap
    <3>2. syncers[e] \subseteq {None}
      BY <1>1, <2>1, <2>5, <3>1, NoOverlap DEF Inv
    <3>3. syncers[e] = {} /\ storing[e] = {}
      BY <2>1, <3>2, FdFacts DEF syncers, storing
    <3>4. Told(e) = slot[e] /\ Told(e)' = slot[e]
      BY <1>2, <2>3, <3>3 DEF Told
    <3>5. \A g \in Elems(list'[e]) : /\ g \in Elems(list[e])
                                     /\ events'[g] = events[g]
      BY <1>5, <1>7, <1>8, <2>2, <2>5
    <3> QED
      BY <1>2, <2>1, <2>3, <3>3, <3>4, <3>5 DEF SyncAt, Unique, epoll
  <2> QED
    BY <2>4, <2>5
<1>14. LateInv'
    BY <1>2, <1>9 DEF Inv, LateInv
<1> QED
    BY <1>10, <1>11, <1>12, <1>13, <1>14 DEF Inv, SyncInv

\* Closing a descriptor behind the reactor's back is trouble unless the
\* reactor has already taken it from epoll.
LEMMA CloseInv ==
    ASSUME Inv, NEW h \in Handlers, CloseAndReopen(FdOf[h])
    PROVE  Inv'
<1> DEFINE f == FdOf[h]
<1>1. /\ f \in Fds
      /\ UNCHANGED <<list, events, active, slot, size, interest, call, loop, stopped, late>>
      /\ kernel' = [kernel EXCEPT ![f] = Unregistered] /\ kernel[f] # Unregistered
      /\ trouble' = IF f \in interest THEN trouble \union {f} ELSE trouble
    BY FdFacts DEF CloseAndReopen, objects
<1> HIDE DEF f
<1>2. kernel' \in [Fds -> (SUBSET EpollFlags) \union {Unregistered}]
    BY <1>1 DEF Inv, TypeOK
<1>3. TypeOK'
    BY <1>1, <1>2 DEF Inv, TypeOK
<1>4. ListInv'
    BY <1>1 DEF Inv, ListInv, ListAt
<1>5. CallInv'
    BY <1>1 DEF Inv, CallInv, CallOf, Syncs, Linked
<1>6. ASSUME NEW e \in Fds \ trouble'
      PROVE  SyncAt(e)'
  <2>1. SyncAt(e) /\ e \in Fds
    BY <1>1, <1>6 DEF Inv, SyncInv
  <2>2. e # f
    BY <1>1, <1>6, <2>1 DEF SyncAt
  <2>3. kernel'[e] = kernel[e]
    BY <1>1, <2>1, <2>2 DEF Inv, TypeOK
  <2>4. UNCHANGED <<syncers, storing, Union(e)>> /\ \A g : Busy(g)' <=> Busy(g)
    BY <1>1 DEF syncers, storing, Syncs, Busy, Union
  <2>5. Told(e)' = Told(e)
    BY <1>1, <2>4 DEF Told
  <2> QED
    BY <1>1, <2>1, <2>3, <2>4, <2>5 DEF SyncAt, Unique
<1>7. LateInv'
    BY <1>1 DEF Inv, LateInv, Linked
<1> QED
    BY <1>3, <1>4, <1>5, <1>6, <1>7 DEF Inv, SyncInv

-----------------------------------------------------------------------------
\* Every step keeps the invariant.
LEMMA NextInv ==
    ASSUME Inv, [Next]_vars
    PROVE  Inv'
<1>1. CASE UNCHANGED vars
  <2>1. UNCHANGED <<list, events, active, slot, size, epoll, call, ghosts, loop>>
    BY <1>1 DEF vars, objects
  <2> QED
    BY <2>1, Quiet DEF Inv, TypeOK
<1>2. ASSUME NEW t \in Apps, NEW h \in Handlers, Start(t, h) \/ Update(t, h) \/ Stop(t, h)
      PROVE  Inv'
    BY <1>2, StartInv, UpdateInv, StopInv
<1>3. ASSUME NEW t \in Apps, Clean(t) \/ Locked(t)
      PROVE  Inv'
    BY <1>3, CleanInv, AddHandlerInv, RemoveHandlerInv, LockToCleanInv DEF Locked
<1>4. ASSUME NEW t \in Apps, Inside(t)
      PROVE  Inv'
    BY <1>4, ComputeMaskInv, ModifyEventsInv, StoreMaskInv, DoCleanInv, CleanDoneInv DEF Inside
<1>5. ASSUME NEW h \in Handlers, Destroy(h) \/ CloseAndReopen(FdOf[h])
      PROVE  Inv'
    BY <1>5, DestroyInv, CloseInv
<1>6. CASE LoopStep \/ PollFails \/ Control \/ Arrive
    BY <1>6, LoopQuiet, HandleEventsInv, ExecuteInv DEF LoopStep
<1> QED
    BY <1>1, <1>2, <1>3, <1>4, <1>5, <1>6 DEF Next

\* epoll is told more for more events.
LEMMA MoreEvents ==
    ASSUME NEW m, NEW n, m \subseteq n
    PROVE  Reactor2Epoll(m) \subseteq Reactor2Epoll(n)
    BY DEF Reactor2Epoll

\* The invariant implies Registered: the slot covers the handler, and epoll was
\* told of the slot or of the union.
LEMMA InvRegistered == Inv => Registered
<1> SUFFICES ASSUME Inv, NEW h \in Handlers, Linked(h), ~Busy(h), FdOf[h] \notin trouble
             PROVE  LET f == FdOf[h]
                    IN  /\ f < size
                        /\ events[h] \subseteq slot[f]
                        /\ events[h] # {} => kernel[f] # Unregistered /\ Reactor2Epoll(events[h]) \subseteq kernel[f]
    BY DEF Registered
<1> DEFINE f == FdOf[h]
<1>1. f \in Fds /\ f \notin trouble /\ h \in Elems(list[f])
    BY FdFacts, LinkedIs
<1>2. ListAt(f) /\ SyncAt(f) /\ list[f] \in Seq(Handlers)
    BY <1>1 DEF Inv, ListInv, SyncInv
<1> HIDE DEF f
<1>3. f < size
    BY <1>1, <1>2, ElemsEmpty DEF ListAt
<1>4. events[h] \subseteq slot[f] /\ events[h] \subseteq Told(f)
    BY <1>1, <1>2, UnionIs DEF SyncAt, Told
<1>5. ASSUME events[h] # {}
      PROVE  kernel[f] # Unregistered /\ Reactor2Epoll(events[h]) \subseteq kernel[f]
  <2>1. kernel[f] = Reactor2Epoll(Told(f))
    BY <1>2, <1>4, <1>5 DEF SyncAt
  <2>2. Reactor2Epoll(Told(f)) # Unregistered
    BY DEF Reactor2Epoll, Unregistered
  <2> QED
    BY <1>4, <2>1, <2>2, MoreEvents
<1> QED
    BY <1>3, <1>4, <1>5 DEF f

-----------------------------------------------------------------------------
(* The inductive invariant: a thread alone between the mask and the store  *)
(* of a descriptor holds the union of the events of its list; interestFds_ *)
(* and epoll agree with what epoll was last told.                          *)
THEOREM ReactorInvariant == Spec => []Inv
<1>1. Init => Inv
    BY InitInv
<1>2. Inv /\ [Next]_vars => Inv'
    BY NextInv
<1> QED
    BY <1>1, <1>2, PTL DEF Spec

(* A started handler is registered with epoll for all its events, through  *)
(* the shortcut of AddHandler, the removal and the destruction of          *)
(* neighbours, and any number of handlers, descriptors and threads.        *)
THEOREM HandlersAreRegistered == Spec => []Registered
    BY ReactorInvariant, InvRegistered, PTL

(* After Stop or the destructor a callback runs at most once more, for the *)
(* copy HandleEvents took before.                                          *)
THEOREM OneLateCallback == Spec => []LateOnce
<1>1. Inv => LateOnce
    BY DEF Inv, LateInv, LateOnce
<1> QED
    BY <1>1, ReactorInvariant, PTL
=============================================================================
