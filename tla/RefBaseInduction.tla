-------------------------- MODULE RefBaseInduction --------------------------
(***************************************************************************)
(* The inductive invariant of RefBase and the lemmas its proof rests on.   *)
(* A thread inside an operation has a stack of steps still to take.  What  *)
(* those steps will add to or take off a counter is as much a reference as *)
(* the handles are: every counter equals the handles plus the steps under  *)
(* way.  The rest of the invariant says which thread owns the deletion of  *)
(* the object, of the RefCounter and of each WeakRefCounter, and what      *)
(* keeps the object for a thread that makes another reference to it.       *)
(***************************************************************************)
EXTENDS RefBase, FiniteSetTheorems, SequenceTheorems, TLAPS

-----------------------------------------------------------------------------
(* Sums.                                                                   *)

Pairs(f) == UNION {{x} \X (1..f[x]) : x \in DOMAIN f}

\* A sum has finitely many pairs when it has finitely many summands.
LEMMA PairsFinite ==
    ASSUME NEW X, IsFiniteSet(X), NEW f \in [X -> Nat]
    PROVE  IsFiniteSet(Pairs(f))
<1> DEFINE h == [x \in X |-> {x} \X (1..f[x])]
           R == {h[x] : x \in X}
<1>1. h \in Surjection(X, R)
    BY DEF Surjection
<1>2. IsFiniteSet(R)
    BY <1>1, FS_Surjection
<1>3. \A T \in R : IsFiniteSet(T)
  <2>1. ASSUME NEW x \in X
        PROVE  IsFiniteSet({x} \X (1..f[x]))
    <3>1. IsFiniteSet({x})
      BY FS_Singleton
    <3>2. IsFiniteSet(1..f[x])
      BY FS_Interval
    <3> QED
      BY <3>1, <3>2, FS_Product
  <2> QED
    BY <2>1
<1>4. IsFiniteSet(UNION R)
    BY <1>2, <1>3, FS_UNION
<1>5. Pairs(f) = UNION R
    BY DEF Pairs
<1> QED
    BY <1>4, <1>5

\* One summand taken out of a sum.
LEMMA TotalSplit ==
    ASSUME NEW X, IsFiniteSet(X), NEW f \in [X -> Nat], NEW t \in X
    PROVE  /\ Total(f) \in Nat
           /\ IsFiniteSet(Pairs(f) \ ({t} \X (1..f[t])))
           /\ Total(f) = f[t] + Cardinality(Pairs(f) \ ({t} \X (1..f[t])))
<1> DEFINE M == {t} \X (1..f[t])
<1>1. IsFiniteSet(Pairs(f)) /\ Total(f) = Cardinality(Pairs(f))
    BY PairsFinite DEF Pairs, Total
<1>2. IsFiniteSet(M) /\ Cardinality(M) = f[t]
  <2>1. IsFiniteSet({t}) /\ Cardinality({t}) = 1
    BY FS_Singleton
  <2>2. IsFiniteSet(1..f[t]) /\ Cardinality(1..f[t]) = f[t]
    BY FS_Interval
  <2>3. IsFiniteSet(M) /\ Cardinality(M) = 1 * f[t]
    BY <2>1, <2>2, FS_Product
  <2> QED
    BY <2>3
<1>3. M \subseteq Pairs(f)
    BY DEF Pairs
<1>4. Pairs(f) \intersect M = M
    BY <1>3
<1> HIDE DEF M
<1>5. IsFiniteSet(Pairs(f) \ M) /\ Cardinality(Pairs(f) \ M) = Cardinality(Pairs(f)) - f[t]
  <2>1. IsFiniteSet(Pairs(f) \ M)
        /\ Cardinality(Pairs(f) \ M) = Cardinality(Pairs(f)) - Cardinality(Pairs(f) \intersect M)
    BY <1>1, FS_Difference
  <2> QED
    BY <1>2, <1>4, <2>1
<1>6. Cardinality(Pairs(f)) \in Nat
    BY <1>1, FS_CardinalityType
<1> QED
    BY <1>1, <1>5, <1>6 DEF M

\* A sum changes by what one of its summands changes by.
LEMMA TotalStep ==
    ASSUME NEW X, IsFiniteSet(X), NEW f \in [X -> Nat], NEW g \in [X -> Nat], NEW t \in X,
           \A u \in X \ {t} : g[u] = f[u]
    PROVE  /\ Total(f) \in Nat /\ Total(g) \in Nat
           /\ Total(g) = Total(f) + g[t] - f[t]
<1>1. Pairs(f) \ ({t} \X (1..f[t])) = Pairs(g) \ ({t} \X (1..g[t]))
  <2>1. \A u \in X \ {t} : {u} \X (1..g[u]) = {u} \X (1..f[u])
    OBVIOUS
  <2>2. ASSUME NEW z, z \in Pairs(f) \ ({t} \X (1..f[t]))
        PROVE  z \in Pairs(g) \ ({t} \X (1..g[t]))
    <3>1. PICK u \in X : z \in {u} \X (1..f[u])
      BY <2>2 DEF Pairs
    <3>2. u # t /\ z[1] = u
      BY <2>2, <3>1
    <3> QED
      BY <3>1, <3>2, <2>1 DEF Pairs
  <2>3. ASSUME NEW z, z \in Pairs(g) \ ({t} \X (1..g[t]))
        PROVE  z \in Pairs(f) \ ({t} \X (1..f[t]))
    <3>1. PICK u \in X : z \in {u} \X (1..g[u])
      BY <2>3 DEF Pairs
    <3>2. u # t /\ z[1] = u
      BY <2>3, <3>1
    <3> QED
      BY <3>1, <3>2, <2>1 DEF Pairs
  <2> QED
    BY <2>2, <2>3
<1>2. Cardinality(Pairs(f) \ ({t} \X (1..f[t]))) \in Nat
    BY TotalSplit, FS_CardinalityType
<1> QED
    BY <1>1, <1>2, TotalSplit

\* A sum is at least the sum of any two of its summands.
LEMMA TotalAtLeast ==
    ASSUME NEW X, IsFiniteSet(X), NEW f \in [X -> Nat]
    PROVE  /\ \A t \in X : f[t] <= Total(f)
           /\ \A t, u \in X : t # u => f[t] + f[u] <= Total(f)
<1>1. ASSUME NEW t \in X
      PROVE  f[t] <= Total(f)
  <2> DEFINE Rest == Pairs(f) \ ({t} \X (1..f[t]))
  <2>1. IsFiniteSet(Rest) /\ Total(f) = f[t] + Cardinality(Rest)
    BY TotalSplit
  <2> HIDE DEF Rest
  <2>2. Cardinality(Rest) \in Nat
    BY <2>1, FS_CardinalityType
  <2> QED
    BY <2>1, <2>2
<1>2. ASSUME NEW t \in X, NEW u \in X, t # u
      PROVE  f[t] + f[u] <= Total(f)
  <2> DEFINE g == [f EXCEPT ![t] = 0]
  <2>1. g \in [X -> Nat] /\ g[t] = 0 /\ g[u] = f[u] /\ \A v \in X \ {t} : g[v] = f[v]
    BY <1>2
  <2> HIDE DEF g
  <2>2. Total(g) = Total(f) + 0 - f[t] /\ Total(g) \in Nat /\ Total(f) \in Nat
    BY <2>1, TotalStep
  <2>3. g[u] <= Total(g)
    <3> DEFINE Rest == Pairs(g) \ ({u} \X (1..g[u]))
    <3>1. IsFiniteSet(Rest) /\ Total(g) = g[u] + Cardinality(Rest)
      BY <2>1, TotalSplit
    <3> HIDE DEF Rest
    <3>2. Cardinality(Rest) \in Nat
      BY <3>1, FS_CardinalityType
    <3> QED
      BY <2>1, <3>1, <3>2
  <2> QED
    BY <2>1, <2>2, <2>3
<1> QED
    BY <1>1, <1>2

\* A sum of zeros is zero.
LEMMA TotalZero ==
    ASSUME NEW X, NEW f \in [X -> Nat], \A t \in X : f[t] = 0
    PROVE  Total(f) = 0
<1>1. Pairs(f) = {}
    BY DEF Pairs
<1> QED
    BY <1>1, FS_EmptySet DEF Total, Pairs
-----------------------------------------------------------------------------
(* The stacks of steps.                                                    *)

\* What may lie below a step on the stack of a thread.
Ends  == {<<>>, <<"TestPtr">>, <<"GotSptr">>, <<"FreeWrc">>}
Weaks == {<<"DecWeakLoad">>, <<"DecWeakLoad", "TestPtr">>, <<"DecWeakLoad", "GotSptr">>}
Freed == {<<"FreeObject">> \o r : r \in Ends \union Weaks}
Gots  == {<<"GotSptr">>, <<"DecStrongLoad", "DecWeakLoad", "GotSptr">>}
Wraps == {<<"GotWptr">>, <<"GotWptr", "DropOld">>}

Below(s) ==
    CASE s = "IncWeak" -> {<<"AttLoop">>, <<"AttSLoad">>} \union Wraps
                              \union {<<"IncStrongLoad">> \o r : r \in Gots}
      [] s \in {"IncStrongLoad", "IncStrongAdd"} -> Gots
      [] s = "SubInitial" -> {<<"GetRefPtr">>, <<"SetAttempt", "OnFirst">>}
                                 \union {<<"OnFirst">> \o r : r \in Gots}
      [] s = "OnFirst" -> {<<>>} \union Gots
      [] s = "SetAttempt" -> {<<>>, <<"OnFirst">>}
      [] s \in {"DecStrongLoad", "DecStrongSub", "OnLast"} -> Weaks
      [] s \in {"DecWeakLoad", "DecWeakSub", "LastWeak"} -> Ends
      [] s \in {"CallCallback", "FreeObject"} -> Ends \union Weaks
      [] s = "DtorRemove" -> {<<"DtorCheck">> \o r : r \in Freed}
      [] s = "DtorCheck" -> Freed
      [] s \in {"DecRefLoad", "DecRefSub", "FreeCounter"} -> Freed \union Ends
      [] s = "WrcNew" -> {<<"WrcInc">> \o r : r \in Wraps}
      [] s = "WrcInc" -> Wraps
      [] s = "GotWptr" -> {<<>>, <<"DropOld">>}
      [] OTHER -> {<<>>}

WellFormed(s) == s = <<>> \/ (Head(s) \in Steps /\ Tail(s) \in Below(Head(s)))

Items(s) == {s[i] : i \in DOMAIN s}
pend == [t \in Threads |-> Items(todo[t])]

Stacked == todo \in [Threads -> Seq(Steps)] /\ \A t \in Threads : WellFormed(todo[t])

\* Pushing a step.
LEMMA Push ==
    ASSUME NEW a \in Steps, NEW r \in Seq(Steps)
    PROVE  /\ <<a>> \o r \in Seq(Steps)
           /\ <<a>> \o r # <<>>
           /\ Head(<<a>> \o r) = a
           /\ Tail(<<a>> \o r) = r
           /\ Items(<<a>> \o r) = {a} \union Items(r)
<1> DEFINE s == <<a>> \o r
<1>1. s \in Seq(Steps) /\ Len(s) = Len(r) + 1 /\ DOMAIN s = 1..(Len(r) + 1)
    OBVIOUS
<1>2. s[1] = a /\ \A i \in 1..Len(r) : s[i + 1] = r[i]
    OBVIOUS
<1>3. DOMAIN r = 1..Len(r) /\ Len(r) \in Nat
    OBVIOUS
<1>4. Items(s) \subseteq {a} \union Items(r)
  <2>1. ASSUME NEW i \in DOMAIN s PROVE s[i] \in {a} \union Items(r)
    <3>1. i = 1 \/ (i - 1 \in 1..Len(r) /\ i = (i - 1) + 1)
      BY <1>1, <1>3
    <3> QED
      BY <1>2, <1>3, <3>1 DEF Items
  <2> QED
    BY <2>1 DEF Items
<1>5. {a} \union Items(r) \subseteq Items(s)
  <2>1. a \in Items(s)
    BY <1>1, <1>2, <1>3 DEF Items
  <2>2. ASSUME NEW i \in DOMAIN r PROVE r[i] \in Items(s)
    <3>1. i + 1 \in DOMAIN s /\ s[i + 1] = r[i]
      BY <1>1, <1>2, <1>3
    <3> QED
      BY <3>1 DEF Items
  <2> QED
    BY <2>1, <2>2 DEF Items
<1>6. Tail(s) = r
    BY <1>1, <1>2, <1>3
<1>7. Head(s) = a /\ s # <<>>
    BY <1>1, <1>2, <1>3
<1> QED
    BY <1>1, <1>4, <1>5, <1>6, <1>7

\* Short stacks, written out.
LEMMA Tuples ==
    ASSUME NEW a \in Steps, NEW b \in Steps, NEW c \in Steps
    PROVE  /\ <<a>> = <<a>> \o <<>>
           /\ <<a, b>> = <<a>> \o <<b>>
           /\ <<a, b, c>> = <<a>> \o <<b, c>>
           /\ <<>> \in Seq(Steps) /\ <<a>> \in Seq(Steps)
           /\ <<a, b>> \in Seq(Steps) /\ <<a, b, c>> \in Seq(Steps)
           /\ Items(<<>>) = {}
           /\ Items(<<a>>) = {a}
           /\ Items(<<a, b>>) = {a, b}
           /\ Items(<<a, b, c>>) = {a, b, c}
<1>1. /\ <<>> \in Seq(Steps) /\ <<a>> \in Seq(Steps) /\ <<b>> \in Seq(Steps)
      /\ <<a, b>> \in Seq(Steps) /\ <<b, c>> \in Seq(Steps) /\ <<a, b, c>> \in Seq(Steps)
    OBVIOUS
<1>2. <<a>> = <<a>> \o <<>>
    BY <1>1, ConcatEmptySeq
<1>3. <<a, b>> = <<a>> \o <<b>>
  <2>1. <<a>> \o <<b>> \in Seq(Steps) /\ Len(<<a>> \o <<b>>) = 2
    BY <1>1, ConcatProperties
  <2>2. \A i \in 1..2 : <<a, b>>[i] = (<<a>> \o <<b>>)[i]
    OBVIOUS
  <2> QED
    BY <1>1, <2>1, <2>2, SeqEqual
<1>4. <<a, b, c>> = <<a>> \o <<b, c>>
  <2>1. <<a>> \o <<b, c>> \in Seq(Steps) /\ Len(<<a>> \o <<b, c>>) = 3
    BY <1>1, ConcatProperties
  <2>2. \A i \in 1..3 : <<a, b, c>>[i] = (<<a>> \o <<b, c>>)[i]
    OBVIOUS
  <2> QED
    BY <1>1, <2>1, <2>2, SeqEqual
<1>5. Items(<<>>) = {}
    BY DEF Items
<1>6. ASSUME NEW x \in Steps
      PROVE  Items(<<x>>) = {x}
  <2>1. <<x>> = <<x>> \o <<>>
    BY <1>1, <1>5, ConcatEmptySeq
  <2>2. Items(<<x>> \o <<>>) = {x} \union Items(<<>>)
    BY <1>1, Push
  <2> QED
    BY <1>5, <2>1, <2>2
<1>7. ASSUME NEW x \in Steps, NEW y \in Steps
      PROVE  Items(<<x, y>>) = {x, y}
  <2>0. <<x, y>> \in Seq(Steps) /\ <<y>> \in Seq(Steps) /\ Len(<<x, y>>) = 2
    OBVIOUS
  <2>1. <<x>> \o <<y>> \in Seq(Steps) /\ Len(<<x>> \o <<y>>) = 2
    BY ConcatProperties
  <2>2. \A i \in 1..2 : <<x, y>>[i] = (<<x>> \o <<y>>)[i]
    OBVIOUS
  <2>3. <<x, y>> = <<x>> \o <<y>>
    BY <2>0, <2>1, <2>2, SeqEqual
  <2>4. Items(<<x>> \o <<y>>) = {x} \union Items(<<y>>)
    BY <2>0, Push
  <2> QED
    BY <1>6, <2>3, <2>4
<1>8. Items(<<a, b, c>>) = {a, b, c}
  <2>1. Items(<<a>> \o <<b, c>>) = {a} \union Items(<<b, c>>)
    BY <1>1, Push
  <2>2. Items(<<b, c>>) = {b, c}
    BY <1>7
  <2> QED
    BY <1>4, <2>1, <2>2
<1>9. Items(<<a>>) = {a}
    BY <1>6
<1>10. Items(<<a, b>>) = {a, b}
    BY <1>7
<1> QED
    BY <1>1, <1>2, <1>3, <1>4, <1>5, <1>8, <1>9, <1>10

\* Two steps pushed at once are pushed one after the other.
LEMMA PushTwo ==
    ASSUME NEW a \in Steps, NEW b \in Steps, NEW r \in Seq(Steps)
    PROVE  <<a, b>> \o r = <<a>> \o (<<b>> \o r)
<1>1. <<a>> \in Seq(Steps) /\ <<b>> \in Seq(Steps) /\ <<a, b>> = <<a>> \o <<b>>
    BY Tuples
<1>2. (<<a>> \o <<b>>) \o r = <<a>> \o (<<b>> \o r)
    BY <1>1, ConcatAssociative
<1> QED
    BY <1>1, <1>2

\* And so are three.
LEMMA PushThree ==
    ASSUME NEW a \in Steps, NEW b \in Steps, NEW c \in Steps, NEW r \in Seq(Steps)
    PROVE  <<a, b, c>> \o r = <<a>> \o (<<b>> \o (<<c>> \o r))
<1>1. <<a>> \in Seq(Steps) /\ <<b, c>> \in Seq(Steps) /\ <<a, b, c>> = <<a>> \o <<b, c>>
    BY Tuples
<1>2. (<<a>> \o <<b, c>>) \o r = <<a>> \o (<<b, c>> \o r)
    BY <1>1, ConcatAssociative
<1>3. <<b, c>> \o r = <<b>> \o (<<c>> \o r)
    BY PushTwo
<1> QED
    BY <1>1, <1>2, <1>3

\* Steps with nothing below them.
Last == {"GotSptr", "WrcDec", "FreeWrc", "AttLoad", "AttReload", "AttLoop",
         "AttCanPromote", "AttAdd", "AttEnd", "TestPtr", "GetRefPtr", "DropOld",
         "AttSLoad", "AttSLoop", "CheckAttempt", "ClearAttempt"}

\* What lies below each step.
LEMMA BelowIs ==
    /\ Below("IncWeak") = {<<"AttLoop">>,
          <<"AttSLoad">>} \union Wraps \union {<<"IncStrongLoad">> \o r : r \in Gots}
    /\ Below("IncStrongLoad") = Gots
    /\ Below("IncStrongAdd") = Gots
    /\ Below("SubInitial") = {<<"GetRefPtr">>, <<"SetAttempt",
          "OnFirst">>} \union {<<"OnFirst">> \o r : r \in Gots}
    /\ Below("OnFirst") = {<<>>} \union Gots
    /\ Below("SetAttempt") = {<<>>, <<"OnFirst">>}
    /\ Below("DecStrongLoad") = Weaks
    /\ Below("DecStrongSub") = Weaks
    /\ Below("OnLast") = Weaks
    /\ Below("DecWeakLoad") = Ends
    /\ Below("DecWeakSub") = Ends
    /\ Below("LastWeak") = Ends
    /\ Below("CallCallback") = Ends \union Weaks
    /\ Below("FreeObject") = Ends \union Weaks
    /\ Below("DtorRemove") = {<<"DtorCheck">> \o r : r \in Freed}
    /\ Below("DtorCheck") = Freed
    /\ Below("DecRefLoad") = Freed \union Ends
    /\ Below("DecRefSub") = Freed \union Ends
    /\ Below("FreeCounter") = Freed \union Ends
    /\ Below("WrcNew") = {<<"WrcInc">> \o r : r \in Wraps}
    /\ Below("WrcInc") = Wraps
    /\ Below("GotWptr") = {<<>>, <<"DropOld">>}
    /\ \A s \in Last : Below(s) = {<<>>}
<1>1. Below("IncWeak") = {<<"AttLoop">>,
         <<"AttSLoad">>} \union Wraps \union {<<"IncStrongLoad">> \o r : r \in Gots}
    BY DEF Below
<1>2. Below("IncStrongLoad") = Gots
    BY DEF Below
<1>3. Below("IncStrongAdd") = Gots
    BY DEF Below
<1>4. Below("SubInitial") = {<<"GetRefPtr">>, <<"SetAttempt",
         "OnFirst">>} \union {<<"OnFirst">> \o r : r \in Gots}
    BY DEF Below
<1>5. Below("OnFirst") = {<<>>} \union Gots
    BY DEF Below
<1>6. Below("SetAttempt") = {<<>>, <<"OnFirst">>}
    BY DEF Below
<1>7. Below("DecStrongLoad") = Weaks
    BY DEF Below
<1>8. Below("DecStrongSub") = Weaks
    BY DEF Below
<1>9. Below("OnLast") = Weaks
    BY DEF Below
<1>10. Below("DecWeakLoad") = Ends
    BY DEF Below
<1>11. Below("DecWeakSub") = Ends
    BY DEF Below
<1>12. Below("LastWeak") = Ends
    BY DEF Below
<1>13. Below("CallCallback") = Ends \union Weaks
    BY DEF Below
<1>14. Below("FreeObject") = Ends \union Weaks
    BY DEF Below
<1>15. Below("DtorRemove") = {<<"DtorCheck">> \o r : r \in Freed}
    BY DEF Below
<1>16. Below("DtorCheck") = Freed
    BY DEF Below
<1>17. Below("DecRefLoad") = Freed \union Ends
    BY DEF Below
<1>18. Below("DecRefSub") = Freed \union Ends
    BY DEF Below
<1>19. Below("FreeCounter") = Freed \union Ends
    BY DEF Below
<1>20. Below("WrcNew") = {<<"WrcInc">> \o r : r \in Wraps}
    BY DEF Below
<1>21. Below("WrcInc") = Wraps
    BY DEF Below
<1>22. Below("GotWptr") = {<<>>, <<"DropOld">>}
    BY DEF Below
<1>23. \A s \in Last : Below(s) = {<<>>}
    BY DEF Below, Last
<1> QED
    BY <1>1, <1>2, <1>3, <1>4, <1>5, <1>6, <1>7, <1>8, <1>9, <1>10, <1>11, <1>12, <1>13,
       <1>14, <1>15, <1>16, <1>17, <1>18, <1>19, <1>20, <1>21, <1>22, <1>23

\* A step over a well-formed rest.
LEMMA Over ==
    ASSUME NEW a \in Steps, NEW r \in Below(a), r \in Seq(Steps)
    PROVE  /\ <<a>> \o r \in Seq(Steps) /\ WellFormed(<<a>> \o r)
           /\ Items(<<a>> \o r) = {a} \union Items(r)
BY Push DEF WellFormed

\* A step with nothing below it.
LEMMA Single ==
    ASSUME NEW a \in Steps, <<>> \in Below(a)
    PROVE  <<a>> \in Seq(Steps) /\ WellFormed(<<a>>) /\ Items(<<a>>) = {a}
<1>1. <<a>> = <<a>> \o <<>> /\ <<>> \in Seq(Steps) /\ Items(<<>>) = {}
    BY Tuples
<1> QED
    BY <1>1, Over

EndSets  == {{}, {"TestPtr"}, {"GotSptr"}, {"FreeWrc"}}
WeakSets == {{"DecWeakLoad"}, {"DecWeakLoad", "TestPtr"}, {"DecWeakLoad", "GotSptr"}}
GotSets  == {{"GotSptr"}, {"DecStrongLoad", "DecWeakLoad", "GotSptr"}}
WrapSets == {{"GotWptr"}, {"GotWptr", "DropOld"}}

\* A thread that is in no operation has a well-formed stack.
LEMMA EmptyStack == <<>> \in Seq(Steps) /\ WellFormed(<<>>) /\ Items(<<>>) = {}
BY DEF WellFormed, Items

\* The rests that end an operation are well formed.
LEMMA EndsAre ==
    ASSUME NEW r \in Ends
    PROVE  r \in Seq(Steps) /\ WellFormed(r) /\ Items(r) \in EndSets
<1>1. \A a \in {"TestPtr", "GotSptr", "FreeWrc"} : a \in Steps /\ <<>> \in Below(a)
    BY BelowIs DEF Steps, Last
<1>2. \A a \in {"TestPtr", "GotSptr", "FreeWrc"} :
          <<a>> \in Seq(Steps) /\ WellFormed(<<a>>) /\ Items(<<a>>) = {a}
    BY <1>1, Single
<1> QED
    BY <1>2, EmptyStack DEF Ends, EndSets

\* The rests below the end of a strong reference are well formed: its weak
\* reference comes next.
LEMMA WeaksAre ==
    ASSUME NEW r \in Weaks
    PROVE  r \in Seq(Steps) /\ WellFormed(r) /\ Items(r) \in WeakSets
<1>1. "DecWeakLoad" \in Steps /\ "TestPtr" \in Steps /\ "GotSptr" \in Steps
    BY DEF Steps
<1>2. \A e \in Ends : e \in Seq(Steps) /\ e \in Below("DecWeakLoad")
    BY EndsAre, BelowIs
<1>3. \A e \in Ends : /\ <<"DecWeakLoad">> \o e \in Seq(Steps)
                      /\ WellFormed(<<"DecWeakLoad">> \o e)
    BY <1>1, <1>2, Over
<1>4. /\ <<"DecWeakLoad">> = <<"DecWeakLoad">> \o <<>>
      /\ <<"DecWeakLoad", "TestPtr">> = <<"DecWeakLoad">> \o <<"TestPtr">>
      /\ <<"DecWeakLoad", "GotSptr">> = <<"DecWeakLoad">> \o <<"GotSptr">>
      /\ Items(<<"DecWeakLoad">>) = {"DecWeakLoad"}
      /\ Items(<<"DecWeakLoad", "TestPtr">>) = {"DecWeakLoad", "TestPtr"}
      /\ Items(<<"DecWeakLoad", "GotSptr">>) = {"DecWeakLoad", "GotSptr"}
    BY <1>1, Tuples
<1> QED
    BY <1>3, <1>4 DEF Weaks, WeakSets, Ends

\* The rests below a destructor are well formed: the memory is freed next.
LEMMA FreedAre ==
    ASSUME NEW r \in Freed
    PROVE  /\ r \in Seq(Steps) /\ WellFormed(r)
           /\ \E e \in EndSets \union WeakSets : Items(r) = {"FreeObject"} \union e
<1>1. PICK e \in Ends \union Weaks : r = <<"FreeObject">> \o e
    BY DEF Freed
<1>2. e \in Seq(Steps) /\ Items(e) \in EndSets \union WeakSets
    BY EndsAre, WeaksAre
<1>3. "FreeObject" \in Steps /\ e \in Below("FreeObject")
    BY BelowIs DEF Steps
<1> QED
    BY <1>1, <1>2, <1>3, Over

\* The rests below the making of a strong reference are well formed: the sptr
\* comes next.
LEMMA GotsAre ==
    ASSUME NEW r \in Gots
    PROVE  r \in Seq(Steps) /\ WellFormed(r) /\ Items(r) \in GotSets
<1>1. /\ "DecStrongLoad" \in Steps /\ "DecWeakLoad" \in Steps /\ "GotSptr" \in Steps
      /\ <<"DecWeakLoad", "GotSptr">> \in Weaks /\ <<"GotSptr">> \in Ends
    BY DEF Steps, Weaks, Ends
<1>2. /\ <<"DecWeakLoad", "GotSptr">> \in Seq(Steps)
      /\ <<"DecWeakLoad", "GotSptr">> \in Below("DecStrongLoad")
    BY <1>1, WeaksAre, BelowIs
<1>3. /\ <<"DecStrongLoad">> \o <<"DecWeakLoad", "GotSptr">> \in Seq(Steps)
      /\ WellFormed(<<"DecStrongLoad">> \o <<"DecWeakLoad", "GotSptr">>)
    BY <1>1, <1>2, Over
<1>4. /\ <<"DecStrongLoad", "DecWeakLoad", "GotSptr">>
            = <<"DecStrongLoad">> \o <<"DecWeakLoad", "GotSptr">>
      /\ Items(<<"DecStrongLoad", "DecWeakLoad", "GotSptr">>)
            = {"DecStrongLoad", "DecWeakLoad", "GotSptr"}
      /\ Items(<<"GotSptr">>) = {"GotSptr"}
  <2>1. <<"DecStrongLoad", "DecWeakLoad", "GotSptr">>
            = <<"DecStrongLoad">> \o <<"DecWeakLoad", "GotSptr">>
    BY <1>1, Tuples
  <2>2. Items(<<"DecStrongLoad", "DecWeakLoad", "GotSptr">>)
            = {"DecStrongLoad", "DecWeakLoad", "GotSptr"}
    <3>1. /\ Items(<<"DecStrongLoad">> \o <<"DecWeakLoad", "GotSptr">>)
                = {"DecStrongLoad"} \union Items(<<"DecWeakLoad", "GotSptr">>)
      BY <1>1, <1>2, Push
    <3>2. Items(<<"DecWeakLoad", "GotSptr">>) = {"DecWeakLoad", "GotSptr"}
      BY <1>1, Tuples
    <3> QED
      BY <2>1, <3>1, <3>2
  <2>3. Items(<<"GotSptr">>) = {"GotSptr"}
    <3> DEFINE a == "GotSptr"
    <3>1. a \in Steps /\ <<>> \in Below(a)
      BY BelowIs DEF Steps, Last
    <3> HIDE DEF a
    <3>2. Items(<<a>>) = {a}
      BY <3>1, Single
    <3> QED
      BY <3>2 DEF a
  <2> QED
    BY <2>1, <2>2, <2>3
<1>5. <<"GotSptr">> \in Seq(Steps) /\ WellFormed(<<"GotSptr">>)
    BY <1>1, EndsAre
<1>6. r = <<"GotSptr">> \/ r = <<"DecStrongLoad", "DecWeakLoad", "GotSptr">>
    BY DEF Gots
<1>7. /\ <<"DecStrongLoad", "DecWeakLoad", "GotSptr">> \in Seq(Steps)
      /\ WellFormed(<<"DecStrongLoad", "DecWeakLoad", "GotSptr">>)
    BY <1>3, <1>4
<1> QED
    BY <1>4, <1>5, <1>6, <1>7 DEF GotSets

\* The rests below the making of a weak reference are well formed: the wptr
\* comes next.
LEMMA WrapsAre ==
    ASSUME NEW r \in Wraps
    PROVE  r \in Seq(Steps) /\ WellFormed(r) /\ Items(r) \in WrapSets
<1>1. "GotWptr" \in Steps /\ "DropOld" \in Steps
    BY DEF Steps
<1>2. /\ <<>> \in Below("GotWptr") /\ <<"DropOld">> \in Below("GotWptr")
    BY BelowIs
<1>3. /\ <<"GotWptr">> = <<"GotWptr">> \o <<>> /\ <<>> \in Seq(Steps)
      /\ <<"GotWptr", "DropOld">> = <<"GotWptr">> \o <<"DropOld">> /\ <<"DropOld">> \in Seq(Steps)
      /\ Items(<<"GotWptr">>) = {"GotWptr"}
      /\ Items(<<"GotWptr", "DropOld">>) = {"GotWptr", "DropOld"}
    BY <1>1, Tuples
<1>4. /\ <<"GotWptr">> \o <<>> \in Seq(Steps) /\ WellFormed(<<"GotWptr">> \o <<>>)
      /\ <<"GotWptr">> \o <<"DropOld">> \in Seq(Steps)
      /\ WellFormed(<<"GotWptr">> \o <<"DropOld">>)
    BY <1>1, <1>2, <1>3, Over
<1> QED
    BY <1>3, <1>4 DEF Wraps, WrapSets
\* What is pending below a step.
Under(s) ==
    CASE s = "IncWeak" -> {{"AttLoop"}, {"AttSLoad"}} \union WrapSets
                              \union {{"IncStrongLoad"} \union g : g \in GotSets}
      [] s \in {"IncStrongLoad", "IncStrongAdd"} -> GotSets
      [] s = "SubInitial" -> {{"GetRefPtr"}, {"SetAttempt", "OnFirst"}}
                                 \union {{"OnFirst"} \union g : g \in GotSets}
      [] s = "OnFirst" -> {{}} \union GotSets
      [] s = "SetAttempt" -> {{}, {"OnFirst"}}
      [] s \in {"DecStrongLoad", "DecStrongSub", "OnLast"} -> WeakSets
      [] s \in {"DecWeakLoad", "DecWeakSub", "LastWeak"} -> EndSets
      [] s \in {"CallCallback", "FreeObject"} -> EndSets \union WeakSets
      [] s = "DtorRemove" -> {{"DtorCheck", "FreeObject"} \union e : e \in EndSets \union WeakSets}
      [] s = "DtorCheck" -> {{"FreeObject"} \union e : e \in EndSets \union WeakSets}
      [] s \in {"DecRefLoad", "DecRefSub", "FreeCounter"} ->
             EndSets \union {{"FreeObject"} \union e : e \in EndSets \union WeakSets}
      [] s = "WrcNew" -> {{"WrcInc"} \union g : g \in WrapSets}
      [] s = "WrcInc" -> WrapSets
      [] s = "GotWptr" -> {{}, {"DropOld"}}
      [] OTHER -> {{}}

\* Every rest that may lie below a step is well formed, and its steps are one
\* of the sets Under lists.
LEMMA BelowAre ==
    ASSUME NEW s \in Steps, NEW r \in Below(s)
    PROVE  r \in Seq(Steps) /\ WellFormed(r) /\ Items(r) \in Under(s)
<1> USE BelowIs
<1>1. CASE s = "IncWeak"
  <2>1. CASE r \in Wraps
    BY <1>1, <2>1, WrapsAre DEF Under
  <2>2. CASE r \in {<<"AttLoop">>, <<"AttSLoad">>}
    <3>1. \A a \in {"AttLoop", "AttSLoad"} : a \in Steps /\ <<>> \in Below(a)
      BY DEF Steps, Last
    <3>2. \A a \in {"AttLoop", "AttSLoad"} :
              <<a>> \in Seq(Steps) /\ WellFormed(<<a>>) /\ Items(<<a>>) = {a}
      BY <3>1, Single
    <3> QED
      BY <1>1, <2>2, <3>2 DEF Under
  <2>3. CASE r \in {<<"IncStrongLoad">> \o g : g \in Gots}
    <3>1. PICK g \in Gots : r = <<"IncStrongLoad">> \o g
      BY <2>3
    <3>2. g \in Seq(Steps) /\ Items(g) \in GotSets /\ "IncStrongLoad" \in Steps
      BY GotsAre DEF Steps
    <3>3. /\ <<"IncStrongLoad">> \o g \in Seq(Steps) /\ WellFormed(<<"IncStrongLoad">> \o g)
          /\ Items(<<"IncStrongLoad">> \o g) = {"IncStrongLoad"} \union Items(g)
      BY <3>2, Over
    <3> QED
      BY <1>1, <3>1, <3>2, <3>3 DEF Under
  <2> QED
    BY <1>1, <2>1, <2>2, <2>3
<1>2. CASE s = "SubInitial"
  <2>1. CASE r = <<"GetRefPtr">>
    <3>1. "GetRefPtr" \in Steps /\ <<>> \in Below("GetRefPtr")
      BY DEF Steps, Last
    <3> QED
      BY <1>2, <2>1, <3>1, Single DEF Under
  <2>2. CASE r = <<"SetAttempt", "OnFirst">>
    <3>1. "SetAttempt" \in Steps /\ "OnFirst" \in Steps /\ <<"OnFirst">> \in Below("SetAttempt")
      BY DEF Steps
    <3>2. /\ r = <<"SetAttempt">> \o <<"OnFirst">> /\ <<"OnFirst">> \in Seq(Steps)
          /\ Items(r) = {"SetAttempt", "OnFirst"}
      BY <2>2, <3>1, Tuples
    <3>3. r \in Seq(Steps) /\ WellFormed(r)
      BY <3>1, <3>2, Over
    <3> QED
      BY <1>2, <3>2, <3>3 DEF Under
  <2>3. CASE r \in {<<"OnFirst">> \o g : g \in Gots}
    <3>1. PICK g \in Gots : r = <<"OnFirst">> \o g
      BY <2>3
    <3>2. g \in Seq(Steps) /\ Items(g) \in GotSets /\ "OnFirst" \in Steps
      BY GotsAre DEF Steps
    <3>3. /\ <<"OnFirst">> \o g \in Seq(Steps) /\ WellFormed(<<"OnFirst">> \o g)
          /\ Items(<<"OnFirst">> \o g) = {"OnFirst"} \union Items(g)
      BY <3>2, Over
    <3> QED
      BY <1>2, <3>1, <3>2, <3>3 DEF Under
  <2> QED
    BY <1>2, <2>1, <2>2, <2>3
<1>3. CASE s = "DtorRemove"
  <2>1. PICK g \in Freed : r = <<"DtorCheck">> \o g
    BY <1>3
  <2>2. PICK e \in EndSets \union WeakSets : g \in Seq(Steps) /\ Items(g) = {"FreeObject"} \union e
    BY FreedAre
  <2>3. "DtorCheck" \in Steps
    BY DEF Steps
  <2>4. r \in Seq(Steps) /\ WellFormed(r) /\ Items(r) = {"DtorCheck"} \union Items(g)
    BY <2>1, <2>2, <2>3, Over
  <2>5. Items(r) = {"DtorCheck", "FreeObject"} \union e
    BY <2>2, <2>4
  <2> QED
    BY <1>3, <2>4, <2>5 DEF Under
<1>4. CASE s = "WrcNew"
  <2>1. PICK g \in Wraps : r = <<"WrcInc">> \o g
    BY <1>4
  <2>2. g \in Seq(Steps) /\ Items(g) \in WrapSets /\ "WrcInc" \in Steps
    BY WrapsAre DEF Steps
  <2>3. r \in Seq(Steps) /\ WellFormed(r) /\ Items(r) = {"WrcInc"} \union Items(g)
    BY <2>1, <2>2, Over
  <2> QED
    BY <1>4, <2>2, <2>3 DEF Under
<1>5. CASE s \in {"SetAttempt", "GotWptr"}
  <2>1. \A a \in {"OnFirst", "DropOld"} : a \in Steps /\ <<>> \in Below(a)
    BY DEF Steps, Last
  <2>2. \A a \in {"OnFirst", "DropOld"} :
            <<a>> \in Seq(Steps) /\ WellFormed(<<a>>) /\ Items(<<a>>) = {a}
    BY <2>1, Single
  <2> QED
    BY <1>5, <2>2, EmptyStack DEF Under
<1>6. CASE s \in {"IncStrongLoad", "IncStrongAdd", "OnFirst"}
    BY <1>6, GotsAre, EmptyStack DEF Under
<1>7. CASE s \in {"DecStrongLoad", "DecStrongSub", "OnLast"}
    BY <1>7, WeaksAre DEF Under
<1>8. CASE s \in {"DecWeakLoad", "DecWeakSub", "LastWeak"}
    BY <1>8, EndsAre DEF Under
<1>9. CASE s \in {"CallCallback", "FreeObject"}
    BY <1>9, WeaksAre, EndsAre DEF Under
<1>10. CASE s \in {"DtorCheck", "DecRefLoad", "DecRefSub", "FreeCounter"}
  <2>1. CASE s = "DtorCheck"
    BY <2>1, FreedAre DEF Under
  <2>2. CASE s \in {"DecRefLoad", "DecRefSub", "FreeCounter"}
    BY <2>2, FreedAre, EndsAre DEF Under
  <2> QED
    BY <1>10, <2>1, <2>2
<1>11. CASE s = "WrcInc"
    BY <1>11, WrapsAre DEF Under
<1>12. CASE s \in Last
  <2>1. r = <<>>
    BY <1>12
  <2>2. Under(s) = {{}}
    BY <1>12 DEF Under, Last
  <2> QED
    BY <2>1, <2>2, EmptyStack
<1> QED
    BY <1>1, <1>2, <1>3, <1>4, <1>5, <1>6, <1>7, <1>8, <1>9, <1>10, <1>11, <1>12
    DEF Steps, Last

\* A thread at a step.
LEMMA AtStep ==
    ASSUME Stacked, NEW t \in Threads, NEW s \in Steps, At(t, s)
    PROVE  /\ Tail(todo[t]) \in Below(s) /\ Tail(todo[t]) \in Seq(Steps)
           /\ WellFormed(Tail(todo[t])) /\ Items(Tail(todo[t])) \in Under(s)
           /\ pend[t] = {s} \union Items(Tail(todo[t]))
<1>1. todo[t] \in Seq(Steps) /\ todo[t] # <<>> /\ Head(todo[t]) = s
    BY DEF Stacked, At
<1>2. Tail(todo[t]) \in Below(s) /\ Tail(todo[t]) \in Seq(Steps)
    BY <1>1 DEF Stacked, WellFormed
<1>3. todo[t] = <<s>> \o Tail(todo[t])
    BY <1>1, HeadTailProperties
<1>4. Items(todo[t]) = {s} \union Items(Tail(todo[t]))
    BY <1>2, <1>3, Push
<1> QED
    BY <1>2, <1>4, BelowAre DEF pend

\* A thread whose stack becomes x.
LEMMA NewStack ==
    ASSUME Stacked, NEW t \in Threads, NEW x \in Seq(Steps), WellFormed(x),
           todo' = [todo EXCEPT ![t] = x]
    PROVE  Stacked' /\ pend' = [pend EXCEPT ![t] = Items(x)]
BY DEF Stacked, pend

\* The step is over.
LEMMA CallNone ==
    ASSUME Stacked, NEW t \in Threads, NEW s \in Steps, At(t, s), Call(t, <<>>)
    PROVE  /\ Stacked'
           /\ \E e \in Under(s) : pend[t] = {s} \union e /\ pend' = [pend EXCEPT ![t] = e]
<1> DEFINE r == Tail(todo[t])
<1>1. /\ r \in Seq(Steps) /\ WellFormed(r) /\ Items(r) \in Under(s)
      /\ pend[t] = {s} \union Items(r)
    BY AtStep
<1>2. todo' = [todo EXCEPT ![t] = <<>> \o r]
    BY DEF Call
<1>3. <<>> \o r = r
    BY <1>1, ConcatEmptySeq
<1> HIDE DEF r
<1>4. Stacked' /\ pend' = [pend EXCEPT ![t] = Items(r)]
    BY <1>1, <1>2, <1>3, NewStack
<1> QED
    BY <1>1, <1>4

\* The step goes on as b.
LEMMA CallOne ==
    ASSUME Stacked, NEW t \in Threads, NEW s \in Steps, At(t, s),
           NEW b \in Steps, Below(s) \subseteq Below(b), Call(t, <<b>>)
    PROVE  /\ Stacked'
           /\ \E e \in Under(s) : /\ pend[t] = {s} \union e
                                  /\ pend' = [pend EXCEPT ![t] = {b} \union e]
<1> DEFINE r == Tail(todo[t])
<1>1. /\ r \in Below(b) /\ r \in Seq(Steps) /\ Items(r) \in Under(s)
      /\ pend[t] = {s} \union Items(r)
    BY AtStep
<1>2. todo' = [todo EXCEPT ![t] = <<b>> \o r]
    BY DEF Call
<1> HIDE DEF r
<1>3. <<b>> \o r \in Seq(Steps) /\ WellFormed(<<b>> \o r) /\ Items(<<b>> \o r) = {b} \union Items(r)
    BY <1>1, Over
<1>4. Stacked' /\ pend' = [pend EXCEPT ![t] = Items(<<b>> \o r)]
    BY <1>2, <1>3, NewStack
<1> QED
    BY <1>1, <1>3, <1>4

\* The step goes on as b and then c.
LEMMA CallTwo ==
    ASSUME Stacked, NEW t \in Threads, NEW s \in Steps, At(t, s),
           NEW b \in Steps, NEW c \in Steps, Below(s) \subseteq Below(c),
           \A r \in Below(s) : <<c>> \o r \in Below(b), Call(t, <<b, c>>)
    PROVE  /\ Stacked'
           /\ \E e \in Under(s) : /\ pend[t] = {s} \union e
                                  /\ pend' = [pend EXCEPT ![t] = {b, c} \union e]
<1> DEFINE r == Tail(todo[t])  q == <<c>> \o r  z == <<b>> \o q
<1>1. /\ r \in Below(s) /\ r \in Below(c) /\ r \in Seq(Steps) /\ Items(r) \in Under(s)
      /\ pend[t] = {s} \union Items(r)
    BY AtStep
<1>2. todo' = [todo EXCEPT ![t] = <<b, c>> \o r]
    BY DEF Call
<1>3. q \in Below(b)
    BY <1>1
<1> HIDE DEF r
<1>4. <<b, c>> \o r = z
  <2>1. <<b, c>> \o r = <<b>> \o (<<c>> \o r)
    BY <1>1, PushTwo
  <2> QED
    BY <2>1
<1>5. q \in Seq(Steps) /\ Items(q) = {c} \union Items(r)
    BY <1>1, Over
<1> HIDE DEF q
<1>6. z \in Seq(Steps) /\ WellFormed(z) /\ Items(z) = {b} \union Items(q)
    BY <1>3, <1>5, Over
<1> HIDE DEF z
<1>7. Stacked' /\ pend' = [pend EXCEPT ![t] = Items(z)]
    BY <1>2, <1>4, <1>6, NewStack
<1>8. Items(z) = {b, c} \union Items(r)
    BY <1>5, <1>6
<1> QED
    BY <1>1, <1>7, <1>8

\* The step goes on as b, then c, then d.
LEMMA CallThree ==
    ASSUME Stacked, NEW t \in Threads, NEW s \in Steps, At(t, s),
           NEW b \in Steps, NEW c \in Steps, NEW d \in Steps,
           Below(s) \subseteq Below(d), \A r \in Below(s) : <<d>> \o r \in Below(c),
           \A r \in Below(s) : <<c>> \o (<<d>> \o r) \in Below(b), Call(t, <<b, c, d>>)
    PROVE  /\ Stacked'
           /\ \E e \in Under(s) : /\ pend[t] = {s} \union e
                                  /\ pend' = [pend EXCEPT ![t] = {b, c, d} \union e]
<1> DEFINE r == Tail(todo[t])  p == <<d>> \o r  q == <<c>> \o p  z == <<b>> \o q
<1>1. /\ r \in Below(s) /\ r \in Below(d) /\ r \in Seq(Steps) /\ Items(r) \in Under(s)
      /\ pend[t] = {s} \union Items(r)
    BY AtStep
<1>2. todo' = [todo EXCEPT ![t] = <<b, c, d>> \o r]
    BY DEF Call
<1>3. q \in Below(b) /\ p \in Below(c)
    BY <1>1
<1> HIDE DEF r
<1>4. <<b, c, d>> \o r = z
  <2>1. r \in Seq(Steps)
    BY <1>1
  <2>2. <<b, c, d>> \o r = <<b>> \o (<<c>> \o (<<d>> \o r))
    BY <2>1, PushThree
  <2> QED
    BY <2>2
<1>5. p \in Seq(Steps) /\ Items(p) = {d} \union Items(r)
    BY <1>1, Over
<1> HIDE DEF p
<1>6. q \in Seq(Steps) /\ Items(q) = {c} \union Items(p)
    BY <1>3, <1>5, Over
<1> HIDE DEF q
<1>7. z \in Seq(Steps) /\ WellFormed(z) /\ Items(z) = {b} \union Items(q)
    BY <1>3, <1>6, Over
<1> HIDE DEF z
<1>8. Stacked' /\ pend' = [pend EXCEPT ![t] = Items(z)]
    BY <1>2, <1>4, <1>7, NewStack
<1>9. Items(z) = {b, c, d} \union Items(r)
    BY <1>5, <1>6, <1>7
<1> QED
    BY <1>1, <1>8, <1>9
-----------------------------------------------------------------------------
(* What the steps a thread still has to take mean for the counters.  Each  *)
(* set holds the threads in one such situation.                            *)

One(b) == IF b THEN 1 ELSE 0
Unique(X) == \A t, u \in X : t = u

Adding(p) == "IncStrongLoad" \in p \/ "IncStrongAdd" \in p
Trying(p) == \/ "AttLoop" \in p \/ "AttReload" \in p
             \/ "AttCanPromote" \in p \/ "AttAdd" \in p

\* atomicStrong counts a reference that is not an sptr yet, or no longer is.
gains == {t \in Threads :
             \/ "GotSptr" \in pend[t] /\ ~Adding(pend[t])
             \/ "GetRefPtr" \in pend[t] \/ "SetAttempt" \in pend[t]
             \/ "AttEnd" \in pend[t] /\ ~Destroyed(cur[t])}
drops == {t \in Threads : "DecStrongLoad" \in pend[t] \/ "DecStrongSub" \in pend[t]}
strong == [t \in Threads |-> sptrs[t] + One(t \in gains) + One(t \in drops)]
strongs == Total(strong)

\* The thread may still raise atomicStrong in this operation.
tries == {t \in Threads : \/ Adding(pend[t]) \/ Trying(pend[t])
                          \/ "AttLoad" \in pend[t] \/ "TestPtr" \in pend[t]
                          \/ "AttSLoad" \in pend[t] \/ "AttSLoop" \in pend[t]}
claims == [t \in Threads |-> strong[t] + One(t \in tries)]
claimed == Total(claims)

\* The thread still has to take INITIAL_PRIMARY_VALUE off atomicStrong.
owing == {t \in Threads : \/ "SubInitial" \in pend[t]
                          \/ "AttEnd" \in pend[t] /\ cur[t] = INITIAL_PRIMARY_VALUE}

\* atomicWeak counts a reference that is not an sptr yet, or no longer is.
wgains == {t \in Threads :
              /\ "IncWeak" \notin pend[t]
              /\ \/ "GotSptr" \in pend[t] \/ "GetRefPtr" \in pend[t]
                 \/ "SetAttempt" \in pend[t] \/ "AttEnd" \in pend[t] \/ Trying(pend[t])
                 \/ "AttSLoad" \in pend[t] \/ "AttSLoop" \in pend[t]}
wdrops == {t \in Threads : "DecWeakLoad" \in pend[t] \/ "DecWeakSub" \in pend[t]}
weak == [t \in Threads |-> sptrs[t] + One(t \in wgains) + One(t \in wdrops)]
weaks == Total(weak)

\* For a WeakRefCounter: threads about to construct it, to raise it, to raise
\* atomicWeak for it and to delete it, and its wptrs and those under way.
newers  == [w \in Wrcs |-> {t \in Threads : tgt[t] = w /\ "WrcNew" \in pend[t]}]
holders == [w \in Wrcs |-> {t \in Threads : tgt[t] = w /\ "WrcInc" \in pend[t]}]
raisers == [w \in Wrcs |-> {t \in Threads : /\ tgt[t] = w
                                            /\ "IncWeak" \in pend[t] /\ "GotWptr" \in pend[t]}]
freers  == [w \in Wrcs |-> {t \in Threads : tgt[t] = w /\ "FreeWrc" \in pend[t]}]
users   == [w \in Wrcs |-> {t \in Threads :
               /\ tgt[t] = w
               /\ \/ "WrcDec" \in pend[t]
                  \/ "GotWptr" \in pend[t] /\ "WrcInc" \notin pend[t]}]
on == [w \in Wrcs |-> [t \in Threads |-> wptrs[t][w] + One(t \in users[w])]]

\* The WeakRefCounters counted by atomicWeak and by atomicRefCount.
ready == {w \in Wrcs : wrc[w].weak > 0 /\ raisers[w] = {}}
built == {w \in Wrcs : wrc[w].state = "live" /\ newers[w] = {}}
readies == Cardinality(ready)
builts == Cardinality(built)

\* Threads that give back the count the object has on the RefCounter, that
\* give back a count, and that delete the RefCounter.
lasts == {t \in Threads : "LastWeak" \in pend[t]}
bases == {t \in Threads : \/ "LastWeak" \in pend[t]
                          \/ /\ "CallCallback" \in pend[t] \/ "DtorCheck" \in pend[t]
                             /\ "DecWeakLoad" \notin pend[t]}
refdrops == {t \in Threads : "DecRefLoad" \in pend[t] \/ "DecRefSub" \in pend[t]}
refs == [t \in Threads |-> One(t \in refdrops)]
reffed == Total(refs)
freeing == {t \in Threads : "FreeCounter" \in pend[t]}

\* Threads that raise atomicWeak, that run the hooks, that delete the object,
\* and that delete it and have removed its callback.
comings == {t \in Threads : "IncWeak" \in pend[t] \/ "WrcInc" \in pend[t] \/ "WrcNew" \in pend[t]}
onlast  == {t \in Threads : "OnLast" \in pend[t]}
onfirst == {t \in Threads : \/ "OnFirst" \in pend[t]
                            \/ /\ "AttEnd" \in pend[t] /\ op[t] = "acquire"
                               /\ cur[t] = INITIAL_PRIMARY_VALUE}
dying == {t \in Threads : \/ "CallCallback" \in pend[t] \/ "DtorRemove" \in pend[t]
                          \/ "DtorCheck" \in pend[t] \/ "FreeObject" \in pend[t]
                          \/ "OnLast" \in pend[t] /\ ~extended}
stripped == {t \in Threads : "FreeObject" \in pend[t] /\ "DtorRemove" \notin pend[t]}

\* Somebody has, or is about to have, a weak reference.
Alive == raw # {} \/ atomicWeak > 0 \/ comings # {}
Held == Alive \/ bases # {}

\* Nobody can reach the object any more.
Gone == (~extended /\ atomicStrong = 0) \/ (~Alive /\ WeakDeletes)

\* atomicStrong without the initial value.
lowered == IF atomicStrong >= INITIAL_PRIMARY_VALUE
           THEN atomicStrong - INITIAL_PRIMARY_VALUE ELSE atomicStrong

-----------------------------------------------------------------------------
(* The inductive invariant.                                                *)

TypeOK ==
    /\ atomicStrong \in Nat /\ atomicWeak \in Nat /\ atomicRefCount \in Nat
    /\ acquired \in Nat /\ atomicAttempt = acquired
    /\ extended \in BOOLEAN /\ callback \in BOOLEAN /\ object \in BOOLEAN /\ counter \in BOOLEAN
    /\ wrc \in [Wrcs -> [state : {"unused", "live", "deleted"}, weak : Nat]]
    /\ raw \subseteq Threads
    /\ sptrs \in [Threads -> Nat] /\ wptrs \in [Threads -> [Wrcs -> Nat]]
    /\ cur \in [Threads -> Nat] /\ tgt \in [Threads -> Wrcs]
    /\ op \in [Threads -> {"none", "promote", "acquire", "check"}]
    /\ firstCalls \in Nat /\ lastCalls \in Nat
    /\ ops \in 0..MaxOps

StrongInv == lowered = acquired + strongs
OwingInv  == Unique(owing) /\ owing \subseteq gains
/\ (owing # {} <=> atomicStrong > INITIAL_PRIMARY_VALUE)
BoundInv  == claimed + acquired + One(raw # {}) <= ops + 1

WeakInv ==
    /\ atomicWeak >= acquired + weaks + readies
    /\ FALSE \notin CanPromote => atomicWeak = acquired + weaks + readies

RefInv ==
    /\ atomicRefCount = reffed + builts + One(Held)
    /\ Unique(bases) /\ (bases # {} => ~Alive)

WrcAt(w) ==
    /\ wrc[w].weak = Total(on[w])
    /\ wrc[w].state # "live" => wrc[w].weak = 0 /\ holders[w] = {} /\ freers[w] = {}
    /\ wrc[w].state = "live" /\ wrc[w].weak = 0 => holders[w] \union freers[w] # {}
    /\ newers[w] # {} \/ freers[w] # {} => wrc[w].weak = 0
    /\ raisers[w] # {} => wrc[w].weak = 1
    /\ wrc[w].weak = 0 => Unique(holders[w] \union freers[w])
WrcInv == \A w \in Wrcs : WrcAt(w)

LifeInv ==
    /\ Unique(dying)
    /\ dying # {} => object /\ Gone /\ ~(lasts # {} /\ WeakDeletes)
    /\ lasts # {} /\ WeakDeletes => object
    /\ Gone <=> ~object \/ dying # {} \/ (lasts # {} /\ WeakDeletes)
    /\ \A t \in bases : t \notin lasts => WeakDeletes
CallbackInv == callback <=> object /\ stripped = {}
CounterInv ==
    /\ Unique(freeing) /\ (freeing # {} => counter)
    /\ atomicRefCount = 0 <=> freeing # {} \/ ~counter

HookInv ==
    /\ ~extended => Unique(onlast) /\ lastCalls + One(onlast # {}) = One(atomicStrong = 0)
    /\ Unique(onfirst)
    /\ firstCalls + One(onfirst # {}) <= One(atomicStrong # INITIAL_PRIMARY_VALUE)

\* Thread t is the only one that knows of the object.
Only(t) == /\ \A u \in Threads : sptrs[u] = 0 /\ \A w \in Wrcs : wptrs[u][w] = 0
           /\ \A u \in Threads : u # t => pend[u] = {}
           /\ atomicStrong > 0

RawInv ==
    \A t \in raw :
        /\ raw = {t} /\ Only(t)
        /\ pend[t] \subseteq {"AttLoad", "IncWeak", "AttLoop", "AttReload", "AttCanPromote",
                              "AttAdd", "AttEnd", "SubInitial", "SetAttempt", "OnFirst"}
        /\ op[t] = "none" => pend[t] \subseteq {"OnFirst"}

\* What op[t] stands for, and what keeps the object for a promotion.
TagOf(t) ==
    /\ op[t] = "acquire" =>
           /\ \/ "AttLoad" \in pend[t] \/ "AttEnd" \in pend[t]
              \/ "SetAttempt" \in pend[t] \/ Trying(pend[t])
           /\ t \in IpcThreads /\ (t \in raw \/ sptrs[t] > 0)
           /\ "AttLoad" \in pend[t] \/ "SetAttempt" \in pend[t] \/ cur[t] > 0
    /\ op[t] = "promote" => \/ "AttEnd" \in pend[t] \/ "GetRefPtr" \in pend[t]
                            \/ "DecWeakLoad" \in pend[t] \/ Trying(pend[t])
    /\ op[t] = "check" => "DecWeakLoad" \in pend[t] /\ sptrs[t] > 0
    /\ "AttEnd" \in pend[t] \/ Trying(pend[t]) => op[t] \in {"acquire", "promote"}
    /\ "GetRefPtr" \in pend[t] => op[t] = "promote"
    /\ ("AttLoad" \in pend[t] \/ "AttEnd" \in pend[t] \/ "GetRefPtr" \in pend[t]
        \/ "TestPtr" \in pend[t] \/ Trying(pend[t]))
       => op[t] = "acquire" \/ wptrs[t][tgt[t]] > 0
    /\ "AttCanPromote" \in pend[t] \/ "AttAdd" \in pend[t] => extended

\* What keeps the object while a thread makes another reference to it.
BackOf(t) ==
    /\ Adding(pend[t]) =>
           sptrs[t] > 0 \/ "DecStrongLoad" \in pend[t] \/ (raw = {} /\ Only(t))
    /\ (("WrcInc" \in pend[t] /\ wrc[tgt[t]].weak = 0)
        \/ ("IncWeak" \in pend[t] /\ "GotWptr" \in pend[t]))
       => sptrs[t] > 0 \/ (raw = {} /\ Only(t))
    /\ "WrcInc" \in pend[t] /\ wrc[tgt[t]].weak > 0 => wptrs[t][tgt[t]] > 0
    /\ ("AttSLoad" \in pend[t] \/ "AttSLoop" \in pend[t]
        \/ "CheckAttempt" \in pend[t] \/ "ClearAttempt" \in pend[t])
       => sptrs[t] > 0 /\ t \in IpcThreads
    /\ "CheckAttempt" \in pend[t] \/ "ClearAttempt" \in pend[t] => acquired > 0
    /\ "SetAttempt" \in pend[t] => t \in IpcThreads
    /\ "OnFirst" \in pend[t] /\ "GotSptr" \notin pend[t] =>
           t \in IpcThreads /\ ("SetAttempt" \in pend[t] \/ acquired > 0)

TagInv  == \A t \in Threads : TagOf(t)
BackInv == \A t \in Threads : BackOf(t)

Counts == StrongInv /\ OwingInv /\ BoundInv /\ WeakInv /\ RefInv /\ WrcInv
Memory == LifeInv /\ CallbackInv /\ CounterInv /\ HookInv
Locals == RawInv /\ TagInv /\ BackInv
Inv == TypeOK /\ Stacked /\ Counts /\ Memory /\ Locals

-----------------------------------------------------------------------------
(* A step of thread t.                                                     *)

\* Nothing of another thread changes.
Same(t) ==
    /\ extended' = extended
    /\ \A u \in Threads : u # t =>
           /\ pend'[u] = pend[u] /\ cur'[u] = cur[u] /\ op'[u] = op[u]
           /\ tgt'[u] = tgt[u] /\ sptrs'[u] = sptrs[u] /\ wptrs'[u] = wptrs[u]

Moved(X, Y, t) == /\ (t \in X <=> t \in Y) => X = Y
                  /\ t \in X => X = Y \union {t}
                  /\ t \notin X => X = Y \ {t}

\* The sets of threads change by t at most.
LEMMA ThreadSets ==
    ASSUME NEW t \in Threads, Same(t)
    PROVE  /\ Moved(gains', gains, t) /\ Moved(drops', drops, t) /\ Moved(tries', tries, t)
           /\ Moved(owing', owing, t) /\ Moved(wgains', wgains, t) /\ Moved(wdrops', wdrops, t)
           /\ Moved(lasts', lasts, t) /\ Moved(bases', bases, t)
           /\ Moved(refdrops', refdrops, t) /\ Moved(freeing', freeing, t)
           /\ Moved(comings', comings, t) /\ Moved(onlast', onlast, t)
           /\ Moved(onfirst', onfirst, t) /\ Moved(dying', dying, t)
           /\ Moved(stripped', stripped, t)
           /\ \A w \in Wrcs : /\ Moved(newers'[w], newers[w], t)
                              /\ Moved(holders'[w], holders[w], t)
                              /\ Moved(raisers'[w], raisers[w], t)
                              /\ Moved(freers'[w], freers[w], t)
                              /\ Moved(users'[w], users[w], t)
<1> USE DEF Same, Moved
<1>1. Moved(gains', gains, t)
    BY DEF gains, Destroyed
<1>2. Moved(drops', drops, t)
    BY DEF drops
<1>3. Moved(tries', tries, t)
    BY DEF tries
<1>4. Moved(owing', owing, t)
    BY DEF owing
<1>5. Moved(wgains', wgains, t)
    BY DEF wgains
<1>6. Moved(wdrops', wdrops, t)
    BY DEF wdrops
<1>7. Moved(lasts', lasts, t)
    BY DEF lasts
<1>8. Moved(bases', bases, t)
    BY DEF bases
<1>9. Moved(refdrops', refdrops, t)
    BY DEF refdrops
<1>10. Moved(freeing', freeing, t)
    BY DEF freeing
<1>11. Moved(comings', comings, t)
    BY DEF comings
<1>12. Moved(onlast', onlast, t)
    BY DEF onlast
<1>13. Moved(onfirst', onfirst, t)
    BY DEF onfirst
<1>14. Moved(dying', dying, t)
    BY DEF dying
<1>15. Moved(stripped', stripped, t)
    BY DEF stripped
<1>16. ASSUME NEW w \in Wrcs
       PROVE  Moved(newers'[w], newers[w], t) /\ Moved(holders'[w], holders[w], t)
    BY DEF newers, holders
<1>17. ASSUME NEW w \in Wrcs
       PROVE  Moved(raisers'[w], raisers[w], t) /\ Moved(freers'[w], freers[w], t)
    BY DEF raisers, freers
<1>18. ASSUME NEW w \in Wrcs
       PROVE  Moved(users'[w], users[w], t)
    BY DEF users
<1> HIDE DEF Moved
<1> QED
    BY <1>1, <1>2, <1>3, <1>4, <1>5, <1>6, <1>7, <1>8, <1>9, <1>10, <1>11, <1>12, <1>13,
       <1>14, <1>15, <1>16, <1>17, <1>18

\* The summands of the other threads stay.
LEMMA Summands ==
    ASSUME TypeOK, TypeOK', NEW t \in Threads, Same(t)
    PROVE  /\ strong \in [Threads -> Nat] /\ strong' \in [Threads -> Nat]
           /\ claims \in [Threads -> Nat] /\ claims' \in [Threads -> Nat]
           /\ weak \in [Threads -> Nat] /\ weak' \in [Threads -> Nat]
           /\ refs \in [Threads -> Nat] /\ refs' \in [Threads -> Nat]
           /\ \A u \in Threads \ {t} : strong'[u] = strong[u] /\ claims'[u] = claims[u]
           /\ \A u \in Threads \ {t} : weak'[u] = weak[u] /\ refs'[u] = refs[u]
           /\ \A w \in Wrcs : /\ on[w] \in [Threads -> Nat] /\ on'[w] \in [Threads -> Nat]
                              /\ \A u \in Threads \ {t} : on'[w][u] = on[w][u]
<1>1. /\ \A u \in Threads : u # t => sptrs'[u] = sptrs[u] /\ wptrs'[u] = wptrs[u]
      /\ sptrs \in [Threads -> Nat] /\ sptrs' \in [Threads -> Nat]
      /\ wptrs \in [Threads -> [Wrcs -> Nat]] /\ wptrs' \in [Threads -> [Wrcs -> Nat]]
    BY DEF Same, TypeOK
<1>2. \A u \in Threads : u # t =>
          /\ (u \in gains' <=> u \in gains) /\ (u \in drops' <=> u \in drops)
          /\ (u \in tries' <=> u \in tries) /\ (u \in wgains' <=> u \in wgains)
          /\ (u \in wdrops' <=> u \in wdrops) /\ (u \in refdrops' <=> u \in refdrops)
    BY ThreadSets DEF Moved
<1>3. \A w \in Wrcs : \A u \in Threads : u # t => (u \in users'[w] <=> u \in users[w])
  <2>1. \A w \in Wrcs : Moved(users'[w], users[w], t)
    BY ThreadSets
  <2> QED
    BY <2>1 DEF Moved
<1>4. /\ strong \in [Threads -> Nat] /\ strong' \in [Threads -> Nat]
      /\ \A u \in Threads \ {t} : strong'[u] = strong[u]
    BY <1>1, <1>2 DEF strong, One
<1>5. /\ claims \in [Threads -> Nat] /\ claims' \in [Threads -> Nat]
      /\ \A u \in Threads \ {t} : claims'[u] = claims[u]
    BY <1>2, <1>4 DEF claims, One
<1>6. /\ weak \in [Threads -> Nat] /\ weak' \in [Threads -> Nat]
      /\ \A u \in Threads \ {t} : weak'[u] = weak[u]
    BY <1>1, <1>2 DEF weak, One
<1>7. /\ refs \in [Threads -> Nat] /\ refs' \in [Threads -> Nat]
      /\ \A u \in Threads \ {t} : refs'[u] = refs[u]
    BY <1>1, <1>2 DEF refs, One
<1>8. ASSUME NEW w \in Wrcs
      PROVE  /\ on[w] \in [Threads -> Nat] /\ on'[w] \in [Threads -> Nat]
             /\ \A u \in Threads \ {t} : on'[w][u] = on[w][u]
    BY <1>1, <1>3 DEF on, One
<1> QED
    BY <1>4, <1>5, <1>6, <1>7, <1>8

\* The sums change by what t's summands change by.
LEMMA Sums ==
    ASSUME RefBaseConstants, TypeOK, TypeOK', NEW t \in Threads, Same(t)
    PROVE  /\ strongs \in Nat /\ claimed \in Nat
           /\ weaks \in Nat /\ reffed \in Nat
           /\ strongs' = strongs + strong'[t] - strong[t]
           /\ claimed' = claimed + claims'[t] - claims[t]
           /\ weaks' = weaks + weak'[t] - weak[t]
           /\ reffed' = reffed + refs'[t] - refs[t]
           /\ \A w \in Wrcs : /\ Total(on[w]) \in Nat
                              /\ Total(on'[w]) = Total(on[w]) + on'[w][t] - on[w][t]
<1>1. IsFiniteSet(Threads)
    BY DEF RefBaseConstants
<1>2. ASSUME NEW f \in [Threads -> Nat], NEW g \in [Threads -> Nat],
             \A u \in Threads \ {t} : g[u] = f[u]
      PROVE  Total(f) \in Nat /\ Total(g) = Total(f) + g[t] - f[t]
    BY <1>1, <1>2, TotalStep
<1>3. /\ strong \in [Threads -> Nat] /\ strong' \in [Threads -> Nat]
      /\ claims \in [Threads -> Nat] /\ claims' \in [Threads -> Nat]
      /\ weak \in [Threads -> Nat] /\ weak' \in [Threads -> Nat]
      /\ refs \in [Threads -> Nat] /\ refs' \in [Threads -> Nat]
      /\ \A u \in Threads \ {t} : strong'[u] = strong[u] /\ claims'[u] = claims[u]
      /\ \A u \in Threads \ {t} : weak'[u] = weak[u] /\ refs'[u] = refs[u]
      /\ \A w \in Wrcs : /\ on[w] \in [Threads -> Nat] /\ on'[w] \in [Threads -> Nat]
                         /\ \A u \in Threads \ {t} : on'[w][u] = on[w][u]
    BY Summands
<1>5. /\ strongs \in Nat /\ strongs' = strongs + strong'[t] - strong[t]
      /\ claimed \in Nat /\ claimed' = claimed + claims'[t] - claims[t]
      /\ weaks \in Nat /\ weaks' = weaks + weak'[t] - weak[t]
      /\ reffed \in Nat /\ reffed' = reffed + refs'[t] - refs[t]
    BY <1>2, <1>3 DEF strongs, claimed, weaks, reffed
<1>6. ASSUME NEW w \in Wrcs
      PROVE  Total(on[w]) \in Nat /\ Total(on'[w]) = Total(on[w]) + on'[w][t] - on[w][t]
    BY <1>2, <1>3
<1> QED
    BY <1>5, <1>6

\* INITIAL_PRIMARY_VALUE is a number the proofs need not compute with.
LEMMA InitialIs == INITIAL_PRIMARY_VALUE \in Nat /\ INITIAL_PRIMARY_VALUE > 1
BY SMT DEF INITIAL_PRIMARY_VALUE

\* The strong count without the initial value is a number.
LEMMA LoweredIs ==
    ASSUME atomicStrong \in Nat
    PROVE  lowered \in Nat
BY InitialIs DEF lowered

\* A sum of smaller summands is smaller.
LEMMA TotalMonotone ==
    ASSUME NEW X, IsFiniteSet(X), NEW f \in [X -> Nat], NEW g \in [X -> Nat],
           \A x \in X : f[x] <= g[x]
    PROVE  Total(f) <= Total(g)
<1>1. IsFiniteSet(Pairs(f)) /\ IsFiniteSet(Pairs(g))
    BY PairsFinite
<1>2. Pairs(f) \subseteq Pairs(g)
  <2>1. ASSUME NEW z \in Pairs(f)
        PROVE  z \in Pairs(g)
    <3>1. PICK x \in X : z \in {x} \X (1..f[x])
      BY DEF Pairs
    <3>2. 1..f[x] \subseteq 1..g[x]
      OBVIOUS
    <3>3. z \in {x} \X (1..g[x])
      BY <3>1, <3>2
    <3> QED
      BY <3>3 DEF Pairs
  <2> QED
    BY <2>1
<1>3. Cardinality(Pairs(f)) <= Cardinality(Pairs(g))
    BY <1>1, <1>2, FS_Subset
<1> QED
    BY <1>3 DEF Total, Pairs

\* The sums are numbers, and one thread's part is within the sum.
LEMMA Parts ==
    ASSUME RefBaseConstants, TypeOK
    PROVE  /\ strong \in [Threads -> Nat] /\ claims \in [Threads -> Nat]
           /\ weak \in [Threads -> Nat] /\ refs \in [Threads -> Nat]
           /\ \A w \in Wrcs : on[w] \in [Threads -> Nat] /\ Total(on[w]) \in Nat
           /\ strongs \in Nat /\ claimed \in Nat
           /\ weaks \in Nat /\ reffed \in Nat
           /\ strongs <= claimed
           /\ \A t \in Threads : /\ strong[t] <= strongs /\ claims[t] <= claimed
                                 /\ weak[t] <= weaks /\ refs[t] <= reffed
           /\ \A t, u \in Threads : t # u => strong[t] + strong[u] <= strongs
           /\ \A w \in Wrcs : \A t \in Threads : on[w][t] <= Total(on[w])
           /\ \A w \in Wrcs : \A t, u \in Threads : t # u => on[w][t] + on[w][u] <= Total(on[w])
<1>1. IsFiniteSet(Threads)
    BY DEF RefBaseConstants
<1>2. sptrs \in [Threads -> Nat] /\ wptrs \in [Threads -> [Wrcs -> Nat]]
    BY DEF TypeOK
<1>3. /\ strong \in [Threads -> Nat] /\ weak \in [Threads -> Nat] /\ refs \in [Threads -> Nat]
    BY <1>2 DEF strong, weak, refs, One
<1>4. claims \in [Threads -> Nat] /\ \A t \in Threads : strong[t] <= claims[t]
    BY <1>3 DEF claims, One
<1>5. \A w \in Wrcs : on[w] \in [Threads -> Nat]
    BY <1>2 DEF on, One
<1>6. ASSUME NEW f \in [Threads -> Nat]
      PROVE  Total(f) \in Nat
  <2>1. IsFiniteSet(Pairs(f))
    BY <1>1, PairsFinite
  <2> QED
    BY <2>1, FS_CardinalityType DEF Total, Pairs
<1>7. strongs <= claimed
    BY <1>1, <1>3, <1>4, TotalMonotone DEF strongs, claimed
<1>8. ASSUME NEW f \in [Threads -> Nat]
      PROVE  /\ \A t \in Threads : f[t] <= Total(f)
             /\ \A t, u \in Threads : t # u => f[t] + f[u] <= Total(f)
    BY <1>1, TotalAtLeast
<1> QED
    BY <1>3, <1>4, <1>5, <1>6, <1>7, <1>8 DEF strongs, claimed, weaks, reffed

\* The same after a step.
LEMMA PartsAfter ==
    ASSUME RefBaseConstants, TypeOK'
    PROVE  strongs' \in Nat /\ claimed' \in Nat /\ strongs' <= claimed'
<1>1. IsFiniteSet(Threads) /\ sptrs' \in [Threads -> Nat]
    BY DEF RefBaseConstants, TypeOK
<1>2. strong' \in [Threads -> Nat]
    BY <1>1 DEF strong, One
<1>3. claims' \in [Threads -> Nat] /\ \A t \in Threads : strong'[t] <= claims'[t]
    BY <1>2 DEF claims, One
<1>4. ASSUME NEW f \in [Threads -> Nat]
      PROVE  Total(f) \in Nat
  <2>1. IsFiniteSet(Pairs(f))
    BY <1>1, PairsFinite
  <2> QED
    BY <2>1, FS_CardinalityType DEF Total, Pairs
<1>5. Total(strong') <= Total(claims')
    BY <1>1, <1>2, <1>3, TotalMonotone
<1> QED
    BY <1>2, <1>3, <1>4, <1>5 DEF strongs, claimed

\* What the strong count says.
LEMMA StrongFacts ==
    ASSUME RefBaseConstants, Inv
    PROVE  /\ lowered \in Nat /\ lowered < INITIAL_PRIMARY_VALUE
           /\ \A t \in Threads : strong[t] \in Nat /\ strong[t] + acquired <= lowered
           /\ \A t, u \in Threads : t # u => strong[t] + strong[u] <= lowered
           /\ lowered > 0 => atomicStrong > 0 /\ atomicStrong # INITIAL_PRIMARY_VALUE
           /\ \A t \in owing : t \in Threads /\ strong[t] > 0
<1>1. /\ atomicStrong \in Nat /\ acquired \in Nat /\ ops \in 0..MaxOps
      /\ lowered = acquired + strongs
      /\ claimed + acquired + One(raw # {}) <= ops + 1
    BY DEF Inv, Counts, TypeOK, StrongInv, BoundInv
<1>2. MaxOps \in Nat /\ MaxOps + 1 < INITIAL_PRIMARY_VALUE
    BY DEF RefBaseConstants
<1>3. One(raw # {}) \in {0, 1}
    BY DEF One
<1>4. /\ strongs \in Nat /\ claimed \in Nat /\ strongs <= claimed
      /\ \A t \in Threads : strong[t] \in Nat /\ strong[t] <= strongs
      /\ \A t, u \in Threads : t # u => strong[t] + strong[u] <= strongs
    BY Parts DEF Inv
<1>5. lowered \in Nat /\ lowered < INITIAL_PRIMARY_VALUE
    BY <1>1, <1>2, <1>3, <1>4, InitialIs
<1>6. lowered > 0 => atomicStrong > 0 /\ atomicStrong # INITIAL_PRIMARY_VALUE
    BY <1>1, InitialIs DEF lowered
<1>7. ASSUME NEW t \in owing
      PROVE  t \in Threads /\ strong[t] > 0
  <2>1. t \in gains /\ t \in Threads /\ sptrs[t] \in Nat
    BY DEF Inv, Counts, OwingInv, owing, TypeOK
  <2> QED
    BY <2>1 DEF strong, One
<1> QED
    BY <1>1, <1>4, <1>5, <1>6, <1>7

\* What the weak count says.
LEMMA WeakFacts ==
    ASSUME RefBaseConstants, Inv
    PROVE  /\ \A t \in Threads : weak[t] \in Nat /\ weak[t] + acquired <= atomicWeak
           /\ IsFiniteSet(ready) /\ IsFiniteSet(built)
           /\ readies \in Nat /\ builts \in Nat
           /\ ready # {} => atomicWeak > 0
           /\ \A w \in Wrcs : wrc[w].weak > 0 => Alive
           /\ \A w \in Wrcs : \A t \in Threads :
                  on[w][t] > 0 => wrc[w].weak > 0 /\ wrc[w].state = "live"
           /\ \A w \in Wrcs : \A t, u \in Threads :
                  t # u /\ on[w][t] > 0 /\ on[w][u] > 0 => wrc[w].weak > 1
           /\ \A w \in Wrcs : \A t \in Threads : on[w][t] \in Nat /\ on[w][t] >= wptrs[t][w]
<1>1. IsFiniteSet(Wrcs)
    BY DEF RefBaseConstants
<1>2. IsFiniteSet(ready) /\ IsFiniteSet(built)
    BY <1>1, FS_Subset DEF ready, built
<1>3. readies \in Nat /\ builts \in Nat
    BY <1>2, FS_CardinalityType DEF readies, builts
<1>4. ready # {} => readies > 0
    BY <1>2, <1>3, FS_EmptySet DEF readies
<1>5. atomicWeak \in Nat /\ acquired \in Nat
      /\ atomicWeak >= acquired + weaks + readies
    BY DEF Inv, Counts, TypeOK, WeakInv
<1>6. /\ weaks \in Nat
      /\ \A t \in Threads : weak[t] \in Nat /\ weak[t] <= weaks
    BY Parts DEF Inv
<1>7. ASSUME NEW w \in Wrcs, wrc[w].weak > 0
      PROVE  Alive
  <2>1. CASE raisers[w] = {}
    BY <1>3, <1>4, <1>5, <1>6, <1>7, <2>1 DEF ready, Alive
  <2>2. CASE raisers[w] # {}
    <3>1. comings # {}
      BY <2>2 DEF raisers, comings
    <3> QED
      BY <3>1 DEF Alive
  <2> QED
    BY <2>1, <2>2
<1>8. ASSUME NEW w \in Wrcs
      PROVE  /\ on[w] \in [Threads -> Nat] /\ Total(on[w]) \in Nat
             /\ wrc[w].weak = Total(on[w])
             /\ \A t \in Threads : on[w][t] <= Total(on[w])
             /\ \A t, u \in Threads : t # u => on[w][t] + on[w][u] <= Total(on[w])
             /\ wrc[w].state # "live" => wrc[w].weak = 0
    BY Parts DEF Inv, Counts, WrcInv, WrcAt
<1>9. ASSUME NEW w \in Wrcs, NEW t \in Threads
      PROVE  on[w][t] \in Nat /\ on[w][t] >= wptrs[t][w]
  <2>1. wptrs[t][w] \in Nat
    BY DEF Inv, TypeOK
  <2> QED
    BY <2>1 DEF on, One
<1>10. \A w \in Wrcs : \A t \in Threads :
           on[w][t] > 0 => wrc[w].weak > 0 /\ wrc[w].state = "live"
    BY <1>8, <1>9
<1>11. \A w \in Wrcs : \A t, u \in Threads :
           t # u /\ on[w][t] > 0 /\ on[w][u] > 0 => wrc[w].weak > 1
    BY <1>8, <1>9
<1> QED
    BY <1>2, <1>3, <1>4, <1>5, <1>6, <1>7, <1>9, <1>10, <1>11

\* While somebody has a weak reference and the strong count is not zero, or
\* zero does not matter, the object is there; its counter is there as long as
\* anybody has a count on it.
LEMMA LifeFacts ==
    ASSUME RefBaseConstants, Inv
    PROVE  /\ Alive /\ (atomicStrong > 0 \/ extended) =>
                  object /\ callback /\ dying = {} /\ ~Gone
           /\ Alive => bases = {} /\ lasts = {}
           /\ Held \/ refdrops # {} \/ built # {} => /\ atomicRefCount > 0 /\ counter
                                                     /\ freeing = {}
           /\ dying # {} => object /\ Gone
           /\ lasts \subseteq bases
<1>1. lasts \subseteq bases
    BY DEF lasts, bases
<1>2. Alive => bases = {} /\ lasts = {}
    BY <1>1 DEF Inv, Counts, RefInv
<1>3. dying # {} => object /\ Gone
    BY DEF Inv, Memory, LifeInv
<1>4. atomicStrong \in Nat
    BY DEF Inv, TypeOK
<1>5. ASSUME Alive, atomicStrong > 0 \/ extended
      PROVE  object /\ callback /\ dying = {} /\ ~Gone
  <2>1. ~Gone
    BY <1>5, <1>4 DEF Gone
  <2>2. object /\ dying = {}
    BY <2>1, <1>3 DEF Inv, Memory, LifeInv
  <2>3. stripped \subseteq dying
    BY DEF stripped, dying
  <2>4. callback
    BY <2>2, <2>3 DEF Inv, Memory, CallbackInv
  <2> QED
    BY <2>1, <2>2, <2>4
<1>6. ASSUME Held \/ refdrops # {} \/ built # {}
      PROVE  atomicRefCount > 0 /\ counter /\ freeing = {}
  <2>1. /\ reffed \in Nat /\ \A t \in Threads : refs[t] <= reffed
    BY Parts DEF Inv
  <2>2. IsFiniteSet(built) /\ builts \in Nat
    BY WeakFacts
  <2>3. built # {} => builts > 0
    BY <2>2, FS_EmptySet DEF builts
  <2>4. refdrops # {} => reffed > 0
    <3>1. ASSUME NEW t \in refdrops PROVE t \in Threads /\ refs[t] = 1
      BY DEF refdrops, refs, One
    <3> QED
      BY <3>1, <2>1
  <2>5. atomicRefCount = reffed + builts + One(Held)
    BY DEF Inv, Counts, RefInv
  <2>6. atomicRefCount > 0
    BY <1>6, <2>1, <2>2, <2>3, <2>4, <2>5 DEF One
  <2> QED
    BY <2>6 DEF Inv, Memory, CounterInv
<1> QED
    BY <1>1, <1>2, <1>3, <1>5, <1>6

-----------------------------------------------------------------------------
(* What a step has to show for each part of the invariant.                 *)

\* A step of t keeps StrongInv when atomicStrong moves with the strong
\* references of t.
LEMMA StrongStep ==
    ASSUME RefBaseConstants, Inv, TypeOK', NEW t \in Threads, Same(t),
           lowered' = lowered + (acquired' - acquired) + (strong'[t] - strong[t])
    PROVE  StrongInv'
<1>1. /\ strongs' = strongs + strong'[t] - strong[t] /\ strongs \in Nat
      /\ strong[t] \in Nat /\ strong'[t] \in Nat
    BY Sums, Summands DEF Inv
<1>2. lowered = acquired + strongs /\ acquired \in Nat
    BY DEF Inv, Counts, StrongInv, TypeOK
<1>3. acquired' \in Nat /\ lowered' \in Nat
  <2>1. atomicStrong' \in Nat /\ acquired' \in Nat
    BY DEF TypeOK
  <2> QED
    BY <2>1, InitialIs DEF lowered
<1> QED
    BY <1>1, <1>2, <1>3 DEF StrongInv

\* A step of t keeps BoundInv when an operation pays for every reference t
\* may come to have.
LEMMA BoundStep ==
    ASSUME RefBaseConstants, Inv, TypeOK', NEW t \in Threads, Same(t),
           claims'[t] + acquired' + One(raw' # {}) - ops'
               <= claims[t] + acquired + One(raw # {}) - ops
    PROVE  BoundInv'
<1>1. /\ claimed' = claimed + claims'[t] - claims[t] /\ claimed \in Nat
      /\ claims[t] \in Nat /\ claims'[t] \in Nat
    BY Sums, Summands DEF Inv
<1>2. /\ claimed + acquired + One(raw # {}) <= ops + 1
      /\ acquired \in Nat /\ ops \in Int
    BY DEF Inv, Counts, BoundInv, TypeOK
<1>3. acquired' \in Nat /\ ops' \in Int
    BY DEF TypeOK
<1>4. One(raw # {}) \in Nat /\ One(raw' # {}) \in Nat
    BY DEF One
<1> QED
    BY <1>1, <1>2, <1>3, <1>4 DEF BoundInv

\* A step of t keeps WeakInv when atomicWeak moves with the weak references
\* of t and the WeakRefCounters.
LEMMA WeakStep ==
    ASSUME RefBaseConstants, Inv, TypeOK', NEW t \in Threads, Same(t),
           readies' \in Nat,
           atomicWeak' = atomicWeak + (acquired' - acquired) + (weak'[t] - weak[t])
                             + (readies' - readies)
    PROVE  WeakInv'
<1>1. /\ weaks' = weaks + weak'[t] - weak[t] /\ weaks \in Nat
      /\ weak[t] \in Nat /\ weak'[t] \in Nat
    BY Sums, Summands DEF Inv
<1>2. /\ atomicWeak >= acquired + weaks + readies
      /\ FALSE \notin CanPromote => atomicWeak = acquired + weaks + readies
      /\ acquired \in Nat /\ atomicWeak \in Nat
    BY DEF Inv, Counts, WeakInv, TypeOK
<1>3. acquired' \in Nat /\ atomicWeak' \in Nat
    BY DEF TypeOK
<1>4. readies \in Nat
    BY WeakFacts
<1>5. atomicWeak' >= acquired' + weaks' + readies'
    BY <1>1, <1>2, <1>3, <1>4
<1>6. ASSUME FALSE \notin CanPromote
      PROVE  atomicWeak' = acquired' + weaks' + readies'
  <2>1. atomicWeak = acquired + weaks + readies
    BY <1>2, <1>6
  <2> QED
    BY <1>1, <1>2, <1>3, <1>4, <2>1
<1> QED
    BY <1>5, <1>6 DEF WeakInv

\* A step of t keeps atomicRefCount exact when it moves with what t gives
\* back, the WeakRefCounters and the object.
LEMMA RefStep ==
    ASSUME RefBaseConstants, Inv, TypeOK', NEW t \in Threads, Same(t),
           builts' \in Nat,
           atomicRefCount' = atomicRefCount + (refs'[t] - refs[t]) + (builts' - builts)
                                 + (One(Held') - One(Held))
    PROVE  (atomicRefCount = reffed + builts + One(Held))'
<1>1. /\ reffed' = reffed + refs'[t] - refs[t] /\ reffed \in Nat
      /\ refs[t] \in Nat /\ refs'[t] \in Nat
    BY Sums, Summands DEF Inv
<1>2. /\ atomicRefCount = reffed + builts + One(Held)
      /\ atomicRefCount \in Nat
    BY DEF Inv, Counts, RefInv, TypeOK
<1>3. atomicRefCount' \in Nat
    BY DEF TypeOK
<1>4. builts \in Nat
    BY WeakFacts
<1>5. One(Held) \in Nat /\ One(Held') \in Nat
    BY DEF One
<1> QED
    BY <1>1, <1>2, <1>3, <1>4, <1>5

\* The step does nothing to a WeakRefCounter.
WrcSame(t) ==
    /\ wrc' = wrc /\ wptrs' = wptrs /\ tgt'[t] = tgt[t]
    /\ "WrcNew" \in pend'[t] <=> "WrcNew" \in pend[t]
    /\ "WrcInc" \in pend'[t] <=> "WrcInc" \in pend[t]
    /\ "FreeWrc" \in pend'[t] <=> "FreeWrc" \in pend[t]
    /\ "WrcDec" \in pend'[t] <=> "WrcDec" \in pend[t]
    /\ "GotWptr" \in pend'[t] <=> "GotWptr" \in pend[t]
    /\ "GotWptr" \in pend[t] => ("IncWeak" \in pend'[t] <=> "IncWeak" \in pend[t])

\* A step that leaves the WeakRefCounters and the uses of them alone keeps
\* WrcInv.
LEMMA WrcStep ==
    ASSUME RefBaseConstants, Inv, NEW t \in Threads, Same(t), WrcSame(t)
    PROVE  /\ WrcInv' /\ ready' = ready /\ built' = built
           /\ readies' = readies /\ builts' = builts
           /\ readies \in Nat /\ builts \in Nat
<1>1. newers' = newers /\ holders' = holders
    BY DEF Same, WrcSame, newers, holders
<1>2. raisers' = raisers
    BY DEF Same, WrcSame, raisers
<1>3. freers' = freers
    BY DEF Same, WrcSame, freers
<1>4. users' = users
    BY DEF Same, WrcSame, users
<1>5. on' = on
    BY <1>4 DEF WrcSame, on
<1>6. wrc' = wrc
    BY DEF WrcSame
<1>7. ready' = ready /\ built' = built
    BY <1>1, <1>2, <1>6 DEF ready, built
<1>8. WrcInv
    BY DEF Inv, Counts
<1>9. WrcInv'
    BY <1>1, <1>2, <1>3, <1>5, <1>6, <1>8 DEF WrcInv, WrcAt
<1> QED
    BY <1>7, <1>9, WeakFacts DEF readies, builts

\* The step does nothing to one WeakRefCounter.
LEMMA WrcKept ==
    ASSUME RefBaseConstants, Inv, TypeOK', NEW t \in Threads, Same(t), NEW w \in Wrcs,
           wrc'[w] = wrc[w], on'[w][t] = on[w][t], newers'[w] = newers[w],
           holders'[w] = holders[w], raisers'[w] = raisers[w], freers'[w] = freers[w]
    PROVE  WrcAt(w)' /\ (w \in ready' <=> w \in ready) /\ (w \in built' <=> w \in built)
<1>1. WrcAt(w)
    BY DEF Inv, Counts, WrcInv
<1>2. Total(on'[w]) = Total(on[w])
  <2>1. Total(on[w]) \in Nat /\ Total(on'[w]) = Total(on[w]) + on'[w][t] - on[w][t]
    BY Sums DEF Inv
  <2>2. on[w][t] \in Nat
    BY Summands DEF Inv
  <2> QED
    BY <2>1, <2>2
<1>3. WrcAt(w)'
    BY <1>1, <1>2 DEF WrcAt
<1>4. (w \in ready' <=> w \in ready) /\ (w \in built' <=> w \in built)
    BY DEF ready, built
<1> QED
    BY <1>3, <1>4

\* The object is needed before and after the step.
LEMMA LifeStep ==
    ASSUME RefBaseConstants, Inv, Alive, Alive', atomicStrong > 0 \/ extended,
           atomicStrong' > 0 \/ extended', TypeOK',
           object' = object, dying' = dying, lasts' = lasts, bases' = bases
    PROVE  LifeInv'
<1>1. object /\ dying = {} /\ lasts = {} /\ bases = {} /\ ~Gone
    BY LifeFacts
<1>2. ~Gone'
    BY DEF Gone, TypeOK
<1> QED
    BY <1>1, <1>2 DEF LifeInv, Unique

\* A thread that knows of the object keeps it from being another's alone.
LEMMA NotOnly ==
    ASSUME Inv, NEW t \in Threads,
           pend[t] # {} \/ sptrs[t] > 0 \/ (\E w \in Wrcs : wptrs[t][w] > 0) \/ t \in raw
    PROVE  /\ \A u \in Threads : u # t /\ pend[u] # {} => ~Only(u)
           /\ \A u \in raw : u = t
<1>1. sptrs \in [Threads -> Nat] /\ wptrs \in [Threads -> [Wrcs -> Nat]] /\ raw \subseteq Threads
    BY DEF Inv, TypeOK
<1>2. \A u \in raw : raw = {u} /\ Only(u)
    BY DEF Inv, Locals, RawInv
<1> QED
    BY <1>1, <1>2 DEF Only

\* The parts of the invariant about each thread: only t's has to be shown.
LEMMA TagStep ==
    ASSUME Inv, NEW t \in Threads, Same(t), raw' = raw \/ raw' = raw \ {t}, TagOf(t)'
    PROVE  TagInv'
<1>1. ASSUME NEW u \in Threads, u # t
      PROVE  TagOf(u)'
  <2>1. TagOf(u)
    BY DEF Inv, Locals, TagInv
  <2> QED
    BY <1>1, <2>1 DEF TagOf, Same
<1> QED
    BY <1>1 DEF TagInv

\* A step of t keeps BackInv when it keeps BackOf(t) and takes nothing
\* another thread relies on.
LEMMA BackStep ==
    ASSUME RefBaseConstants, Inv, NEW t \in Threads, Same(t),
           \A u \in Threads : u # t /\ pend[u] # {} => ~Only(u),
           acquired' >= acquired \/ t \in IpcThreads,
           \A u \in Threads : u # t /\ "WrcInc" \in pend[u] =>
               (wrc'[tgt[u]].weak > 0 <=> wrc[tgt[u]].weak > 0),
           TypeOK', BackOf(t)'
    PROVE  BackInv'
<1>1. ASSUME NEW u \in Threads, u # t
      PROVE  BackOf(u)'
  <2>1. BackOf(u)
    BY DEF Inv, Locals, BackInv
  <2>2. /\ pend'[u] = pend[u] /\ tgt'[u] = tgt[u] /\ sptrs'[u] = sptrs[u]
        /\ wptrs'[u] = wptrs[u]
    BY <1>1 DEF Same
  <2>3. CASE pend[u] = {}
    BY <2>2, <2>3 DEF BackOf, Adding
  <2>4. CASE pend[u] # {}
    <3>1. ~Only(u)
      BY <1>1, <2>4
    <3>2. u \in IpcThreads => acquired' >= acquired
      BY <1>1 DEF RefBaseConstants
    <3>3. acquired \in Nat /\ acquired' \in Nat
      BY DEF Inv, TypeOK
    <3>4. /\ tgt[u] \in Wrcs /\ wrc[tgt[u]].weak \in Nat /\ wrc'[tgt[u]].weak \in Nat
      BY DEF Inv, TypeOK
    <3>5. "WrcInc" \in pend[u] => (wrc'[tgt[u]].weak > 0 <=> wrc[tgt[u]].weak > 0)
      BY <1>1
    <3> QED
      BY <2>1, <2>2, <3>1, <3>2, <3>3, <3>4, <3>5 DEF BackOf
  <2> QED
    BY <2>3, <2>4
<1> QED
    BY <1>1 DEF BackInv

\* A step that only a thread without the raw pointer takes.
LEMMA RawStep ==
    ASSUME Inv, NEW t \in Threads, NEW s \in pend[t], raw' = raw,
           s \notin {"AttLoad", "IncWeak", "AttLoop", "AttReload", "AttCanPromote",
                     "AttAdd", "AttEnd", "SubInitial", "SetAttempt", "OnFirst"}
    PROVE  raw = {} /\ RawInv'
<1>1. \A u \in raw : u = t
    BY NotOnly
<1>2. t \notin raw
    BY DEF Inv, Locals, RawInv
<1> QED
    BY <1>1, <1>2 DEF RawInv

\* What each part of the invariant depends on.
LEMMA Frames ==
    ASSUME Inv
    PROVE  /\ UNCHANGED <<raw, atomicWeak, comings>> => Alive' = Alive
           /\ UNCHANGED <<sptrs, gains, drops>> => strong' = strong
           /\ UNCHANGED <<sptrs, wgains, wdrops>> => weak' = weak
           /\ UNCHANGED <<refdrops>> => refs' = refs
           /\ UNCHANGED <<atomicStrong, acquired, sptrs, gains, drops>> => StrongInv'
           /\ UNCHANGED <<atomicStrong, owing, gains>> => OwingInv'
           /\ UNCHANGED <<acquired, sptrs, gains, drops, tries, raw, ops>> => BoundInv'
           /\ UNCHANGED <<atomicWeak, acquired, sptrs, wgains, wdrops, ready>> => WeakInv'
           /\ UNCHANGED <<atomicRefCount, refdrops, built, bases, Alive>> => RefInv'
           /\ UNCHANGED <<atomicStrong, extended, Alive, object, dying, lasts, bases>> => LifeInv'
           /\ UNCHANGED <<callback, object, stripped>> => CallbackInv'
           /\ UNCHANGED <<atomicRefCount, counter, freeing>> => CounterInv'
           /\ UNCHANGED <<atomicStrong, extended, hooks, onfirst, onlast>> => HookInv'
<1>1. UNCHANGED <<raw, atomicWeak, comings>> => Alive' = Alive
    BY DEF Alive
<1>2. UNCHANGED <<sptrs, gains, drops>> => strong' = strong
    BY DEF strong
<1>3. UNCHANGED <<sptrs, wgains, wdrops>> => weak' = weak
    BY DEF weak
<1>4. UNCHANGED <<refdrops>> => refs' = refs
    BY DEF refs
<1>5. UNCHANGED <<atomicStrong, acquired, sptrs, gains, drops>> => StrongInv'
    BY <1>2 DEF StrongInv, strongs, lowered, Inv, Counts
<1>6. UNCHANGED <<atomicStrong, owing, gains>> => OwingInv'
    BY DEF OwingInv, Inv, Counts
<1>7. UNCHANGED <<acquired, sptrs, gains, drops, tries, raw, ops>> => BoundInv'
  <2>1. UNCHANGED <<strong, tries>> => claims' = claims
    BY DEF claims
  <2> QED
    BY <1>2, <2>1 DEF BoundInv, claimed, Inv, Counts
<1>8. UNCHANGED <<atomicWeak, acquired, sptrs, wgains, wdrops, ready>> => WeakInv'
    BY <1>3 DEF WeakInv, weaks, readies, Inv, Counts
<1>9. UNCHANGED <<atomicRefCount, refdrops, built, bases, Alive>> => RefInv'
    BY <1>4 DEF RefInv, reffed, builts, Held, Inv, Counts
<1>10. UNCHANGED <<atomicStrong, extended, Alive, object, dying, lasts, bases>> => LifeInv'
    BY DEF LifeInv, Gone, WeakDeletes, Inv, Memory
<1>11. UNCHANGED <<callback, object, stripped>> => CallbackInv'
    BY DEF CallbackInv, Inv, Memory
<1>12. UNCHANGED <<atomicRefCount, counter, freeing>> => CounterInv'
    BY DEF CounterInv, Inv, Memory
<1>13. UNCHANGED <<atomicStrong, extended, hooks, onfirst, onlast>> => HookInv'
    BY DEF HookInv, hooks, Inv, Memory
<1> QED
    BY <1>1, <1>2, <1>3, <1>4, <1>5, <1>6, <1>7, <1>8, <1>9, <1>10, <1>11, <1>12, <1>13

\* What a thread that holds the raw pointer may do.
RawSteps == {"AttLoad", "IncWeak", "AttLoop", "AttReload", "AttCanPromote", "AttAdd", "AttEnd",
             "SubInitial", "SetAttempt", "OnFirst"}

\* The thread knows of the object.
Knows(t) == \/ pend[t] # {} \/ t \in raw \/ sptrs[t] > 0
            \/ \E w \in Wrcs : wptrs[t][w] > 0

\* The parts of the invariant about each thread, after a step of t.
LEMMA LocalsStep ==
    ASSUME RefBaseConstants, Inv, TypeOK', NEW t \in Threads, Same(t), Knows(t),
           raw' = raw \/ raw' = raw \ {t}, acquired' >= acquired \/ t \in IpcThreads,
           \A u \in Threads : u # t /\ "WrcInc" \in pend[u] =>
               (wrc'[tgt[u]].weak > 0 <=> wrc[tgt[u]].weak > 0),
           t \in raw' => /\ sptrs'[t] = sptrs[t] /\ wptrs'[t] = wptrs[t] /\ atomicStrong' > 0
                         /\ pend'[t] \subseteq RawSteps
                         /\ op'[t] = "none" => pend'[t] \subseteq {"OnFirst"},
           TagOf(t)', BackOf(t)'
    PROVE  Locals'
<1>0. pend[t] # {} \/ sptrs[t] > 0 \/ (\E w \in Wrcs : wptrs[t][w] > 0) \/ t \in raw
    BY DEF Knows
<1>1. \A u \in Threads : u # t /\ pend[u] # {} => ~Only(u)
    BY <1>0, NotOnly
<1>2. TagInv'
    BY TagStep
<1>3. BackInv'
    BY <1>1, BackStep
<1>4. RawInv'
  <2>1. ASSUME NEW u \in raw
        PROVE  u = t /\ raw = {t} /\ Only(t)
    BY <1>0, NotOnly DEF Inv, Locals, RawInv
  <2>2. Only(t) /\ t \in raw' => Only(t)'
    BY DEF Only, Same
  <2> QED
    BY <2>1, <2>2 DEF RawInv, RawSteps
<1> QED
    BY <1>2, <1>3, <1>4 DEF Locals

\* A step that leaves the three counts, the object and the RefCounter as they are.
LEMMA StillStep ==
    ASSUME RefBaseConstants, Inv, TypeOK', NEW t \in Threads, Same(t),
           UNCHANGED <<atomicStrong, atomicWeak, atomicRefCount, counter, owing, freeing>>,
           acquired' + strong'[t] = acquired + strong[t], owing \subseteq gains',
           claims'[t] + acquired' + One(raw' # {}) - ops'
               <= claims[t] + acquired + One(raw # {}) - ops,
           readies' \in Nat, acquired' + weak'[t] + readies' = acquired + weak[t] + readies,
           builts' \in Nat, refs'[t] + builts' + One(Held') = refs[t] + builts + One(Held),
           Unique(bases'), bases' # {} => ~Alive',
           WrcInv', LifeInv', CallbackInv', HookInv'
    PROVE  Counts' /\ Memory'
<1>1. /\ acquired \in Nat /\ acquired' \in Nat /\ atomicWeak \in Nat /\ atomicStrong \in Nat
      /\ atomicRefCount \in Nat
    BY DEF Inv, TypeOK
<1>2. /\ strong[t] \in Nat /\ strong'[t] \in Nat /\ weak[t] \in Nat /\ weak'[t] \in Nat
      /\ readies \in Nat /\ builts \in Nat /\ refs[t] \in Nat /\ refs'[t] \in Nat
      /\ One(Held) \in Nat /\ One(Held') \in Nat
    BY Summands, WeakFacts DEF Inv, One
<1>3. StrongInv'
  <2>1. lowered' = lowered /\ lowered \in Nat
    BY <1>1, LoweredIs DEF lowered
  <2>2. lowered' = lowered + (acquired' - acquired) + (strong'[t] - strong[t])
    BY <1>1, <1>2, <2>1
  <2> QED
    BY <2>2, StrongStep
<1>4. OwingInv'
    BY DEF Inv, Counts, OwingInv
<1>5. BoundInv'
    BY BoundStep
<1>6. WeakInv'
  <2>2. atomicWeak' = atomicWeak + (acquired' - acquired) + (weak'[t] - weak[t]) + (readies' - readies)
    BY <1>1, <1>2
  <2> QED
    BY <2>2, WeakStep
<1>7. RefInv'
  <2>1. reffed' = reffed + refs'[t] - refs[t] /\ reffed \in Nat
    BY Sums DEF Inv
  <2>3. atomicRefCount = reffed + builts + One(Held)
    BY DEF Inv, Counts, RefInv
  <2>2. (atomicRefCount = reffed + builts + One(Held))'
    BY <1>1, <1>2, <2>1, <2>3
  <2> QED
    BY <2>2 DEF RefInv
<1>8. CounterInv'
  <2>1. CounterInv
    BY DEF Inv, Memory
  <2> QED
    BY <2>1 DEF CounterInv
<1> QED
    BY <1>3, <1>4, <1>5, <1>6, <1>7, <1>8 DEF Counts, Memory

\* A step that changes no counter and nothing in memory.
LEMMA QuietStep ==
    ASSUME RefBaseConstants, Inv, TypeOK', NEW t \in Threads, Same(t),
           UNCHANGED <<atomicStrong, atomicWeak, atomicRefCount, object, counter, acquired>>,
           WrcInv', CallbackInv', HookInv', readies' = readies, builts' = builts, Alive' <=> Alive,
           strong'[t] = strong[t], weak'[t] = weak[t], owing \subseteq gains',
           claims'[t] + One(raw' # {}) - ops' <= claims[t] + One(raw # {}) - ops,
           UNCHANGED <<owing, lasts, bases, refdrops, freeing, dying>>
    PROVE  Counts' /\ Memory'
<1>1. /\ acquired \in Nat /\ extended' = extended /\ ops \in Int /\ ops' \in Int
      /\ One(raw # {}) \in Nat /\ One(raw' # {}) \in Nat /\ One(Held) \in Nat
    BY DEF Inv, TypeOK, Same, One
<1>2. /\ strong[t] \in Nat /\ weak[t] \in Nat /\ claims[t] \in Nat /\ claims'[t] \in Nat
      /\ readies \in Nat /\ builts \in Nat /\ refs[t] \in Nat
    BY Summands, WeakFacts DEF Inv
<1>3. refs' = refs /\ Held' = Held
    BY DEF refs, Held
<1>4. LifeInv'
    BY <1>1 DEF Inv, Memory, LifeInv, Gone, WeakDeletes
<1>6. Unique(bases') /\ (bases' # {} => ~Alive')
    BY DEF Inv, Counts, RefInv
<1>7. acquired' + strong'[t] = acquired + strong[t]
    BY <1>1, <1>2
<1>8. claims'[t] + acquired' + One(raw' # {}) - ops' <= claims[t] + acquired + One(raw # {}) - ops
    BY <1>1, <1>2
<1>9. acquired' + weak'[t] + readies' = acquired + weak[t] + readies
    BY <1>1, <1>2
<1>10. refs'[t] + builts' + One(Held') = refs[t] + builts + One(Held)
    BY <1>1, <1>2, <1>3
<1> QED
    BY <1>2, <1>4, <1>6, <1>7, <1>8, <1>9, <1>10, StillStep

\* A step that raises atomicStrong, for a new reference of t.
LEMMA RaiseStep ==
    ASSUME RefBaseConstants, Inv, TypeOK', NEW t \in Threads, Same(t), WrcSame(t),
           Alive, atomicStrong > 0 \/ extended, atomicStrong' = atomicStrong + 1,
           UNCHANGED <<atomicWeak, atomicRefCount, memory, owners, hooks, ops>>,
           UNCHANGED <<drops, wgains, wdrops, lasts, bases, refdrops, freeing, comings, onlast,
                       dying, stripped>>,
           t \notin gains, t \in gains', t \in tries, t \notin tries', t \notin owing,
           t \in owing' <=> atomicStrong = INITIAL_PRIMARY_VALUE,
           t \notin onfirst, t \in onfirst' => atomicStrong = INITIAL_PRIMARY_VALUE
    PROVE  Counts' /\ Memory'
<1>1. /\ UNCHANGED <<extended, callback, object, counter, raw, sptrs, acquired>>
      /\ atomicStrong \in Nat /\ acquired \in Nat /\ ops \in Int /\ sptrs[t] \in Nat
    BY DEF memory, owners, Same, Inv, TypeOK
<1>2. /\ WrcInv' /\ ready' = ready /\ built' = built
    BY WrcStep
<1>3. Alive' = Alive
    BY <1>1, Frames
<1>4. /\ strong'[t] = strong[t] + 1 /\ claims'[t] = claims[t]
      /\ strong[t] \in Nat /\ claims[t] \in Nat
    BY <1>1 DEF strong, claims, One
<1>5. gains' = gains \union {t} /\ Moved(owing', owing, t) /\ Moved(onfirst', onfirst, t)
    BY ThreadSets DEF Moved
<1>6. lowered \in Nat /\ lowered' = lowered + 1 /\ lowered + 1 < INITIAL_PRIMARY_VALUE
  <2>1. strongs' = strongs + strong'[t] - strong[t] /\ claimed' = claimed + claims'[t] - claims[t]
    BY Sums DEF Inv
  <2>2. strongs \in Nat /\ claimed \in Nat
    BY Parts DEF Inv
  <2>3. strongs' <= claimed'
    BY PartsAfter
  <2>4. strongs + 1 <= claimed
    BY <1>4, <2>1, <2>2, <2>3
  <2>5. /\ lowered = acquired + strongs /\ claimed + acquired + One(raw # {}) <= ops + 1
        /\ ops \in 0..MaxOps /\ One(raw # {}) \in Nat
    BY DEF Inv, Counts, StrongInv, BoundInv, TypeOK, One
  <2>6. MaxOps \in Nat /\ MaxOps + 1 < INITIAL_PRIMARY_VALUE
    BY DEF RefBaseConstants
  <2>7. lowered \in Nat /\ lowered + 1 < INITIAL_PRIMARY_VALUE
    BY <1>1, <2>2, <2>4, <2>5, <2>6, InitialIs
  <2> QED
    BY <1>1, <2>7, InitialIs DEF lowered
<1>7. StrongInv'
  <2>1. lowered' = lowered + (acquired' - acquired) + (strong'[t] - strong[t])
    BY <1>1, <1>4, <1>6
  <2> QED
    BY <2>1, StrongStep
<1>8. OwingInv'
  <2>1. Unique(owing) /\ owing \subseteq gains
        /\ (owing # {} <=> atomicStrong > INITIAL_PRIMARY_VALUE)
    BY DEF Inv, Counts, OwingInv
  <2>2. CASE atomicStrong = INITIAL_PRIMARY_VALUE
    <3>1. owing = {} /\ owing' = {t} /\ atomicStrong' > INITIAL_PRIMARY_VALUE
      BY <1>5, <2>1, <2>2, InitialIs DEF Moved
    <3> QED
      BY <1>5, <3>1 DEF OwingInv, Unique
  <2>3. CASE atomicStrong # INITIAL_PRIMARY_VALUE
    <3>1. owing' = owing /\ (atomicStrong' > INITIAL_PRIMARY_VALUE
                                 <=> atomicStrong > INITIAL_PRIMARY_VALUE)
      <4>1. lowered < INITIAL_PRIMARY_VALUE
        BY StrongFacts
      <4> QED
        BY <1>1, <1>5, <2>3, <4>1, InitialIs DEF Moved, lowered
    <3> QED
      BY <1>5, <2>1, <3>1 DEF OwingInv, Unique
  <2> QED
    BY <2>2, <2>3
<1>9. BoundInv'
  <2>1. claims'[t] + acquired' + One(raw' # {}) - ops' <= claims[t] + acquired + One(raw # {}) - ops
    BY <1>1, <1>4 DEF One
  <2> QED
    BY <2>1, BoundStep
<1>10. WeakInv' /\ RefInv'
    BY <1>1, <1>2, <1>3, Frames
<1>11. LifeInv'
    BY <1>1, <1>3, LifeStep
<1>12. CallbackInv' /\ CounterInv'
    BY <1>1, Frames
<1>13. HookInv'
  <2>1. /\ ~extended => Unique(onlast) /\ lastCalls + One(onlast # {}) = 0
        /\ Unique(onfirst) /\ lastCalls \in Nat /\ firstCalls \in Nat
        /\ firstCalls + One(onfirst # {}) <= One(atomicStrong # INITIAL_PRIMARY_VALUE)
    BY <1>1 DEF Inv, Memory, HookInv, TypeOK, One
  <2>2. firstCalls' = firstCalls /\ lastCalls' = lastCalls /\ onlast' = onlast
    BY DEF hooks
  <2>3. atomicStrong' # 0
    BY <1>1
  <2>4. Unique(onfirst')
        /\ firstCalls + One(onfirst' # {}) <= One(atomicStrong' # INITIAL_PRIMARY_VALUE)
    <3>1. CASE t \in onfirst'
      <4>1. firstCalls = 0 /\ onfirst = {}
        BY <2>1, <3>1 DEF One
      <4>2. onfirst' = {t} /\ atomicStrong' # INITIAL_PRIMARY_VALUE
        BY <1>1, <1>5, <3>1, <4>1, InitialIs DEF Moved
      <4> QED
        BY <4>1, <4>2 DEF One, Unique
    <3>2. CASE t \notin onfirst'
      <4>1. onfirst' = onfirst
        BY <1>5, <3>2 DEF Moved
      <4>2. atomicStrong' # INITIAL_PRIMARY_VALUE
        BY <1>1, <1>6, InitialIs DEF lowered
      <4> QED
        BY <2>1, <4>1, <4>2 DEF One
    <3> QED
      BY <3>1, <3>2
  <2> QED
    BY <1>1, <2>1, <2>2, <2>3, <2>4 DEF HookInv, One
<1> QED
    BY <1>2, <1>7, <1>8, <1>9, <1>10, <1>11, <1>12, <1>13 DEF Counts, Memory

-----------------------------------------------------------------------------
(* The step s of thread t is replaced by the steps B.                      *)
Goes(t, s, B) ==
    /\ Stacked'
    /\ \E e \in Under(s) : pend[t] = {s} \union e /\ pend'[t] = B \union e
    /\ \A u \in Threads : u # t => pend'[u] = pend[u]

\* A step that pushes nothing ends.
LEMMA Goes0 ==
    ASSUME Stacked, NEW t \in Threads, NEW s \in Steps, At(t, s), Call(t, <<>>)
    PROVE  Goes(t, s, {})
<1>1. PICK e \in Under(s) : pend[t] = {s} \union e /\ pend' = [pend EXCEPT ![t] = e]
    BY CallNone
<1>2. pend'[t] = {} \union e /\ \A u \in Threads : u # t => pend'[u] = pend[u]
    BY <1>1 DEF pend
<1>3. Stacked'
    BY CallNone
<1> QED
    BY <1>1, <1>2, <1>3 DEF Goes

\* A step that pushes b is replaced by b.
LEMMA Goes1 ==
    ASSUME Stacked, NEW t \in Threads, NEW s \in Steps, At(t, s),
           NEW b \in Steps, Below(s) \subseteq Below(b), Call(t, <<b>>)
    PROVE  Goes(t, s, {b})
<1>1. PICK e \in Under(s) : pend[t] = {s} \union e /\ pend' = [pend EXCEPT ![t] = {b} \union e]
    BY CallOne
<1>2. pend'[t] = {b} \union e /\ \A u \in Threads : u # t => pend'[u] = pend[u]
    BY <1>1 DEF pend
<1>3. Stacked'
    BY CallOne
<1> QED
    BY <1>1, <1>2, <1>3 DEF Goes

\* A step that pushes b and c is replaced by both.
LEMMA Goes2 ==
    ASSUME Stacked, NEW t \in Threads, NEW s \in Steps, At(t, s),
           NEW b \in Steps, NEW c \in Steps, Below(s) \subseteq Below(c),
           \A r \in Below(s) : <<c>> \o r \in Below(b), Call(t, <<b, c>>)
    PROVE  Goes(t, s, {b, c})
<1>1. PICK e \in Under(s) : pend[t] = {s} \union e /\ pend' = [pend EXCEPT ![t] = {b, c} \union e]
    BY CallTwo
<1>2. pend'[t] = {b, c} \union e /\ \A u \in Threads : u # t => pend'[u] = pend[u]
    BY <1>1 DEF pend
<1>3. Stacked'
    BY CallTwo
<1> QED
    BY <1>1, <1>2, <1>3 DEF Goes

\* A step that pushes b, c and d is replaced by the three.
LEMMA Goes3 ==
    ASSUME Stacked, NEW t \in Threads, NEW s \in Steps, At(t, s),
           NEW b \in Steps, NEW c \in Steps, NEW d \in Steps,
           Below(s) \subseteq Below(d), \A r \in Below(s) : <<d>> \o r \in Below(c),
           \A r \in Below(s) : <<c>> \o (<<d>> \o r) \in Below(b), Call(t, <<b, c, d>>)
    PROVE  Goes(t, s, {b, c, d})
<1>1. PICK e \in Under(s) : pend[t] = {s} \union e
           /\ pend' = [pend EXCEPT ![t] = {b, c, d} \union e]
    BY CallThree
<1>2. pend'[t] = {b, c, d} \union e /\ \A u \in Threads : u # t => pend'[u] = pend[u]
    BY <1>1 DEF pend
<1>3. Stacked'
    BY CallThree
<1> QED
    BY <1>1, <1>2, <1>3 DEF Goes

\* What is pending below the steps of the destructor, and below WrcNew.
FreeSets == {{"FreeObject"},
             {"FreeObject", "TestPtr"},
             {"FreeObject", "GotSptr"},
             {"FreeObject", "FreeWrc"},
             {"FreeObject", "DecWeakLoad"},
             {"FreeObject", "DecWeakLoad", "TestPtr"},
             {"FreeObject", "DecWeakLoad", "GotSptr"}}
DtorSets == {{"DtorCheck", "FreeObject"},
             {"DtorCheck", "FreeObject", "TestPtr"},
             {"DtorCheck", "FreeObject", "GotSptr"},
             {"DtorCheck", "FreeObject", "FreeWrc"},
             {"DtorCheck", "FreeObject", "DecWeakLoad"},
             {"DtorCheck", "FreeObject", "DecWeakLoad", "TestPtr"},
             {"DtorCheck", "FreeObject", "DecWeakLoad", "GotSptr"}}
NewSets  == {{"WrcInc", "GotWptr"}, {"WrcInc", "GotWptr", "DropOld"}}

\* What is pending at each step.
LEMMA UnderIs ==
    /\ Under("IncWeak") = {{"AttLoop"}, {"AttSLoad"}, {"GotWptr"}, {"GotWptr", "DropOld"},
                           {"IncStrongLoad", "GotSptr"},
                           {"IncStrongLoad", "DecStrongLoad", "DecWeakLoad", "GotSptr"}}
    /\ Under("IncStrongLoad") = GotSets /\ Under("IncStrongAdd") = GotSets
    /\ Under("SubInitial") = {{"GetRefPtr"}, {"SetAttempt", "OnFirst"}, {"OnFirst", "GotSptr"},
                              {"OnFirst", "DecStrongLoad", "DecWeakLoad", "GotSptr"}}
    /\ Under("OnFirst") = {{}} \union GotSets
    /\ Under("SetAttempt") = {{}, {"OnFirst"}}
    /\ Under("DecStrongLoad") = WeakSets /\ Under("DecStrongSub") = WeakSets
    /\ Under("OnLast") = WeakSets
    /\ Under("DecWeakLoad") = EndSets /\ Under("DecWeakSub") = EndSets
    /\ Under("LastWeak") = EndSets
    /\ Under("CallCallback") = EndSets \union WeakSets
    /\ Under("FreeObject") = EndSets \union WeakSets
    /\ Under("DtorRemove") = DtorSets /\ Under("DtorCheck") = FreeSets
    /\ Under("DecRefLoad") = EndSets \union FreeSets
    /\ Under("DecRefSub") = EndSets \union FreeSets
    /\ Under("FreeCounter") = EndSets \union FreeSets
    /\ Under("WrcNew") = NewSets /\ Under("WrcInc") = WrapSets
    /\ Under("GotWptr") = {{}, {"DropOld"}}
    /\ \A s \in Last : Under(s) = {{}}
<1> USE DEF Under
<1>1. Under("IncWeak") = {{"AttLoop"}, {"AttSLoad"}, {"GotWptr"}, {"GotWptr", "DropOld"},
                          {"IncStrongLoad", "GotSptr"},
                          {"IncStrongLoad", "DecStrongLoad", "DecWeakLoad", "GotSptr"}}
  <2>1. {{"IncStrongLoad"} \union g : g \in GotSets}
            = {{"IncStrongLoad", "GotSptr"},
               {"IncStrongLoad", "DecStrongLoad", "DecWeakLoad", "GotSptr"}}
    BY DEF GotSets
  <2> QED
    BY <2>1 DEF WrapSets
<1>2. Under("SubInitial") = {{"GetRefPtr"}, {"SetAttempt", "OnFirst"}, {"OnFirst", "GotSptr"},
                             {"OnFirst", "DecStrongLoad", "DecWeakLoad", "GotSptr"}}
  <2>1. {{"OnFirst"} \union g : g \in GotSets}
            = {{"OnFirst", "GotSptr"}, {"OnFirst", "DecStrongLoad", "DecWeakLoad", "GotSptr"}}
    BY DEF GotSets
  <2> QED
    BY <2>1
<1>3. Under("IncStrongLoad") = GotSets /\ Under("IncStrongAdd") = GotSets
    OBVIOUS
<1>4. Under("OnFirst") = {{}} \union GotSets /\ Under("SetAttempt") = {{}, {"OnFirst"}}
    OBVIOUS
<1>5. /\ Under("DecStrongLoad") = WeakSets /\ Under("DecStrongSub") = WeakSets
      /\ Under("OnLast") = WeakSets
    OBVIOUS
<1>6. /\ Under("DecWeakLoad") = EndSets /\ Under("DecWeakSub") = EndSets
      /\ Under("LastWeak") = EndSets
    OBVIOUS
<1>7. /\ Under("CallCallback") = EndSets \union WeakSets
      /\ Under("FreeObject") = EndSets \union WeakSets
    OBVIOUS
<1>8. Under("WrcInc") = WrapSets /\ Under("GotWptr") = {{}, {"DropOld"}}
    OBVIOUS
<1>9. \A s \in Last : Under(s) = {{}}
    BY DEF Last
<1>10. {{"FreeObject"} \union e : e \in EndSets \union WeakSets} = FreeSets
    BY DEF EndSets, WeakSets, FreeSets
<1>11. {{"DtorCheck", "FreeObject"} \union e : e \in EndSets \union WeakSets} = DtorSets
    BY DEF EndSets, WeakSets, DtorSets
<1>12. {{"WrcInc"} \union g : g \in WrapSets} = NewSets
    BY DEF WrapSets, NewSets
<1>13. /\ Under("DtorRemove") = DtorSets /\ Under("DtorCheck") = FreeSets
       /\ Under("DecRefLoad") = EndSets \union FreeSets
       /\ Under("DecRefSub") = EndSets \union FreeSets
       /\ Under("FreeCounter") = EndSets \union FreeSets
       /\ Under("WrcNew") = NewSets
    BY <1>10, <1>11, <1>12
<1> HIDE DEF Under
<1> QED
    BY <1>1, <1>2, <1>3, <1>4, <1>5, <1>6, <1>7, <1>8, <1>9, <1>13

\* A thread at step s.
LEMMA AtPend ==
    ASSUME Stacked, NEW t \in Threads, NEW s \in Steps, At(t, s)
    PROVE  \E e \in Under(s) : pend[t] = {s} \union e
BY AtStep
=============================================================================
