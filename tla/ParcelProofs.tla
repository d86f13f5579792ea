----------------------------- MODULE ParcelProofs -----------------------------
(***************************************************************************)
(* A Parcel stays inside its memory, whatever values are written and read  *)
(* and whatever capacities and positions the other calls are given, its    *)
(* object table stays in step with the data, and a value that was written  *)
(* is read back whole.                                                     *)
(***************************************************************************)
EXTENDS Parcel, SequenceTheorems, TLAPS

WriteDos == {"write", "mark", "objects", "offset"}
ReadDos  == {"get", "unpad", "raw", "cstring", "length", "body", "count", "strings", "skip",
             "meta", "object"}

\* The primitives of a writing call, and those of a reading one, of which
\* only some may be of no bytes.
WSteps == [do : WriteDos, n : Nat, pad : Nat, tail : BOOLEAN, val : Int]
RSteps == {s \in [do : ReadDos, n : Nat, pad : Nat, tail : BOOLEAN, val : Int] :
              s.do \in {"get", "unpad", "raw", "length", "body", "count", "strings"} => s.n > 0}

Bytes(s) == s.n + s.pad
\* A write that reaches before the write cursor or has no bytes, and one that
\* makes room for the former.
Small(s) == s.do = "write" /\ Bytes(s) < 4 /\ (s.tail \/ Bytes(s) = 0)
Big(s)   == s.do = "write" /\ Bytes(s) >= 4

-----------------------------------------------------------------------------
\* WritePadBytes fills up to the next multiple of four.
LEMMA PadFacts ==
    ASSUME NEW n \in Nat
    PROVE  GetPadSize(n) \in 0 .. 3 /\ (n > 0 => n + GetPadSize(n) >= 4)
BY DEF GetPadSize

\* Lengths times widths are positive.
LEMMA Product ==
    ASSUME NEW a \in Nat \ {0}, NEW b \in Nat \ {0}
    PROVE  a * b \in Nat \ {0}
OBVIOUS

\* The kinds of primitives.
LEMMA StepKinds ==
    ASSUME NEW n \in Nat, NEW v \in Int
    PROVE  /\ Word(v) \in WSteps /\ Big(Word(v)) /\ Word(v).do = "write"
           /\ n > 0 => Chunk(n) \in WSteps /\ ~Small(Chunk(n)) /\ Chunk(n).do = "write"
           /\ n > 0 => Padded(n) \in WSteps /\ Big(Padded(n)) /\ Padded(n).do = "write"
           /\ PadFor(n) \in WSteps /\ PadFor(n).do = "write"
           /\ \A d \in {"mark", "objects", "offset"} : Step(d, n) \in WSteps /\ Step(d, n).do = d
           /\ \A d \in ReadDos : Step(d, n).do = d /\ Step(d, n).n = n /\ (n > 0 => Step(d, n) \in RSteps)
           /\ \A d \in {"cstring", "skip", "meta", "object"} : Step(d, n) \in RSteps
<1> USE DEF Write, NoVal, WriteDos, WSteps, RSteps, Bytes, Small, Big, ReadDos
<1>1. GetPadSize(n) \in Nat /\ (n > 0 => n + GetPadSize(n) >= 4)
    BY PadFacts
<1>2. Word(v) \in WSteps /\ Big(Word(v)) /\ Word(v).do = "write"
    BY DEF Word
<1>3. n > 0 => Chunk(n) \in WSteps /\ ~Small(Chunk(n)) /\ Chunk(n).do = "write"
    BY DEF Chunk
<1>4. n > 0 => Padded(n) \in WSteps /\ Big(Padded(n)) /\ Padded(n).do = "write"
    BY <1>1 DEF Padded
<1>5. PadFor(n) \in WSteps /\ PadFor(n).do = "write"
    BY <1>1 DEF PadFor
<1>6. \A d \in {"mark", "objects", "offset"} : Step(d, n) \in WSteps /\ Step(d, n).do = d
    BY DEF Step
<1>7. \A d \in ReadDos : Step(d, n).do = d /\ Step(d, n).n = n /\ (n > 0 => Step(d, n) \in RSteps)
    BY DEF Step
<1>8. \A d \in {"cstring", "skip", "meta", "object"} : Step(d, n) \in RSteps
    BY DEF Step
<1> QED
    BY <1>2, <1>3, <1>4, <1>5, <1>6, <1>7, <1>8

\* A value is stored only as a whole after its length: what reaches before
\* the cursor has a word before it.
Prepared(s) == (\E i \in DOMAIN s : Small(s[i])) => Big(s[1])

\* A remote object is announced, written and entered in the table in a row.
Ordered(s) ==
    \A i \in DOMAIN s : s[i].do = "offset" =>
        /\ i = Len(s)
        /\ i > 1 => s[i - 1].do = "write" /\ Bytes(s[i - 1]) = ObjSize
        /\ i > 2 => s[i - 2].do = "objects"

\* The primitives of every written value are of this shape.
LEMMA WriteShape ==
    ASSUME NEW c \in Calls
    PROVE  /\ WriteSteps(c) \in Seq(WSteps) /\ WriteSteps(c) # <<>>
           /\ Prepared(WriteSteps(c)) /\ Ordered(WriteSteps(c))
           /\ \A i \in DOMAIN WriteSteps(c) : i <= 2 => WriteSteps(c)[i].do # "offset"
<1> DEFINE Good(s) == /\ s \in Seq(WSteps) /\ s # <<>> /\ Prepared(s) /\ Ordered(s)
                      /\ \A i \in DOMAIN s : i <= 2 => s[i].do # "offset"
<1>1. c.op \in Ops /\ c.n \in Int /\ c.w \in Nat \ {0} /\ (c.op # "string" => c.n \in Nat)
      /\ (c.op \in {"buffer", "raw"} => c.n > 0)
    BY ParcelConstants
<1>2. \A s \in WSteps : Big(s) => ~Small(s) /\ s.do # "offset"
    BY DEF WSteps, Big, Small, Bytes
<1>3. ASSUME NEW s \in WSteps, s.do = "write", ~Small(s)
      PROVE  Good(<<s>>)
    BY <1>3 DEF Prepared, Ordered
<1>4. ASSUME NEW s \in WSteps, NEW t \in WSteps, Big(s), t.do = "write"
      PROVE  Good(<<s, t>>)
    BY <1>2, <1>4 DEF Prepared, Ordered
<1>5. ASSUME NEW s \in WSteps, NEW t \in Seq(WSteps), Big(s),
             \A i \in DOMAIN t : t[i].do = "write"
      PROVE  Good(<<s>> \o t)
  <2>1. /\ <<s>> \o t \in Seq(WSteps) /\ Len(<<s>> \o t) = 1 + Len(t)
        /\ \A i \in 1 .. 1 + Len(t) : (<<s>> \o t)[i] = IF i = 1 THEN s ELSE t[i - 1]
    BY <1>5
  <2>2. \A i \in DOMAIN (<<s>> \o t) : (<<s>> \o t)[i].do = "write"
    BY <1>2, <1>5, <2>1 DEF Big
  <2>3. <<s>> \o t # <<>> /\ (<<s>> \o t)[1] = s
    BY <2>1
  <2> QED
    BY <1>5, <2>1, <2>2, <2>3 DEF Prepared, Ordered
<1>6. CASE c.op = "prim"
  <2>1. Chunk(c.w) \in WSteps /\ ~Small(Chunk(c.w)) /\ Chunk(c.w).do = "write"
    BY <1>1, StepKinds
  <2> QED
    BY <1>3, <1>6, <2>1 DEF WriteSteps
<1>7. ASSUME NEW n \in Nat \ {0}
      PROVE  Good(<<Padded(n)>>)
  <2>1. Padded(n) \in WSteps /\ ~Small(Padded(n)) /\ Padded(n).do = "write"
    BY <1>2, StepKinds
  <2> QED
    BY <1>3, <2>1
<1>8. CASE c.op \in {"buffer", "raw"}
  <2>1. c.n \in Nat \ {0}
    BY <1>1, <1>8
  <2>2. WriteSteps(c) = <<Padded(c.n)>>
    BY <1>8 DEF WriteSteps
  <2> QED
    BY <1>7, <2>1, <2>2
<1>9. CASE c.op = "cstring"
  <2>1. c.n + 1 \in Nat \ {0}
    BY <1>1, <1>9
  <2> QED
    BY <1>7, <1>9, <2>1 DEF WriteSteps
<1>10. \A v \in Int : Good(<<Word(v)>>)
  <2> TAKE v \in Int
  <2>1. Word(v) \in WSteps /\ ~Small(Word(v)) /\ Word(v).do = "write"
    BY <1>2, StepKinds
  <2> QED
    BY <1>3, <2>1
<1>11. ASSUME NEW n \in Nat, NEW w \in Nat \ {0}
       PROVE  /\ Word(n) \in WSteps /\ Padded((n + 1) * w) \in WSteps
              /\ Big(Word(n)) /\ Padded((n + 1) * w).do = "write"
  <2>1. (n + 1) * w \in Nat \ {0}
    BY Product
  <2> QED
    BY <2>1, StepKinds
<1>12. CASE c.op = "string"
  <2>1. CASE c.n < 0
    <3>1. Good(<<Word(-1)>>)
        BY <1>10
    <3> QED
        BY <1>12, <2>1, <3>1 DEF WriteSteps, WriteString
  <2>2. CASE c.n >= 0
    <3>1. PICK s \in WSteps, t \in WSteps :
             s = Word(c.n) /\ t = Padded((c.n + 1) * c.w) /\ Big(s) /\ t.do = "write"
      <4>1. c.n \in Nat
        BY <1>1, <2>2
      <4> QED
        BY <1>1, <1>11, <4>1
    <3>2. WriteSteps(c) = <<Word(c.n), Padded((c.n + 1) * c.w)>>
        BY <1>1, <1>12, <2>2 DEF WriteSteps, WriteString
    <3>3. Good(<<s, t>>)
        BY <1>4, <3>1
    <3> QED
        BY <3>1, <3>2, <3>3
  <2> QED
    BY <1>1, <2>1, <2>2
<1>13. CASE c.op = "vector"
  <2> DEFINE e == [i \in 1 .. c.n |-> Chunk(c.w)]
             p == PadFor(c.n * c.w)
  <2>1. c.n \in Nat /\ c.w \in Nat \ {0} /\ c.n * c.w \in Nat
    BY <1>1, <1>13
  <2>2. Chunk(c.w) \in WSteps /\ Chunk(c.w).do = "write" /\ p \in WSteps /\ p.do = "write"
    BY <2>1, StepKinds
  <2>3. e \in Seq(WSteps) /\ Len(e) = c.n /\ \A i \in 1 .. c.n : e[i].do = "write"
    BY <2>1, <2>2
  <2> HIDE DEF e, p
  <2>4. e \o <<p>> \in Seq(WSteps) /\ \A i \in DOMAIN (e \o <<p>>) : (e \o <<p>>)[i].do = "write"
    BY <2>2, <2>3
  <2>5. Word(c.n) \in WSteps /\ Big(Word(c.n))
    BY <1>1, StepKinds
  <2>6. Good(<<Word(c.n)>> \o (e \o <<p>>))
    BY <1>5, <2>4, <2>5
  <2>7. <<Word(c.n)>> \o (e \o <<p>>) = (<<Word(c.n)>> \o e) \o <<p>>
    BY <2>2, <2>3, <2>5
  <2>8. WriteSteps(c) = (<<Word(c.n)>> \o e) \o <<p>>
    BY <1>13 DEF WriteSteps, WriteVector, e, p
  <2> QED
    BY <2>6, <2>7, <2>8
<1>14. CASE c.op = "strings"
  <2> DEFINE e == [i \in 1 .. 2 * c.n |-> WriteString(1, c.w)[IF i % 2 = 1 THEN 1 ELSE 2]]
             p == PadFor(0)
  <2>1. c.n \in Nat /\ c.w \in Nat \ {0} /\ 2 * c.n \in Nat
    BY <1>1, <1>14
  <2>2. p \in WSteps /\ p.do = "write" /\ Word(1) \in WSteps /\ Word(1).do = "write"
        /\ Word(c.n) \in WSteps /\ Big(Word(c.n))
    BY <2>1, StepKinds
  <2>3. Padded((1 + 1) * c.w) \in WSteps /\ Padded((1 + 1) * c.w).do = "write"
    BY <1>11, <2>1
  <2>4. WriteString(1, c.w) = <<Word(1), Padded((1 + 1) * c.w)>>
    BY DEF WriteString
  <2>5. \A i \in 1 .. 2 * c.n : e[i] \in WSteps /\ e[i].do = "write"
    BY <2>2, <2>3, <2>4
  <2>6. e \in Seq(WSteps) /\ Len(e) = 2 * c.n
    <3>1. DOMAIN e = 1 .. 2 * c.n /\ e = [i \in 1 .. 2 * c.n |-> e[i]]
        OBVIOUS
    <3> HIDE DEF e
    <3>2. PICK m \in Nat : m = 2 * c.n
        BY <2>1
    <3>3. e \in [1 .. m -> WSteps]
        BY <2>5, <3>1, <3>2
    <3> QED
        BY <3>2, <3>3
  <2> HIDE DEF e, p
  <2>7. e \o <<p>> \in Seq(WSteps) /\ \A i \in DOMAIN (e \o <<p>>) : (e \o <<p>>)[i].do = "write"
    BY <2>2, <2>5, <2>6
  <2>8. Good(<<Word(c.n)>> \o (e \o <<p>>))
    BY <1>5, <2>2, <2>7
  <2>9. <<Word(c.n)>> \o (e \o <<p>>) = (<<Word(c.n)>> \o e) \o <<p>>
    BY <2>2, <2>6
  <2>10. WriteSteps(c) = (<<Word(c.n)>> \o e) \o <<p>>
    BY <1>14 DEF WriteSteps, WriteStrings, e, p
  <2> QED
    BY <2>8, <2>9, <2>10
<1>15. CASE c.op \in {"null", "strongnull"}
    BY <1>10, <1>15 DEF WriteSteps
<1>16. CASE c.op = "plain"
  <2>1. Word(1) \in WSteps /\ Big(Word(1)) /\ Chunk(4) \in WSteps /\ Chunk(4).do = "write"
    BY StepKinds
  <2> QED
    BY <1>4, <1>16, <2>1 DEF WriteSteps
<1>17. /\ ObjSize \in Nat \ {0}
       /\ Padded(ObjSize) \in WSteps /\ Padded(ObjSize).do = "write"
       /\ Bytes(Padded(ObjSize)) = ObjSize /\ ~Small(Padded(ObjSize))
  <2>1. ObjSize \in Nat \ {0} /\ GetPadSize(ObjSize) = 0
    BY DEF ObjSize, GetPadSize
  <2>2. Padded(ObjSize) \in WSteps /\ Padded(ObjSize).do = "write" /\ Big(Padded(ObjSize))
    BY <2>1, StepKinds
  <2>3. Bytes(Padded(ObjSize)) = ObjSize
    BY <2>1 DEF Bytes, Padded, Write
  <2> QED
    BY <1>2, <2>1, <2>2, <2>3
<1>18. ASSUME NEW n \in Nat
       PROVE  /\ Step("objects", 0) \in WSteps /\ Step("objects", 0).do = "objects"
              /\ Step("mark", 0) \in WSteps /\ Step("mark", 0).do = "mark"
              /\ Step("offset", n) \in WSteps /\ Step("offset", n).do = "offset"
              /\ Word(1) \in WSteps /\ Word(1).do = "write" /\ ~Small(Word(1))
    BY <1>2, StepKinds
<1>19. \A s \in WSteps : s.do # "write" => ~Small(s)
    BY DEF Small
<1>20. CASE c.op = "remote"
  <2>1. c.n \in Nat
    BY <1>1, <1>20
  <2> DEFINE s == <<Step("mark", 0), Word(1), Step("objects", 0), Padded(ObjSize),
                    Step("offset", c.n)>>
  <2>2. WriteSteps(c) = s
    <3> DEFINE a == <<Step("mark", 0), Word(1)>>
               b == <<Step("objects", 0), Padded(ObjSize), Step("offset", c.n)>>
               t == a \o b
    <3>1. WriteSteps(c) = t
        BY <1>20 DEF WriteSteps, Remote
    <3>2. a \in Seq(WSteps) /\ Len(a) = 2 /\ a[1] = Step("mark", 0) /\ a[2] = Word(1)
        BY <1>18, <2>1
    <3>3. /\ b \in Seq(WSteps) /\ Len(b) = 3
          /\ b[1] = Step("objects", 0) /\ b[2] = Padded(ObjSize) /\ b[3] = Step("offset", c.n)
        BY <1>17, <1>18, <2>1
    <3> HIDE DEF a, b
    <3>4. t \in Seq(WSteps) /\ Len(t) = 5
          /\ \A i \in 1 .. 5 : t[i] = IF i <= 2 THEN a[i] ELSE b[i - 2]
      <4>1. t \in Seq(WSteps) /\ Len(t) = Len(a) + Len(b)
            /\ \A i \in 1 .. Len(a) + Len(b) : t[i] = IF i <= Len(a) THEN a[i] ELSE b[i - Len(a)]
        BY <3>2, <3>3, ConcatProperties, Zenon
      <4> HIDE DEF t
      <4> QED
        BY <3>2, <3>3, <4>1
    <3> HIDE DEF t
    <3>5. t[1] = a[1] /\ t[2] = a[2] /\ t[3] = b[1] /\ t[4] = b[2] /\ t[5] = b[3]
        BY <3>4
    <3>6. \A i \in 1 .. 5 : t[i] = s[i]
        BY <3>2, <3>3, <3>5
    <3>7. s \in Seq(WSteps) /\ Len(s) = 5
        BY <1>17, <1>18, <2>1
    <3> HIDE DEF s, t
    <3>8. t = s
        BY <3>4, <3>6, <3>7, SeqEqual
    <3> QED
        BY <3>1, <3>8
  <2>3. s \in Seq(WSteps) /\ s # <<>>
    BY <1>17, <1>18, <2>1
  <2>4. \A i \in 1 .. 5 : ~Small(s[i])
    BY <1>17, <1>18, <1>19, <2>1
  <2> QED
    BY <1>17, <1>18, <2>1, <2>2, <2>3, <2>4 DEF Prepared, Ordered
<1>21. CASE c.op = "object"
  <2>1. c.n \in Nat
    BY <1>1, <1>21
  <2> DEFINE s == <<Step("objects", 0), Padded(ObjSize), Step("offset", c.n)>>
  <2>2. WriteSteps(c) = s
    BY <1>21 DEF WriteSteps, Remote
  <2>3. s \in Seq(WSteps) /\ s # <<>>
    BY <1>17, <1>18, <2>1
  <2>4. \A i \in 1 .. 3 : ~Small(s[i])
    BY <1>17, <1>18, <1>19, <2>1
  <2>5. /\ Len(s) = 3 /\ s[1].do = "objects" /\ s[2].do = "write" /\ Bytes(s[2]) = ObjSize
        /\ s[3].do = "offset"
    BY <1>17, <1>18, <2>1
  <2> HIDE DEF s
  <2>6. Ordered(s)
    BY <2>3, <2>5 DEF Ordered
  <2> QED
    BY <2>2, <2>3, <2>4, <2>5, <2>6 DEF Prepared
<1> QED
    BY <1>1, <1>6, <1>8, <1>9, <1>12, <1>13, <1>14, <1>15, <1>16, <1>20, <1>21 DEF Ops

-----------------------------------------------------------------------------
(* The inductive invariant.  AccessesInBounds is about the step just made; *)
(* what makes the next one safe is the relation between the cursors, the   *)
(* size and the capacity (Room), what a running call has still to do       *)
(* (Running, Started) and the positions it saved (Marked).                 *)

CallRecs == {c \in [op : Ops, n : Int, w : Nat, read : BOOLEAN] : c.op # "string" => c.n >= 0}

TypeOK ==
    /\ data \in BOOLEAN /\ writable \in BOOLEAN /\ torn \in BOOLEAN
    /\ cap \in Nat /\ size \in Nat /\ wc \in Nat /\ rc \in Nat /\ maxCap \in Nat
    /\ from \in Nat /\ place \in Nat /\ mark \in Seq(Nat) /\ call \in CallRecs
    /\ words \subseteq [off : Nat, val : Int]
    /\ items \subseteq [off : Nat, end : Nat, call : CallRecs]

\* The data lies in the allocation, and a writer appends to it.
Room ==
    /\ ~data => cap = 0 /\ size = 0 /\ wc = 0
    /\ ~torn => size <= cap
    /\ ~torn /\ writable => wc = size

\* A reading call reads and a writing call writes; the body of a string is
\* read right after its length, whose place is saved.
Running ==
    /\ call.read => todo \in Seq(RSteps)
    /\ ~call.read => todo \in Seq(WSteps)
    /\ ret # "busy" => todo = <<>>
    /\ \A i \in DOMAIN todo : todo[i].do = "body" => i = 1 /\ Len(mark) = 1
    /\ Ordered(todo)

\* The word before a padding that may be shorter than a word is there.
Started ==
    (\E i \in DOMAIN todo : Small(todo[i])) => (wc >= 4 /\ wc <= cap) \/ Big(todo[1])

\* What WriteParcelable rolls back to.
Marked ==
    ~call.read /\ mark # <<>> =>
        /\ Len(mark) = 2 /\ mark[1] <= wc /\ mark[2] <= size
        /\ writable /\ ~torn => mark[1] = mark[2]

RegionInv == TypeOK /\ Room /\ Running /\ Started /\ Marked /\ AccessesInBounds

-----------------------------------------------------------------------------
(* The object table.                                                       *)

TableType ==
    /\ offs \in Seq(Nat) /\ offsCap \in Nat /\ nextObj \in Nat
    /\ holder \in Seq(Int) /\ heldAt \subseteq Nat
    /\ Len(offs) <= offsCap /\ nextObj <= Len(offs)
    /\ offsCap = 0 => holder = <<>>

\* The table is in the order of the data, and the n-th held object is not
\* before the n-th object: RewindWrite keeps as many holders as objects.
Lined ==
    ~torn =>
        /\ \A i, j \in DOMAIN offs : i < j => offs[i] + ObjSize <= offs[j]
        /\ \A i \in DOMAIN offs : offs[i] + ObjSize <= size
        /\ Len(holder) <= Len(offs)
        /\ \A h \in heldAt : \E i \in DOMAIN holder, j \in DOMAIN offs :
                i <= j /\ holder[i] = h /\ offs[j] = h

\* The objects that ValidateReadData skips lie before the read cursor, also
\* when ReadString16 takes its length back.
Behind ==
    ~torn =>
        /\ \A i \in 1 .. nextObj : offs[i] + ObjSize <= rc
        /\ At("body") =>
            /\ rc = mark[1] + 4
            /\ \A i \in 1 .. nextObj : offs[i] + ObjSize <= mark[1]
            /\ nextObj < Len(offs) => offs[nextObj + 1] >= rc

\* The object being written is behind those in the table, which has room.
Placed ==
    /\ \A i \in DOMAIN todo : todo[i].do = "offset" /\ i <= 2 => Len(offs) < offsCap
    /\ ~torn =>
        /\ \A i \in DOMAIN todo : todo[i].do = "offset" /\ i = 2 => place = wc
        /\ At("offset") =>
            /\ place + ObjSize = size
            /\ \A i \in DOMAIN offs : offs[i] + ObjSize <= place
        /\ ~call.read /\ mark # <<>> => \A i \in DOMAIN offs : offs[i] + ObjSize <= mark[2]

TableInv == TableType /\ Lined /\ Behind /\ Placed /\ ReadsAvoidObjects

-----------------------------------------------------------------------------
(* The primitives of reading calls, and CalcNewCapacity.                   *)

\* The primitives of every value read: no body of a string among them.
LEMMA ReadShape ==
    ASSUME NEW c \in Calls
    PROVE  /\ ReadSteps(c) \in Seq(RSteps) /\ ReadSteps(c) # <<>>
           /\ \A i \in DOMAIN ReadSteps(c) : ReadSteps(c)[i].do # "body"
<1> DEFINE Good(s) == s \in Seq(RSteps) /\ s # <<>> /\ \A i \in DOMAIN s : s[i].do # "body"
<1>1. c.op \in Ops /\ c.n \in Int /\ c.w \in Nat \ {0}
      /\ (c.op \in {"buffer", "raw"} => c.n \in Nat \ {0})
    BY ParcelConstants
<1>2. \A s \in RSteps : s.do # "body" => Good(<<s>>)
    OBVIOUS
<1>3. \A s \in RSteps, t \in RSteps : s.do # "body" /\ t.do # "body" => Good(<<s, t>>)
    OBVIOUS
<1>4. \A d \in ReadDos, n \in Nat \ {0} : Step(d, n) \in RSteps /\ Step(d, n).do = d
    BY StepKinds
<1>5. \A d \in {"cstring", "skip", "meta", "object"} : Step(d, 0) \in RSteps /\ Step(d, 0).do = d
    BY StepKinds DEF ReadDos
<1> SUFFICES Good(ReadSteps(c))
    OBVIOUS
<1> HIDE DEF Good
<1>6. CASE c.op \in {"prim", "string", "vector", "strings"}
  <2>1. \A d \in {"get", "length", "count", "strings"} : Good(<<Step(d, c.w)>>)
    BY <1>1, <1>2, <1>4 DEF ReadDos
  <2> QED
    BY <1>6, <2>1 DEF ReadSteps
<1>7. CASE c.op \in {"buffer", "raw"}
  <2>1. Good(<<Step("unpad", c.n)>>) /\ Good(<<Step("raw", c.n)>>)
    BY <1>1, <1>2, <1>4, <1>7 DEF ReadDos
  <2> QED
    BY <1>7, <2>1 DEF ReadSteps
<1>8. CASE c.op \in {"cstring", "object"}
  <2>1. Good(<<Step("cstring", 0)>>) /\ Good(<<Step("object", 0)>>)
    BY <1>2, <1>5
  <2> QED
    BY <1>8, <2>1 DEF ReadSteps
<1>9. CASE c.op \in {"null", "strongnull", "plain", "remote"}
  <2>1. Good(<<Step("meta", 0), Step("get", 4)>>) /\ Good(<<Step("meta", 0), Step("object", 0)>>)
    BY <1>3, <1>4, <1>5 DEF ReadDos
  <2> QED
    BY <1>9, <2>1 DEF ReadSteps
<1> QED
    BY <1>1, <1>6, <1>7, <1>8, <1>9 DEF Ops

\* CalcNewCapacity gives at least what is asked for, below the maximum.
LEMMA CapacityEnough ==
    ASSUME NEW min \in Nat, maxCap \in Nat
    PROVE  CalcNewCapacity(min) \in Nat /\ (min <= maxCap => CalcNewCapacity(min) >= min)
<1>1. CASE min = CAPACITY_THRESHOLD
    BY <1>1 DEF CalcNewCapacity, CAPACITY_THRESHOLD
<1>2. CASE min > CAPACITY_THRESHOLD
  <2> DEFINE steps == (min \div CAPACITY_THRESHOLD) * CAPACITY_THRESHOLD
  <2>1. steps \in Nat /\ steps + CAPACITY_THRESHOLD > min
    BY DEF CAPACITY_THRESHOLD
  <2>2. CalcNewCapacity(min) \in {maxCap, steps + CAPACITY_THRESHOLD}
    BY <1>2 DEF CalcNewCapacity, CAPACITY_THRESHOLD
  <2> HIDE DEF steps
  <2> QED
    BY <2>1, <2>2 DEF CAPACITY_THRESHOLD
<1>3. CASE min < CAPACITY_THRESHOLD
  <2>1. \E d \in Doublings : d >= min /\ \A e \in Doublings : e >= min => d <= e
    <3>1. min <= 4096
        BY <1>3 DEF CAPACITY_THRESHOLD
    <3> QED
        BY <3>1 DEF Doublings
  <2>2. Doubled(min) \in Doublings /\ Doubled(min) >= min
    BY <2>1 DEF Doubled
  <2>3. CalcNewCapacity(min) = Capped(Doubled(min))
    BY <1>3 DEF CalcNewCapacity, CAPACITY_THRESHOLD
  <2> QED
    BY <2>2, <2>3 DEF Capped, Doublings
<1> QED
    BY <1>1, <1>2, <1>3 DEF CAPACITY_THRESHOLD

-----------------------------------------------------------------------------
(* Steps of every call.                                                    *)

\* A call that is over, whatever it returned.
LEMMA Ended ==
    ASSUME TypeOK', Room', AccessesInBounds', todo' = <<>>, mark' = <<>>
    PROVE  RegionInv'
BY DEF RegionInv, Running, Started, Marked, Ordered

\* An access of nothing is inside.
LEMMA NoneInside ==
    ASSUME NoAccess
    PROVE  AccessesInBounds'
BY DEF NoAccess, AccessesInBounds

\* NoCall is a call of the client.
LEMMA NoCallType == NoCall \in CallRecs /\ ~NoCall.read
BY DEF NoCall, CallRecs, Ops

\* The first primitive tells a reading call from a writing one.
LEMMA Phase ==
    ASSUME RegionInv, todo # <<>>
    PROVE  /\ First = todo[1]
           /\ First.do \in WriteDos => ~call.read /\ First \in WSteps /\ todo \in Seq(WSteps)
           /\ First.do \in ReadDos => call.read /\ First \in RSteps /\ todo \in Seq(RSteps)
           /\ First.n \in Nat /\ First.pad \in Nat /\ First.val \in Int /\ Need = Bytes(First)
<1>1. call.read \in BOOLEAN
    BY DEF RegionInv, TypeOK, CallRecs
<1>2. CASE call.read
  <2>1. todo \in Seq(RSteps)
    BY <1>2 DEF RegionInv, Running
  <2>2. First = todo[1] /\ First \in RSteps
    BY <2>1 DEF First
  <2> QED
    BY <1>2, <2>1, <2>2 DEF RSteps, WriteDos, ReadDos, Need, Bytes
<1>3. CASE ~call.read
  <2>1. todo \in Seq(WSteps)
    BY <1>3 DEF RegionInv, Running
  <2>2. First = todo[1] /\ First \in WSteps
    BY <2>1 DEF First
  <2> QED
    BY <1>3, <2>1, <2>2 DEF WSteps, WriteDos, ReadDos, Need, Bytes
<1> QED
    BY <1>1, <1>2, <1>3

\* What is left of a writing call after its first primitive.
LEMMA Rest ==
    ASSUME NEW s \in Seq(WSteps), s # <<>>, Ordered(s)
    PROVE  /\ Tail(s) \in Seq(WSteps) /\ Len(Tail(s)) = Len(s) - 1
           /\ \A i \in DOMAIN Tail(s) : i + 1 \in DOMAIN s /\ Tail(s)[i] = s[i + 1]
           /\ Ordered(Tail(s))
           /\ <<>> \o Tail(s) = Tail(s)
<1>1. Tail(s) \in Seq(WSteps) /\ Len(Tail(s)) = Len(s) - 1
      /\ \A i \in DOMAIN Tail(s) : i + 1 \in DOMAIN s /\ Tail(s)[i] = s[i + 1]
    OBVIOUS
<1>2. Ordered(Tail(s))
  <2> SUFFICES ASSUME NEW i \in DOMAIN Tail(s), Tail(s)[i].do = "offset"
               PROVE  /\ i = Len(Tail(s))
                      /\ i > 1 => Tail(s)[i - 1].do = "write" /\ Bytes(Tail(s)[i - 1]) = ObjSize
                      /\ i > 2 => Tail(s)[i - 2].do = "objects"
    BY DEF Ordered
  <2>1. i + 1 = Len(s) /\ s[i].do = "write" /\ Bytes(s[i]) = ObjSize
        /\ (i > 1 => s[i - 1].do = "objects")
    <3>1. PICK j \in DOMAIN s : j = i + 1 /\ s[j].do = "offset"
        BY <1>1
    <3>2. j = Len(s) /\ (j > 1 => s[j - 1].do = "write" /\ Bytes(s[j - 1]) = ObjSize)
          /\ (j > 2 => s[j - 2].do = "objects")
        BY <3>1 DEF Ordered
    <3>3. i \in Nat \ {0} /\ j - 1 = i /\ j - 2 = i - 1
        BY <1>1, <3>1
    <3> QED
        BY <3>1, <3>2, <3>3
  <2>2. i > 1 => Tail(s)[i - 1] = s[i]
    BY <1>1
  <2>3. i > 2 => Tail(s)[i - 2] = s[i - 1]
    BY <1>1
  <2> QED
    BY <1>1, <2>1, <2>2, <2>3
<1>3. <<>> \o Tail(s) = Tail(s)
    BY <1>1, ConcatEmptySeq
<1> QED
    BY <1>1, <1>2, <1>3

\* A writing call goes on with what is left.
LEMMA Advanced ==
    ASSUME RegionInv, todo # <<>>, First.do \in WriteDos, Proceed(<<>>)
    PROVE  /\ Running' /\ todo' = Tail(todo) /\ call' = call /\ from' = from /\ ~call.read
           /\ (\E i \in DOMAIN todo' : Small(todo'[i])) => \E i \in DOMAIN todo : Small(todo[i])
<1>1. ~call.read /\ todo \in Seq(WSteps) /\ Ordered(todo)
    BY Phase DEF RegionInv, Running
<1>2. /\ Tail(todo) \in Seq(WSteps) /\ Ordered(Tail(todo)) /\ <<>> \o Tail(todo) = Tail(todo)
      /\ \A i \in DOMAIN Tail(todo) : i + 1 \in DOMAIN todo /\ Tail(todo)[i] = todo[i + 1]
    BY <1>1, Rest
<1>3. /\ todo' = Tail(todo) /\ call' = call /\ from' = from
      /\ ret' = IF Tail(todo) = <<>> THEN "true" ELSE "busy"
    BY <1>2 DEF Proceed
<1>4. \A i \in DOMAIN Tail(todo) : Tail(todo)[i].do # "body"
  <2>1. \A t \in WSteps : t.do # "body"
    BY DEF WSteps, WriteDos
  <2>2. \A i \in DOMAIN Tail(todo) : Tail(todo)[i] \in WSteps
    BY <1>2
  <2> QED
    BY <2>1, <2>2
<1>5. Running'
    BY <1>1, <1>2, <1>3, <1>4 DEF Running, Ordered
<1> QED
    BY <1>1, <1>2, <1>3, <1>5

\* A value stored in the room there is.
LEMMA Stored ==
    ASSUME RegionInv, At("write"), writable, Store,
           data' = TRUE, cap' \in Nat, cap <= cap', wc + Need <= cap'
    PROVE  RegionInv'
<1>1. todo # <<>> /\ First.do = "write"
    BY DEF At, First
<1>2. First = todo[1] /\ First.do \in WriteDos /\ Need \in Nat /\ Need = Bytes(First)
      /\ First.val \in Int
    BY <1>1, Phase DEF WriteDos, Need
<1>3. /\ Running' /\ todo' = Tail(todo) /\ call' = call /\ from' = from /\ ~call.read
      /\ (\E i \in DOMAIN todo' : Small(todo'[i])) => \E i \in DOMAIN todo : Small(todo[i])
    BY <1>1, <1>2, Advanced DEF Store
<1>4. /\ wc' = wc + Need /\ size' = size + Need
      /\ rc' = rc /\ maxCap' = maxCap /\ writable' = writable /\ torn' = torn
      /\ mark' = mark /\ place' = place
    BY DEF Store
<1>5. TypeOK'
  <2>1. words' \subseteq [off : Nat, val : Int]
    BY <1>2 DEF Store, RegionInv, TypeOK
  <2>2. items' \subseteq [off : Nat, end : Nat, call : CallRecs]
    BY <1>2 DEF Store, RegionInv, TypeOK
  <2> QED
    BY <1>2, <1>3, <1>4, <2>1, <2>2 DEF RegionInv, TypeOK
<1>6. Room'
    BY <1>2, <1>4 DEF RegionInv, TypeOK, Room
<1>7. Started'
  <2>1. (\E i \in DOMAIN todo : Small(todo[i])) => wc >= 4 \/ Need >= 4
    BY <1>2 DEF RegionInv, Started, Big
  <2>2. (\E i \in DOMAIN todo' : Small(todo'[i])) => wc' >= 4 /\ wc' <= cap'
    <3>1. wc + Need >= wc /\ wc + Need >= Need /\ wc \in Nat
        BY <1>2 DEF RegionInv, TypeOK
    <3> QED
        BY <1>2, <1>3, <1>4, <2>1, <3>1
  <2> QED
    BY <2>2 DEF Started
<1>8. Marked'
    BY <1>2, <1>3, <1>4 DEF RegionInv, TypeOK, Marked
<1>9. AccessesInBounds'
  <2>1. First.tail /\ Need < 4 => wc >= 4
    <3> SUFFICES ASSUME First.tail, Need < 4
                 PROVE  wc >= 4
        OBVIOUS
    <3>1. Small(todo[1]) /\ ~Big(todo[1])
        BY <1>1, <1>2 DEF Small, Big, Bytes
    <3>2. 1 \in DOMAIN todo
        BY <1>1, <1>2, Phase
    <3> QED
        BY <3>1, <3>2 DEF RegionInv, Started
  <2>2. LowestByte >= 0
    BY <1>2, <2>1 DEF LowestByte, RegionInv, TypeOK
  <2>3. acc' = [lo |-> LowestByte, hi |-> wc + Need, kind |-> "write"]
    BY DEF Store, Access
  <2> QED
    BY <2>2, <2>3 DEF AccessesInBounds
<1> QED
    BY <1>3, <1>5, <1>6, <1>7, <1>8, <1>9 DEF RegionInv

\* EnsureWritableCapacity finds room, also for the empty padding.
LEMMA InPlaceFits ==
    ASSUME RegionInv, At("write"), writable, Need <= GetWritableBytes, data
    PROVE  wc + Need <= cap
<1>1. todo # <<>> /\ First.do = "write"
    BY DEF At, First
<1>2. First = todo[1] /\ Need \in Nat /\ Need = Bytes(First) /\ 1 \in DOMAIN todo
    BY <1>1, Phase DEF WriteDos, Need
<1>3. CASE Need = 0
  <2>1. Small(todo[1]) /\ ~Big(todo[1])
    BY <1>1, <1>2, <1>3 DEF Small, Big
  <2>2. wc <= cap
    BY <1>2, <2>1 DEF RegionInv, Started
  <2> QED
    BY <1>3, <2>2 DEF RegionInv, TypeOK
<1>4. CASE Need > 0
    BY <1>2, <1>4 DEF GetWritableBytes, RegionInv, TypeOK
<1> QED
    BY <1>2, <1>3, <1>4

\* A primitive that fails ends the call, and a remote object is rolled back.
LEMMA RolledBack ==
    ASSUME RegionInv, todo # <<>>, First.do \in WriteDos, Fail, RollBack, NoAccess,
           UNCHANGED <<data, cap, rc, maxCap, writable, torn>>
    PROVE  RegionInv'
<1>1. ~call.read
    BY Phase
<1>2. call' = call /\ from' = from /\ place' = place /\ todo' = <<>> /\ mark' = <<>>
    BY DEF Fail
<1>3. /\ wc' \in Nat /\ wc' <= wc /\ size' \in Nat /\ size' <= size
      /\ ~torn /\ writable => wc' = size'
    BY <1>1 DEF RollBack, RegionInv, TypeOK, Room, Marked
<1>4. words' \subseteq words /\ items' \subseteq items
    BY DEF RollBack, CutGhosts, ghosts
<1>5. mark' \in Seq(Nat)
    BY <1>2
<1>6. TypeOK'
    BY <1>2, <1>3, <1>4, <1>5 DEF RegionInv, TypeOK
<1>7. Room'
    BY <1>3 DEF RegionInv, TypeOK, Room
<1> QED
    BY <1>2, <1>6, <1>7, NoneInside, Ended

-----------------------------------------------------------------------------
(* Steps of reading calls: only the read cursor and nextObjectIdx_ move.   *)

\* What a reading step touches is in the data.
ReadInside ==
    acc'.kind = "none" \/ (acc'.kind \in {"read", "object"} /\ acc'.hi <= size /\ size > 0)

\* Whatever a reading step does, it keeps the invariant when what it touched
\* is in the data and what it still has to do is in order.
LEMMA ReadStep ==
    ASSUME RegionInv, call.read, ReadFrame, UNCHANGED <<call, from>>, rc' \in Nat,
           mark' \in Seq(Nat), todo' \in Seq(RSteps), ret' # "busy" => todo' = <<>>,
           \A i \in DOMAIN todo' : todo'[i].do = "body" => i = 1 /\ Len(mark') = 1,
           ReadInside
    PROVE  RegionInv'
<1>1. /\ UNCHANGED <<data, cap, size, wc, maxCap, writable, torn>>
      /\ place' = place /\ words' = words /\ items' = items
    BY DEF ReadFrame, region, ghosts
<1>2. TypeOK'
    BY <1>1 DEF RegionInv, TypeOK
<1>3. Room' /\ Marked'
    BY <1>1 DEF RegionInv, Room, Marked
<1>4. \A s \in RSteps : s.do # "offset" /\ ~Small(s)
    BY DEF RSteps, ReadDos, Small
<1>5. \A i \in DOMAIN todo' : todo'[i].do # "offset" /\ ~Small(todo'[i])
    BY <1>4
<1>6. Ordered(todo') /\ Started'
    BY <1>5 DEF Ordered, Started
<1>7. Running'
    BY <1>6 DEF Running
<1>8. (data' /\ (torn' \/ size' <= cap')) \/ size = 0
    BY <1>1 DEF RegionInv, Room, TypeOK
<1>9. AccessesInBounds'
    BY <1>1, <1>8 DEF AccessesInBounds, ReadInside, RegionInv, TypeOK
<1> QED
    BY <1>2, <1>3, <1>6, <1>7, <1>9 DEF RegionInv

\* A reading call goes on with the primitives in push first.
LEMMA Pushed ==
    ASSUME RegionInv, call.read, todo # <<>>, NEW push \in Seq(RSteps), Proceed(push)
    PROVE  /\ todo' \in Seq(RSteps) /\ (ret' # "busy" => todo' = <<>>)
           /\ UNCHANGED <<call, from>>
           /\ \A i \in DOMAIN todo' : todo'[i].do = "body" =>
                 i \in DOMAIN push /\ push[i].do = "body"
<1>1. todo \in Seq(RSteps) /\ \A i \in DOMAIN todo : todo[i].do = "body" => i = 1
    BY DEF RegionInv, Running
<1>2. /\ Tail(todo) \in Seq(RSteps)
      /\ \A i \in DOMAIN Tail(todo) : i + 1 \in DOMAIN todo /\ Tail(todo)[i] = todo[i + 1]
    BY <1>1
<1>3. \A i \in DOMAIN Tail(todo) : Tail(todo)[i].do # "body"
    BY <1>1, <1>2
<1>4. todo' = push \o Tail(todo) /\ (ret' # "busy" => todo' = <<>>) /\ UNCHANGED <<call, from>>
    BY DEF Proceed
<1> DEFINE t == Tail(todo)
<1>5. /\ push \o t \in Seq(RSteps) /\ Len(push \o t) = Len(push) + Len(t)
      /\ \A i \in 1 .. Len(push) + Len(t) :
            (push \o t)[i] = IF i <= Len(push) THEN push[i] ELSE t[i - Len(push)]
    BY <1>2, ConcatProperties, Zenon
<1> HIDE DEF t
<1>6. \A i \in 1 .. Len(push) + Len(t) : i > Len(push) => i - Len(push) \in DOMAIN t
    BY <1>2 DEF t
<1>7. \A i \in DOMAIN todo' : todo'[i].do = "body" => i \in DOMAIN push /\ push[i].do = "body"
    BY <1>3, <1>4, <1>5, <1>6 DEF t
<1> QED
    BY <1>4, <1>5, <1>7 DEF t

\* Read<T>, of at least a byte.
LEMMA ReadFacts ==
    ASSUME TypeOK, NEW n \in Nat \ {0}
    PROVE  /\ n <= GetReadableBytes => rc + n <= size
           /\ rc + n <= size /\ Access("read", rc, rc + n) => ReadInside
           /\ ReadOk(n) => rc' \in Nat /\ ReadInside
           /\ ReadFails(n) => rc' \in Nat /\ ReadInside
<1>1. n <= GetReadableBytes => rc + n <= size
    BY DEF GetReadableBytes, TypeOK
<1>2. rc + n <= size /\ Access("read", rc, rc + n) => ReadInside
    BY DEF Access, ReadInside, TypeOK
<1>3. ReadOk(n) => rc' \in Nat /\ ReadInside
    BY <1>1, <1>2 DEF ReadOk, TypeOK
<1>4. ReadFails(n) => rc' \in Nat /\ ReadInside
    BY DEF ReadFails, NoAccess, ReadInside, TypeOK
<1> QED
    BY <1>1, <1>2, <1>3, <1>4

\* SkipBytes moves the cursor forward.
LEMMA SkipFacts ==
    ASSUME TypeOK, NEW p \in Nat, NEW bytes \in Nat
    PROVE  Skipped(p, bytes) \in Nat /\ Skipped(p, bytes) >= p
BY DEF Skipped, TypeOK

\* A length that was written is an integer.
LEMMA LengthType ==
    ASSUME TypeOK, NEW p
    PROVE  LengthsAt(p) \subseteq Int
BY DEF LengthsAt, Garbage, TypeOK

\* A read that fails and ends the call.
LEMMA ReadFailed ==
    ASSUME RegionInv, call.read, ReadFrame, Fail, rc' \in Nat, ReadInside
    PROVE  RegionInv'
<1>1. todo' = <<>> /\ mark' = <<>> /\ UNCHANGED <<call, from>>
    BY DEF Fail
<1>2. todo' \in Seq(RSteps) /\ mark' \in Seq(Nat) /\ DOMAIN todo' = {}
    BY <1>1
<1> QED
    BY <1>1, <1>2, ReadStep

\* A read after which the call goes on.
LEMMA ReadGoesOn ==
    ASSUME RegionInv, call.read, todo # <<>>, ReadFrame, rc' \in Nat, ReadInside,
           NEW push \in Seq(RSteps), \A i \in DOMAIN push : push[i].do # "body",
           Proceed(push), mark' = mark
    PROVE  RegionInv'
<1>1. /\ todo' \in Seq(RSteps) /\ (ret' # "busy" => todo' = <<>>) /\ UNCHANGED <<call, from>>
      /\ \A i \in DOMAIN todo' : todo'[i].do # "body"
    BY Pushed
<1>2. mark' \in Seq(Nat)
    BY DEF RegionInv, TypeOK
<1> QED
    BY <1>1, <1>2, ReadStep

\* A string that cannot be read.
LEMMA ReadNoString ==
    ASSUME RegionInv, call.read, todo # <<>>, ReadFrame, rc' \in Nat, ReadInside, NoString
    PROVE  RegionInv'
<1>1. <<>> \in Seq(RSteps) /\ DOMAIN <<>> = {}
    OBVIOUS
<1> QED
    BY <1>1, ReadGoesOn, ReadFailed DEF NoString

\* An access of nothing is inside.
LEMMA NoneRead ==
    ASSUME NoAccess
    PROVE  ReadInside
BY DEF NoAccess, ReadInside

\* A basic read keeps the invariant.
LEMMA GetKeeps ==
    ASSUME RegionInv, Get
    PROVE  RegionInv'
<1>1. todo # <<>> /\ First.do = "get"
    BY DEF Get, At, First
<1>2. call.read /\ First.n \in Nat \ {0}
    BY <1>1, Phase DEF ReadDos, RSteps
<1>3. <<>> \in Seq(RSteps) /\ DOMAIN <<>> = {} /\ TypeOK
    BY DEF RegionInv
<1>4. rc' \in Nat /\ ReadInside
    BY <1>2, <1>3, ReadFacts DEF Get
<1>5. CASE Proceed(<<>>) /\ UNCHANGED mark
    BY <1>1, <1>2, <1>3, <1>4, <1>5, ReadGoesOn DEF Get
<1>6. CASE Fail
    BY <1>2, <1>4, <1>6, ReadFailed DEF Get
<1> QED
    BY <1>5, <1>6 DEF Get

\* ReadUnpadBuffer keeps the invariant.
LEMMA ReadUnpadBufferKeeps ==
    ASSUME RegionInv, ReadUnpadBuffer
    PROVE  RegionInv'
<1>1. todo # <<>> /\ First.do = "unpad"
    BY DEF ReadUnpadBuffer, At, First
<1>2. call.read /\ First.n \in Nat \ {0}
    BY <1>1, Phase DEF ReadDos, RSteps
<1>3. <<>> \in Seq(RSteps) /\ DOMAIN <<>> = {} /\ TypeOK /\ rc \in Nat
    BY DEF RegionInv, TypeOK
<1>4. CASE /\ First.n <= GetReadableBytes /\ Validated(rc + First.n)
           /\ rc' = Skipped(rc + First.n, GetPadSize(First.n))
           /\ Access("read", rc, rc + First.n)
           /\ Proceed(<<>>) /\ UNCHANGED mark
  <2>1. GetPadSize(First.n) \in Nat /\ rc + First.n \in Nat
    BY <1>2, <1>3, PadFacts
  <2>2. rc' \in Nat /\ ReadInside
    BY <1>2, <1>3, <1>4, <2>1, SkipFacts, ReadFacts
  <2> QED
    BY <1>1, <1>2, <1>3, <1>4, <2>2, ReadGoesOn DEF ReadUnpadBuffer
<1>5. CASE Fail /\ NoAccess /\ UNCHANGED <<rc, nextObj>>
    BY <1>2, <1>3, <1>5, NoneRead, ReadFailed DEF ReadUnpadBuffer
<1> QED
    BY <1>4, <1>5 DEF ReadUnpadBuffer

\* ReadBuffer keeps the invariant.
LEMMA ReadBufferKeeps ==
    ASSUME RegionInv, ReadBuffer
    PROVE  RegionInv'
<1>1. todo # <<>> /\ First.do = "raw"
    BY DEF ReadBuffer, At, First
<1>2. call.read /\ First.n \in Nat \ {0}
    BY <1>1, Phase DEF ReadDos, RSteps
<1>3. <<>> \in Seq(RSteps) /\ DOMAIN <<>> = {} /\ TypeOK /\ rc \in Nat
    BY DEF RegionInv, TypeOK
<1>4. CASE /\ First.n <= GetReadableBytes /\ Validated(rc + First.n)
           /\ rc' = rc + First.n
           /\ Access("read", rc, rc + First.n)
           /\ Proceed(<<>>) /\ UNCHANGED mark
  <2>1. rc' \in Nat
    BY <1>2, <1>3, <1>4
  <2>2. ReadInside
    BY <1>2, <1>3, <1>4, ReadFacts
  <2> QED
    BY <1>1, <1>2, <1>3, <1>4, <2>1, <2>2, ReadGoesOn DEF ReadBuffer
<1>5. CASE Fail /\ NoAccess /\ UNCHANGED <<rc, nextObj>>
    BY <1>2, <1>3, <1>5, NoneRead, ReadFailed DEF ReadBuffer
<1> QED
    BY <1>4, <1>5 DEF ReadBuffer

\* ReadCString keeps the invariant.
LEMMA ReadCStringKeeps ==
    ASSUME RegionInv, ReadCString
    PROVE  RegionInv'
<1>1. todo # <<>> /\ First.do = "cstring"
    BY DEF ReadCString, At, First
<1>2. call.read
    BY <1>1, Phase DEF ReadDos
<1>3. <<>> \in Seq(RSteps) /\ DOMAIN <<>> = {} /\ TypeOK /\ rc \in Nat
    BY DEF RegionInv, TypeOK
<1>4. \A n \in StringLengths : n \in Nat /\ n + 1 <= GetReadableBytes
    BY <1>3 DEF StringLengths, TypeOK, CallRecs
<1>5. CASE \E n \in StringLengths :
             /\ Validated(rc + n + 1)
             /\ rc' = Skipped(rc + n + 1, GetPadSize(n + 1))
             /\ Access("read", rc, rc + n + 1)
             /\ Proceed(<<>>) /\ UNCHANGED mark
  <2>1. PICK n \in StringLengths :
             /\ rc' = Skipped(rc + n + 1, GetPadSize(n + 1))
             /\ Access("read", rc, rc + n + 1)
             /\ Proceed(<<>>) /\ UNCHANGED mark
    BY <1>5
  <2>2. n + 1 \in Nat \ {0} /\ n + 1 <= GetReadableBytes /\ rc + n + 1 = rc + (n + 1)
    BY <1>3, <1>4
  <2>3. GetPadSize(n + 1) \in Nat /\ rc + (n + 1) \in Nat
    BY <1>3, <2>2, PadFacts
  <2>4. rc' \in Nat
    BY <1>3, <2>1, <2>2, <2>3, SkipFacts
  <2>5. rc + (n + 1) <= size /\ Access("read", rc, rc + (n + 1))
    BY <1>3, <2>1, <2>2, ReadFacts
  <2>6. ReadInside
    BY <1>3, <2>2, <2>5, ReadFacts
  <2> QED
    BY <1>1, <1>2, <1>3, <2>1, <2>4, <2>6, ReadGoesOn DEF ReadCString
<1>6. CASE Fail /\ NoAccess /\ UNCHANGED <<rc, nextObj>>
    BY <1>2, <1>3, <1>6, NoneRead, ReadFailed DEF ReadCString
<1> QED
    BY <1>5, <1>6 DEF ReadCString

\* The length of a string keeps the invariant: its place is saved.
LEMMA ReadStringLengthKeeps ==
    ASSUME RegionInv, ReadStringLength
    PROVE  RegionInv'
<1>1. todo # <<>> /\ First.do = "length"
    BY DEF ReadStringLength, At, First
<1>2. call.read /\ First.n \in Nat \ {0}
    BY <1>1, Phase DEF ReadDos, RSteps
<1>3. TypeOK /\ rc \in Nat /\ ReadFrame
    BY DEF RegionInv, TypeOK, ReadStringLength
<1>4. rc' \in Nat /\ ReadInside
    BY <1>3, ReadFacts DEF ReadStringLength
<1>5. CASE NoString
    BY <1>1, <1>2, <1>3, <1>4, <1>5, ReadNoString
<1>6. ASSUME NEW len \in LengthsAt(rc), ~(len < 0),
             Proceed(<<Step("body", (len + 1) * First.n)>>), mark' = <<rc>>
      PROVE  RegionInv'
  <2> DEFINE body == Step("body", (len + 1) * First.n)
  <2>1. len + 1 \in Nat \ {0}
    BY <1>3, <1>6, LengthType
  <2>2. (len + 1) * First.n \in Nat \ {0}
    BY <1>2, <2>1, Product
  <2>3. body \in RSteps
    BY <2>2, StepKinds DEF ReadDos
  <2>4. <<body>> \in Seq(RSteps) /\ DOMAIN <<body>> = {1}
    BY <2>3
  <2> HIDE DEF body
  <2>5. Proceed(<<body>>)
    BY <1>6 DEF body
  <2>6. /\ todo' \in Seq(RSteps) /\ (ret' # "busy" => todo' = <<>>) /\ UNCHANGED <<call, from>>
        /\ \A i \in DOMAIN todo' : todo'[i].do = "body" => i = 1
    BY <1>1, <1>2, <2>4, <2>5, Pushed
  <2>7. mark' \in Seq(Nat) /\ Len(mark') = 1
    BY <1>3, <1>6
  <2> QED
    BY <1>2, <1>3, <1>4, <2>6, <2>7, ReadStep
<1> QED
    BY <1>5, <1>6 DEF ReadStringLength

\* The body of a string, read or taken back, keeps the invariant.
LEMMA ReadStringBodyKeeps ==
    ASSUME RegionInv, ReadStringBody
    PROVE  RegionInv'
<1>1. todo # <<>> /\ First.do = "body"
    BY DEF ReadStringBody, At, First
<1>2. call.read /\ First.n \in Nat \ {0} /\ todo \in Seq(RSteps) /\ First = todo[1]
    BY <1>1, Phase DEF ReadDos, RSteps
<1>3. TypeOK /\ rc \in Nat /\ ReadFrame /\ <<>> \in Seq(RSteps) /\ DOMAIN <<>> = {}
    BY DEF RegionInv, TypeOK, ReadStringBody
<1>4. mark[1] \in Nat
  <2>1. Len(mark) = 1
    BY <1>1, <1>2 DEF RegionInv, Running
  <2>2. mark \in Seq(Nat)
    BY <1>3 DEF TypeOK
  <2> QED
    BY <2>1, <2>2, ElementOfSeq
<1>5. GetPadSize(First.n) \in Nat /\ rc + First.n \in Nat
    BY <1>2, <1>3, PadFacts
<1>6. ReadInside
    BY <1>2, <1>3, ReadFacts, NoneRead DEF ReadStringBody
<1>7. CASE /\ rc' = Skipped(rc + First.n, GetPadSize(First.n))
           /\ Proceed(<<>>) /\ UNCHANGED mark
  <2>1. rc' \in Nat
    BY <1>3, <1>5, <1>7, SkipFacts
  <2> QED
    BY <1>1, <1>2, <1>3, <1>6, <1>7, <2>1, ReadGoesOn
<1>8. CASE rc' = mark[1] /\ NoString
    BY <1>1, <1>2, <1>3, <1>4, <1>6, <1>8, ReadNoString
<1> QED
    BY <1>7, <1>8 DEF ReadStringBody

\* The primitives that read the elements of a vector.
LEMMA ElementsShape ==
    ASSUME NEW len \in Nat, NEW w \in Nat \ {0}, NEW d \in {"get", "length"}
    PROVE  /\ [i \in 1 .. len |-> Step(d, w)] \in Seq(RSteps)
           /\ \A i \in DOMAIN [i \in 1 .. len |-> Step(d, w)] :
                 [j \in 1 .. len |-> Step(d, w)][i].do # "body"
           /\ Elements(len, w) \in Seq(RSteps)
           /\ \A i \in DOMAIN Elements(len, w) : Elements(len, w)[i].do # "body"
<1>1. \A x \in {"get", "length"} : Step(x, w) \in RSteps /\ Step(x, w).do = x
    BY StepKinds DEF ReadDos
<1>2. \A x \in {"get", "length"} :
         /\ [i \in 1 .. len |-> Step(x, w)] \in Seq(RSteps)
         /\ Len([i \in 1 .. len |-> Step(x, w)]) = len
         /\ \A i \in 1 .. len : [j \in 1 .. len |-> Step(x, w)][i].do # "body"
    BY <1>1
<1> DEFINE e == [i \in 1 .. len |-> Step("get", w)]
           p == Step("skip", GetPadSize(len * w))
<1>3. e \in Seq(RSteps) /\ Len(e) = len /\ \A i \in 1 .. len : e[i].do # "body"
    BY <1>2
<1>4. p \in RSteps /\ p.do = "skip"
  <2>1. len * w \in Nat
    OBVIOUS
  <2>2. GetPadSize(len * w) \in Nat
    BY <2>1, PadFacts
  <2> QED
    BY <2>2, StepKinds DEF ReadDos
<1>5. Elements(len, w) = e \o <<p>>
    BY DEF Elements
<1> HIDE DEF e, p
<1>6. e \o <<p>> \in Seq(RSteps) /\ \A i \in DOMAIN (e \o <<p>>) : (e \o <<p>>)[i].do # "body"
    BY <1>3, <1>4
<1> QED
    BY <1>2, <1>5, <1>6

\* The count of a vector keeps the invariant.
LEMMA ReadVectorCountKeeps ==
    ASSUME RegionInv, ReadVectorCount
    PROVE  RegionInv'
<1>1. todo # <<>> /\ First.do = "count"
    BY DEF ReadVectorCount, At, First
<1>2. call.read /\ First.n \in Nat \ {0}
    BY <1>1, Phase DEF ReadDos, RSteps
<1>3. TypeOK /\ ReadFrame
    BY DEF RegionInv, ReadVectorCount
<1>4. PICK len \in LengthsAt(rc) \cup {0} :
          /\ ReadOk(4) \/ ReadFails(4)
          /\ IF len < 0 \/ len > ReadableAt(rc') \div First.n THEN Fail
             ELSE Proceed(Elements(len, First.n)) /\ UNCHANGED mark
    BY DEF ReadVectorCount
<1>5. rc' \in Nat /\ ReadInside
    BY <1>3, <1>4, ReadFacts
<1>6. CASE Fail
    BY <1>2, <1>3, <1>5, <1>6, ReadFailed
<1>7. CASE ~(len < 0) /\ Proceed(Elements(len, First.n)) /\ UNCHANGED mark
  <2>1. len \in Nat
    BY <1>3, <1>7, LengthType
  <2>2. /\ Elements(len, First.n) \in Seq(RSteps)
        /\ \A i \in DOMAIN Elements(len, First.n) : Elements(len, First.n)[i].do # "body"
    BY <1>2, <2>1, ElementsShape
  <2> QED
    BY <1>1, <1>2, <1>3, <1>5, <1>7, <2>2, ReadGoesOn
<1> QED
    BY <1>4, <1>6, <1>7

\* The count of a vector of strings keeps the invariant.
LEMMA ReadStringVectorKeeps ==
    ASSUME RegionInv, ReadStringVector
    PROVE  RegionInv'
<1>1. todo # <<>> /\ First.do = "strings"
    BY DEF ReadStringVector, At, First
<1>2. call.read /\ First.n \in Nat \ {0}
    BY <1>1, Phase DEF ReadDos, RSteps
<1>3. TypeOK /\ ReadFrame
    BY DEF RegionInv, ReadStringVector
<1>4. PICK len \in LengthsAt(rc) \cup {0} :
          /\ ReadOk(4) \/ ReadFails(4)
          /\ IF len < 0 \/ len > ReadableAt(rc') THEN Fail
             ELSE Proceed([i \in 1..len |-> Step("length", First.n)]) /\ UNCHANGED mark
    BY DEF ReadStringVector
<1>5. rc' \in Nat /\ ReadInside
    BY <1>3, <1>4, ReadFacts
<1>6. CASE Fail
    BY <1>2, <1>3, <1>5, <1>6, ReadFailed
<1>7. CASE ~(len < 0) /\ Proceed([i \in 1..len |-> Step("length", First.n)]) /\ UNCHANGED mark
  <2>1. len \in Nat
    BY <1>3, <1>7, LengthType
  <2> DEFINE e == [i \in 1..len |-> Step("length", First.n)]
  <2>2. e \in Seq(RSteps) /\ \A i \in DOMAIN e : e[i].do # "body"
    BY <1>2, <2>1, ElementsShape
  <2>3. Proceed(e)
    BY <1>7
  <2> HIDE DEF e
  <2> QED
    BY <1>1, <1>2, <1>3, <1>5, <1>7, <2>2, <2>3, ReadGoesOn
<1> QED
    BY <1>4, <1>6, <1>7

\* The padding of a vector keeps the invariant.
LEMMA SkipPaddingKeeps ==
    ASSUME RegionInv, SkipPadding
    PROVE  RegionInv'
<1>1. todo # <<>> /\ First.do = "skip"
    BY DEF SkipPadding, At, First
<1>2. call.read /\ First.n \in Nat
    BY <1>1, Phase DEF ReadDos, RSteps
<1>3. TypeOK /\ rc \in Nat /\ <<>> \in Seq(RSteps) /\ DOMAIN <<>> = {}
    BY DEF RegionInv, TypeOK
<1>4. rc' \in Nat /\ ReadInside
    BY <1>2, <1>3, SkipFacts, NoneRead DEF SkipPadding
<1> QED
    BY <1>1, <1>2, <1>3, <1>4, ReadGoesOn DEF SkipPadding

\* The first word of a Parcelable keeps the invariant.
LEMMA ReadMetaKeeps ==
    ASSUME RegionInv, ReadMeta
    PROVE  RegionInv'
<1>1. todo # <<>> /\ First.do = "meta"
    BY DEF ReadMeta, At, First
<1>2. call.read
    BY <1>1, Phase DEF ReadDos
<1>3. TypeOK /\ ReadFrame /\ <<>> \in Seq(RSteps) /\ DOMAIN <<>> = {}
    BY DEF RegionInv, ReadMeta
<1>4. rc' \in Nat /\ ReadInside
    BY <1>3, ReadFacts DEF ReadMeta
<1>5. CASE todo' = <<>> /\ mark' = <<>> /\ UNCHANGED <<call, from>>
  <2>1. todo' \in Seq(RSteps) /\ mark' \in Seq(Nat) /\ DOMAIN todo' = {}
    BY <1>5
  <2> QED
    BY <1>2, <1>3, <1>4, <1>5, <2>1, ReadStep
<1>6. CASE Proceed(<<>>) /\ UNCHANGED mark
    BY <1>1, <1>2, <1>3, <1>4, <1>6, ReadGoesOn
<1> QED
    BY <1>5, <1>6 DEF ReadMeta

\* ReadObject keeps the invariant.
LEMMA ReadObjectKeeps ==
    ASSUME RegionInv, ReadObject
    PROVE  RegionInv'
<1>1. todo # <<>> /\ First.do = "object"
    BY DEF ReadObject, At, First
<1>2. call.read
    BY <1>1, Phase DEF ReadDos
<1>3. TypeOK /\ ReadFrame /\ <<>> \in Seq(RSteps) /\ DOMAIN <<>> = {}
    BY DEF RegionInv, ReadObject
<1>4. rc' \in Nat /\ ReadInside
    BY <1>3 DEF ReadObject, Access, NoAccess, ReadInside, TypeOK, ObjSize
<1>5. CASE Fail
    BY <1>2, <1>3, <1>4, <1>5, ReadFailed
<1>6. CASE Proceed(<<>>) /\ UNCHANGED mark
    BY <1>1, <1>2, <1>3, <1>4, <1>6, ReadGoesOn
<1> QED
    BY <1>5, <1>6 DEF ReadObject

-----------------------------------------------------------------------------
(* Beginning a call, and the calls that are one step.                      *)

\* A value begins to be written or read.
LEMMA BeginKeeps ==
    ASSUME RegionInv, NEW c \in Calls, BeginWrite(c) \/ BeginRead(c)
    PROVE  RegionInv'
<1>1. c.op \in Ops /\ c.n \in Int /\ c.w \in Nat \ {0} /\ (c.op # "string" => c.n >= 0)
    BY ParcelConstants
<1>2. /\ UNCHANGED <<data, cap, size, wc, maxCap, writable, torn, rc, place, words, items>>
      /\ mark' = <<>> /\ ret' = "busy" /\ from' \in {wc, rc} /\ NoAccess
      /\ \E b \in BOOLEAN : call' = [op |-> c.op, n |-> c.n, w |-> c.w, read |-> b]
    BY DEF BeginWrite, BeginRead, region, ghosts
<1>3. call' \in CallRecs /\ mark' \in Seq(Nat)
    BY <1>1, <1>2 DEF CallRecs
<1>4. TypeOK' /\ Room' /\ Marked' /\ AccessesInBounds'
    BY <1>2, <1>3, NoneInside DEF RegionInv, TypeOK, Room, Marked
<1>5. CASE BeginWrite(c)
  <2>1. todo' = WriteSteps(c) /\ ~call'.read
    BY <1>5 DEF BeginWrite
  <2>2. /\ WriteSteps(c) \in Seq(WSteps) /\ Prepared(WriteSteps(c)) /\ Ordered(WriteSteps(c))
    BY WriteShape
  <2>3. \A s \in WSteps : s.do # "body"
    BY DEF WSteps, WriteDos
  <2>4. \A i \in DOMAIN WriteSteps(c) : WriteSteps(c)[i].do # "body"
    BY <2>2, <2>3
  <2> HIDE DEF WriteSteps
  <2>5. Running' /\ Started'
    BY <1>2, <2>1, <2>2, <2>4 DEF Running, Started, Prepared
  <2> QED
    BY <1>4, <2>5 DEF RegionInv
<1>6. CASE BeginRead(c)
  <2>1. todo' = ReadSteps(c) /\ call'.read
    BY <1>6 DEF BeginRead
  <2>2. ReadSteps(c) \in Seq(RSteps) /\ \A i \in DOMAIN ReadSteps(c) : ReadSteps(c)[i].do # "body"
    BY ReadShape
  <2>3. \A s \in RSteps : s.do # "offset" /\ ~Small(s)
    BY DEF RSteps, ReadDos, Small
  <2>4. \A i \in DOMAIN ReadSteps(c) : ReadSteps(c)[i].do # "offset" /\ ~Small(ReadSteps(c)[i])
    BY <2>2, <2>3
  <2>5. Running' /\ Started'
    BY <1>2, <2>1, <2>2, <2>4 DEF Running, Started, Ordered
  <2> QED
    BY <1>4, <2>5 DEF RegionInv
<1> QED
    BY <1>5, <1>6

\* A call that is one step and returns keeps the invariant when it keeps the
\* region in order.
LEMMA Returned ==
    ASSUME RegionInv, NEW yes \in BOOLEAN, Returns(yes), NoAccess, UNCHANGED <<from, place>>,
           data' \in BOOLEAN, writable' \in BOOLEAN, torn' \in BOOLEAN, cap' \in Nat,
           size' \in Nat, wc' \in Nat, rc' \in Nat, maxCap' \in Nat,
           words' \subseteq words, items' \subseteq items, Room'
    PROVE  RegionInv'
<1>1. todo' = <<>> /\ mark' = <<>> /\ call' = NoCall
    BY DEF Returns
<1>2. call' \in CallRecs /\ mark' \in Seq(Nat)
    BY <1>1, NoCallType
<1>3. TypeOK'
    BY <1>2 DEF RegionInv, TypeOK
<1> QED
    BY <1>1, <1>3, NoneInside, Ended

\* Every position of a rewind is a number.
LEMMA PositionType ==
    ASSUME TypeOK
    PROVE  Positions \subseteq Nat
BY DEF Positions, TypeOK

\* Every call that is one step keeps the invariant.
LEMMA OneStepKeeps ==
    ASSUME RegionInv,
           \/ \E p \in Positions : RewindRead(p) \/ RewindWrite(p) \/ RewindWriteRefused(p)
           \/ \E n \in Capacities : SetDataCapacity(n) \/ SetMaxCapacity(n) \/ ParseFrom(n)
           \/ \E n \in Sizes : SetDataSize(n)
           \/ \E n \in {4, 100} : SkipBytes(n)
           \/ \E t \in SenderTables : InjectOffsets(t)
           \/ SetAllocator \/ FlushBuffer
    PROVE  RegionInv'
<1> USE DEF region, ghosts
<1>1. TypeOK /\ Room
    BY DEF RegionInv
<1>2. /\ data \in BOOLEAN /\ writable \in BOOLEAN /\ torn \in BOOLEAN
      /\ cap \in Nat /\ size \in Nat /\ wc \in Nat /\ rc \in Nat /\ maxCap \in Nat
    BY <1>1 DEF TypeOK
<1>3. ASSUME NEW p \in Positions, RewindRead(p)
      PROVE  RegionInv'
  <2>1. p \in Nat
    BY <1>1, PositionType
  <2>2. /\ Returns(p <= size) /\ (p <= size) \in BOOLEAN /\ NoAccess /\ UNCHANGED <<from, place>>
        /\ UNCHANGED <<data, cap, size, wc, maxCap, writable, torn, words, items>>
        /\ rc' \in Nat
    BY <1>2, <1>3, <2>1 DEF RewindRead
  <2>3. Room'
    BY <1>1, <2>2 DEF Room
  <2> QED
    BY <1>2, <2>2, <2>3, Returned
<1>4. ASSUME NEW p \in Positions, RewindWrite(p)
      PROVE  RegionInv'
  <2>1. p \in Nat
    BY <1>1, PositionType
  <2>2. /\ \E b \in BOOLEAN : Returns(b)
        /\ NoAccess /\ UNCHANGED <<from, place, data, cap, maxCap, writable, rc>>
        /\ wc' = p /\ size' = p /\ p <= size /\ (torn' = torn \/ torn' = TRUE)
        /\ words' \subseteq words /\ items' \subseteq items
    BY <1>4 DEF RewindWrite, CutGhosts
  <2>3. torn' \in BOOLEAN /\ (torn => torn')
    <3>1. CASE torn' = torn
        BY <1>2, <3>1
    <3>2. CASE torn' = TRUE
        BY <3>2
    <3> QED
        BY <2>2, <3>1, <3>2
  <2>4. Room'
    BY <1>1, <1>2, <2>1, <2>2, <2>3 DEF Room
  <2> QED
    BY <1>2, <2>1, <2>2, <2>3, <2>4, Returned
<1>5. ASSUME NEW p \in Positions, RewindWriteRefused(p)
      PROVE  RegionInv'
  <2>1. /\ Returns(FALSE) /\ NoAccess /\ UNCHANGED <<from, place>>
        /\ UNCHANGED <<data, cap, size, wc, rc, maxCap, writable, torn, words, items>>
    BY <1>5 DEF RewindWriteRefused
  <2>2. Room'
    BY <1>1, <2>1 DEF Room
  <2> QED
    BY <1>2, <2>1, <2>2, Returned
<1>6. ASSUME NEW n \in Capacities, SetDataCapacity(n)
      PROVE  RegionInv'
  <2>1. n \in Nat
    BY ParcelConstants
  <2>2. /\ \E b \in BOOLEAN : Returns(b)
        /\ NoAccess /\ UNCHANGED <<from, place>>
        /\ UNCHANGED <<size, wc, rc, maxCap, writable, torn, words, items>>
        /\ \/ UNCHANGED <<data, cap>>
           \/ data' = TRUE /\ cap' = n /\ size < n
    BY <1>6 DEF SetDataCapacity
  <2>3. Room'
    BY <1>1, <1>2, <2>1, <2>2 DEF Room
  <2> QED
    BY <1>2, <2>1, <2>2, <2>3, Returned
<1>7. ASSUME NEW n \in Capacities, SetMaxCapacity(n)
      PROVE  RegionInv'
  <2>1. n \in Nat
    BY ParcelConstants
  <2>2. /\ Returns(n > maxCap) /\ (n > maxCap) \in BOOLEAN
        /\ NoAccess /\ UNCHANGED <<from, place>>
        /\ UNCHANGED <<data, cap, size, wc, rc, writable, torn, words, items>>
        /\ maxCap' \in Nat
    BY <1>2, <1>7, <2>1 DEF SetMaxCapacity
  <2>3. Room'
    BY <1>1, <2>2 DEF Room
  <2> QED
    BY <1>2, <2>2, <2>3, Returned
<1>8. ASSUME NEW n \in Capacities, ParseFrom(n)
      PROVE  RegionInv'
  <2>1. n \in Nat
    BY ParcelConstants
  <2>2. /\ \E b \in BOOLEAN : Returns(b)
        /\ NoAccess /\ UNCHANGED <<from, place>>
        /\ UNCHANGED <<wc, rc, maxCap, torn, words, items>>
        /\ \/ UNCHANGED <<data, cap, size, writable>>
           \/ data' = TRUE /\ cap' = n /\ size' = n /\ writable' = FALSE
    BY <1>8 DEF ParseFrom
  <2>3. Room'
    BY <1>1, <1>2, <2>1, <2>2 DEF Room
  <2> QED
    BY <1>2, <2>1, <2>2, <2>3, Returned
<1>9. ASSUME NEW n \in Sizes, SetDataSize(n)
      PROVE  RegionInv'
  <2>1. n \in Nat
    BY ParcelConstants
  <2>2. /\ Returns(n <= cap) /\ (n <= cap) \in BOOLEAN
        /\ NoAccess /\ UNCHANGED <<from, place>>
        /\ UNCHANGED <<data, cap, wc, rc, maxCap, writable, words, items>>
        /\ torn' = TRUE /\ size' = IF n > cap THEN size ELSE n
    BY <1>2, <1>9, <2>1 DEF SetDataSize
  <2>3. Room'
    BY <1>1, <1>2, <2>1, <2>2 DEF Room
  <2> QED
    BY <1>2, <2>1, <2>2, <2>3, Returned
<1>10. ASSUME NEW n \in {4, 100}, SkipBytes(n)
       PROVE  RegionInv'
  <2>1. rc' \in Nat
    BY <1>1, <1>2, <1>10, SkipFacts DEF SkipBytes
  <2>2. /\ Returns(TRUE) /\ NoAccess /\ UNCHANGED <<from, place>>
        /\ UNCHANGED <<data, cap, size, wc, maxCap, writable, torn, words, items>>
    BY <1>10 DEF SkipBytes
  <2>3. Room'
    BY <1>1, <2>2 DEF Room
  <2> QED
    BY <1>2, <2>1, <2>2, <2>3, Returned
<1>11. ASSUME NEW t \in SenderTables, InjectOffsets(t)
       PROVE  RegionInv'
  <2>1. /\ Returns(TRUE) /\ NoAccess /\ UNCHANGED <<from, place>>
        /\ UNCHANGED <<data, cap, size, wc, rc, maxCap, writable, torn, words, items>>
    BY <1>11 DEF InjectOffsets
  <2>2. Room'
    BY <1>1, <2>1 DEF Room
  <2> QED
    BY <1>2, <2>1, <2>2, Returned
<1>12. CASE SetAllocator
  <2>1. /\ \E b \in BOOLEAN : Returns(b)
        /\ NoAccess /\ UNCHANGED <<from, place>>
        /\ UNCHANGED <<data, size, wc, rc, maxCap, writable, torn, words, items>>
        /\ cap' = cap \/ (data /\ cap' = size)
    BY <1>12 DEF SetAllocator
  <2>2. Room'
    BY <1>1, <1>2, <2>1 DEF Room
  <2> QED
    BY <1>2, <2>1, <2>2, Returned
<1>13. CASE FlushBuffer
  <2>1. /\ Returns(TRUE) /\ NoAccess /\ UNCHANGED <<from, place, maxCap, writable>>
        /\ data' = FALSE /\ torn' = FALSE /\ words' = {} /\ items' = {}
        /\ \/ size' = 0 /\ wc' = 0 /\ rc' = 0 /\ cap' = 0
           \/ ~data /\ UNCHANGED <<size, wc, rc, cap>>
    BY <1>13 DEF FlushBuffer
  <2>2. Room'
    BY <1>1, <1>2, <2>1 DEF Room
  <2>3. /\ size' \in Nat /\ wc' \in Nat /\ rc' \in Nat /\ cap' \in Nat
        /\ words' \subseteq words /\ items' \subseteq items
    BY <1>2, <2>1
  <2> QED
    BY <1>2, <2>1, <2>2, <2>3, Returned
<1> QED
    BY <1>3, <1>4, <1>5, <1>6, <1>7, <1>8, <1>9, <1>10, <1>11, <1>12, <1>13

\* Every step of a writing call keeps the invariant.
LEMMA WriteKeeps ==
    ASSUME RegionInv,
           \/ WriteInPlace \/ WriteGrowing \/ WriteFails \/ MarkPosition
           \/ EnsureObjectsCapacity \/ EnsureObjectsFails \/ WriteObjectOffset
    PROVE  RegionInv'
<1>1. TypeOK /\ wc \in Nat /\ cap \in Nat /\ maxCap \in Nat
    BY DEF RegionInv, TypeOK
<1>2. CASE WriteInPlace
  <2>1. wc + Need <= cap
    BY <1>2, InPlaceFits DEF WriteInPlace
  <2>2. At("write") /\ writable /\ Store /\ data' = TRUE /\ cap' \in Nat /\ cap <= cap'
        /\ wc + Need <= cap'
    BY <1>1, <1>2, <2>1 DEF WriteInPlace, TypeOK
  <2> QED
    BY <2>2, Stored
<1>3. CASE WriteGrowing
  <2>1. todo # <<>> /\ First.do = "write"
    BY <1>3 DEF WriteGrowing, At, First
  <2>2. Need \in Nat
    BY <2>1, Phase DEF Need
  <2>3. Grown(Need) \in Nat
    BY <1>1, <2>2, CapacityEnough DEF Grown
  <2>4. Grown(Need) > cap /\ Grown(Need) >= Need + wc
    BY <1>3 DEF WriteGrowing, MayGrow
  <2>5. At("write") /\ writable /\ Store /\ data' = TRUE /\ cap' \in Nat /\ cap <= cap'
        /\ wc + Need <= cap'
    BY <1>1, <1>3, <2>2, <2>3, <2>4 DEF WriteGrowing
  <2> QED
    BY <2>5, Stored
<1>4. CASE WriteFails \/ EnsureObjectsFails
  <2>1. todo # <<>> /\ First.do \in WriteDos
    BY <1>4 DEF WriteFails, EnsureObjectsFails, At, First, WriteDos
  <2> QED
    BY <1>4, <2>1, RolledBack DEF WriteFails, EnsureObjectsFails
<1>5. ASSUME todo # <<>>, First.do \in WriteDos, ~Big(First), Proceed(<<>>), NoAccess,
             UNCHANGED <<region, rc>>, place' \in Nat, words' = words,
             items' \subseteq [off : Nat, end : Nat, call : CallRecs],
             mark' \in {mark, <<>>, <<wc, size>>}
      PROVE  RegionInv'
  <2>1. /\ Running' /\ todo' = Tail(todo) /\ call' = call /\ from' = from /\ ~call.read
        /\ (\E i \in DOMAIN todo' : Small(todo'[i])) => \E i \in DOMAIN todo : Small(todo[i])
    BY <1>5, Advanced
  <2>2. UNCHANGED <<data, cap, size, wc, rc, maxCap, writable, torn>>
    BY <1>5 DEF region
  <2>3. mark' \in Seq(Nat)
    <3>1. <<>> \in Seq(Nat) /\ <<wc, size>> \in Seq(Nat) /\ mark \in Seq(Nat)
        BY <1>1 DEF TypeOK
    <3> QED
        BY <1>5, <3>1
  <2>4. TypeOK'
    BY <1>5, <2>1, <2>2, <2>3 DEF RegionInv, TypeOK
  <2>5. Room' /\ AccessesInBounds'
    BY <1>5, <2>2, NoneInside DEF RegionInv, Room
  <2>6. Started'
    BY <1>5, <2>1, <2>2, Phase DEF RegionInv, Started
  <2>7. Marked'
    <3>1. CASE mark' \in {mark, <<>>}
        BY <2>1, <2>2, <3>1 DEF RegionInv, Marked
    <3>2. CASE mark' = <<wc, size>>
      <4>1. Len(mark') = 2 /\ mark'[1] = wc /\ mark'[2] = size
        BY <3>2
      <4> QED
        BY <2>2, <4>1 DEF RegionInv, TypeOK, Marked, Room
    <3> QED
        BY <1>5, <3>1, <3>2
  <2> QED
    BY <2>1, <2>4, <2>5, <2>6, <2>7 DEF RegionInv
<1>6. CASE MarkPosition
  <2>1. todo # <<>> /\ First.do \in WriteDos /\ ~Big(First) /\ Proceed(<<>>) /\ NoAccess
        /\ UNCHANGED <<region, rc, place, words, items>> /\ mark' = <<wc, size>>
    BY <1>6 DEF MarkPosition, At, First, WriteDos, Big, ghosts
  <2> QED
    BY <1>1, <1>5, <2>1 DEF TypeOK
<1>7. CASE EnsureObjectsCapacity
  <2>1. todo # <<>> /\ First.do \in WriteDos /\ ~Big(First) /\ Proceed(<<>>) /\ NoAccess
        /\ UNCHANGED <<region, rc, words, items, mark>> /\ place' = wc
    BY <1>7 DEF EnsureObjectsCapacity, At, First, WriteDos, Big, ghosts
  <2> QED
    BY <1>1, <1>5, <2>1 DEF TypeOK
<1>8. CASE WriteObjectOffset
  <2>1. todo # <<>> /\ First.do \in WriteDos /\ ~Big(First) /\ Proceed(<<>>) /\ NoAccess
        /\ UNCHANGED <<region, rc, place, words>> /\ mark' = <<>>
        /\ items' = items \cup {[off |-> from, end |-> wc, call |-> call]}
    BY <1>8 DEF WriteObjectOffset, At, First, WriteDos, Big
  <2>2. items' \subseteq [off : Nat, end : Nat, call : CallRecs] /\ place' \in Nat
    BY <1>1, <2>1 DEF TypeOK
  <2> QED
    BY <1>5, <2>1, <2>2
<1> QED
    BY <1>2, <1>3, <1>4, <1>6, <1>7, <1>8

\* Every step keeps the invariant of the region.
LEMMA RegionStep ==
    ASSUME RegionInv, [Next]_vars
    PROVE  RegionInv'
<1>1. CASE StartCall
    BY <1>1, BeginKeeps, OneStepKeeps DEF StartCall
<1>2. CASE RunCall
    BY <1>2, WriteKeeps, GetKeeps, ReadUnpadBufferKeeps, ReadBufferKeeps, ReadCStringKeeps,
       ReadStringLengthKeeps, ReadStringBodyKeeps, ReadVectorCountKeeps,
       ReadStringVectorKeeps, SkipPaddingKeeps, ReadMetaKeeps, ReadObjectKeeps DEF RunCall
<1>3. CASE UNCHANGED vars
  <2>1. UNCHANGED <<data, cap, size, wc, rc, maxCap, writable, torn, from, place, mark, call,
                    words, items, todo, ret, acc>>
    BY <1>3 DEF vars, region, locals, ghosts
  <2> QED
    BY <2>1 DEF RegionInv, TypeOK, Room, Running, Ordered, Started, Marked, AccessesInBounds
<1> QED
    BY <1>1, <1>2, <1>3 DEF Next, Idle

\* A new Parcel satisfies the invariant.
LEMMA RegionStarts == Init => RegionInv
<1> SUFFICES ASSUME Init
             PROVE  RegionInv
    OBVIOUS
<1>1. TypeOK
  <2>1. DEFAULT_CPACITY \in Nat
    BY SMT DEF DEFAULT_CPACITY
  <2>2. data \in BOOLEAN /\ writable \in BOOLEAN /\ torn \in BOOLEAN
    BY DEF Init
  <2>3. call \in CallRecs /\ mark \in Seq(Nat)
    BY NoCallType DEF Init
  <2>4. words = {} /\ items = {}
    BY DEF Init
  <2>5. /\ cap \in Nat /\ size \in Nat /\ wc \in Nat /\ rc \in Nat /\ maxCap \in Nat
        /\ from \in Nat /\ place \in Nat
    BY <2>1, SMT DEF Init
  <2> QED
    BY <2>2, <2>3, <2>4, <2>5 DEF TypeOK
<1>2. Room /\ Marked /\ AccessesInBounds
    BY DEF Init, Room, Marked, AccessesInBounds
<1>3. Running /\ Started
    BY NoCallType DEF Init, Running, Started, Ordered
<1> QED
    BY <1>1, <1>2, <1>3 DEF RegionInv

\* A Parcel never touches memory outside data_[0 .. dataCapacity_): neither
\* what EnsureWritableCapacity made room for, nor the word that WritePadBytes
\* masks, nor a read, whatever the values and the order of the calls.
THEOREM AccessesAreInside == Spec => []AccessesInBounds
<1>1. RegionInv => AccessesInBounds
    BY DEF RegionInv
<1>2. RegionInv /\ [Next]_vars => RegionInv'
    BY RegionStep
<1> QED
    BY <1>1, <1>2, RegionStarts, PTL DEF Spec

\* CalcNewCapacity never refuses a value that fits below maxDataCapacity_.
THEOREM RoomIsFound == Spec => []RoomUpToMax
<1>1. ASSUME RegionInv
      PROVE  RoomUpToMax
  <2> SUFFICES ASSUME At("write"), writable, Need + wc <= maxCap
               PROVE  \/ Need <= GetWritableBytes /\ data
                      \/ Need > GetWritableBytes /\ MayGrow(Need)
    BY DEF RoomUpToMax
  <2>1. todo # <<>> /\ First.do = "write"
    BY DEF At, First
  <2>2. First = todo[1] /\ Need \in Nat /\ Need = Bytes(First) /\ 1 \in DOMAIN todo
    BY <2>1, <1>1, Phase DEF WriteDos, Need
  <2>3. wc \in Nat /\ cap \in Nat /\ maxCap \in Nat /\ data \in BOOLEAN
    BY <1>1 DEF RegionInv, TypeOK
  <2>4. CASE Need <= GetWritableBytes
    <3> SUFFICES ASSUME ~data
                 PROVE  FALSE
        BY <2>3, <2>4
    <3>1. cap = 0 /\ wc = 0
        BY <1>1 DEF RegionInv, Room
    <3>2. Need = 0
        BY <2>2, <2>3, <2>4, <3>1 DEF GetWritableBytes
    <3>3. Small(todo[1]) /\ ~Big(todo[1])
        BY <2>1, <2>2, <3>2 DEF Small, Big
    <3> QED
        BY <1>1, <2>2, <3>1, <3>3 DEF RegionInv, Started
  <2>5. CASE Need > GetWritableBytes
    <3>1. Need + wc > cap
        BY <2>2, <2>3, <2>5 DEF GetWritableBytes
    <3>2. Grown(Need) \in Nat /\ Grown(Need) >= Need + wc
        BY <2>2, <2>3, CapacityEnough DEF Grown
    <3> QED
        BY <2>2, <2>3, <2>5, <3>1, <3>2 DEF MayGrow
  <2> QED
    BY <2>2, <2>3, <2>4, <2>5 DEF GetWritableBytes
<1>2. RegionInv /\ [Next]_vars => RegionInv'
    BY RegionStep
<1> QED
    BY <1>1, <1>2, RegionStarts, PTL DEF Spec

-----------------------------------------------------------------------------
(* The object table: steps of reading calls.                               *)

\* A reading step that passes only objects behind the cursor.
LEMMA TableRead ==
    ASSUME RegionInv, TableInv, call.read, call' = call, UNCHANGED <<table, size, torn>>,
           nextObj' \in Nat, nextObj' <= Len(offs), todo' \in Seq(RSteps),
           ~torn => \A i \in 1 .. nextObj' : offs[i] + ObjSize <= rc',
           ~torn /\ todo' # <<>> /\ todo'[1].do = "body" =>
              /\ rc' = mark'[1] + 4
              /\ \A i \in 1 .. nextObj' : offs[i] + ObjSize <= mark'[1]
              /\ nextObj' < Len(offs) => offs[nextObj' + 1] >= rc',
           ReadsAvoidObjects'
    PROVE  TableInv'
<1>1. UNCHANGED <<offs, offsCap, holder, heldAt, size, torn>>
    BY DEF table
<1>2. TableType' /\ Lined'
  <2>1. TableType'
    BY <1>1 DEF TableInv, TableType
  <2>2. Lined
    BY DEF TableInv
  <2>3. Lined'
    BY <1>1, <2>2 DEF Lined
  <2> QED
    BY <2>1, <2>3
<1>3. At("body")' => todo' # <<>> /\ todo'[1].do = "body"
    BY DEF At
<1>4. Behind'
    BY <1>1, <1>3 DEF Behind
<1>5. \A s \in RSteps : s.do # "offset"
    BY DEF RSteps, ReadDos
<1>6. \A i \in DOMAIN todo' : todo'[i].do # "offset"
    BY <1>5
<1>7. ~At("offset")'
  <2>1. todo' # <<>> => Head(todo') = todo'[1] /\ 1 \in DOMAIN todo'
    OBVIOUS
  <2> QED
    BY <1>6, <2>1 DEF At
<1>8. Placed'
    BY <1>6, <1>7 DEF Placed
<1> QED
    BY <1>2, <1>4, <1>8 DEF TableInv

\* ValidateReadData: the objects passed lie behind the cursor, the others
\* beyond what is read.
LEMMA ValidatedFacts ==
    ASSUME RegionInv, TableInv, NEW upper \in Nat, Validated(upper)
    PROVE  /\ nextObj' \in Nat /\ nextObj <= nextObj' /\ nextObj' <= Len(offs)
           /\ ~torn =>
                /\ \A i \in 1 .. nextObj' : offs[i] + ObjSize <= rc
                /\ \A i \in DOMAIN offs : i > nextObj' => offs[i] >= upper
<1>1. /\ offs \in Seq(Nat) /\ nextObj \in Nat /\ nextObj <= Len(offs) /\ rc \in Nat
      /\ ObjSize \in Nat
    BY DEF TableInv, TableType, RegionInv, TypeOK, ObjSize
<1>2. PICK k \in nextObj .. Len(offs) : Passed(k, upper) /\ ClearOf(k) /\ nextObj' = k
    BY DEF Validated
<1>3. k \in Nat /\ nextObj <= k /\ k <= Len(offs) /\ nextObj' = k
    BY <1>1, <1>2
<1>4. ASSUME ~torn
      PROVE  /\ \A i \in 1 .. k : offs[i] + ObjSize <= rc
             /\ \A i \in DOMAIN offs : i > k => offs[i] >= upper
  <2>1. \A i \in 1 .. nextObj : offs[i] + ObjSize <= rc
    BY <1>4 DEF TableInv, Behind
  <2>2. \A i \in nextObj + 1 .. k : offs[i] + ObjSize <= rc
    <3> TAKE i \in nextObj + 1 .. k
    <3>1. rc >= offs[i] + ObjSize
        BY <1>2 DEF ClearOf
    <3>2. offs[i] \in Nat
        BY <1>1, <1>3
    <3> QED
        BY <1>1, <3>1, <3>2
  <2>3. \A i \in 1 .. k : i \in 1 .. nextObj \/ i \in nextObj + 1 .. k
    BY <1>1, <1>3
  <2>4. ASSUME NEW i \in DOMAIN offs, i > k
        PROVE  offs[i] >= upper
    <3>1. k + 1 \in DOMAIN offs /\ k < Len(offs) /\ offs[k + 1] \in Nat /\ offs[i] \in Nat
        BY <1>1, <1>3, <2>4
    <3>2. offs[k + 1] >= upper
        BY <1>2, <3>1 DEF Passed
    <3>3. CASE i = k + 1
        BY <3>2, <3>3
    <3>4. CASE i > k + 1
      <4>1. offs[k + 1] + ObjSize <= offs[i]
        BY <1>4, <3>1, <3>4 DEF TableInv, Lined
      <4> QED
        BY <1>1, <3>1, <3>2, <4>1
    <3> QED
        BY <1>1, <1>3, <2>4, <3>3, <3>4
  <2> QED
    BY <2>1, <2>2, <2>3, <2>4
<1> QED
    BY <1>3, <1>4

\* A basic read that succeeds, after which the call goes on.
LEMMA TableValidated ==
    ASSUME RegionInv, TableInv, call.read, call' = call, UNCHANGED <<table, size, torn>>,
           NEW n \in Nat, Validated(rc + n), Access("read", rc, rc + n),
           rc' \in Nat, rc' >= rc, todo' \in Seq(RSteps),
           \A i \in DOMAIN todo' : todo'[i].do # "body"
    PROVE  TableInv'
<1>1. rc \in Nat /\ rc + n \in Nat /\ offs \in Seq(Nat) /\ ObjSize \in Nat
    BY DEF RegionInv, TypeOK, TableInv, TableType, ObjSize
<1>2. /\ nextObj' \in Nat /\ nextObj <= nextObj' /\ nextObj' <= Len(offs)
      /\ ~torn =>
            /\ \A i \in 1 .. nextObj' : offs[i] + ObjSize <= rc
            /\ \A i \in DOMAIN offs : i > nextObj' => offs[i] >= rc + n
    BY <1>1, ValidatedFacts
<1>3. ASSUME ~torn, NEW i \in 1 .. nextObj'
      PROVE  offs[i] + ObjSize <= rc'
  <2>1. offs[i] + ObjSize <= rc /\ offs[i] \in Nat
    BY <1>1, <1>2, <1>3
  <2> QED
    BY <1>1, <2>1
<1>4. ReadsAvoidObjects'
  <2>1. acc' = [lo |-> rc, hi |-> rc + n, kind |-> "read"] /\ offs' = offs /\ torn' = torn
    BY DEF Access, table
  <2>2. ASSUME ~torn, NEW i \in DOMAIN offs
        PROVE  rc + n <= offs[i] \/ rc >= offs[i] + ObjSize
    <3>1. offs[i] \in Nat /\ i \in Nat \ {0}
        BY <1>1
    <3>2. CASE i > nextObj'
        BY <1>1, <1>2, <2>2, <3>1, <3>2
    <3>3. CASE i <= nextObj'
        BY <1>1, <1>2, <2>2, <3>1, <3>3
    <3> QED
        BY <1>2, <3>1, <3>2, <3>3
  <2> QED
    BY <2>1, <2>2 DEF ReadsAvoidObjects
<1>5. todo' # <<>> => 1 \in DOMAIN todo'
    OBVIOUS
<1> QED
    BY <1>2, <1>3, <1>4, <1>5, TableRead

\* A read of anything else, or one that failed, after which the cursor is not
\* before where it was.
LEMMA TableUnmoved ==
    ASSUME RegionInv, TableInv, call.read, call' = call, UNCHANGED <<table, size, torn>>,
           nextObj' = nextObj, rc' \in Nat, rc' >= rc, acc'.kind # "read",
           todo' \in Seq(RSteps), \A i \in DOMAIN todo' : todo'[i].do # "body"
    PROVE  TableInv'
<1>1. /\ rc \in Nat /\ offs \in Seq(Nat) /\ ObjSize \in Nat
      /\ nextObj \in Nat /\ nextObj <= Len(offs)
    BY DEF RegionInv, TypeOK, TableInv, TableType, ObjSize
<1>2. ASSUME ~torn, NEW i \in 1 .. nextObj'
      PROVE  offs[i] + ObjSize <= rc'
  <2>1. offs[i] + ObjSize <= rc /\ offs[i] \in Nat
    BY <1>1, <1>2 DEF TableInv, Behind
  <2> QED
    BY <1>1, <2>1
<1>3. ReadsAvoidObjects'
    BY DEF ReadsAvoidObjects
<1>4. todo' # <<>> => 1 \in DOMAIN todo'
    OBVIOUS
<1> QED
    BY <1>1, <1>2, <1>3, <1>4, TableRead

\* What a reading call has still to do, when it goes on and when it fails.
LEMMA NoBody ==
    ASSUME RegionInv, call.read, todo # <<>>, NEW push \in Seq(RSteps),
           \A i \in DOMAIN push : push[i].do # "body", Proceed(push) \/ Fail
    PROVE  call' = call /\ todo' \in Seq(RSteps) /\ \A i \in DOMAIN todo' : todo'[i].do # "body"
<1>1. CASE Proceed(push)
    BY <1>1, Pushed
<1>2. CASE Fail
  <2>1. todo' = <<>> /\ call' = call
    BY <1>2 DEF Fail
  <2> QED
    BY <2>1
<1> QED
    BY <1>1, <1>2

\* What a reading step leaves alone.
LEMMA FrameOfRead ==
    ASSUME ReadFrame
    PROVE  UNCHANGED <<table, size, torn>>
BY DEF ReadFrame, region

\* Read<T> keeps the table's invariant, and so does one that fails.
LEMMA TableReadT ==
    ASSUME RegionInv, TableInv, call.read, todo # <<>>, ReadFrame, NEW n \in Nat \ {0},
           ReadOk(n) \/ ReadFails(n), NEW push \in Seq(RSteps),
           \A i \in DOMAIN push : push[i].do # "body", Proceed(push) \/ Fail
    PROVE  TableInv'
<1>1. call' = call /\ todo' \in Seq(RSteps) /\ \A i \in DOMAIN todo' : todo'[i].do # "body"
    BY NoBody
<1>2. UNCHANGED <<table, size, torn>> /\ rc \in Nat
    BY FrameOfRead DEF RegionInv, TypeOK
<1>3. CASE ReadOk(n)
  <2>1. Validated(rc + n) /\ Access("read", rc, rc + n) /\ rc' \in Nat /\ rc' >= rc
    BY <1>2, <1>3 DEF ReadOk
  <2> QED
    BY <1>1, <1>2, <2>1, TableValidated
<1>4. CASE ReadFails(n)
  <2>1. nextObj' = nextObj /\ acc'.kind # "read" /\ rc' \in Nat /\ rc' >= rc
    BY <1>2, <1>4 DEF ReadFails, Refused, NoAccess
  <2> QED
    BY <1>1, <1>2, <2>1, TableUnmoved
<1> QED
    BY <1>3, <1>4

\* The readers of one value, the padding and the objects keep it.
LEMMA TableGet ==
    ASSUME RegionInv, TableInv,
           \/ Get \/ ReadUnpadBuffer \/ ReadBuffer \/ ReadCString \/ SkipPadding \/ ReadObject
    PROVE  TableInv'
<1>1. todo # <<>> /\ First.do \in {"get", "unpad", "raw", "cstring", "skip", "object"}
    BY DEF Get, ReadUnpadBuffer, ReadBuffer, ReadCString, SkipPadding, ReadObject, At, First
<1>2. call.read /\ First.n \in Nat /\ (First.do \in {"get", "unpad", "raw"} => First.n > 0)
    BY <1>1, Phase DEF ReadDos, RSteps
<1>3. <<>> \in Seq(RSteps) /\ DOMAIN <<>> = {} /\ TypeOK /\ rc \in Nat
    BY DEF RegionInv, TypeOK
<1>4. Proceed(<<>>) \/ Fail
    BY DEF Get, ReadUnpadBuffer, ReadBuffer, ReadCString, SkipPadding, ReadObject
<1>5. call' = call /\ todo' \in Seq(RSteps) /\ \A i \in DOMAIN todo' : todo'[i].do # "body"
    BY <1>1, <1>2, <1>3, <1>4, NoBody
<1>6. UNCHANGED <<table, size, torn>> /\ ReadFrame
    BY FrameOfRead DEF Get, ReadUnpadBuffer, ReadBuffer, ReadCString, SkipPadding, ReadObject
<1>7. CASE Get
  <2>1. First.n \in Nat \ {0}
    BY <1>2, <1>7 DEF Get, At, First
  <2>2. ReadOk(First.n) \/ ReadFails(First.n)
    BY <1>7 DEF Get
  <2> QED
    BY <1>1, <1>2, <1>3, <1>4, <1>6, <2>1, <2>2, TableReadT
<1>8. ASSUME NEW n \in Nat, Validated(rc + n), Access("read", rc, rc + n),
             rc' = Skipped(rc + n, GetPadSize(n))
      PROVE  TableInv'
  <2>1. GetPadSize(n) \in Nat /\ rc + n \in Nat
    BY <1>3, PadFacts
  <2>2. rc' \in Nat /\ rc' >= rc + n
    BY <1>3, <1>8, <2>1, SkipFacts
  <2>3. rc' >= rc
    BY <1>3, <2>2
  <2> QED
    BY <1>2, <1>5, <1>6, <1>8, <2>2, <2>3, TableValidated
<1>9. ASSUME nextObj' = nextObj, rc' \in Nat, rc' >= rc, acc'.kind # "read"
      PROVE  TableInv'
    BY <1>2, <1>5, <1>6, <1>9, TableUnmoved
<1>10. NoAccess => acc'.kind # "read"
    BY DEF NoAccess
<1>11. CASE ReadUnpadBuffer
    BY <1>2, <1>3, <1>8, <1>9, <1>10, <1>11 DEF ReadUnpadBuffer
<1>12. CASE ReadCString
  <2>1. ASSUME NEW n \in StringLengths, Validated(rc + n + 1),
               Access("read", rc, rc + n + 1), rc' = Skipped(rc + n + 1, GetPadSize(n + 1))
        PROVE  TableInv'
    <3>1. n \in Nat
        BY <1>3 DEF StringLengths, TypeOK, CallRecs
    <3>2. n + 1 \in Nat /\ rc + n + 1 = rc + (n + 1)
        BY <1>3, <3>1
    <3>3. Validated(rc + (n + 1)) /\ Access("read", rc, rc + (n + 1))
          /\ rc' = Skipped(rc + (n + 1), GetPadSize(n + 1))
        BY <2>1, <3>2
    <3> QED
        BY <1>8, <3>2, <3>3
  <2> QED
    BY <1>3, <1>9, <1>10, <1>12, <2>1 DEF ReadCString
<1>13. CASE SkipPadding
    BY <1>2, <1>3, <1>9, <1>10, <1>13, SkipFacts DEF SkipPadding
<1>14. CASE ReadObject
  <2>1. nextObj' = nextObj /\ rc' \in Nat /\ rc' >= rc /\ acc'.kind # "read"
    BY <1>3, <1>10, <1>14 DEF ReadObject, Access, ObjSize
  <2> QED
    BY <1>9, <2>1
<1>15. CASE ReadBuffer
  <2>1. ASSUME Validated(rc + First.n), Access("read", rc, rc + First.n), rc' = rc + First.n
        PROVE  TableInv'
    <3>1. rc' \in Nat /\ rc' >= rc /\ rc' >= rc + First.n
        BY <1>2, <1>3, <2>1
    <3> QED
        BY <1>2, <1>5, <1>6, <2>1, <3>1, TableValidated
  <2> QED
    BY <1>2, <1>3, <1>9, <1>10, <1>15, <2>1 DEF ReadBuffer
<1> QED
    BY <1>7, <1>11, <1>12, <1>13, <1>14, <1>15

\* The counts of vectors and the first word of a Parcelable keep it.
LEMMA TableCount ==
    ASSUME RegionInv, TableInv, ReadVectorCount \/ ReadStringVector \/ ReadMeta
    PROVE  TableInv'
<1>1. todo # <<>> /\ First.do \in {"count", "strings", "meta"}
    BY DEF ReadVectorCount, ReadStringVector, ReadMeta, At, First
<1>2. call.read /\ (First.do \in {"count", "strings"} => First.n \in Nat \ {0})
    BY <1>1, Phase DEF ReadDos, RSteps
<1>3. <<>> \in Seq(RSteps) /\ DOMAIN <<>> = {} /\ TypeOK /\ rc \in Nat
    BY DEF RegionInv, TypeOK
<1>4. ReadOk(4) \/ ReadFails(4)
    BY DEF ReadVectorCount, ReadStringVector, ReadMeta
<1>5. ReadFrame
    BY DEF ReadVectorCount, ReadStringVector, ReadMeta
<1>6. ASSUME NEW push \in Seq(RSteps), \A i \in DOMAIN push : push[i].do # "body",
             Proceed(push) \/ Fail
      PROVE  TableInv'
    BY <1>1, <1>2, <1>4, <1>5, <1>6, TableReadT
<1>7. CASE ReadVectorCount
  <2>1. PICK len \in LengthsAt(rc) \cup {0} :
          IF len < 0 \/ len > ReadableAt(rc') \div First.n THEN Fail
             ELSE Proceed(Elements(len, First.n)) /\ UNCHANGED mark
    BY <1>7 DEF ReadVectorCount
  <2>2. CASE Fail
    BY <1>3, <1>6, <2>2
  <2>3. CASE ~(len < 0) /\ Proceed(Elements(len, First.n))
    <3>1. len \in Nat /\ First.n \in Nat \ {0}
        BY <1>2, <1>3, <1>7, <2>3, LengthType DEF ReadVectorCount, At, First
    <3>2. /\ Elements(len, First.n) \in Seq(RSteps)
          /\ \A i \in DOMAIN Elements(len, First.n) : Elements(len, First.n)[i].do # "body"
        BY <3>1, ElementsShape
    <3> QED
        BY <1>6, <2>3, <3>2
  <2> QED
    BY <2>1, <2>2, <2>3
<1>8. CASE ReadStringVector
  <2>1. PICK len \in LengthsAt(rc) \cup {0} :
          IF len < 0 \/ len > ReadableAt(rc') THEN Fail
             ELSE Proceed([i \in 1..len |-> Step("length", First.n)]) /\ UNCHANGED mark
    BY <1>8 DEF ReadStringVector
  <2>2. CASE Fail
    BY <1>3, <1>6, <2>2
  <2>3. CASE ~(len < 0) /\ Proceed([i \in 1..len |-> Step("length", First.n)])
    <3> DEFINE e == [i \in 1..len |-> Step("length", First.n)]
    <3>1. len \in Nat /\ First.n \in Nat \ {0}
        BY <1>2, <1>3, <1>8, <2>3, LengthType DEF ReadStringVector, At, First
    <3>2. e \in Seq(RSteps) /\ \A i \in DOMAIN e : e[i].do # "body"
        BY <3>1, ElementsShape
    <3>3. Proceed(e)
        BY <2>3
    <3> HIDE DEF e
    <3> QED
        BY <1>6, <3>2, <3>3
  <2> QED
    BY <2>1, <2>2, <2>3
<1>9. CASE ReadMeta
  <2>1. CASE Proceed(<<>>)
    BY <1>3, <1>6, <2>1
  <2>2. CASE todo' = <<>> /\ UNCHANGED <<call, from>>
    <3>1. todo' \in Seq(RSteps) /\ DOMAIN todo' = {} /\ call' = call
        BY <2>2
    <3>2. UNCHANGED <<table, size, torn>>
        BY <1>5, FrameOfRead
    <3>3. CASE ReadOk(4)
      <4>1. Validated(rc + 4) /\ Access("read", rc, rc + 4) /\ rc' \in Nat /\ rc' >= rc
        BY <1>3, <3>3 DEF ReadOk
      <4> QED
        BY <1>2, <3>1, <3>2, <4>1, TableValidated
    <3>4. CASE ReadFails(4)
      <4>1. nextObj' = nextObj /\ acc'.kind # "read" /\ rc' \in Nat /\ rc' >= rc
        BY <1>3, <3>4 DEF ReadFails, Refused, NoAccess
      <4> QED
        BY <1>2, <3>1, <3>2, <4>1, TableUnmoved
    <3> QED
        BY <1>4, <3>3, <3>4
  <2> QED
    BY <1>9, <2>1, <2>2 DEF ReadMeta
<1> QED
    BY <1>7, <1>8, <1>9

\* The length of a string keeps it: no object lies between the length and
\* where its body begins.
LEMMA TableStringLength ==
    ASSUME RegionInv, TableInv, ReadStringLength
    PROVE  TableInv'
<1>1. todo # <<>> /\ First.do = "length"
    BY DEF ReadStringLength, At, First
<1>2. call.read /\ First.n \in Nat \ {0}
    BY <1>1, Phase DEF ReadDos, RSteps
<1>3. TypeOK /\ rc \in Nat /\ ReadFrame /\ <<>> \in Seq(RSteps) /\ DOMAIN <<>> = {}
    BY DEF RegionInv, TypeOK, ReadStringLength
<1>4. CASE NoString
  <2>1. Proceed(<<>>) \/ Fail
    BY <1>4 DEF NoString
  <2>2. ReadOk(4) \/ ReadFails(4)
    BY DEF ReadStringLength
  <2>3. 4 \in Nat \ {0}
    OBVIOUS
  <2>4. ASSUME NEW n \in Nat \ {0}, ReadOk(n) \/ ReadFails(n)
        PROVE  TableInv'
    BY <1>1, <1>2, <1>3, <2>1, <2>4, TableReadT
  <2> QED
    BY <2>2, <2>3, <2>4
<1>5. ASSUME NEW len \in LengthsAt(rc), ~(len < 0), ReadOk(4),
             Proceed(<<Step("body", (len + 1) * First.n)>>), mark' = <<rc>>
      PROVE  TableInv'
  <2>1. RegionInv'
    BY ReadStringLengthKeeps
  <2>2. call' = call /\ todo' \in Seq(RSteps)
    BY <1>2, <1>5, <2>1 DEF RegionInv, Running, Proceed
  <2>3. UNCHANGED <<table, size, torn>>
    BY <1>3, FrameOfRead
  <2>4. /\ rc' = rc + 4 /\ mark'[1] = rc /\ Validated(rc + 4)
        /\ acc' = [lo |-> rc, hi |-> rc + 4, kind |-> "read"]
    BY <1>5 DEF ReadOk, Access
  <2>5. offs \in Seq(Nat) /\ ObjSize \in Nat
    BY DEF TableInv, TableType, ObjSize
  <2>6. /\ nextObj' \in Nat /\ nextObj' <= Len(offs)
        /\ ~torn =>
            /\ \A i \in 1 .. nextObj' : offs[i] + ObjSize <= rc
            /\ \A i \in DOMAIN offs : i > nextObj' => offs[i] >= rc + 4
    BY <1>3, <2>4, ValidatedFacts
  <2>7. ~torn => \A i \in 1 .. nextObj' : offs[i] + ObjSize <= rc'
    <3> SUFFICES ASSUME ~torn, NEW i \in 1 .. nextObj'
                 PROVE  offs[i] + ObjSize <= rc'
        OBVIOUS
    <3>1. offs[i] + ObjSize <= rc /\ offs[i] \in Nat
        BY <2>5, <2>6
    <3> QED
        BY <1>3, <2>4, <2>5, <3>1
  <2>8. ~torn /\ nextObj' < Len(offs) => offs[nextObj' + 1] >= rc'
    BY <2>4, <2>5, <2>6
  <2>9. ReadsAvoidObjects'
    <3>1. ASSUME ~torn, NEW i \in DOMAIN offs
          PROVE  rc + 4 <= offs[i] \/ rc >= offs[i] + ObjSize
      <4>1. offs[i] \in Nat /\ i \in Nat \ {0}
        BY <2>5
      <4>2. CASE i > nextObj'
        BY <1>3, <2>6, <3>1, <4>1, <4>2
      <4>3. CASE i <= nextObj'
        BY <1>3, <2>5, <2>6, <3>1, <4>1, <4>3
      <4> QED
        BY <2>6, <4>1, <4>2, <4>3
    <3> QED
        BY <2>3, <2>4, <3>1 DEF ReadsAvoidObjects, table
  <2> QED
    BY <1>2, <2>2, <2>3, <2>4, <2>6, <2>7, <2>8, <2>9, TableRead
<1> QED
    BY <1>4, <1>5 DEF ReadStringLength

\* The body of a string keeps it, also when ReadString16 takes the length
\* back: reading the body passed no object.
LEMMA TableStringBody ==
    ASSUME RegionInv, TableInv, ReadStringBody
    PROVE  TableInv'
<1>1. todo # <<>> /\ First.do = "body" /\ At("body")
    BY DEF ReadStringBody, At, First
<1>2. call.read /\ First.n \in Nat \ {0} /\ todo \in Seq(RSteps) /\ First = todo[1]
    BY <1>1, Phase DEF ReadDos, RSteps
<1>3. TypeOK /\ rc \in Nat /\ ReadFrame /\ <<>> \in Seq(RSteps) /\ DOMAIN <<>> = {}
    BY DEF RegionInv, TypeOK, ReadStringBody
<1>4. Proceed(<<>>) \/ Fail
    BY DEF ReadStringBody, NoString
<1>5. call' = call /\ todo' \in Seq(RSteps) /\ \A i \in DOMAIN todo' : todo'[i].do # "body"
    BY <1>1, <1>2, <1>3, <1>4, NoBody
<1>6. UNCHANGED <<table, size, torn>>
    BY <1>3, FrameOfRead
<1>7. CASE /\ Validated(rc + First.n) /\ Access("read", rc, rc + First.n)
           /\ rc' = Skipped(rc + First.n, GetPadSize(First.n))
  <2>1. GetPadSize(First.n) \in Nat /\ rc + First.n \in Nat
    BY <1>2, <1>3, PadFacts
  <2>2. rc' \in Nat /\ rc' >= rc + First.n
    BY <1>3, <1>7, <2>1, SkipFacts
  <2>3. rc' >= rc
    BY <1>2, <1>3, <2>2
  <2> QED
    BY <1>2, <1>5, <1>6, <1>7, <2>2, <2>3, TableValidated
<1>8. CASE /\ rc' = mark[1]
           /\ \/ Validated(rc + First.n) /\ Access("read", rc, rc + First.n)
              \/ nextObj' = nextObj /\ NoAccess
  <2>1. /\ offs \in Seq(Nat) /\ ObjSize \in Nat \ {0} /\ nextObj \in Nat
        /\ nextObj <= Len(offs) /\ rc + First.n \in Nat
    BY <1>2, <1>3 DEF TableInv, TableType, ObjSize
  <2>2. ~torn => /\ rc = mark[1] + 4
                 /\ \A i \in 1 .. nextObj : offs[i] + ObjSize <= mark[1]
                 /\ nextObj < Len(offs) => offs[nextObj + 1] >= rc
    BY <1>1 DEF TableInv, Behind
  <2>3. Validated(rc + First.n) =>
            /\ nextObj' \in Nat /\ nextObj <= nextObj' /\ nextObj' <= Len(offs)
            /\ ~torn =>
                /\ \A i \in 1 .. nextObj' : offs[i] + ObjSize <= rc
                /\ \A i \in DOMAIN offs : i > nextObj' => offs[i] >= rc + First.n
    BY <2>1, ValidatedFacts
  <2>4. nextObj' \in Nat /\ nextObj <= nextObj' /\ nextObj' <= Len(offs)
    BY <1>8, <2>1, <2>3
  <2>5. ASSUME ~torn
        PROVE  nextObj' = nextObj
    <3> SUFFICES ASSUME Validated(rc + First.n), nextObj < nextObj'
                 PROVE  FALSE
        BY <1>8, <2>1, <2>4
    <3>1. nextObj + 1 \in 1 .. nextObj' /\ nextObj < Len(offs) /\ offs[nextObj + 1] \in Nat
        BY <2>1, <2>4
    <3>2. offs[nextObj + 1] + ObjSize <= rc /\ offs[nextObj + 1] >= rc
        BY <2>2, <2>3, <2>5, <3>1
    <3> QED
        BY <1>3, <2>1, <3>1, <3>2
  <2>6. ~torn => \A i \in 1 .. nextObj' : offs[i] + ObjSize <= rc'
    BY <1>8, <2>2, <2>5
  <2>7. ReadsAvoidObjects'
    <3>1. CASE nextObj' = nextObj /\ NoAccess
        BY <3>1 DEF NoAccess, ReadsAvoidObjects
    <3>2. CASE Validated(rc + First.n) /\ Access("read", rc, rc + First.n)
      <4>1. ASSUME ~torn, NEW i \in DOMAIN offs
            PROVE  rc + First.n <= offs[i] \/ rc >= offs[i] + ObjSize
        <5>1. offs[i] \in Nat /\ i \in Nat \ {0}
            BY <2>1
        <5>2. CASE i > nextObj'
            BY <1>3, <2>1, <2>3, <3>2, <4>1, <5>1, <5>2
        <5>3. CASE i <= nextObj'
            BY <1>3, <2>1, <2>3, <3>2, <4>1, <5>1, <5>3
        <5> QED
            BY <2>4, <5>1, <5>2, <5>3
      <4>2. acc' = [lo |-> rc, hi |-> rc + First.n, kind |-> "read"] /\ offs' = offs
            /\ torn' = torn
        BY <1>6, <3>2 DEF Access, table
      <4> QED
        BY <4>1, <4>2 DEF ReadsAvoidObjects
    <3> QED
        BY <1>8, <3>1, <3>2
  <2>8. todo' # <<>> => 1 \in DOMAIN todo'
    BY <1>5
  <2> QED
    BY <1>2, <1>5, <1>6, <2>4, <2>6, <2>7, <2>8, TableRead
<1> QED
    BY <1>7, <1>8 DEF ReadStringBody, Refused

-----------------------------------------------------------------------------
(* The object table: steps of writing calls.                               *)

\* In a writing call no body of a string is read, and only the primitives
\* right before it lead to the offset of an object.
LEMMA WritingTail ==
    ASSUME RegionInv, todo # <<>>, First.do \in WriteDos, Proceed(<<>>)
    PROVE  /\ ~At("body")' /\ call' = call /\ ~call.read /\ todo' = Tail(todo)
           /\ todo \in Seq(WSteps) /\ Ordered(todo) /\ First = todo[1]
           /\ \A i \in DOMAIN todo' :
                 i \in Nat \ {0} /\ i + 1 \in DOMAIN todo /\ todo'[i] = todo[i + 1]
           /\ At("offset")' => 1 \in DOMAIN todo' /\ todo'[1].do = "offset"
           /\ \A i \in DOMAIN todo' : todo'[i].do = "offset" =>
                 /\ i = 1 => First.do = "write" /\ Need = ObjSize
                 /\ i = 2 => First.do = "objects"
<1>1. /\ ~call.read /\ todo \in Seq(WSteps) /\ Ordered(todo) /\ First = todo[1]
      /\ Need = Bytes(First)
    BY Phase DEF RegionInv, Running
<1>2. todo' = Tail(todo) /\ call' = call
    BY Advanced
<1>3. /\ Tail(todo) \in Seq(WSteps)
      /\ \A i \in DOMAIN Tail(todo) :
            i \in Nat \ {0} /\ i + 1 \in DOMAIN todo /\ Tail(todo)[i] = todo[i + 1]
    BY <1>1, Rest
<1>4. \A s \in WSteps : s.do # "body"
    BY DEF WSteps, WriteDos
<1>5. Tail(todo) # <<>> => Head(Tail(todo)) = Tail(todo)[1] /\ 1 \in DOMAIN Tail(todo)
                           /\ Tail(todo)[1] \in WSteps
    BY <1>3
<1>6. ~At("body")' /\ (At("offset")' => 1 \in DOMAIN todo' /\ todo'[1].do = "offset")
    BY <1>2, <1>4, <1>5 DEF At
<1>7. ASSUME NEW i \in DOMAIN todo', todo'[i].do = "offset"
      PROVE  /\ i = 1 => First.do = "write" /\ Need = ObjSize
             /\ i = 2 => First.do = "objects"
  <2>1. PICK j \in DOMAIN todo : j = i + 1 /\ todo[j].do = "offset" /\ i \in Nat \ {0}
    BY <1>2, <1>3, <1>7
  <2>2. /\ j > 1 => todo[j - 1].do = "write" /\ Bytes(todo[j - 1]) = ObjSize
        /\ j > 2 => todo[j - 2].do = "objects"
    BY <1>1, <2>1 DEF Ordered
  <2>3. CASE i = 1
    <3>1. j > 1 /\ j - 1 = 1
        BY <2>1, <2>3
    <3> QED
        BY <1>1, <2>2, <2>3, <3>1
  <2>4. CASE i = 2
    <3>1. j > 2 /\ j - 2 = 1
        BY <2>1, <2>4
    <3> QED
        BY <1>1, <2>2, <2>4, <3>1
  <2> QED
    BY <2>3, <2>4
<1> QED
    BY <1>1, <1>2, <1>3, <1>6, <1>7

\* A value stored keeps the table's invariant.
LEMMA TableStored ==
    ASSUME RegionInv, TableInv, At("write"), writable, Store
    PROVE  TableInv'
<1>1. todo # <<>> /\ First.do = "write" /\ First.do \in WriteDos /\ Proceed(<<>>)
    BY DEF At, First, WriteDos, Store
<1>2. /\ ~At("body")' /\ call' = call /\ First = todo[1]
      /\ \A i \in DOMAIN todo' :
            i \in Nat \ {0} /\ i + 1 \in DOMAIN todo /\ todo'[i] = todo[i + 1]
      /\ At("offset")' => 1 \in DOMAIN todo' /\ todo'[1].do = "offset"
      /\ \A i \in DOMAIN todo' : todo'[i].do = "offset" =>
            /\ i = 1 => First.do = "write" /\ Need = ObjSize
            /\ i = 2 => First.do = "objects"
    BY <1>1, WritingTail
<1>3. Need \in Nat /\ size \in Nat /\ wc \in Nat /\ ObjSize \in Nat /\ (~torn => wc = size)
    BY <1>1, Phase DEF Need, RegionInv, TypeOK, Room, ObjSize
<1>4. /\ UNCHANGED <<offs, offsCap, holder, heldAt, nextObj, rc, torn, mark, place>>
      /\ size' = size + Need /\ wc' = wc + Need /\ acc'.kind = "write"
    BY DEF Store, table, Access
<1>5. /\ offs \in Seq(Nat)
      /\ ~torn => \A i \in DOMAIN offs : offs[i] + ObjSize <= size
    BY DEF TableInv, TableType, Lined
<1>6. TableType' /\ Behind' /\ ReadsAvoidObjects'
    BY <1>2, <1>4 DEF TableInv, TableType, Behind, ReadsAvoidObjects
<1>7. Lined'
  <2>1. ASSUME ~torn, NEW i \in DOMAIN offs
        PROVE  offs[i] + ObjSize <= size'
    <3>1. offs[i] \in Nat /\ offs[i] + ObjSize <= size
        BY <1>5, <2>1
    <3> QED
        BY <1>3, <1>4, <3>1
  <2> QED
    BY <1>4, <2>1 DEF TableInv, Lined
<1>8. Placed'
  <2>1. ASSUME NEW i \in DOMAIN todo', todo'[i].do = "offset", i <= 2
        PROVE  i = 1 /\ 2 \in DOMAIN todo /\ todo[2].do = "offset" /\ Need = ObjSize
    <3>1. i = 1
        BY <1>1, <1>2, <2>1
    <3> QED
        BY <1>2, <2>1, <3>1
  <2>2. \A i \in DOMAIN todo' : todo'[i].do = "offset" /\ i <= 2 => Len(offs') < offsCap'
    BY <1>4, <2>1 DEF TableInv, Placed
  <2>3. ASSUME ~torn, At("offset")'
        PROVE  place' + ObjSize = size' /\ \A i \in DOMAIN offs' : offs'[i] + ObjSize <= place'
    <3>1. 2 \in DOMAIN todo /\ todo[2].do = "offset" /\ Need = ObjSize
        BY <1>2, <2>1, <2>3
    <3>2. place = size
        BY <1>3, <2>3, <3>1 DEF TableInv, Placed
    <3> QED
        BY <1>3, <1>4, <1>5, <2>3, <3>1, <3>2
  <2>4. \A i \in DOMAIN todo' : ~(todo'[i].do = "offset" /\ i = 2)
    BY <1>1, <1>2
  <2>5. ~torn /\ ~call.read /\ mark # <<>> => \A i \in DOMAIN offs : offs[i] + ObjSize <= mark[2]
    BY DEF TableInv, Placed
  <2> QED
    BY <1>2, <1>4, <2>2, <2>3, <2>4, <2>5 DEF Placed
<1> QED
    BY <1>6, <1>7, <1>8 DEF TableInv

\* A primitive that fails keeps the table: what is rolled back is no object.
LEMMA TableRolledBack ==
    ASSUME RegionInv, TableInv, todo # <<>>, First.do \in WriteDos, Fail, RollBack, NoAccess,
           UNCHANGED <<table, nextObj, rc, torn>>
    PROVE  TableInv'
<1>1. ~call.read
    BY Phase
<1>2. /\ todo' = <<>> /\ mark' = <<>> /\ UNCHANGED <<offs, offsCap, holder, heldAt>>
      /\ acc'.kind = "none"
    BY DEF Fail, table, NoAccess
<1>3. ~torn => \A i \in DOMAIN offs : offs[i] + ObjSize <= size'
    BY <1>1 DEF RollBack, TableInv, Placed, Lined
<1>4. TableType' /\ Lined'
    BY <1>2, <1>3 DEF TableInv, TableType, Lined
<1>5. Behind' /\ Placed' /\ ReadsAvoidObjects'
    BY <1>2 DEF TableInv, Behind, Placed, At, ReadsAvoidObjects
<1> QED
    BY <1>4, <1>5 DEF TableInv

\* EnsureObjectsCapacity makes room for an entry.
LEMMA GrowTableFacts ==
    ASSUME NEW n \in Nat
    PROVE  GrowTable(n) \in Nat /\ GrowTable(n) > n + 1
BY DEF GrowTable

\* Saving the position and making room for an entry keep the invariant.
LEMMA TableEnsured ==
    ASSUME RegionInv, TableInv, MarkPosition \/ EnsureObjectsCapacity
    PROVE  TableInv'
<1>1. todo # <<>> /\ First.do \in {"mark", "objects"} /\ First.do \in WriteDos /\ Proceed(<<>>)
    BY DEF MarkPosition, EnsureObjectsCapacity, At, First, WriteDos
<1>2. /\ ~At("body")' /\ call' = call
      /\ \A i \in DOMAIN todo' : i \in Nat \ {0}
      /\ At("offset")' => 1 \in DOMAIN todo' /\ todo'[1].do = "offset"
      /\ \A i \in DOMAIN todo' : todo'[i].do = "offset" =>
            (i = 1 => First.do = "write") /\ (i = 2 => First.do = "objects")
    BY <1>1, WritingTail
<1>3. /\ UNCHANGED <<offs, holder, heldAt, nextObj, rc, torn, size, wc>> /\ acc'.kind = "none"
    BY DEF MarkPosition, EnsureObjectsCapacity, table, region, NoAccess
<1>4. ~At("offset")' /\ Behind' /\ Lined' /\ ReadsAvoidObjects'
    BY <1>1, <1>2, <1>3 DEF TableInv, Behind, Lined, ReadsAvoidObjects
<1>5. offs \in Seq(Nat) /\ offsCap \in Nat /\ Len(offs) <= offsCap /\ Len(offs) \in Nat
    BY DEF TableInv, TableType
<1>6. CASE MarkPosition
  <2>1. offsCap' = offsCap /\ mark' = <<wc, size>> /\ First.do = "mark"
    BY <1>6 DEF MarkPosition, table, At, First
  <2>2. TableType'
    BY <1>3, <2>1 DEF TableInv, TableType
  <2>3. \A i \in DOMAIN todo' : todo'[i].do = "offset" => ~(i <= 2)
    BY <1>2, <2>1
  <2>4. ~torn => \A i \in DOMAIN offs' : offs'[i] + ObjSize <= mark'[2]
    BY <1>3, <2>1 DEF TableInv, Lined
  <2>5. Placed'
    BY <1>3, <1>4, <2>3, <2>4 DEF Placed
  <2> QED
    BY <1>4, <2>2, <2>5 DEF TableInv
<1>7. CASE EnsureObjectsCapacity
  <2>1. /\ offsCap' = IF offsCap - Len(offs) >= 1 THEN offsCap ELSE GrowTable(offsCap)
        /\ place' = wc /\ mark' = mark
    BY <1>7 DEF EnsureObjectsCapacity
  <2>2. offsCap' \in Nat /\ offsCap' > Len(offs)
    <3>1. GrowTable(offsCap) \in Nat /\ GrowTable(offsCap) > offsCap + 1
        BY <1>5, GrowTableFacts
    <3> QED
        BY <1>5, <2>1, <3>1
  <2>3. TableType'
    BY <1>3, <1>5, <2>2 DEF TableInv, TableType
  <2>4. Placed'
    BY <1>2, <1>3, <1>4, <2>1, <2>2 DEF TableInv, Placed
  <2> QED
    BY <1>4, <2>3, <2>4 DEF TableInv
<1> QED
    BY <1>6, <1>7

\* WriteObjectOffset keeps the table in order, and the new object held.
LEMMA TableOffset ==
    ASSUME RegionInv, TableInv, WriteObjectOffset
    PROVE  TableInv'
<1>1. todo # <<>> /\ First.do = "offset" /\ First.do \in WriteDos /\ Proceed(<<>>)
      /\ At("offset")
    BY DEF WriteObjectOffset, At, First, WriteDos
<1>2. /\ todo \in Seq(WSteps) /\ Ordered(todo) /\ First = todo[1] /\ todo' = Tail(todo)
      /\ 1 \in DOMAIN todo
    BY <1>1, WritingTail
<1>3. todo' = <<>>
  <2>1. 1 = Len(todo)
    BY <1>1, <1>2 DEF Ordered
  <2> QED
    BY <1>2, <2>1
<1>4. /\ offs \in Seq(Nat) /\ holder \in Seq(Int) /\ heldAt \subseteq Nat
      /\ offsCap \in Nat /\ Len(offs) < offsCap /\ nextObj \in Nat /\ nextObj <= Len(offs)
      /\ place \in Nat /\ size \in Nat /\ ObjSize \in Nat \ {0}
    BY <1>1, <1>2 DEF TableInv, TableType, Placed, RegionInv, TypeOK, ObjSize
<1>5. /\ offs' = IF place > size \/ InTable(place) THEN offs ELSE Append(offs, place)
      /\ holder' = IF First.n = 1 THEN Append(holder, place) ELSE holder
      /\ heldAt' = IF First.n = 1 THEN heldAt \cup {place} ELSE heldAt
      /\ UNCHANGED <<offsCap, nextObj, rc, size, torn>> /\ mark' = <<>> /\ acc'.kind = "none"
    BY DEF WriteObjectOffset, region, NoAccess
<1>6. /\ Append(offs, place) \in Seq(Nat) /\ Len(Append(offs, place)) = Len(offs) + 1
      /\ \A i \in 1 .. Len(offs) : Append(offs, place)[i] = offs[i]
      /\ Append(offs, place)[Len(offs) + 1] = place
    BY <1>4
<1>7. /\ Append(holder, place) \in Seq(Int) /\ Len(Append(holder, place)) = Len(holder) + 1
      /\ \A i \in 1 .. Len(holder) : Append(holder, place)[i] = holder[i]
      /\ Append(holder, place)[Len(holder) + 1] = place
    BY <1>4
<1>8. TableType'
    BY <1>4, <1>5, <1>6, <1>7 DEF TableType
<1>9. ASSUME ~torn
      PROVE  /\ offs' = Append(offs, place) /\ place + ObjSize = size
             /\ \A i \in DOMAIN offs : offs[i] \in Nat /\ offs[i] + ObjSize <= place
  <2>1. place + ObjSize = size /\ \A i \in DOMAIN offs : offs[i] + ObjSize <= place
    BY <1>1, <1>9 DEF TableInv, Placed
  <2>2. \A i \in DOMAIN offs : offs[i] \in Nat
    BY <1>4
  <2>3. ~(place > size)
    BY <1>4, <2>1
  <2>4. ~InTable(place)
    BY <1>4, <2>1, <2>2 DEF InTable
  <2> QED
    BY <1>5, <2>1, <2>2, <2>3, <2>4
<1>10. Lined'
  <2> SUFFICES ASSUME ~torn
               PROVE  /\ \A i, j \in DOMAIN offs' : i < j => offs'[i] + ObjSize <= offs'[j]
                      /\ \A i \in DOMAIN offs' : offs'[i] + ObjSize <= size
                      /\ Len(holder') <= Len(offs')
                      /\ \A h \in heldAt' : \E i \in DOMAIN holder', j \in DOMAIN offs' :
                            i <= j /\ holder'[i] = h /\ offs'[j] = h
    BY <1>5 DEF Lined
  <2>1. /\ \A i, j \in DOMAIN offs : i < j => offs[i] + ObjSize <= offs[j]
        /\ Len(holder) <= Len(offs)
        /\ \A h \in heldAt : \E i \in DOMAIN holder, j \in DOMAIN offs :
                i <= j /\ holder[i] = h /\ offs[j] = h
    BY DEF TableInv, Lined
  <2>2. /\ DOMAIN offs' = 1 .. Len(offs) + 1 /\ Len(offs') = Len(offs) + 1
        /\ \A i \in 1 .. Len(offs) : offs'[i] = offs[i]
        /\ offs'[Len(offs) + 1] = place
    BY <1>6, <1>9
  <2>3. \A i \in DOMAIN offs' : i \in DOMAIN offs \/ i = Len(offs) + 1
    BY <1>4, <2>2
  <2>4. \A i, j \in DOMAIN offs' : i < j => offs'[i] + ObjSize <= offs'[j]
    <3> SUFFICES ASSUME NEW i \in DOMAIN offs', NEW j \in DOMAIN offs', i < j
                 PROVE  offs'[i] + ObjSize <= offs'[j]
        OBVIOUS
    <3>1. i \in 1 .. Len(offs) /\ offs'[i] = offs[i]
        BY <1>4, <2>2
    <3>2. CASE j \in 1 .. Len(offs)
      <4>1. offs'[j] = offs[j] /\ i \in DOMAIN offs /\ j \in DOMAIN offs
        BY <1>4, <2>2, <3>1, <3>2
      <4>2. offs[i] + ObjSize <= offs[j]
        BY <2>1, <4>1
      <4> QED
        BY <3>1, <4>1, <4>2
    <3>3. CASE j = Len(offs) + 1
        BY <1>4, <1>9, <2>2, <3>1, <3>3
    <3> QED
        BY <1>4, <2>3, <3>2, <3>3
  <2>5. \A i \in DOMAIN offs' : offs'[i] + ObjSize <= size
    <3> SUFFICES ASSUME NEW i \in DOMAIN offs'
                 PROVE  offs'[i] + ObjSize <= size
        OBVIOUS
    <3>1. CASE i \in 1 .. Len(offs)
      <4>1. offs'[i] = offs[i] /\ offs[i] \in Nat /\ offs[i] + ObjSize <= place
            /\ place + ObjSize = size
        BY <1>4, <1>9, <2>2, <3>1
      <4> QED
        BY <1>4, <4>1
    <3>2. CASE i = Len(offs) + 1
        BY <1>4, <1>9, <2>2, <3>2
    <3> QED
        BY <1>4, <2>3, <3>1, <3>2
  <2>6. Len(holder') <= Len(offs')
    BY <1>4, <1>5, <1>7, <2>1, <2>2
  <2>7. ASSUME NEW h \in heldAt
        PROVE  \E i \in DOMAIN holder', j \in DOMAIN offs' :
                  i <= j /\ holder'[i] = h /\ offs'[j] = h
    <3>1. PICK i \in DOMAIN holder, j \in DOMAIN offs : i <= j /\ holder[i] = h /\ offs[j] = h
        BY <2>1, <2>7
    <3>2. i \in DOMAIN holder' /\ holder'[i] = h
        BY <1>4, <1>5, <1>7, <3>1
    <3>3. j \in DOMAIN offs' /\ offs'[j] = h
        BY <1>4, <2>2, <3>1
    <3> QED
        BY <3>1, <3>2, <3>3
  <2>8. ASSUME First.n = 1
        PROVE  \E i \in DOMAIN holder', j \in DOMAIN offs' :
                  i <= j /\ holder'[i] = place /\ offs'[j] = place
    <3>1. Len(holder) + 1 \in DOMAIN holder' /\ holder'[Len(holder) + 1] = place
        BY <1>4, <1>5, <1>7, <2>8
    <3>2. Len(offs) + 1 \in DOMAIN offs' /\ Len(holder) + 1 <= Len(offs) + 1
        BY <1>4, <2>1, <2>2
    <3> QED
        BY <2>2, <3>1, <3>2
  <2>9. \A h \in heldAt' : h \in heldAt \/ (First.n = 1 /\ h = place)
    BY <1>5
  <2> QED
    BY <2>4, <2>5, <2>6, <2>7, <2>8, <2>9
<1>11. Behind'
  <2>1. ASSUME ~torn, NEW i \in 1 .. nextObj'
        PROVE  offs'[i] + ObjSize <= rc'
    <3>1. i \in 1 .. Len(offs) /\ i \in 1 .. nextObj
        BY <1>4, <1>5
    <3>2. offs'[i] = offs[i]
        BY <1>6, <1>9, <2>1, <3>1
    <3> QED
        BY <1>5, <2>1, <3>1, <3>2 DEF TableInv, Behind
  <2> QED
    BY <1>3, <1>5, <2>1 DEF Behind, At
<1>12. Placed' /\ ReadsAvoidObjects'
    BY <1>3, <1>5 DEF Placed, At, ReadsAvoidObjects
<1> QED
    BY <1>8, <1>10, <1>11, <1>12 DEF TableInv

-----------------------------------------------------------------------------
(* The object table: beginning a call, and the calls that are one step.    *)

\* A value begins to be written or read.
LEMMA TableBegin ==
    ASSUME RegionInv, TableInv, NEW c \in Calls, BeginWrite(c) \/ BeginRead(c)
    PROVE  TableInv'
<1>1. /\ UNCHANGED <<offs, offsCap, holder, heldAt, nextObj, size, rc, torn>>
      /\ mark' = <<>> /\ acc'.kind = "none"
    BY DEF BeginWrite, BeginRead, region, table, NoAccess
<1>2. /\ \A i \in DOMAIN todo' : i <= 2 => todo'[i].do # "offset"
      /\ \A i \in DOMAIN todo' : todo'[i].do # "body"
      /\ todo' # <<>> => Head(todo') = todo'[1] /\ 1 \in DOMAIN todo'
  <2>1. CASE BeginWrite(c)
    <3>1. todo' = WriteSteps(c) /\ todo' \in Seq(WSteps)
          /\ \A i \in DOMAIN todo' : i <= 2 => todo'[i].do # "offset"
        BY <2>1, WriteShape DEF BeginWrite
    <3>2. \A s \in WSteps : s.do # "body"
        BY DEF WSteps, WriteDos
    <3> QED
        BY <3>1, <3>2
  <2>2. CASE BeginRead(c)
    <3>1. todo' = ReadSteps(c) /\ todo' \in Seq(RSteps)
          /\ \A i \in DOMAIN todo' : todo'[i].do # "body"
        BY <2>2, ReadShape DEF BeginRead
    <3>2. \A s \in RSteps : s.do # "offset"
        BY DEF RSteps, ReadDos
    <3> QED
        BY <3>1, <3>2
  <2> QED
    BY <2>1, <2>2
<1>3. ~At("body")' /\ ~At("offset")'
    BY <1>2 DEF At
<1>4. TableType' /\ Lined' /\ Behind' /\ ReadsAvoidObjects'
    BY <1>1, <1>3 DEF TableInv, TableType, Lined, Behind, ReadsAvoidObjects
<1>5. Placed'
    BY <1>1, <1>2, <1>3 DEF Placed
<1> QED
    BY <1>4, <1>5 DEF TableInv

\* After a call that is one step only the table itself matters.
LEMMA TableReturned ==
    ASSUME todo' = <<>>, mark' = <<>>, NoAccess, TableType', Lined',
           ~torn' => \A i \in 1 .. nextObj' : offs'[i] + ObjSize <= rc'
    PROVE  TableInv'
<1>1. acc'.kind = "none"
    BY DEF NoAccess
<1>2. ~At("body")' /\ ~At("offset")'
    BY <1>1 DEF At
<1>3. Placed' /\ Behind' /\ ReadsAvoidObjects'
    BY <1>1, <1>2 DEF Placed, Behind, ReadsAvoidObjects
<1> QED
    BY <1>3 DEF TableInv

\* A table without entries is in order.
LEMMA EmptyTable ==
    ASSUME offs' = <<>>, offsCap' \in Nat, holder' = <<>>, nextObj' = 0, heldAt' = {}
    PROVE  TableType' /\ Lined' /\ \A i \in 1 .. nextObj' : offs'[i] + ObjSize <= rc'
<1>1. TableType'
    BY DEF TableType
<1>2. Lined'
    BY DEF Lined
<1> QED
    BY <1>1, <1>2

\* Without memory for a table there are no entries and nothing is held.
LEMMA NoTable ==
    ASSUME TableType, ~HasTable
    PROVE  offs = <<>> /\ offsCap = 0 /\ holder = <<>> /\ nextObj = 0
BY DEF TableType, HasTable

\* RewindWrite keeps as many holders as objects, and those suffice.
LEMMA TableRewound ==
    ASSUME RegionInv, TableInv, NEW p \in Nat, RewindWrite(p)
    PROVE  TableInv'
<1>1. /\ offs \in Seq(Nat) /\ holder \in Seq(Int) /\ heldAt \subseteq Nat /\ offsCap \in Nat
      /\ nextObj \in Nat /\ ObjSize \in Nat \ {0} /\ size \in Nat /\ Len(offs) \in Nat
      /\ Len(offs) <= offsCap /\ nextObj <= Len(offs) /\ TableType
    BY DEF TableInv, TableType, RegionInv, TypeOK, ObjSize
<1>2. /\ size' = p /\ rc' = rc /\ NoAccess
      /\ heldAt' = {h \in heldAt : h + ObjSize <= p}
      /\ todo' = <<>> /\ mark' = <<>>
    BY DEF RewindWrite, Returns
<1>3. PICK k \in 0 .. Len(offs) :
        /\ Kept(p, k)
        /\ \/ /\ k = Len(offs) /\ Returns(TRUE)
              /\ UNCHANGED <<torn, offs, offsCap, holder, nextObj>>
           \/ k = 0 /\ Len(offs) > 0 /\ Returns(TRUE) /\ ClearTable /\ UNCHANGED torn
           \/ /\ 0 < k /\ k < Len(offs) /\ Returns(TRUE)
              /\ offs' = SubSeq(offs, 1, k) /\ offsCap' = k
              /\ holder' = Resized(holder, k) /\ nextObj' = 0
              /\ UNCHANGED torn
           \/ /\ 0 < k /\ k < Len(offs) /\ AllocMayFail /\ Returns(FALSE)
              /\ torn' = TRUE /\ UNCHANGED <<offs, offsCap, holder, nextObj>>
    BY DEF RewindWrite
<1>4. \A i \in k + 1 .. Len(offs) : offs[i] + ObjSize > p
    BY <1>3 DEF Kept
<1>5. ~torn =>
        /\ \A i, j \in DOMAIN offs : i < j => offs[i] + ObjSize <= offs[j]
        /\ Len(holder) <= Len(offs)
        /\ \A h \in heldAt : \E i \in DOMAIN holder, j \in DOMAIN offs :
                i <= j /\ holder[i] = h /\ offs[j] = h
        /\ \A i \in 1 .. nextObj : offs[i] + ObjSize <= rc
    BY DEF TableInv, Lined, Behind
<1>6. ASSUME ~torn, NEW i \in 1 .. k
      PROVE  offs[i] + ObjSize <= p
  <2>1. k > 0 /\ k \in DOMAIN offs /\ i \in DOMAIN offs /\ offs[i] \in Nat /\ offs[k] \in Nat
    BY <1>1, <1>6
  <2>2. offs[k] + ObjSize <= p
    BY <1>3, <2>1 DEF Kept
  <2>3. CASE i = k
    BY <2>2, <2>3
  <2>4. CASE i < k
    <3>1. offs[i] + ObjSize <= offs[k]
        BY <1>5, <1>6, <2>1, <2>4
    <3> QED
        BY <1>1, <2>1, <2>2, <3>1
  <2> QED
    BY <1>1, <2>3, <2>4
<1>7. CASE k = Len(offs) /\ Returns(TRUE) /\ UNCHANGED <<torn, offs, offsCap, holder, nextObj>>
  <2>1. heldAt' \subseteq heldAt
    BY <1>2
  <2>2. TableType'
    BY <1>7, <2>1 DEF TableInv, TableType
  <2>3. ~torn => \A i \in DOMAIN offs : offs[i] + ObjSize <= p
    BY <1>1, <1>6, <1>7
  <2>4. Lined'
    BY <1>2, <1>5, <1>7, <2>1, <2>3 DEF Lined
  <2> QED
    BY <1>2, <1>5, <1>7, <2>2, <2>4, TableReturned
<1>8. CASE k = 0 /\ Len(offs) > 0 /\ Returns(TRUE) /\ ClearTable /\ UNCHANGED torn
  <2>1. /\ offs' = <<>> /\ offsCap' = 0 /\ holder' = <<>> /\ nextObj' = 0
    BY <1>8 DEF ClearTable
  <2>2. ~torn => heldAt' = {}
    <3> SUFFICES ASSUME ~torn, NEW h \in heldAt, h + ObjSize <= p
                 PROVE  FALSE
        BY <1>2
    <3>1. PICK j \in DOMAIN offs : offs[j] = h
        BY <1>5
    <3>2. j \in k + 1 .. Len(offs)
        BY <1>1, <1>8
    <3>3. offs[j] + ObjSize > p
        BY <1>4, <3>2
    <3> QED
        BY <1>1, <3>1, <3>3
  <2>3. TableType'
    <3>1. offs' \in Seq(Nat) /\ holder' \in Seq(Int) /\ Len(offs') = 0
        BY <2>1
    <3>2. heldAt' \subseteq Nat
        BY <1>1, <1>2
    <3> QED
        BY <2>1, <3>1, <3>2 DEF TableType
  <2>4. Lined'
    BY <1>8, <2>1, <2>2 DEF Lined
  <2>5. \A i \in 1 .. nextObj' : offs'[i] + ObjSize <= rc'
    BY <2>1
  <2> QED
    BY <1>2, <1>8, <2>3, <2>4, <2>5, TableReturned
<1>9. CASE /\ 0 < k /\ k < Len(offs) /\ Returns(TRUE)
           /\ offs' = SubSeq(offs, 1, k) /\ offsCap' = k
           /\ holder' = Resized(holder, k) /\ nextObj' = 0
           /\ UNCHANGED torn
  <2>1. k \in Nat \ {0} /\ k <= Len(offs)
    BY <1>1, <1>9
  <2>2. /\ offs' \in Seq(Nat) /\ Len(offs') = k /\ DOMAIN offs' = 1 .. k
        /\ \A i \in 1 .. k : offs'[i] = offs[i]
    BY <1>1, <1>9, <2>1
  <2>3. /\ holder' \in Seq(Int) /\ Len(holder') = k /\ DOMAIN holder' = 1 .. k
        /\ \A i \in 1 .. k : i <= Len(holder) => holder'[i] = holder[i]
    <3>1. \A i \in 1 .. k : (IF i <= Len(holder) THEN holder[i] ELSE Null) \in Int
        BY <1>1 DEF Null
    <3>2. holder' \in [1 .. k -> Int]
        BY <1>9, <3>1 DEF Resized
    <3>3. \A i \in 1 .. k : i <= Len(holder) => holder'[i] = holder[i]
        BY <1>9 DEF Resized
    <3> QED
        BY <2>1, <3>2, <3>3
  <2>4. heldAt' \subseteq heldAt
    BY <1>2
  <2>5. TableType'
    BY <1>1, <1>9, <2>1, <2>2, <2>3, <2>4 DEF TableType
  <2>6. Lined'
    <3> SUFFICES ASSUME ~torn
                 PROVE  /\ \A i, j \in DOMAIN offs' : i < j => offs'[i] + ObjSize <= offs'[j]
                        /\ \A i \in DOMAIN offs' : offs'[i] + ObjSize <= p
                        /\ Len(holder') <= Len(offs')
                        /\ \A h \in heldAt' : \E i \in DOMAIN holder', j \in DOMAIN offs' :
                              i <= j /\ holder'[i] = h /\ offs'[j] = h
        BY <1>2, <1>9 DEF Lined
    <3>1. \A i \in 1 .. k : i \in DOMAIN offs
        BY <1>1, <2>1
    <3>2. \A i, j \in DOMAIN offs' : i < j => offs'[i] + ObjSize <= offs'[j]
        BY <1>5, <2>2, <3>1
    <3>3. \A i \in DOMAIN offs' : offs'[i] + ObjSize <= p
        BY <1>6, <2>2
    <3>4. ASSUME NEW h \in heldAt'
          PROVE  \E i \in DOMAIN holder', j \in DOMAIN offs' :
                    i <= j /\ holder'[i] = h /\ offs'[j] = h
      <4>1. h \in heldAt /\ h \in Nat /\ h + ObjSize <= p
        BY <1>1, <1>2, <3>4
      <4>2. PICK i \in DOMAIN holder, j \in DOMAIN offs : i <= j /\ holder[i] = h /\ offs[j] = h
        BY <1>5, <4>1
      <4>3. j <= k
        <5> SUFFICES ASSUME j > k
                     PROVE  FALSE
            BY <1>1, <2>1
        <5>1. j \in k + 1 .. Len(offs)
            BY <1>1, <2>1
        <5>2. offs[j] + ObjSize > p
            BY <1>4, <5>1
        <5> QED
            BY <1>1, <4>1, <4>2, <5>2
      <4>4. i \in Nat \ {0} /\ j \in Nat \ {0} /\ i <= Len(holder)
        BY <1>1
      <4>5. i \in 1 .. k /\ j \in 1 .. k
        BY <2>1, <4>2, <4>3, <4>4
      <4> QED
        BY <2>2, <2>3, <4>2, <4>4, <4>5
    <3> QED
        BY <2>1, <2>2, <2>3, <3>2, <3>3, <3>4
  <2>7. \A i \in 1 .. nextObj' : offs'[i] + ObjSize <= rc'
    BY <1>9
  <2> QED
    BY <1>2, <1>9, <2>5, <2>6, <2>7, TableReturned
<1>10. CASE /\ Returns(FALSE) /\ torn' = TRUE /\ UNCHANGED <<offs, offsCap, holder, nextObj>>
  <2>1. TableType'
    BY <1>2, <1>10 DEF TableInv, TableType
  <2>2. Lined'
    BY <1>10 DEF Lined
  <2> QED
    BY <1>2, <1>10, <2>1, <2>2, TableReturned
<1> QED
    BY <1>3, <1>7, <1>8, <1>9, <1>10

\* A table that came with the data is in order.
LEMMA SenderTableFacts ==
    ASSUME NEW t \in SenderTables
    PROVE  /\ t \in Seq(Nat) /\ Len(t) \in 1 .. 2
           /\ \A i, j \in DOMAIN t : i < j => t[i] + ObjSize <= t[j]
           /\ size \in Nat => \A i \in DOMAIN t : t[i] + ObjSize <= size
<1>1. t \in {<<0>>, <<4>>, <<4, 36>>} /\ t[Len(t)] + ObjSize <= size
    BY DEF SenderTables
<1>2. CASE t = <<0>>
    BY <1>1, <1>2 DEF ObjSize
<1>3. CASE t = <<4>>
    BY <1>1, <1>3 DEF ObjSize
<1>4. CASE t = <<4, 36>>
  <2>1. t \in Seq(Nat) /\ Len(t) = 2 /\ t[1] = 4 /\ t[2] = 36 /\ DOMAIN t = {1, 2}
    BY <1>4
  <2>2. \A i, j \in DOMAIN t : i < j => i = 1 /\ j = 2
    BY <2>1
  <2> QED
    BY <1>1, <2>1, <2>2 DEF ObjSize
<1> QED
    BY <1>1, <1>2, <1>3, <1>4

\* Every call that is one step keeps the table's invariant.
LEMMA TableOneStep ==
    ASSUME RegionInv, TableInv,
           \/ \E p \in Positions : RewindRead(p) \/ RewindWrite(p) \/ RewindWriteRefused(p)
           \/ \E n \in Capacities : SetDataCapacity(n) \/ SetMaxCapacity(n) \/ ParseFrom(n)
           \/ \E n \in Sizes : SetDataSize(n)
           \/ \E n \in {4, 100} : SkipBytes(n)
           \/ \E t \in SenderTables : InjectOffsets(t)
           \/ SetAllocator \/ FlushBuffer
    PROVE  TableInv'
<1> USE DEF region, table
<1>1. TypeOK /\ TableType /\ rc \in Nat /\ size \in Nat /\ ObjSize \in Nat
    BY DEF RegionInv, TypeOK, TableInv, ObjSize
<1>2. /\ offs \in Seq(Nat) /\ nextObj \in Nat /\ nextObj <= Len(offs)
      /\ ~torn => \A i \in 1 .. nextObj : offs[i] + ObjSize <= rc
    BY DEF TableInv, TableType, Behind
<1>3. ASSUME todo' = <<>>, mark' = <<>>, NoAccess,
             UNCHANGED <<offs, offsCap, holder, heldAt, nextObj, torn, size>>,
             rc' \in Nat, rc' >= rc
      PROVE  TableInv'
  <2>1. TableType'
    BY <1>1, <1>3 DEF TableType
  <2>2. Lined'
    BY <1>3 DEF TableInv, Lined
  <2>3. ASSUME ~torn', NEW i \in 1 .. nextObj'
        PROVE  offs'[i] + ObjSize <= rc'
    <3>1. offs[i] \in Nat /\ offs[i] + ObjSize <= rc
        BY <1>2, <1>3, <2>3
    <3> QED
        BY <1>1, <1>3, <3>1
  <2> QED
    BY <1>3, <2>1, <2>2, <2>3, TableReturned
<1>4. ASSUME NEW p \in Positions, RewindRead(p)
      PROVE  TableInv'
  <2>1. p \in Nat
    BY <1>1, PositionType
  <2>2. /\ todo' = <<>> /\ mark' = <<>>
        /\ NoAccess /\ UNCHANGED <<offs, offsCap, holder, heldAt, size, torn>>
        /\ (rc' = rc /\ nextObj' = nextObj) \/ nextObj' = 0
    BY <1>4 DEF RewindRead, Returns
  <2>3. TableType' /\ Lined'
    BY <2>2 DEF TableInv, TableType, Lined
  <2>4. ~torn' => \A i \in 1 .. nextObj' : offs'[i] + ObjSize <= rc'
    BY <1>2, <2>2
  <2> QED
    BY <2>2, <2>3, <2>4, TableReturned
<1>5. ASSUME NEW p \in Positions, RewindWrite(p)
      PROVE  TableInv'
  <2>1. p \in Nat
    BY <1>1, PositionType
  <2> QED
    BY <1>5, <2>1, TableRewound
<1>6. ASSUME NEW p \in Positions, RewindWriteRefused(p)
      PROVE  TableInv'
  <2>1. /\ todo' = <<>> /\ mark' = <<>> /\ NoAccess
        /\ UNCHANGED <<offs, offsCap, holder, heldAt, nextObj, torn, size>>
        /\ rc' \in Nat /\ rc' >= rc
    BY <1>1, <1>6 DEF RewindWriteRefused, Returns
  <2> QED
    BY <1>3, <2>1
<1>7. ASSUME NEW n \in Capacities, SetDataCapacity(n)
      PROVE  TableInv'
  <2>1. /\ todo' = <<>> /\ mark' = <<>> /\ NoAccess
        /\ UNCHANGED <<offs, offsCap, holder, heldAt, nextObj, torn, size>>
        /\ rc' \in Nat /\ rc' >= rc
    BY <1>1, <1>7 DEF SetDataCapacity, Returns
  <2> QED
    BY <1>3, <2>1
<1>8. ASSUME NEW n \in Capacities, SetMaxCapacity(n)
      PROVE  TableInv'
  <2>1. /\ todo' = <<>> /\ mark' = <<>> /\ NoAccess
        /\ UNCHANGED <<offs, offsCap, holder, heldAt, nextObj, torn, size>>
        /\ rc' \in Nat /\ rc' >= rc
    BY <1>1, <1>8 DEF SetMaxCapacity, Returns
  <2> QED
    BY <1>3, <2>1
<1>9. ASSUME NEW n \in Sizes, SetDataSize(n)
      PROVE  TableInv'
  <2>1. /\ todo' = <<>> /\ mark' = <<>> /\ NoAccess
        /\ UNCHANGED <<offs, offsCap, holder, heldAt, nextObj>> /\ torn'
    BY <1>9 DEF SetDataSize, Returns
  <2>2. TableType' /\ Lined'
    BY <1>1, <2>1 DEF TableType, Lined
  <2> QED
    BY <2>1, <2>2, TableReturned
<1>10. ASSUME NEW n \in {4, 100}, SkipBytes(n)
       PROVE  TableInv'
  <2>1. rc' \in Nat /\ rc' >= rc
    BY <1>1, <1>10, SkipFacts DEF SkipBytes
  <2>2. /\ todo' = <<>> /\ mark' = <<>> /\ NoAccess
        /\ UNCHANGED <<offs, offsCap, holder, heldAt, nextObj, torn, size>>
        /\ rc' \in Nat /\ rc' >= rc
    BY <1>10, <2>1 DEF SkipBytes, Returns
  <2> QED
    BY <1>3, <2>2
<1>11. CASE SetAllocator
  <2>1. /\ todo' = <<>> /\ mark' = <<>> /\ NoAccess
        /\ UNCHANGED <<offs, offsCap, holder, heldAt, nextObj, torn, size>>
        /\ rc' \in Nat /\ rc' >= rc
    BY <1>1, <1>11 DEF SetAllocator, Returns
  <2> QED
    BY <1>3, <2>1
<1>12. ASSUME NEW n \in Capacities, ParseFrom(n)
       PROVE  TableInv'
  <2>1. CASE data
    <3>1. /\ todo' = <<>> /\ mark' = <<>> /\ NoAccess
          /\ UNCHANGED <<offs, offsCap, holder, heldAt, nextObj, torn, size>>
          /\ rc' \in Nat /\ rc' >= rc
        BY <1>1, <1>12, <2>1 DEF ParseFrom, Returns
    <3> QED
        BY <1>3, <3>1
  <2>2. CASE ~data
    <3>1. /\ todo' = <<>> /\ mark' = <<>> /\ NoAccess /\ heldAt' = {}
          /\ IF HasTable THEN ClearTable ELSE UNCHANGED <<offs, offsCap, holder, nextObj>>
        BY <1>12, <2>2 DEF ParseFrom, Returns
    <3>2. offs' = <<>> /\ offsCap' \in Nat /\ holder' = <<>> /\ nextObj' = 0
        BY <1>1, <3>1, NoTable DEF ClearTable
    <3> QED
        BY <3>1, <3>2, EmptyTable, TableReturned
  <2> QED
    BY <2>1, <2>2
<1>13. CASE FlushBuffer
  <2>1. /\ todo' = <<>> /\ mark' = <<>> /\ NoAccess /\ heldAt' = {}
        /\ IF HasTable THEN ClearTable ELSE UNCHANGED <<offs, offsCap, holder, nextObj>>
    BY <1>13 DEF FlushBuffer, Returns
  <2>2. offs' = <<>> /\ offsCap' \in Nat /\ holder' = <<>> /\ nextObj' = 0
    BY <1>1, <2>1, NoTable DEF ClearTable
  <2> QED
    BY <2>1, <2>2, EmptyTable, TableReturned
<1>14. ASSUME NEW t \in SenderTables, InjectOffsets(t)
       PROVE  TableInv'
  <2>1. /\ todo' = <<>> /\ mark' = <<>> /\ NoAccess /\ offs = <<>>
        /\ UNCHANGED <<holder, heldAt, nextObj, size, rc, torn>>
    BY <1>14 DEF InjectOffsets, Returns
  <2>2. CASE UNCHANGED <<offs, offsCap>>
    <3>1. /\ todo' = <<>> /\ mark' = <<>> /\ NoAccess
          /\ UNCHANGED <<offs, offsCap, holder, heldAt, nextObj, torn, size>>
          /\ rc' \in Nat /\ rc' >= rc
        BY <1>1, <2>1, <2>2
    <3> QED
        BY <1>3, <3>1
  <2>3. CASE offs' = t /\ offsCap' = IF offsCap >= Len(t) THEN offsCap ELSE GrowTable(offsCap)
    <3>1. /\ t \in Seq(Nat) /\ Len(t) \in 1 .. 2
          /\ \A i, j \in DOMAIN t : i < j => t[i] + ObjSize <= t[j]
          /\ \A i \in DOMAIN t : t[i] + ObjSize <= size
        BY <1>1, SenderTableFacts
    <3>2. nextObj = 0
        BY <1>2, <2>1
    <3>3. offsCap' \in Nat /\ Len(t) <= offsCap' /\ offsCap' > 0
      <4>1. offsCap \in Nat
        BY <1>1 DEF TableType
      <4>2. GrowTable(offsCap) \in Nat /\ GrowTable(offsCap) > offsCap + 1
        BY <4>1, GrowTableFacts
      <4>3. CASE offsCap >= Len(t)
        <5>1. offsCap' = offsCap
            BY <2>3, <4>3
        <5>2. Len(t) \in Nat /\ Len(t) > 0
            BY <3>1
        <5> QED
            BY <4>1, <4>3, <5>1, <5>2
      <4>4. CASE ~(offsCap >= Len(t))
        <5>1. Len(t) = 1 \/ Len(t) = 2
            BY <3>1
        <5>2. offsCap' = GrowTable(offsCap)
            BY <2>3, <4>4
        <5>3. PICK g \in Nat : g = GrowTable(offsCap) /\ g > offsCap + 1
            BY <4>2
        <5>4. g >= 2
            BY <4>1, <5>3
        <5>5. CASE Len(t) = 1
            BY <5>2, <5>3, <5>4, <5>5
        <5>6. CASE Len(t) = 2
            BY <5>2, <5>3, <5>4, <5>6
        <5> QED
            BY <5>1, <5>5, <5>6
      <4> QED
        BY <4>3, <4>4
    <3>4. TableType'
        BY <1>1, <2>1, <2>3, <3>1, <3>2, <3>3 DEF TableType
    <3>5. ~torn => Len(holder) = 0 /\ heldAt = {}
      <4>1. DOMAIN offs = {} /\ Len(offs) = 0 /\ holder \in Seq(Int)
        BY <1>1, <2>1 DEF TableType
      <4> QED
        BY <4>1 DEF TableInv, Lined
    <3>6. Lined'
        BY <2>1, <2>3, <3>1, <3>5 DEF Lined
    <3>7. \A i \in 1 .. nextObj' : offs'[i] + ObjSize <= rc'
        BY <2>1, <3>2
    <3> QED
        BY <2>1, <3>4, <3>6, <3>7, TableReturned
  <2> QED
    BY <1>14, <2>2, <2>3 DEF InjectOffsets
<1> QED
    BY <1>4, <1>5, <1>6, <1>7, <1>8, <1>9, <1>10, <1>11, <1>12, <1>13, <1>14

\* Every step keeps the invariant of the table.
LEMMA TableStep ==
    ASSUME RegionInv, TableInv, [Next]_vars
    PROVE  TableInv'
<1>1. CASE StartCall
    BY <1>1, TableBegin, TableOneStep DEF StartCall
<1>2. CASE WriteInPlace \/ WriteGrowing
    BY <1>2, TableStored DEF WriteInPlace, WriteGrowing
<1>3. CASE WriteFails \/ EnsureObjectsFails
  <2>1. todo # <<>> /\ First.do \in WriteDos
    BY <1>3 DEF WriteFails, EnsureObjectsFails, At, First, WriteDos
  <2> QED
    BY <1>3, <2>1, TableRolledBack DEF WriteFails, EnsureObjectsFails
<1>4. CASE RunCall
    BY <1>2, <1>3, <1>4, TableEnsured, TableOffset, TableGet, TableCount,
       TableStringLength, TableStringBody DEF RunCall
<1>5. CASE UNCHANGED vars
  <2>1. UNCHANGED <<size, wc, rc, torn, offs, offsCap, nextObj, holder, heldAt, place, mark,
                    call, todo, acc>>
    BY <1>5 DEF vars, region, table, locals
  <2> QED
    BY <2>1 DEF TableInv, TableType, Lined, Behind, Placed, At, ReadsAvoidObjects
<1> QED
    BY <1>1, <1>4, <1>5 DEF Next, Idle

\* A new Parcel has an empty table.
LEMMA TableStarts == Init => TableInv
<1> SUFFICES ASSUME Init
             PROVE  TableInv
    OBVIOUS
<1>1. /\ offs = <<>> /\ offsCap = 0 /\ nextObj = 0 /\ holder = <<>> /\ heldAt = {}
      /\ todo = <<>> /\ mark = <<>> /\ acc.kind = "none"
    BY DEF Init
<1>2. TableType
    BY <1>1 DEF TableType
<1>3. Lined /\ Behind /\ Placed /\ ReadsAvoidObjects
    BY <1>1 DEF Lined, Behind, Placed, At, ReadsAvoidObjects
<1> QED
    BY <1>2, <1>3 DEF TableInv

\* ValidateReadData keeps every basic read that succeeds out of the remote
\* objects, although nextObjectIdx_ skips those already passed.
THEOREM ReadsStayOutOfObjects == Spec => []ReadsAvoidObjects
<1>1. RegionInv /\ TableInv => ReadsAvoidObjects
    BY DEF TableInv
<1>2. RegionInv /\ TableInv /\ [Next]_vars => RegionInv' /\ TableInv'
    BY RegionStep, TableStep
<1> QED
    BY <1>1, <1>2, RegionStarts, TableStarts, PTL DEF Spec

\* The object table stays in the order of the data and inside it, and every
\* held object stays held, also when RewindWrite resizes objectHolder_.
THEOREM TableIsExact == Spec => []ObjectsTracked
<1>1. RegionInv /\ TableInv => ObjectsTracked
    BY DEF TableInv, TableType, Lined, ObjectsTracked
<1>2. RegionInv /\ TableInv /\ [Next]_vars => RegionInv' /\ TableInv'
    BY RegionStep, TableStep
<1> QED
    BY <1>1, <1>2, RegionStarts, TableStarts, PTL DEF Spec
-----------------------------------------------------------------------------
(* Reading a value back.  RoundTrip is about the end of a reading call; it *)
(* rests on where the lengths, the padding and the object of every value   *)
(* are (Laid), which in turn rests on how far a writing call has come      *)
(* (Writing).  Reading is how far a reading call has come.                 *)

Sized(m) == m + GetPadSize(m)
\* One of the one-character strings of a vector.
Unit(c) == 4 + Sized(2 * c.w)

\* The bytes of a value.
Span(c) ==
    CASE c.op = "prim"    -> c.w
      [] c.op \in {"buffer", "raw"} -> Sized(c.n)
      [] c.op = "cstring" -> Sized(c.n + 1)
      [] c.op = "string"  -> IF c.n < 0 THEN 4 ELSE 4 + Sized((c.n + 1) * c.w)
      [] c.op = "vector"  -> 4 + Sized(c.n * c.w)
      [] c.op = "strings" -> 4 + c.n * Unit(c)
      [] c.op \in {"null", "strongnull"} -> 4
      [] c.op = "plain"   -> 8
      [] c.op = "remote"  -> 4 + ObjSize
      [] c.op = "object"  -> ObjSize

\* Those that its first d primitives write.
Offset(c, d) ==
    CASE c.op \in {"prim", "buffer", "raw", "cstring", "null", "strongnull"} ->
            IF d = 0 THEN 0 ELSE Span(c)
      [] c.op \in {"string", "plain"} -> IF d = 0 THEN 0 ELSE IF d = 1 THEN 4 ELSE Span(c)
      [] c.op = "vector"  -> IF d = 0 THEN 0
                             ELSE IF d <= c.n + 1 THEN 4 + (d - 1) * c.w ELSE Span(c)
      [] c.op = "strings" -> IF d = 0 THEN 0
                             ELSE IF d <= 2 * c.n + 1
                             THEN 4 + ((d - 1) \div 2) * Unit(c) + 4 * ((d - 1) % 2)
                             ELSE Span(c)
      [] c.op = "remote"  -> IF d <= 1 THEN 0 ELSE IF d <= 3 THEN 4 ELSE Span(c)
      [] c.op = "object"  -> IF d <= 1 THEN 0 ELSE Span(c)

\* The calls that write, and where the object of a value is.
Written == {c \in CallRecs : ~c.read /\ c.w > 0 /\ (c.op \in {"buffer", "raw"} => c.n > 0)}
HasObject(c) == c.op \in {"remote", "object"}
ObjectAt(c, p) == IF c.op = "remote" THEN p + 4 ELSE p

\* The lengths that the first d primitives of c, written from p on, stored.
Lengths(c, p, d) ==
    \A e \in 1 .. d :
        WriteSteps(c)[e].val # NoVal =>
            [off |-> p + Offset(c, e - 1), val |-> WriteSteps(c)[e].val] \in words

\* The bytes from p up to q belong to no object of the table.
Free(p, q) == \A k \in DOMAIN offs : offs[k] + ObjSize <= p \/ offs[k] >= q

\* A value that was written whole is in the data: its lengths, its object,
\* and no other object.
Laid(i) ==
    /\ i.call \in Written
    /\ i.end = i.off + Span(i.call) /\ i.end <= size
    /\ Lengths(i.call, i.off, Len(WriteSteps(i.call)))
    /\ HasObject(i.call) => InTable(ObjectAt(i.call, i.off))
    /\ Free(i.off, IF HasObject(i.call) THEN ObjectAt(i.call, i.off) ELSE i.end)

Intact ==
    ~torn =>
        /\ ~writable => items = {}
        /\ \A u, v \in words : u.off = v.off => u = v
        /\ \A i, j \in items : i.off = j.off => i = j
        /\ \A i \in items : Laid(i)

\* The value being written is behind all others, and its first Done
\* primitives have stored their lengths.
Done == Len(WriteSteps(call)) - Len(todo)

Writing ==
    ~torn /\ writable /\ ~call.read /\ todo # <<>> =>
        /\ call \in Written
        /\ Done \in Nat /\ \A e \in DOMAIN todo : todo[e] = WriteSteps(call)[Done + e]
        /\ wc = from + Offset(call, Done)
        /\ Lengths(call, from, Done)
        /\ mark # <<>> => mark[1] = from
        /\ \A i \in items : i.end <= from
        /\ \A k \in DOMAIN offs : offs[k] + ObjSize <= from

\* The places that a call which reads c back from p on may have come to.
AtElement(c, p) ==
    /\ Len(todo) \in 1 .. c.n + 1
    /\ \A e \in DOMAIN todo :
          todo[e] = IF e = Len(todo) THEN Step("skip", GetPadSize(c.n * c.w)) ELSE Step("get", c.w)
    /\ rc = p + 4 + (c.n + 1 - Len(todo)) * c.w

Place(c, p) == p + 4 + (c.n - Len(todo)) * Unit(c)
AtString(c, p) ==
    /\ Len(todo) \in 1 .. c.n
    /\ \A e \in DOMAIN todo : e > 1 => todo[e] = Step("length", c.w)
    /\ \/ todo[1] = Step("length", c.w) /\ rc = Place(c, p)
       \/ todo[1] = Step("body", 2 * c.w) /\ rc = Place(c, p) + 4 /\ mark = <<Place(c, p)>>

Reached(c, p) ==
    \/ todo = ReadSteps(c) /\ rc = p
    \/ /\ c.op = "string" /\ c.n >= 0
       /\ todo = <<Step("body", (c.n + 1) * c.w)>> /\ rc = p + 4 /\ mark = <<p>>
    \/ c.op = "vector" /\ AtElement(c, p)
    \/ c.op = "strings" /\ AtString(c, p)
    \/ c.op = "plain" /\ todo = <<Step("get", 4)>> /\ rc = p + 4
    \/ c.op = "remote" /\ todo = <<Step("object", 0)>> /\ rc = p + 4

\* The value that a reading call reads back, and where the call is then.
ReadsBack(i) == i.off = from /\ i.call = [call EXCEPT !.read = FALSE]
Arrived(i) ==
    IF todo = <<>> THEN rc = ReadTo(i) /\ (ret = "true" \/ Missing(i.call))
    ELSE Reached(i.call, i.off)

Reading == ~torn /\ call.read => \A i \in items : ReadsBack(i) => Arrived(i)

\* Only an object that was stored is entered in the table.
Entered == At("offset") => writable

ValueInv == Intact /\ Writing /\ Reading /\ Entered

\* What a primitive writes.
LEMMA StepValues ==
    ASSUME NEW n, NEW v \in Int, NEW d
    PROVE  /\ Word(v).do = "write" /\ Bytes(Word(v)) = 4 /\ Word(v).val = v
           /\ n \in Nat => /\ Chunk(n).do = "write" /\ Bytes(Chunk(n)) = n /\ Chunk(n).val = NoVal
                           /\ Bytes(PadFor(n)) = GetPadSize(n)
           /\ Padded(n).do = "write" /\ Bytes(Padded(n)) = Sized(n) /\ Padded(n).val = NoVal
           /\ PadFor(n).do = "write" /\ PadFor(n).val = NoVal
           /\ Step(d, n).do = d /\ Step(d, n).val = NoVal /\ Step(d, n).n = n
<1>1. n \in Nat => Bytes(PadFor(n)) = GetPadSize(n)
  <2>1. n \in Nat => GetPadSize(n) \in Nat
    BY PadFacts
  <2> QED
    BY <2>1 DEF PadFor, Write, Bytes
<1> QED
    BY <1>1 DEF Word, Chunk, Padded, PadFor, Step, Write, Bytes, Sized

\* A sequence between two elements.
LEMMA Between ==
    ASSUME NEW m \in Nat, NEW e \in [1 .. m -> WSteps], NEW a \in WSteps, NEW z \in WSteps,
           NEW s, s = <<a>> \o e \o <<z>>
    PROVE  /\ s \in Seq(WSteps) /\ Len(s) = m + 2 /\ s[1] = a /\ s[m + 2] = z
           /\ \A j \in 2 .. m + 1 : s[j] = e[j - 1]
<1>1. e \in Seq(WSteps) /\ Len(e) = m
    OBVIOUS
<1>2. PICK t : t = <<a>> \o e
    OBVIOUS
<1>3. /\ t \in Seq(WSteps) /\ Len(t) = m + 1 /\ t[1] = a
      /\ \A j \in 2 .. m + 1 : t[j] = e[j - 1]
    BY <1>1, <1>2
<1>4. s = t \o <<z>>
    BY <1>2
<1> DEFINE u == <<z>>
<1>5. u \in Seq(WSteps) /\ Len(u) = 1 /\ u[1] = z
    OBVIOUS
<1> HIDE DEF u
<1>6. /\ t \o u \in Seq(WSteps) /\ Len(t \o u) = Len(t) + Len(u)
      /\ \A j \in 1 .. Len(t) + Len(u) :
            (t \o u)[j] = IF j <= Len(t) THEN t[j] ELSE u[j - Len(t)]
    BY <1>3, <1>5, ConcatProperties, Zenon
<1>7. s = t \o u
    BY <1>4 DEF u
<1>8. s \in Seq(WSteps) /\ Len(s) = m + 2
    BY <1>3, <1>5, <1>6, <1>7
<1>9. s[m + 2] = z
  <2>1. m + 2 \in 1 .. Len(t) + Len(u) /\ ~(m + 2 <= Len(t)) /\ (m + 2) - Len(t) = 1
    BY <1>3, <1>5
  <2> QED
    BY <1>5, <1>6, <1>7, <2>1
<1>10. \A j \in 1 .. m + 1 : s[j] = t[j]
    BY <1>3, <1>5, <1>6, <1>7
<1> QED
    BY <1>3, <1>8, <1>9, <1>10

\* The primitives of a remote object after its mark.
LEMMA TwoAndThree ==
    ASSUME NEW a \in WSteps, NEW b \in WSteps, NEW x \in WSteps, NEW y \in WSteps,
           NEW z \in WSteps
    PROVE  <<a, b>> \o <<x, y, z>> = <<a, b, x, y, z>>
<1> DEFINE s == <<a, b>>
           t == <<x, y, z>>
           u == <<a, b, x, y, z>>
<1>1. s \in Seq(WSteps) /\ Len(s) = 2 /\ s[1] = a /\ s[2] = b
    OBVIOUS
<1>2. t \in Seq(WSteps) /\ Len(t) = 3 /\ t[1] = x /\ t[2] = y /\ t[3] = z
    OBVIOUS
<1>3. /\ u \in Seq(WSteps) /\ Len(u) = 5
      /\ u[1] = a /\ u[2] = b /\ u[3] = x /\ u[4] = y /\ u[5] = z
    OBVIOUS
<1> HIDE DEF s, t, u
<1> DEFINE v == s \o t
<1>4. /\ v \in Seq(WSteps) /\ Len(v) = Len(s) + Len(t)
      /\ \A j \in 1 .. Len(s) + Len(t) : v[j] = IF j <= Len(s) THEN s[j] ELSE t[j - Len(s)]
    BY <1>1, <1>2, ConcatProperties, Zenon
<1>5. v = <<a, b>> \o <<x, y, z>> /\ u = <<a, b, x, y, z>>
    BY DEF s, t, u
<1> HIDE DEF v
<1>6. Len(v) = 5 /\ \A j \in 1 .. 5 : v[j] = IF j <= 2 THEN s[j] ELSE t[j - 2]
    BY <1>1, <1>2, <1>4
<1>7. v[1] = s[1] /\ v[2] = s[2] /\ v[3] = t[1] /\ v[4] = t[2] /\ v[5] = t[3]
    BY <1>6
<1>8. \A j \in 1 .. 5 : v[j] = u[j]
    BY <1>1, <1>2, <1>3, <1>7
<1>9. v = u
    BY <1>3, <1>4, <1>6, <1>8, SeqEqual
<1> QED
    BY <1>5, <1>9

\* The fields of a call that writes.
LEMMA WrittenType ==
    ASSUME NEW c \in Written
    PROVE  /\ c.op \in Ops /\ c.n \in Int /\ c.w \in Nat \ {0} /\ ~c.read
           /\ c.op # "string" => c.n \in Nat
           /\ c.op \in {"buffer", "raw"} => c.n \in Nat \ {0}
BY DEF Written, CallRecs

\* The primitives of every value that is written, one by one.
LEMMA StepsOf ==
    ASSUME NEW c \in Written
    PROVE  LET s == WriteSteps(c)
           IN  /\ c.op = "prim" => s = <<Chunk(c.w)>>
               /\ c.op \in {"buffer", "raw"} => s = <<Padded(c.n)>>
               /\ c.op = "cstring" => s = <<Padded(c.n + 1)>>
               /\ c.op = "string" /\ c.n < 0 => s = <<Word(-1)>>
               /\ c.op = "string" /\ c.n >= 0 => s = <<Word(c.n), Padded((c.n + 1) * c.w)>>
               /\ c.op = "vector" =>
                    /\ s \in Seq(WSteps)
                    /\ Len(s) = c.n + 2 /\ s[1] = Word(c.n) /\ s[c.n + 2] = PadFor(c.n * c.w)
                    /\ \A j \in 2 .. c.n + 1 : s[j] = Chunk(c.w)
               /\ c.op = "strings" =>
                    /\ s \in Seq(WSteps)
                    /\ Len(s) = 2 * c.n + 2 /\ s[1] = Word(c.n) /\ s[2 * c.n + 2] = PadFor(0)
                    /\ \A j \in 2 .. 2 * c.n + 1 :
                          s[j] = IF j % 2 = 0 THEN Word(1) ELSE Padded(2 * c.w)
               /\ c.op \in {"null", "strongnull"} => s = <<Word(0)>>
               /\ c.op = "plain" => s = <<Word(1), Chunk(4)>>
               /\ c.op = "remote" => s = <<Step("mark", 0), Word(1), Step("objects", 0),
                                           Padded(ObjSize), Step("offset", c.n)>>
               /\ c.op = "object" => s = <<Step("objects", 0), Padded(ObjSize),
                                           Step("offset", c.n)>>
<1>1. c.op \in Ops /\ c.n \in Int /\ c.w \in Nat \ {0} /\ (c.op # "string" => c.n \in Nat)
    BY WrittenType
<1>2. CASE c.op = "vector"
  <2> DEFINE e == [i \in 1 .. c.n |-> Chunk(c.w)]
             s == WriteSteps(c)
  <2>1. c.n \in Nat /\ c.n * c.w \in Nat
    BY <1>1, <1>2
  <2>2. Word(c.n) \in WSteps /\ PadFor(c.n * c.w) \in WSteps /\ Chunk(c.w) \in WSteps
    BY <1>1, <2>1, StepKinds
  <2>3. e \in [1 .. c.n -> WSteps] /\ \A i \in 1 .. c.n : e[i] = Chunk(c.w)
    BY <2>2
  <2>4. s = <<Word(c.n)>> \o e \o <<PadFor(c.n * c.w)>>
    BY <1>2 DEF WriteSteps, WriteVector
  <2> HIDE DEF e, s
  <2>5. /\ s \in Seq(WSteps) /\ Len(s) = c.n + 2 /\ s[1] = Word(c.n) /\ s[c.n + 2] = PadFor(c.n * c.w)
        /\ \A j \in 2 .. c.n + 1 : s[j] = e[j - 1]
    <3>1. PICK a \in WSteps, z \in WSteps : a = Word(c.n) /\ z = PadFor(c.n * c.w)
        BY <2>2
    <3>2. PICK m \in Nat : m = c.n
        BY <2>1
    <3>3. s = <<a>> \o e \o <<z>> /\ e \in [1 .. m -> WSteps]
        BY <2>3, <2>4, <3>1, <3>2
    <3>4. /\ s \in Seq(WSteps) /\ Len(s) = m + 2 /\ s[1] = a /\ s[m + 2] = z
          /\ \A j \in 2 .. m + 1 : s[j] = e[j - 1]
        BY <3>3, Between
    <3> QED
        BY <3>1, <3>2, <3>4
  <2>6. \A j \in 2 .. c.n + 1 : s[j] = Chunk(c.w)
    BY <2>1, <2>3, <2>5
  <2> QED
    BY <1>2, <2>5, <2>6 DEF s
<1>3. CASE c.op = "strings"
  <2> DEFINE e == [i \in 1 .. 2 * c.n |-> WriteString(1, c.w)[IF i % 2 = 1 THEN 1 ELSE 2]]
             s == WriteSteps(c)
  <2>1. c.n \in Nat /\ 2 * c.n \in Nat /\ 2 * c.w \in Nat \ {0} /\ (1 + 1) * c.w = 2 * c.w
    BY <1>1, <1>3
  <2>2. /\ Word(c.n) \in WSteps /\ PadFor(0) \in WSteps /\ Word(1) \in WSteps
        /\ Padded(2 * c.w) \in WSteps
    BY <1>1, <2>1, StepKinds
  <2>3. WriteString(1, c.w) = <<Word(1), Padded(2 * c.w)>>
    BY <2>1 DEF WriteString
  <2>4. \A i \in 1 .. 2 * c.n : e[i] = IF i % 2 = 1 THEN Word(1) ELSE Padded(2 * c.w)
    BY <2>3
  <2>5. e \in [1 .. 2 * c.n -> WSteps]
    BY <2>2, <2>3
  <2>6. s = <<Word(c.n)>> \o e \o <<PadFor(0)>>
    BY <1>3 DEF WriteSteps, WriteStrings
  <2> HIDE DEF e, s
  <2>7. /\ s \in Seq(WSteps) /\ Len(s) = 2 * c.n + 2 /\ s[1] = Word(c.n) /\ s[2 * c.n + 2] = PadFor(0)
        /\ \A j \in 2 .. 2 * c.n + 1 : s[j] = e[j - 1]
    <3>1. PICK m \in Nat : m = 2 * c.n
        BY <2>1
    <3>2. e \in [1 .. m -> WSteps]
        BY <2>5, <3>1
    <3>3. PICK a \in WSteps, z \in WSteps : a = Word(c.n) /\ z = PadFor(0)
        BY <2>2
    <3>4. s = <<a>> \o e \o <<z>>
        BY <2>6, <3>3
    <3>5. /\ s \in Seq(WSteps) /\ Len(s) = m + 2 /\ s[1] = a /\ s[m + 2] = z
          /\ \A j \in 2 .. m + 1 : s[j] = e[j - 1]
        BY <3>2, <3>4, Between
    <3> QED
        BY <3>1, <3>3, <3>5
  <2>8. \A j \in 2 .. 2 * c.n + 1 : s[j] = IF j % 2 = 0 THEN Word(1) ELSE Padded(2 * c.w)
    <3> TAKE j \in 2 .. 2 * c.n + 1
    <3>1. j - 1 \in 1 .. 2 * c.n /\ ((j - 1) % 2 = 1 <=> j % 2 = 0)
        BY <2>1
    <3> QED
        BY <2>4, <2>7, <3>1
  <2> QED
    BY <1>3, <2>7, <2>8 DEF s
<1>4. CASE c.op = "remote"
  <2>1. /\ Step("mark", 0) \in WSteps /\ Step("objects", 0) \in WSteps
        /\ Step("offset", c.n) \in WSteps /\ Word(1) \in WSteps /\ Padded(ObjSize) \in WSteps
    BY <1>1, <1>4, StepKinds DEF ObjSize
  <2>2. WriteSteps(c) = <<Step("mark", 0), Word(1)>>
                        \o <<Step("objects", 0), Padded(ObjSize), Step("offset", c.n)>>
    BY <1>4 DEF WriteSteps, Remote
  <2> QED
    BY <1>4, <2>1, <2>2, TwoAndThree
<1>5. CASE c.op \in {"string", "object"}
  <2>1. c.op = "string" => WriteSteps(c) = WriteString(c.n, c.w)
    BY DEF WriteSteps
  <2>2. /\ c.n < 0 => WriteString(c.n, c.w) = <<Word(-1)>>
        /\ c.n >= 0 => WriteString(c.n, c.w) = <<Word(c.n), Padded((c.n + 1) * c.w)>>
    BY <1>1 DEF WriteString
  <2>3. c.op = "object" => WriteSteps(c) = Remote(c.n)
    BY DEF WriteSteps
  <2> QED
    BY <1>5, <2>1, <2>2, <2>3 DEF Remote
<1>6. CASE c.op \notin {"vector", "strings", "remote", "string", "object"}
    BY <1>1, <1>6 DEF WriteSteps
<1> QED
    BY <1>1, <1>2, <1>3, <1>4, <1>5, <1>6

\* Products of lengths and widths.
LEMMA Multiples ==
    ASSUME NEW u \in Nat
    PROVE  /\ 0 * u = 0
           /\ \A a \in Nat : a * u \in Nat /\ (a + 1) * u = a * u + u
           /\ \A a, b \in Nat : a <= b => a * u <= b * u
           /\ \A a, b \in Nat : a < b => a * u + u <= b * u
<1>1. 0 * u = 0 /\ \A a \in Nat : a * u \in Nat /\ (a + 1) * u = a * u + u
    OBVIOUS
<1>2. ASSUME NEW a \in Nat, NEW b \in Nat, a <= b
      PROVE  a * u <= b * u
  <2>1. PICK d \in Nat : b = a + d
    <3>1. b - a \in Nat /\ b = a + (b - a)
        BY <1>2
    <3> QED
        BY <3>1
  <2>2. b * u = a * u + d * u /\ d * u \in Nat /\ a * u \in Nat
    BY <2>1
  <2> QED
    BY <2>2
<1>3. ASSUME NEW a \in Nat, NEW b \in Nat, a < b
      PROVE  a * u + u <= b * u
  <2>1. a + 1 \in Nat /\ a + 1 <= b
    BY <1>3
  <2>2. (a + 1) * u <= b * u
    BY <1>2, <2>1
  <2> QED
    BY <1>1, <2>2
<1> QED
    BY <1>1, <1>2, <1>3

\* Sizes with their padding.
LEMMA SizedFacts ==
    ASSUME NEW n \in Nat
    PROVE  /\ Sized(n) \in Nat /\ Sized(n) >= n /\ (n > 0 => Sized(n) >= 4)
           /\ Sized(n) = n + GetPadSize(n) /\ GetPadSize(n) \in Nat
BY PadFacts DEF Sized

\* The words and the padded values.
LEMMA WordFacts ==
    ASSUME NEW v \in Int
    PROVE  Word(v) \in WSteps /\ Word(v).do = "write" /\ Bytes(Word(v)) = 4 /\ Word(v).val = v
BY StepKinds, StepValues

\* A value stored with its padding.
LEMMA PaddedFacts ==
    ASSUME NEW n \in Nat \ {0}
    PROVE  /\ Padded(n) \in WSteps /\ Padded(n).do = "write" /\ Bytes(Padded(n)) = Sized(n)
           /\ Padded(n).val = NoVal /\ Sized(n) \in Nat \ {0}
<1>1. Padded(n) \in WSteps
    BY StepKinds
<1>2. Padded(n).do = "write" /\ Bytes(Padded(n)) = Sized(n) /\ Padded(n).val = NoVal
    BY StepValues
<1>3. Sized(n) \in Nat \ {0}
    BY SizedFacts
<1> QED
    BY <1>1, <1>2, <1>3

\* The padding of a vector.
LEMMA PadForFacts ==
    ASSUME NEW n \in Nat
    PROVE  /\ PadFor(n) \in WSteps /\ PadFor(n).do = "write" /\ Bytes(PadFor(n)) = GetPadSize(n)
           /\ PadFor(n).val = NoVal /\ GetPadSize(n) \in Nat
<1>1. PadFor(n) \in WSteps
    BY StepKinds
<1>2. PadFor(n).do = "write" /\ Bytes(PadFor(n)) = GetPadSize(n) /\ PadFor(n).val = NoVal
    BY StepValues
<1>3. GetPadSize(n) \in Nat
    BY SizedFacts
<1> QED
    BY <1>1, <1>2, <1>3

\* Where the primitives of a value store their bytes: one after the other,
\* up to its end, and its lengths before what follows them.
Mapped(c, s) ==
    /\ s \in Seq(WSteps) /\ Len(s) > 0
    /\ Offset(c, 0) = 0 /\ Offset(c, Len(s)) = Span(c) /\ Span(c) \in Nat \ {0}
    /\ \A d \in 0 .. Len(s) : Offset(c, d) \in Nat
    /\ \A d \in 0 .. Len(s) - 1 :
          Offset(c, d + 1) = Offset(c, d) + IF s[d + 1].do = "write" THEN Bytes(s[d + 1]) ELSE 0
    /\ \A e \in 1 .. Len(s), d \in 1 .. Len(s) :
          e <= d /\ s[e].val # NoVal => Offset(c, e - 1) < Offset(c, d)
    /\ \A e \in 1 .. Len(s) :
          /\ s[e].do = "offset" <=> HasObject(c) /\ e = Len(s)
          /\ s[e].do = "mark" => e = 1
          /\ e = Len(s) => s[e].do \in {"write", "offset"}
    /\ HasObject(c) => Offset(c, Len(s) - 1) = Span(c)

\* A value of one primitive, or of a word and one more.
LEMMA MappedShort ==
    ASSUME NEW c \in Written, c.op \notin {"vector", "strings", "remote", "object"}
    PROVE  Mapped(c, WriteSteps(c))
<1>1. c.op \in Ops /\ c.n \in Int /\ c.w \in Nat \ {0} /\ (c.op # "string" => c.n \in Nat)
      /\ (c.op \in {"buffer", "raw"} => c.n \in Nat \ {0})
    BY WrittenType
<1>2. ASSUME NEW a \in WSteps, a.do = "write", Bytes(a) = Span(c), Span(c) \in Nat \ {0},
             WriteSteps(c) = <<a>>, Offset(c, 0) = 0, Offset(c, 1) = Span(c)
      PROVE  Mapped(c, WriteSteps(c))
  <2> DEFINE s == <<a>>
  <2>1. s \in Seq(WSteps) /\ Len(s) = 1 /\ s[1] = a
    OBVIOUS
  <2> HIDE DEF s
  <2>2. WriteSteps(c) = s
    BY <1>2 DEF s
  <2> QED
    BY <1>2, <2>1, <2>2 DEF Mapped, HasObject
<1>3. ASSUME NEW a \in WSteps, NEW b \in WSteps, a.do = "write", b.do = "write", Bytes(a) = 4,
             Bytes(b) \in Nat, b.val = NoVal, Span(c) = 4 + Bytes(b), WriteSteps(c) = <<a, b>>,
             Offset(c, 0) = 0, Offset(c, 1) = 4, Offset(c, 2) = Span(c)
      PROVE  Mapped(c, WriteSteps(c))
  <2> DEFINE s == <<a, b>>
  <2>1. s \in Seq(WSteps) /\ Len(s) = 2 /\ s[1] = a /\ s[2] = b
    OBVIOUS
  <2> HIDE DEF s
  <2>2. WriteSteps(c) = s
    BY <1>3 DEF s
  <2> QED
    BY <1>3, <2>1, <2>2 DEF Mapped, HasObject
<1>4. CASE c.op = "prim"
  <2>1. Chunk(c.w) \in WSteps /\ Chunk(c.w).do = "write" /\ Bytes(Chunk(c.w)) = c.w
    BY <1>1, StepKinds, StepValues
  <2> QED
    BY <1>1, <1>2, <1>4, <2>1, StepsOf DEF Span, Offset
<1>5. CASE c.op \in {"buffer", "raw", "cstring"}
  <2>1. PICK n \in Nat \ {0} : n = IF c.op = "cstring" THEN c.n + 1 ELSE c.n
    BY <1>1, <1>5
  <2>2. /\ Padded(n) \in WSteps /\ Padded(n).do = "write" /\ Bytes(Padded(n)) = Sized(n)
        /\ Sized(n) \in Nat \ {0}
    BY PaddedFacts
  <2>3. WriteSteps(c) = <<Padded(n)>> /\ Span(c) = Sized(n)
    BY <1>5, <2>1, StepsOf DEF Span
  <2> QED
    BY <1>2, <1>5, <2>2, <2>3 DEF Offset
<1>6. CASE c.op \in {"null", "strongnull"}
  <2>1. /\ Word(0) \in WSteps /\ Word(0).do = "write" /\ Bytes(Word(0)) = 4
        /\ WriteSteps(c) = <<Word(0)>>
    BY <1>6, StepKinds, StepValues, StepsOf
  <2>2. Span(c) = 4
    BY <1>6 DEF Span
  <2> QED
    BY <1>2, <1>6, <2>1, <2>2 DEF Offset
<1>7. CASE c.op = "string" /\ c.n < 0
  <2>1. /\ Word(-1) \in WSteps /\ Word(-1).do = "write" /\ Bytes(Word(-1)) = 4
        /\ WriteSteps(c) = <<Word(-1)>>
    BY <1>7, StepKinds, StepValues, StepsOf
  <2>2. Span(c) = 4
    BY <1>7 DEF Span
  <2> QED
    BY <1>2, <1>7, <2>1, <2>2 DEF Offset
<1>8. CASE c.op = "string" /\ c.n >= 0
  <2>1. PICK n \in Nat \ {0} : n = (c.n + 1) * c.w
    <3>1. c.n + 1 \in Nat \ {0}
        BY <1>1, <1>8
    <3> QED
        BY <1>1, <3>1, Product
  <2>2. /\ Word(c.n) \in WSteps /\ Word(c.n).do = "write" /\ Bytes(Word(c.n)) = 4
        /\ Padded(n) \in WSteps /\ Padded(n).do = "write" /\ Bytes(Padded(n)) = Sized(n)
        /\ Padded(n).val = NoVal /\ Sized(n) \in Nat
    BY <1>1, WordFacts, PaddedFacts
  <2>3. WriteSteps(c) = <<Word(c.n), Padded(n)>> /\ Span(c) = 4 + Sized(n)
    BY <1>1, <1>8, <2>1, StepsOf DEF Span
  <2> QED
    BY <1>3, <1>8, <2>2, <2>3 DEF Offset
<1>9. CASE c.op = "plain"
  <2>1. /\ Word(1) \in WSteps /\ Word(1).do = "write" /\ Bytes(Word(1)) = 4
        /\ Chunk(4) \in WSteps /\ Chunk(4).do = "write" /\ Bytes(Chunk(4)) = 4
        /\ Chunk(4).val = NoVal
    BY StepKinds, StepValues
  <2>2. WriteSteps(c) = <<Word(1), Chunk(4)>> /\ Span(c) = 8
    BY <1>9, StepsOf DEF Span
  <2> QED
    BY <1>3, <1>9, <2>1, <2>2 DEF Offset
<1> QED
    BY <1>1, <1>4, <1>5, <1>6, <1>7, <1>8, <1>9 DEF Ops

\* A remote object, with the word before it or without.
LEMMA MappedObject ==
    ASSUME NEW c \in Written, HasObject(c)
    PROVE  Mapped(c, WriteSteps(c))
<1>1. c.n \in Nat /\ ObjSize = 24 /\ ObjSize \in Nat \ {0}
    BY WrittenType DEF HasObject, ObjSize
<1>2. /\ Padded(ObjSize) \in WSteps /\ Padded(ObjSize).do = "write"
      /\ Bytes(Padded(ObjSize)) = ObjSize /\ Padded(ObjSize).val = NoVal
  <2>1. Sized(ObjSize) = ObjSize
    BY DEF Sized, ObjSize, GetPadSize
  <2> QED
    BY <1>1, <2>1, StepKinds, StepValues
<1>3. /\ Step("mark", 0) \in WSteps /\ Step("mark", 0).do = "mark" /\ Step("mark", 0).val = NoVal
      /\ Step("objects", 0) \in WSteps /\ Step("objects", 0).do = "objects"
      /\ Step("objects", 0).val = NoVal
      /\ Step("offset", c.n) \in WSteps /\ Step("offset", c.n).do = "offset"
      /\ Step("offset", c.n).val = NoVal
      /\ Word(1) \in WSteps /\ Word(1).do = "write" /\ Bytes(Word(1)) = 4
    BY <1>1, StepKinds, StepValues
<1>4. CASE c.op = "object"
  <2> DEFINE s == <<Step("objects", 0), Padded(ObjSize), Step("offset", c.n)>>
  <2>1. s \in Seq(WSteps) /\ Len(s) = 3 /\ s[1] = Step("objects", 0) /\ s[2] = Padded(ObjSize)
        /\ s[3] = Step("offset", c.n)
    BY <1>2, <1>3
  <2>2. WriteSteps(c) = s
    BY <1>4, StepsOf
  <2> HIDE DEF s
  <2>3. Span(c) = 24 /\ \A d \in 0 .. 3 : Offset(c, d) = IF d <= 1 THEN 0 ELSE 24
    BY <1>1, <1>4 DEF Span, Offset
  <2>4. /\ Len(s) > 0 /\ Offset(c, 0) = 0 /\ Offset(c, Len(s)) = Span(c)
        /\ Span(c) \in Nat \ {0} /\ Offset(c, Len(s) - 1) = Span(c)
        /\ \A d \in 0 .. Len(s) : Offset(c, d) \in Nat
    BY <2>1, <2>3
  <2>5. \A d \in 0 .. Len(s) - 1 :
          Offset(c, d + 1) = Offset(c, d) + IF s[d + 1].do = "write" THEN Bytes(s[d + 1]) ELSE 0
    BY <1>1, <1>2, <1>3, <2>1, <2>3
  <2>6. \A e \in 1 .. Len(s), d \in 1 .. Len(s) :
          e <= d /\ s[e].val # NoVal => Offset(c, e - 1) < Offset(c, d)
    BY <1>2, <1>3, <2>1, <2>3
  <2>7. \A e \in 1 .. Len(s) :
          /\ s[e].do = "offset" <=> e = Len(s)
          /\ s[e].do = "mark" => e = 1
          /\ e = Len(s) => s[e].do \in {"write", "offset"}
    BY <1>2, <1>3, <2>1
  <2> QED
    BY <2>1, <2>2, <2>4, <2>5, <2>6, <2>7 DEF Mapped
<1>5. CASE c.op = "remote"
  <2> DEFINE s == <<Step("mark", 0), Word(1), Step("objects", 0), Padded(ObjSize),
                    Step("offset", c.n)>>
  <2>1. s \in Seq(WSteps) /\ Len(s) = 5 /\ s[1] = Step("mark", 0) /\ s[2] = Word(1)
        /\ s[3] = Step("objects", 0) /\ s[4] = Padded(ObjSize) /\ s[5] = Step("offset", c.n)
    BY <1>2, <1>3
  <2>2. WriteSteps(c) = s
    BY <1>5, StepsOf
  <2> HIDE DEF s
  <2>3. /\ Span(c) = 28
        /\ \A d \in 0 .. 5 : Offset(c, d) = IF d <= 1 THEN 0 ELSE IF d <= 3 THEN 4 ELSE 28
    BY <1>1, <1>5 DEF Span, Offset
  <2>4. /\ Len(s) > 0 /\ Offset(c, 0) = 0 /\ Offset(c, Len(s)) = Span(c)
        /\ Span(c) \in Nat \ {0} /\ Offset(c, Len(s) - 1) = Span(c)
        /\ \A d \in 0 .. Len(s) : Offset(c, d) \in Nat
    BY <2>1, <2>3
  <2>5. \A d \in 0 .. Len(s) - 1 :
          Offset(c, d + 1) = Offset(c, d) + IF s[d + 1].do = "write" THEN Bytes(s[d + 1]) ELSE 0
    BY <1>1, <1>2, <1>3, <2>1, <2>3
  <2>6. \A e \in 1 .. Len(s), d \in 1 .. Len(s) :
          e <= d /\ s[e].val # NoVal => Offset(c, e - 1) < Offset(c, d)
    BY <1>2, <1>3, <2>1, <2>3
  <2>7. \A e \in 1 .. Len(s) :
          /\ s[e].do = "offset" <=> e = Len(s)
          /\ s[e].do = "mark" => e = 1
          /\ e = Len(s) => s[e].do \in {"write", "offset"}
    BY <1>2, <1>3, <2>1
  <2> QED
    BY <2>1, <2>2, <2>4, <2>5, <2>6, <2>7 DEF Mapped
<1> QED
    BY <1>4, <1>5 DEF HasObject

\* A vector: its count, its elements and the padding.
LEMMA MappedVector ==
    ASSUME NEW c \in Written, c.op = "vector"
    PROVE  Mapped(c, WriteSteps(c))
<1> DEFINE s == WriteSteps(c)
<1>1. c.n \in Nat /\ c.w \in Nat \ {0} /\ c.w \in Nat
    BY WrittenType
<1>2. PICK m \in Nat : m = c.n * c.w
    BY <1>1
<1>3. /\ Len(s) = c.n + 2 /\ s[1] = Word(c.n) /\ s[c.n + 2] = PadFor(m)
      /\ \A j \in 2 .. c.n + 1 : s[j] = Chunk(c.w)
    BY <1>2, StepsOf
<1>4. /\ Word(c.n) \in WSteps /\ Word(c.n).do = "write" /\ Bytes(Word(c.n)) = 4
      /\ Chunk(c.w) \in WSteps /\ Chunk(c.w).do = "write" /\ Bytes(Chunk(c.w)) = c.w
      /\ Chunk(c.w).val = NoVal
    BY <1>1, WordFacts, StepKinds, StepValues
<1>5. /\ PadFor(m) \in WSteps /\ PadFor(m).do = "write" /\ Bytes(PadFor(m)) = GetPadSize(m)
      /\ PadFor(m).val = NoVal /\ GetPadSize(m) \in Nat
    BY PadForFacts
<1>6. s \in Seq(WSteps)
    BY StepsOf
<1> HIDE DEF s
<1>7. Span(c) = 4 + (m + GetPadSize(m)) /\ Span(c) \in Nat \ {0}
    BY <1>1, <1>2, <1>5 DEF Span, Sized
<1>8. /\ Offset(c, 0) = 0 /\ Offset(c, c.n + 2) = Span(c)
      /\ \A d \in 1 .. c.n + 1 : Offset(c, d) = 4 + (d - 1) * c.w
    BY <1>1 DEF Offset
<1>9. /\ \A d \in 1 .. c.n + 1 : (d - 1) * c.w \in Nat
      /\ Offset(c, 1) = 4 /\ Offset(c, c.n + 1) = 4 + m
  <2>1. \A d \in 1 .. c.n + 1 : d - 1 \in Nat
    OBVIOUS
  <2>2. 1 \in 1 .. c.n + 1 /\ c.n + 1 \in 1 .. c.n + 1 /\ (c.n + 1) - 1 = c.n /\ 1 - 1 = 0
    BY <1>1
  <2>3. \A a \in Nat : a * c.w \in Nat
    BY <1>1, Multiples
  <2>4. Offset(c, 1) = 4 + 0 * c.w /\ 0 * c.w = 0
    BY <1>1, <1>8, <2>2, Multiples
  <2>5. Offset(c, c.n + 1) = 4 + c.n * c.w
    BY <1>8, <2>2
  <2> QED
    BY <1>2, <2>1, <2>3, <2>4, <2>5
<1>10. \A d \in 0 .. Len(s) : Offset(c, d) \in Nat /\ (d > 0 => Offset(c, d) >= 4)
  <2> TAKE d \in 0 .. Len(s)
  <2>1. d = 0 \/ d = c.n + 2 \/ d \in 1 .. c.n + 1
    BY <1>1, <1>3
  <2>2. CASE d \in 1 .. c.n + 1
    BY <1>8, <1>9, <2>2
  <2> QED
    BY <1>1, <1>2, <1>5, <1>7, <1>8, <2>1, <2>2
<1>11. ASSUME NEW d \in 0 .. Len(s) - 1
       PROVE  Offset(c, d + 1) = Offset(c, d) + Bytes(s[d + 1]) /\ s[d + 1].do = "write"
  <2>1. CASE d = 0
    BY <1>3, <1>4, <1>8, <1>9, <2>1
  <2>2. CASE d = c.n + 1
    <3>1. d + 1 = c.n + 2
        BY <1>1, <2>2
    <3>2. Offset(c, d) = 4 + m /\ Offset(c, d + 1) = 4 + (m + GetPadSize(m))
          /\ s[d + 1] = PadFor(m)
        BY <1>3, <1>7, <1>8, <1>9, <2>2, <3>1
    <3> QED
        BY <1>5, <3>2
  <2>3. CASE d \in 1 .. c.n
    <3>1. d + 1 \in 2 .. c.n + 1 /\ d + 1 \in 1 .. c.n + 1 /\ d \in 1 .. c.n + 1
          /\ (d + 1) - 1 = (d - 1) + 1 /\ d - 1 \in Nat
        BY <1>1, <2>3
    <3>2. Offset(c, d + 1) = 4 + ((d - 1) + 1) * c.w /\ Offset(c, d) = 4 + (d - 1) * c.w
        BY <1>8, <3>1
    <3>3. ((d - 1) + 1) * c.w = (d - 1) * c.w + c.w /\ (d - 1) * c.w \in Nat
        BY <1>1, <3>1, Multiples
    <3>4. s[d + 1] = Chunk(c.w)
        BY <1>3, <3>1
    <3> QED
        BY <1>1, <1>4, <3>2, <3>3, <3>4
  <2>4. d = 0 \/ d = c.n + 1 \/ d \in 1 .. c.n
    BY <1>1, <1>3
  <2> QED
    BY <2>1, <2>2, <2>3, <2>4
<1>12. ASSUME NEW e \in 1 .. Len(s), s[e].val # NoVal
       PROVE  e = 1
  <2>1. e = 1 \/ e = c.n + 2 \/ e \in 2 .. c.n + 1
    BY <1>1, <1>3
  <2> QED
    BY <1>3, <1>4, <1>5, <1>12, <2>1
<1>13. \A e \in 1 .. Len(s) : s[e].do = "write"
  <2> TAKE e \in 1 .. Len(s)
  <2>1. e = 1 \/ e = c.n + 2 \/ e \in 2 .. c.n + 1
    BY <1>1, <1>3
  <2> QED
    BY <1>3, <1>4, <1>5, <2>1
<1>14. \A e \in 1 .. Len(s), d \in 1 .. Len(s) :
          e <= d /\ s[e].val # NoVal => Offset(c, e - 1) < Offset(c, d)
  <2>1. \A d \in 1 .. Len(s) : Offset(c, d) \in Nat /\ Offset(c, d) >= 4
    BY <1>10
  <2>2. Offset(c, 1 - 1) = 0
    BY <1>8
  <2> QED
    BY <1>12, <2>1, <2>2
<1>15. Len(s) > 0 /\ Offset(c, Len(s)) = Span(c) /\ ~HasObject(c)
    BY <1>1, <1>3, <1>8 DEF HasObject
<1>16. Mapped(c, s)
    BY <1>6, <1>7, <1>8, <1>10, <1>11, <1>13, <1>14, <1>15 DEF Mapped
<1> QED
    BY <1>16 DEF s

\* Where the strings of a vector of strings are.
LEMMA StringOffsets ==
    ASSUME NEW c \in Written, c.op = "strings"
    PROVE  /\ c.n \in Nat /\ Sized(2 * c.w) \in Nat \ {0} /\ Unit(c) = 4 + Sized(2 * c.w)
           /\ Unit(c) \in Nat /\ Span(c) = 4 + c.n * Unit(c) /\ Offset(c, 0) = 0
           /\ Offset(c, 2 * c.n + 2) = Span(c)
           /\ \A q \in 0 .. c.n : Offset(c, 2 * q + 1) = 4 + q * Unit(c) /\ q * Unit(c) \in Nat
           /\ \A q \in 0 .. c.n - 1 : Offset(c, 2 * q + 2) = 4 + q * Unit(c) + 4
<1>1. c.n \in Nat /\ c.w \in Nat \ {0} /\ 2 * c.w \in Nat \ {0}
    BY WrittenType
<1>2. Sized(2 * c.w) \in Nat \ {0} /\ Unit(c) = 4 + Sized(2 * c.w)
    BY <1>1, PaddedFacts DEF Unit
<1>3. PICK u \in Nat : u = Unit(c)
    BY <1>2
<1>4. Span(c) = 4 + c.n * u /\ Offset(c, 0) = 0 /\ Offset(c, 2 * c.n + 2) = Span(c)
    BY <1>1, <1>3 DEF Span, Offset
<1>5. ASSUME NEW q \in 0 .. c.n
      PROVE  Offset(c, 2 * q + 1) = 4 + q * u /\ q * u \in Nat
  <2>1. /\ 2 * q + 1 # 0 /\ 2 * q + 1 <= 2 * c.n + 1
        /\ ((2 * q + 1) - 1) \div 2 = q /\ ((2 * q + 1) - 1) % 2 = 0
    BY <1>1
  <2>2. q * u \in Nat
    BY Multiples
  <2>3. Offset(c, 2 * q + 1) = 4 + (((2 * q + 1) - 1) \div 2) * u + 4 * (((2 * q + 1) - 1) % 2)
    BY <1>3, <2>1 DEF Offset
  <2> QED
    BY <2>1, <2>2, <2>3
<1>6. ASSUME NEW q \in 0 .. c.n - 1
      PROVE  Offset(c, 2 * q + 2) = 4 + q * u + 4
  <2>1. /\ 2 * q + 2 # 0 /\ 2 * q + 2 <= 2 * c.n + 1
        /\ ((2 * q + 2) - 1) \div 2 = q /\ ((2 * q + 2) - 1) % 2 = 1
    BY <1>1
  <2>2. q * u \in Nat
    BY Multiples
  <2>3. Offset(c, 2 * q + 2) = 4 + (((2 * q + 2) - 1) \div 2) * u + 4 * (((2 * q + 2) - 1) % 2)
    BY <1>3, <2>1 DEF Offset
  <2> QED
    BY <2>1, <2>2, <2>3
<1> QED
    BY <1>1, <1>2, <1>3, <1>4, <1>5, <1>6

\* A vector of strings: its count and each string's length and body.
LEMMA MappedStrings ==
    ASSUME NEW c \in Written, c.op = "strings"
    PROVE  Mapped(c, WriteSteps(c))
<1> DEFINE s == WriteSteps(c)
           b == Sized(2 * c.w)
<1>1. /\ c.n \in Nat /\ b \in Nat \ {0} /\ Span(c) = 4 + c.n * Unit(c) /\ Offset(c, 0) = 0
      /\ Unit(c) = 4 + b /\ Unit(c) \in Nat
      /\ Offset(c, 2 * c.n + 2) = Span(c)
      /\ \A q \in 0 .. c.n : Offset(c, 2 * q + 1) = 4 + q * Unit(c) /\ q * Unit(c) \in Nat
      /\ \A q \in 0 .. c.n - 1 : Offset(c, 2 * q + 2) = 4 + q * Unit(c) + 4
    BY StringOffsets
<1>0. c.n \in Nat
    BY WrittenType
<1>2. PICK u \in Nat : u = Unit(c)
    BY <1>1
<1>3. /\ Len(s) = 2 * c.n + 2 /\ s[1] = Word(c.n) /\ s[2 * c.n + 2] = PadFor(0)
      /\ \A j \in 2 .. 2 * c.n + 1 : s[j] = IF j % 2 = 0 THEN Word(1) ELSE Padded(2 * c.w)
    BY StepsOf
<1>4. /\ Word(c.n) \in WSteps /\ Word(c.n).do = "write" /\ Bytes(Word(c.n)) = 4
      /\ Word(1) \in WSteps /\ Word(1).do = "write" /\ Bytes(Word(1)) = 4
    BY <1>0, WordFacts
<1>5. /\ Padded(2 * c.w) \in WSteps /\ Padded(2 * c.w).do = "write"
      /\ Bytes(Padded(2 * c.w)) = b /\ Padded(2 * c.w).val = NoVal
  <2>1. 2 * c.w \in Nat \ {0}
    BY WrittenType
  <2> QED
    BY <2>1, PaddedFacts
<1>6. /\ PadFor(0) \in WSteps /\ PadFor(0).do = "write" /\ Bytes(PadFor(0)) = 0
      /\ PadFor(0).val = NoVal
  <2>1. GetPadSize(0) = 0
    BY DEF GetPadSize
  <2> QED
    BY <2>1, StepKinds, StepValues
<1> HIDE DEF b
<1>7. s \in Seq(WSteps)
    BY StepsOf
<1> HIDE DEF s
<1>8. ASSUME NEW e \in 1 .. Len(s)
      PROVE  e = Len(s) \/ (\E q \in 0 .. c.n : e = 2 * q + 1) \/ \E q \in 0 .. c.n - 1 : e = 2 * q + 2
  <2>1. e \in Nat /\ 1 <= e /\ e <= 2 * c.n + 2
    BY <1>0, <1>3
  <2>2. CASE e % 2 = 1
    <3>1. (e - 1) \div 2 \in 0 .. c.n /\ e = 2 * ((e - 1) \div 2) + 1
        BY <1>0, <2>1, <2>2
    <3> QED
        BY <3>1
  <2>3. CASE e % 2 = 0 /\ e < 2 * c.n + 2
    <3>1. (e - 2) \div 2 \in 0 .. c.n - 1 /\ e = 2 * ((e - 2) \div 2) + 2
        BY <1>0, <2>1, <2>3
    <3> QED
        BY <3>1
  <2> QED
    BY <1>0, <1>3, <2>1, <2>2, <2>3
<1>9. \A q \in 0 .. c.n - 1 : s[2 * q + 2] = Word(1) /\ s[2 * q + 3] = Padded(2 * c.w)
  <2> TAKE q \in 0 .. c.n - 1
  <2>1. 2 * q + 2 \in 2 .. 2 * c.n + 1 /\ (2 * q + 2) % 2 = 0
        /\ 2 * q + 3 \in 2 .. 2 * c.n + 1 /\ (2 * q + 3) % 2 = 1
    BY <1>0
  <2> QED
    BY <1>3, <2>1
<1>10. \A q \in 1 .. c.n : s[2 * q + 1] = Padded(2 * c.w)
  <2> TAKE q \in 1 .. c.n
  <2>1. q - 1 \in 0 .. c.n - 1 /\ 2 * (q - 1) + 3 = 2 * q + 1
    BY <1>0
  <2> QED
    BY <1>9, <2>1
<1>11. ASSUME NEW e \in 1 .. Len(s)
       PROVE  /\ s[e].do = "write"
              /\ s[e].val # NoVal => e = 1 \/ \E q \in 0 .. c.n - 1 : e = 2 * q + 2
  <2>1. CASE e = Len(s)
    BY <1>3, <1>6, <2>1
  <2>2. ASSUME NEW q \in 0 .. c.n, e = 2 * q + 1
        PROVE  s[e].do = "write" /\ (e = 1 \/ s[e].val = NoVal)
    <3>1. CASE q = 0
        BY <1>3, <1>4, <2>2, <3>1
    <3>2. CASE q \in 1 .. c.n
        BY <1>5, <1>10, <2>2, <3>2
    <3> QED
        BY <3>1, <3>2
  <2>3. ASSUME NEW q \in 0 .. c.n - 1, e = 2 * q + 2
        PROVE  s[e].do = "write"
    BY <1>4, <1>9, <2>3
  <2> QED
    BY <1>8, <2>1, <2>2, <2>3
<1>12. ASSUME NEW d \in 0 .. Len(s) - 1
       PROVE  Offset(c, d + 1) = Offset(c, d) + Bytes(s[d + 1])
  <2>1. d + 1 \in 1 .. Len(s)
    BY <1>0, <1>3
  <2>2. CASE d + 1 = Len(s)
    <3>1. d = 2 * c.n + 1 /\ c.n \in 0 .. c.n /\ d + 1 = 2 * c.n + 2
        BY <1>0, <1>3, <2>2
    <3>2. Offset(c, d) = 4 + c.n * u /\ c.n * u \in Nat /\ Offset(c, d + 1) = 4 + c.n * u
        BY <1>1, <1>2, <3>1
    <3> QED
        BY <1>3, <1>6, <3>1, <3>2
  <2>3. ASSUME NEW q \in 0 .. c.n, d + 1 = 2 * q + 1
        PROVE  Offset(c, d + 1) = Offset(c, d) + Bytes(s[d + 1])
    <3>1. CASE q = 0
      <4>1. d = 0 /\ 0 \in 0 .. c.n /\ 2 * 0 + 1 = 1
        BY <1>0, <2>3, <3>1
      <4>2. Offset(c, 1) = 4 + 0 * u /\ 0 * u = 0
        BY <1>1, <1>2, <4>1, Multiples
      <4> QED
        BY <1>1, <1>3, <1>4, <4>1, <4>2
    <3>2. CASE q \in 1 .. c.n
      <4>1. /\ q - 1 \in 0 .. c.n - 1 /\ q - 1 \in Nat /\ d = 2 * (q - 1) + 2 /\ q = (q - 1) + 1
        BY <1>0, <2>3, <3>2
      <4>2. Offset(c, d) = 4 + (q - 1) * u + 4
        BY <1>1, <1>2, <4>1
      <4>3. q * u = (q - 1) * u + u /\ (q - 1) * u \in Nat
        BY <4>1, Multiples
      <4>4. Offset(c, d + 1) = 4 + q * u /\ s[d + 1] = Padded(2 * c.w)
        BY <1>1, <1>2, <1>10, <2>3, <3>2
      <4> QED
        BY <1>1, <1>2, <1>5, <4>2, <4>3, <4>4
    <3> QED
        BY <3>1, <3>2
  <2>4. ASSUME NEW q \in 0 .. c.n - 1, d + 1 = 2 * q + 2
        PROVE  Offset(c, d + 1) = Offset(c, d) + Bytes(s[d + 1])
    <3>1. d = 2 * q + 1 /\ q \in 0 .. c.n
        BY <1>0, <2>4
    <3>2. /\ Offset(c, d) = 4 + q * u /\ q * u \in Nat /\ Offset(c, d + 1) = 4 + q * u + 4
          /\ s[d + 1] = Word(1)
        BY <1>1, <1>2, <1>9, <2>4, <3>1
    <3> QED
        BY <1>4, <3>2
  <2> QED
    BY <1>8, <2>1, <2>2, <2>3, <2>4
<1>13. ASSUME NEW d \in 1 .. Len(s)
       PROVE  /\ Offset(c, d) \in Nat /\ Offset(c, d) >= 4
              /\ \A q \in 0 .. c.n - 1 : 2 * q + 2 <= d => Offset(c, d) > 4 + q * u
  <2>1. ASSUME NEW r \in 0 .. c.n, Offset(c, d) >= 4 + r * u, Offset(c, d) \in Nat,
               \A q \in 0 .. c.n - 1 : 2 * q + 2 <= d => q <= r,
               d = 2 * r + 2 => Offset(c, d) > 4 + r * u,
               d \in {2 * r + 1, 2 * r + 2}
        PROVE  /\ Offset(c, d) \in Nat /\ Offset(c, d) >= 4
               /\ \A q \in 0 .. c.n - 1 : 2 * q + 2 <= d => Offset(c, d) > 4 + q * u
    <3>1. r * u \in Nat /\ u >= 1 /\ r \in Nat
        BY <1>1, <1>2, Multiples
    <3>2. ASSUME NEW q \in 0 .. c.n - 1, 2 * q + 2 <= d
          PROVE  Offset(c, d) > 4 + q * u
      <4>1. q \in Nat /\ q <= r /\ q * u \in Nat
        BY <2>1, <3>2, Multiples
      <4>2. CASE q < r
        <5>1. q * u + u <= r * u
            BY <3>1, <4>1, <4>2, Multiples
        <5> QED
            BY <2>1, <3>1, <4>1, <5>1
      <4>3. CASE q = r
        <5>1. d = 2 * r + 2
            BY <2>1, <3>1, <3>2, <4>3
        <5> QED
            BY <2>1, <4>3, <5>1
      <4> QED
        BY <3>1, <4>1, <4>2, <4>3
    <3> QED
        BY <2>1, <3>1, <3>2
  <2>2. CASE d = Len(s)
    <3>1. Offset(c, d) = 4 + c.n * u /\ c.n * u \in Nat
        BY <1>1, <1>2, <1>3, <2>2, Multiples
    <3>2. ASSUME NEW q \in 0 .. c.n - 1
          PROVE  Offset(c, d) > 4 + q * u
      <4>1. q \in Nat /\ q < c.n /\ u >= 1
        BY <1>1, <1>2, <3>2
      <4>2. q * u + u <= c.n * u /\ q * u \in Nat
        BY <1>1, <4>1, Multiples
      <4> QED
        BY <3>1, <4>1, <4>2
    <3> QED
        BY <3>1, <3>2
  <2>3. ASSUME NEW q \in 0 .. c.n, d = 2 * q + 1
        PROVE  /\ Offset(c, d) \in Nat /\ Offset(c, d) >= 4
               /\ \A r \in 0 .. c.n - 1 : 2 * r + 2 <= d => Offset(c, d) > 4 + r * u
    <3>1. Offset(c, d) = 4 + q * u /\ q * u \in Nat
        BY <1>1, <1>2, <2>3
    <3>2. \A r \in 0 .. c.n - 1 : 2 * r + 2 <= d => r <= q
        BY <2>3
    <3> QED
        BY <2>1, <2>3, <3>1, <3>2
  <2>4. ASSUME NEW q \in 0 .. c.n - 1, d = 2 * q + 2
        PROVE  /\ Offset(c, d) \in Nat /\ Offset(c, d) >= 4
               /\ \A r \in 0 .. c.n - 1 : 2 * r + 2 <= d => Offset(c, d) > 4 + r * u
    <3>1. Offset(c, d) = 4 + q * u + 4 /\ q * u \in Nat /\ q \in 0 .. c.n
        BY <1>1, <1>2, <2>4, Multiples
    <3>2. \A r \in 0 .. c.n - 1 : 2 * r + 2 <= d => r <= q
        BY <2>4
    <3> QED
        BY <2>1, <2>4, <3>1, <3>2
  <2> QED
    BY <1>8, <2>2, <2>3, <2>4
<1>14. ASSUME NEW e \in 1 .. Len(s), NEW d \in 1 .. Len(s), e <= d, s[e].val # NoVal
       PROVE  Offset(c, e - 1) < Offset(c, d)
  <2>1. CASE e = 1
    <3>1. Offset(c, e - 1) = 0
        BY <1>1, <2>1
    <3> QED
        BY <1>13, <3>1
  <2>2. ASSUME NEW q \in 0 .. c.n - 1, e = 2 * q + 2
        PROVE  Offset(c, e - 1) < Offset(c, d)
    <3>1. e - 1 = 2 * q + 1 /\ q \in 0 .. c.n /\ 2 * q + 2 <= d
        BY <1>0, <1>14, <2>2
    <3>2. Offset(c, e - 1) = 4 + q * u
        BY <1>1, <1>2, <3>1
    <3>3. Offset(c, d) > 4 + q * u /\ Offset(c, d) \in Nat /\ q * u \in Nat
        BY <1>1, <1>2, <1>13, <3>1
    <3> QED
        BY <3>2, <3>3
  <2> QED
    BY <1>11, <1>14, <2>1, <2>2
<1>15. /\ Len(s) > 0 /\ Offset(c, Len(s)) = Span(c) /\ ~HasObject(c)
       /\ Span(c) \in Nat \ {0} /\ Len(s) \in 1 .. Len(s)
       /\ \A d \in 0 .. Len(s) : Offset(c, d) \in Nat
  <2>1. Len(s) > 0 /\ Len(s) \in 1 .. Len(s) /\ Offset(c, Len(s)) = Span(c)
    BY <1>1, <1>3
  <2>2. Offset(c, Len(s)) \in Nat /\ Offset(c, Len(s)) >= 4
    BY <1>13, <2>1
  <2>3. \A d \in 0 .. Len(s) : d = 0 \/ d \in 1 .. Len(s)
    BY <2>1
  <2> QED
    BY <1>1, <1>13, <2>1, <2>2, <2>3 DEF HasObject
<1>16. \A d \in 0 .. Len(s) - 1 : s[d + 1].do = "write"
  <2>1. \A d \in 0 .. Len(s) - 1 : d + 1 \in 1 .. Len(s)
    BY <1>0, <1>3
  <2> QED
    BY <1>11, <2>1
<1>17. Mapped(c, s)
    BY <1>1, <1>7, <1>11, <1>12, <1>14, <1>15, <1>16 DEF Mapped
<1> QED
    BY <1>17 DEF s

\* Every value is laid out so.
LEMMA Layout ==
    ASSUME NEW c \in Written
    PROVE  Mapped(c, WriteSteps(c))
BY MappedShort, MappedObject, MappedVector, MappedStrings DEF HasObject

\* The bytes of the object of a value are its last.
LEMMA ObjectEnds ==
    ASSUME NEW c \in Written, HasObject(c), NEW p \in Nat
    PROVE  ObjectAt(c, p) \in Nat /\ ObjectAt(c, p) >= p /\ ObjectAt(c, p) + ObjSize = p + Span(c)
BY DEF HasObject, ObjectAt, Span, ObjSize

\* So they are in the data of the value.
LEMMA ObjectOf ==
    ASSUME NEW i, i.call \in Written, i.off \in Nat, i.end = i.off + Span(i.call)
    PROVE  LET q == IF HasObject(i.call) THEN ObjectAt(i.call, i.off) ELSE i.end
           IN  /\ q \in Nat /\ q <= i.end /\ i.off <= q
               /\ HasObject(i.call) => ObjectAt(i.call, i.off) + ObjSize = i.end
<1>1. Span(i.call) \in Nat
    BY Layout DEF Mapped
<1>2. CASE HasObject(i.call)
    BY <1>1, <1>2, ObjectEnds DEF ObjSize
<1> QED
    BY <1>1, <1>2

\* A value stays in the data when nothing before its end changes.
LEMMA LaidKept ==
    ASSUME TypeOK, offs \in Seq(Nat), offs' \in Seq(Nat), size' \in Nat,
           NEW i \in items, Laid(i), i.end <= size',
           \A v \in words : v.off < i.end => v \in words',
           \A k \in DOMAIN offs : offs[k] + ObjSize <= i.end =>
                \E j \in DOMAIN offs' : offs'[j] = offs[k],
           \A j \in DOMAIN offs' : offs'[j] >= i.end \/ \E k \in DOMAIN offs : offs[k] = offs'[j]
    PROVE  Laid(i)'
<1> DEFINE c == i.call
           s == WriteSteps(c)
<1>1. i.off \in Nat /\ i.end \in Nat /\ c \in Written
    BY DEF TypeOK, Laid
<1>2. Mapped(c, s)
    BY <1>1, Layout
<1>3. i.end = i.off + Span(c)
    BY DEF Laid
<1> HIDE DEF s
<1>4. Lengths(c, i.off, Len(s))'
  <2> SUFFICES ASSUME NEW e \in 1 .. Len(s), s[e].val # NoVal
               PROVE  [off |-> i.off + Offset(c, e - 1), val |-> s[e].val] \in words'
    BY DEF Lengths, s
  <2>1. [off |-> i.off + Offset(c, e - 1), val |-> s[e].val] \in words
    BY DEF Laid, Lengths, s
  <2>2. Len(s) \in 1 .. Len(s) /\ e <= Len(s) /\ e - 1 \in 0 .. Len(s)
    BY <1>2 DEF Mapped
  <2>3. Offset(c, e - 1) < Span(c) /\ Offset(c, e - 1) \in Nat /\ Span(c) \in Nat
    BY <1>2, <2>2 DEF Mapped
  <2>4. i.off + Offset(c, e - 1) < i.end
    BY <1>1, <1>3, <2>3
  <2> QED
    BY <2>1, <2>4
<1>5. HasObject(c) => InTable(ObjectAt(c, i.off))'
  <2> SUFFICES ASSUME HasObject(c)
               PROVE  \E j \in DOMAIN offs' : offs'[j] = ObjectAt(c, i.off)
    BY DEF InTable
  <2>1. PICK k \in DOMAIN offs : offs[k] = ObjectAt(c, i.off)
    BY DEF Laid, InTable
  <2>2. offs[k] + ObjSize <= i.end
    <3>1. ObjectAt(c, i.off) + ObjSize = i.end
        BY <1>1, <1>3, ObjectOf
    <3> QED
        BY <1>1, <2>1, <3>1
  <2> QED
    BY <2>1, <2>2
<1>6. Free(i.off, IF HasObject(c) THEN ObjectAt(c, i.off) ELSE i.end)'
  <2> DEFINE q == IF HasObject(c) THEN ObjectAt(c, i.off) ELSE i.end
  <2>1. q \in Nat /\ q <= i.end
    BY <1>1, <1>3, ObjectOf
  <2>2. \A k \in DOMAIN offs : offs[k] + ObjSize <= i.off \/ offs[k] >= q
    BY DEF Laid, Free
  <2>3. q' = q
    OBVIOUS
  <2> HIDE DEF q
  <2>4. \A j \in DOMAIN offs' : offs'[j] \in Nat
    OBVIOUS
  <2>5. \A j \in DOMAIN offs' : offs'[j] + ObjSize <= i.off \/ offs'[j] >= q
    <3> TAKE j \in DOMAIN offs'
    <3>1. CASE offs'[j] >= i.end
        BY <1>1, <2>1, <2>4, <3>1
    <3>2. CASE \E k \in DOMAIN offs : offs[k] = offs'[j]
        BY <2>2, <3>2
    <3> QED
        BY <3>1, <3>2
  <2> QED
    BY <2>5 DEF Free, q
<1> QED
    BY <1>1, <1>3, <1>4, <1>5, <1>6 DEF Laid, s

\* Nothing in the data or in the table changes.
LEMMA IntactSame ==
    ASSUME Intact, UNCHANGED <<torn, writable, words, items, size, offs>>
    PROVE  Intact'
BY DEF Intact, Laid, Lengths, Free, InTable

\* The first primitive of a value that is being written, and what is left.
LEMMA WritesOn ==
    ASSUME RegionInv, ValueInv, ~torn, writable, todo # <<>>, First.do \in WriteDos
    PROVE  /\ call \in Written /\ Mapped(call, WriteSteps(call)) /\ ~call.read
           /\ Done \in 0 .. Len(WriteSteps(call)) - 1 /\ Len(todo) = Len(WriteSteps(call)) - Done
           /\ First = WriteSteps(call)[Done + 1]
           /\ wc = from + Offset(call, Done) /\ Lengths(call, from, Done)
           /\ from \in Nat /\ Offset(call, Done) \in Nat /\ wc >= from
           /\ \A i \in items : i.end <= from
           /\ \A k \in DOMAIN offs : offs[k] + ObjSize <= from
           /\ mark # <<>> => mark[1] = from
           /\ Tail(todo) = <<>> <=> Done + 1 = Len(WriteSteps(call))
<1>1. ~call.read /\ First = todo[1] /\ todo \in Seq(WSteps)
    BY Phase
<1>2. /\ call \in Written
      /\ Done \in Nat /\ \A e \in DOMAIN todo : todo[e] = WriteSteps(call)[Done + e]
      /\ wc = from + Offset(call, Done)
      /\ Lengths(call, from, Done)
      /\ mark # <<>> => mark[1] = from
      /\ \A i \in items : i.end <= from
      /\ \A k \in DOMAIN offs : offs[k] + ObjSize <= from
    BY <1>1 DEF ValueInv, Writing
<1>3. Mapped(call, WriteSteps(call))
    BY <1>2, Layout
<1>4. Len(todo) \in Nat \ {0} /\ 1 \in DOMAIN todo
    BY <1>1
<1>5. Len(WriteSteps(call)) \in Nat
    BY <1>3 DEF Mapped
<1>6. Done \in 0 .. Len(WriteSteps(call)) - 1 /\ Len(todo) = Len(WriteSteps(call)) - Done
    BY <1>2, <1>4, <1>5 DEF Done
<1>7. First = WriteSteps(call)[Done + 1]
    BY <1>1, <1>2, <1>4
<1>8. Offset(call, Done) \in Nat
    BY <1>3, <1>6 DEF Mapped
<1>9. from \in Nat /\ wc >= from
    BY <1>2, <1>8 DEF RegionInv, TypeOK
<1>10. Tail(todo) = <<>> <=> Len(todo) = 1
  <2>1. Tail(todo) \in Seq(WSteps) /\ Len(Tail(todo)) = Len(todo) - 1
    BY <1>1
  <2>2. Tail(todo) = <<>> <=> Len(Tail(todo)) = 0
    BY <2>1, EmptySeq, Zenon
  <2> QED
    BY <1>4, <2>1, <2>2
<1>11. Len(todo) = 1 <=> Done + 1 = Len(WriteSteps(call))
    BY <1>5, <1>6
<1> HIDE DEF Done
<1> QED
    BY <1>1, <1>2, <1>3, <1>6, <1>7, <1>8, <1>9, <1>10, <1>11

\* A primitive that stores nothing has no length.
LEMMA NoLength ==
    ASSUME NEW c, NEW s, Mapped(c, s), NEW d \in 0 .. Len(s) - 1, s[d + 1].do # "write"
    PROVE  Offset(c, d + 1) = Offset(c, d) /\ s[d + 1].val = NoVal
<1>1. d + 1 \in 1 .. Len(s) /\ d \in 0 .. Len(s) /\ (d + 1) - 1 = d
    BY DEF Mapped
<1>2. Offset(c, d) \in Nat
    BY <1>1 DEF Mapped
<1>3. Offset(c, d + 1) = Offset(c, d)
    BY <1>2 DEF Mapped
<1>4. s[d + 1].val # NoVal => Offset(c, d) < Offset(c, d + 1)
    BY <1>1 DEF Mapped
<1> QED
    BY <1>2, <1>3, <1>4

\* What is left after it.
LEMMA GoesOn ==
    ASSUME RegionInv, ValueInv, ~torn, writable, todo # <<>>, First.do \in WriteDos, Proceed(<<>>)
    PROVE  /\ todo' = Tail(todo) /\ call' = call /\ from' = from
           /\ Done' = Done + 1
           /\ \A e \in DOMAIN todo' : todo'[e] = WriteSteps(call')[Done' + e]
<1>1. /\ call' = call /\ todo' = Tail(todo) /\ todo \in Seq(WSteps)
      /\ \A e \in DOMAIN todo' : e \in Nat \ {0} /\ e + 1 \in DOMAIN todo /\ todo'[e] = todo[e + 1]
    BY WritingTail
<1>2. from' = from
    BY DEF Proceed
<1>3. Done \in 0 .. Len(WriteSteps(call)) - 1 /\ Len(todo) = Len(WriteSteps(call)) - Done
    BY WritesOn
<1>4. Len(WriteSteps(call)) \in Nat
    BY WritesOn DEF Mapped
<1>5. Len(Tail(todo)) = Len(todo) - 1
    BY <1>1
<1>6. Done' = Done + 1
    BY <1>1, <1>3, <1>4, <1>5 DEF Done
<1>7. \A e \in DOMAIN todo : todo[e] = WriteSteps(call)[Done + e]
    BY WritesOn DEF ValueInv, Writing
<1> HIDE DEF Done
<1>8. ASSUME NEW e \in DOMAIN todo'
      PROVE  todo'[e] = WriteSteps(call')[Done' + e]
  <2>1. e \in Nat /\ e + 1 \in DOMAIN todo /\ todo'[e] = todo[e + 1]
    BY <1>1
  <2>2. Done + (e + 1) = Done' + e
    BY <1>3, <1>6, <2>1
  <2> QED
    BY <1>1, <1>7, <2>1, <2>2
<1> QED
    BY <1>1, <1>2, <1>6, <1>8

\* One more primitive has stored its length.
LEMMA LengthsGrow ==
    ASSUME TypeOK, NEW c, NEW s, s = WriteSteps(c), Mapped(c, s), NEW p \in Nat,
           NEW d \in 0 .. Len(s) - 1, Lengths(c, p, d),
           \A v \in words : v.off < p + Offset(c, d) => v \in words',
           s[d + 1].val # NoVal => [off |-> p + Offset(c, d), val |-> s[d + 1].val] \in words'
    PROVE  Lengths(c, p, d + 1)'
<1> SUFFICES ASSUME NEW e \in 1 .. d + 1, s[e].val # NoVal
             PROVE  [off |-> p + Offset(c, e - 1), val |-> s[e].val] \in words'
    BY DEF Lengths
<1>1. Len(s) \in Nat /\ d \in 0 .. Len(s) /\ d \in Nat
    BY DEF Mapped
<1>2. CASE e = d + 1
  <2>1. e - 1 = d
    BY <1>1, <1>2
  <2> QED
    BY <1>2, <2>1
<1>3. CASE e \in 1 .. d
  <2>1. [off |-> p + Offset(c, e - 1), val |-> s[e].val] \in words
    BY <1>3 DEF Lengths
  <2>2. e \in 1 .. Len(s) /\ d \in 1 .. Len(s) /\ e <= d /\ e - 1 \in 0 .. Len(s)
    BY <1>1, <1>3
  <2>3. Offset(c, e - 1) < Offset(c, d) /\ Offset(c, e - 1) \in Nat /\ Offset(c, d) \in Nat
    BY <1>1, <2>2 DEF Mapped
  <2>4. p + Offset(c, e - 1) < p + Offset(c, d)
    BY <2>3
  <2> QED
    BY <2>1, <2>4
<1> QED
    BY <1>1, <1>2, <1>3

\* The values in the data have bytes.
LEMMA ItemFacts ==
    ASSUME RegionInv, ValueInv, ~torn
    PROVE  \A i \in items : Laid(i) /\ i.off \in Nat /\ i.end \in Nat /\ i.off < i.end
<1>1. \A i \in items : Laid(i) /\ i.off \in Nat /\ i.end \in Nat
    BY DEF ValueInv, Intact, RegionInv, TypeOK
<1>2. \A i \in items : i.call \in Written /\ i.end = i.off + Span(i.call)
    BY <1>1 DEF Laid
<1>3. \A c \in Written : Span(c) \in Nat \ {0}
    BY Layout DEF Mapped
<1> QED
    BY <1>1, <1>2, <1>3

\* A primitive that stores bytes adds nothing before the cursor.
LEMMA ValueStored ==
    ASSUME RegionInv, TableInv, ValueInv, RegionInv', TableInv', At("write"), writable, Store
    PROVE  ValueInv'
<1>1. todo # <<>> /\ First.do = "write" /\ First.do \in WriteDos /\ Proceed(<<>>)
    BY DEF At, First, WriteDos, Store
<1>2. /\ UNCHANGED <<offs, torn, mark, writable>>
      /\ size' = size + Need /\ wc' = wc + Need
      /\ words' = {v \in words : v.off < wc}
                 \cup IF First.val = NoVal THEN {} ELSE {[off |-> wc, val |-> First.val]}
      /\ items' = IF Tail(todo) = <<>> /\ First.do = "write"
                  THEN items \cup {[off |-> from, end |-> wc + Need, call |-> call]}
                  ELSE items
    BY DEF Store, table
<1>3. CASE torn
    BY <1>2, <1>3 DEF ValueInv, Intact, Writing, Reading, Entered
<1>4. CASE ~torn
  <2>1. PICK c, p, d, s : c = call /\ p = from /\ d = Done /\ s = WriteSteps(c)
    OBVIOUS
  <2>2. /\ c \in Written /\ Mapped(c, s) /\ ~c.read
        /\ d \in 0 .. Len(s) - 1 /\ First = s[d + 1]
        /\ wc = p + Offset(c, d) /\ Lengths(c, p, d)
        /\ p \in Nat /\ Offset(c, d) \in Nat /\ wc >= p
        /\ \A i \in items : i.end <= p
        /\ \A k \in DOMAIN offs : offs[k] + ObjSize <= p
        /\ mark # <<>> => mark[1] = p
        /\ Tail(todo) = <<>> <=> d + 1 = Len(s)
    BY <1>1, <1>4, <2>1, WritesOn
  <2>3. /\ todo' = Tail(todo) /\ call' = c /\ from' = p /\ Done' = d + 1
        /\ \A e \in DOMAIN todo' : todo'[e] = s[Done' + e]
    BY <1>1, <1>4, <2>1, GoesOn
  <2>4. TypeOK /\ wc \in Nat /\ size = wc /\ offs \in Seq(Nat) /\ size' \in Nat
    BY <1>4 DEF RegionInv, TypeOK, Room, TableInv, TableType
  <2>5. Need \in Nat /\ Need = Bytes(First)
    BY <1>1, Phase DEF Need
  <2>6. /\ wc' = p + Offset(c, d + 1) /\ Offset(c, d + 1) \in Nat
        /\ d + 1 \in 0 .. Len(s) /\ d + 1 \in Nat /\ Len(s) \in Nat
    <3>1. d + 1 \in 0 .. Len(s) /\ d + 1 \in Nat /\ Len(s) \in Nat
        BY <2>2 DEF Mapped
    <3>2. Offset(c, d + 1) = Offset(c, d) + Need /\ Offset(c, d + 1) \in Nat
        BY <1>1, <2>2, <2>5, <3>1 DEF Mapped
    <3> QED
        BY <1>2, <2>2, <2>4, <2>5, <3>1, <3>2
  <2>7. /\ \A v \in words : v.off < wc => v \in words'
        /\ First.val # NoVal => [off |-> wc, val |-> First.val] \in words'
        /\ \A u, v \in words' : u.off = v.off => u = v
    <3>1. \A u, v \in words : u.off = v.off => u = v
        BY <1>4 DEF ValueInv, Intact
    <3>2. \A v \in words : v.off \in Nat
        BY <2>4 DEF TypeOK
    <3> QED
        BY <1>2, <2>4, <3>1, <3>2
  <2>8. Lengths(c, p, d + 1)'
    BY <2>1, <2>2, <2>4, <2>7, LengthsGrow
  <2>9. \A i \in items : Laid(i) /\ i.off \in Nat /\ i.end \in Nat /\ i.off < i.end
    BY <1>4, ItemFacts
  <2>10. ASSUME NEW i \in items
         PROVE  Laid(i)'
    <3>1. i.end <= p /\ i.end <= wc /\ i.end <= size'
      <4>1. PICK x \in Nat : x = i.end /\ x <= p
        BY <2>2, <2>9
      <4>2. size' = wc + Need
        BY <1>2, <2>4
      <4>3. p \in Nat /\ wc >= p
        BY <2>2
      <4>4. wc \in Nat /\ Need \in Nat
        BY <2>4, <2>5
      <4> QED
        BY <4>1, <4>2, <4>3, <4>4
    <3>2. \A v \in words : v.off < i.end => v \in words'
      <4>1. \A v \in words : v.off \in Nat
        BY <2>4 DEF TypeOK
      <4> QED
        BY <2>4, <2>7, <2>9, <3>1, <4>1
    <3> QED
        BY <1>2, <2>4, <2>9, <3>1, <3>2, LaidKept
  <2>11. PICK new : new = [off |-> p, end |-> wc', call |-> c]
    OBVIOUS
  <2>12. items' = IF Tail(todo) = <<>> THEN items \cup {new} ELSE items
    BY <1>1, <1>2, <2>1, <2>11
  <2>13. ASSUME Tail(todo) = <<>>
         PROVE  Laid(new)'
    <3>1. new.call = c /\ new.off = p /\ new.end = wc'
        BY <2>11
    <3>2. d + 1 = Len(s) /\ Len(s) \in 1 .. Len(s)
        BY <2>2, <2>6, <2>13
    <3>3. Offset(c, d + 1) = Span(c) /\ ~HasObject(c)
        BY <1>1, <2>2, <3>2 DEF Mapped
    <3>4. wc' = p + Span(c) /\ wc' = size'
        BY <1>2, <2>4, <2>6, <3>3
    <3>5. Lengths(c, p, Len(s))'
        BY <2>8, <3>2
    <3>6. \A k \in DOMAIN offs' : offs'[k] + ObjSize <= p
        BY <1>2, <2>2
    <3> QED
        BY <2>1, <2>2, <2>4, <3>1, <3>3, <3>4, <3>5, <3>6 DEF Laid, Free
  <2>14. Intact'
    <3>1. \A i \in items' : Laid(i)'
        BY <2>10, <2>12, <2>13
    <3>2. \A i, j \in items' : i.off = j.off => i = j
      <4>1. \A i, j \in items : i.off = j.off => i = j
        BY <1>4 DEF ValueInv, Intact
      <4>2. \A i \in items : i.off # p
        BY <2>2, <2>9
      <4>3. new.off = p
        BY <2>11
      <4> QED
        BY <2>12, <4>1, <4>2, <4>3
    <3> QED
        BY <1>2, <2>7, <3>1, <3>2 DEF Intact
  <2>15. Writing'
    <3> SUFFICES ASSUME todo' # <<>>
                 PROVE  /\ call' \in Written
                        /\ Done' \in Nat
                        /\ \A e \in DOMAIN todo' : todo'[e] = WriteSteps(call')[Done' + e]
                        /\ wc' = from' + Offset(call', Done')
                        /\ Lengths(call, from, Done)'
                        /\ mark' # <<>> => mark'[1] = from'
                        /\ \A i \in items' : i.end <= from'
                        /\ \A k \in DOMAIN offs' : offs'[k] + ObjSize <= from'
        BY DEF Writing
    <3>1. items' = items
        BY <2>3, <2>12
    <3>2. Lengths(call, from, Done)'
        BY <2>3, <2>8 DEF Lengths
    <3> QED
        BY <1>2, <2>1, <2>2, <2>3, <2>6, <3>1, <3>2
  <2>16. Reading' /\ Entered'
    BY <1>2, <2>2, <2>3 DEF Reading, Entered
  <2> QED
    BY <2>14, <2>15, <2>16 DEF ValueInv
<1> QED
    BY <1>3, <1>4

\* A call that is over keeps the values when it keeps the data.
LEMMA ValueEnded ==
    ASSUME Intact', todo' = <<>>, ~call.read'
    PROVE  ValueInv'
BY DEF ValueInv, Writing, Reading, Entered, At

\* The data and the table are cut at p.
LEMMA IntactCut ==
    ASSUME RegionInv, TableInv, ValueInv, NEW p \in Nat, torn' = torn, writable' = writable,
           ~torn => p <= size /\ size' = p, CutGhosts(p), offs' \in Seq(Nat),
           ~torn => \A k \in DOMAIN offs : offs[k] + ObjSize <= p =>
                        \E j \in DOMAIN offs' : offs'[j] = offs[k],
           ~torn => \A j \in DOMAIN offs' : \E k \in DOMAIN offs : offs[k] = offs'[j]
    PROVE  Intact'
<1> SUFFICES ASSUME ~torn
             PROVE  Intact'
    BY DEF Intact
<1>1. /\ words' = {v \in words : v.off < p} /\ items' = {i \in items : i.end <= p}
    BY DEF CutGhosts
<1>2. /\ ~writable => items = {}
      /\ \A u, v \in words : u.off = v.off => u = v
      /\ \A i, j \in items : i.off = j.off => i = j
    BY DEF ValueInv, Intact
<1>3. TypeOK /\ offs \in Seq(Nat) /\ \A v \in words : v.off \in Nat
    BY DEF RegionInv, TypeOK, TableInv, TableType
<1>4. ASSUME NEW i \in items, i.end <= p
      PROVE  Laid(i)'
  <2>1. Laid(i) /\ i.end \in Nat
    BY ItemFacts
  <2>2. \A v \in words : v.off < i.end => v \in words'
    BY <1>1, <1>3, <1>4, <2>1
  <2>3. \A k \in DOMAIN offs : offs[k] + ObjSize <= i.end =>
            \E j \in DOMAIN offs' : offs'[j] = offs[k]
    <3>1. \A k \in DOMAIN offs : offs[k] \in Nat
        BY <1>3
    <3> QED
        BY <1>4, <2>1, <3>1 DEF ObjSize
  <2> QED
    BY <1>3, <1>4, <2>1, <2>2, <2>3, LaidKept
<1> QED
    BY <1>1, <1>2, <1>4 DEF Intact

\* A primitive that fails: WriteParcelable takes back its own words only.
LEMMA ValueRolledBack ==
    ASSUME RegionInv, TableInv, ValueInv, todo # <<>>, First.do \in WriteDos, Fail, RollBack,
           UNCHANGED <<torn, writable, offs>>
    PROVE  ValueInv'
<1>1. ~call.read /\ todo' = <<>> /\ call' = call
    BY Phase DEF Fail
<1>2. CASE mark = <<>>
  <2>1. UNCHANGED <<size, words, items>>
    BY <1>2 DEF RollBack, ghosts
  <2> QED
    BY <1>1, <2>1, IntactSame, ValueEnded DEF ValueInv
<1>3. CASE mark # <<>>
  <2>1. size' = mark[2] /\ CutGhosts(mark[1])
    BY <1>3 DEF RollBack
  <2>2. CASE torn
    BY <1>1, <2>2, ValueEnded DEF Intact
  <2>3. CASE ~torn /\ ~writable
    <3>1. items' = {} /\ words' \subseteq words
        BY <2>1, <2>3 DEF CutGhosts, ValueInv, Intact
    <3>2. Intact'
        BY <2>3, <3>1 DEF ValueInv, Intact
    <3> QED
        BY <1>1, <3>2, ValueEnded
  <2>4. CASE ~torn /\ writable
    <3>1. mark[1] = from /\ from \in Nat /\ from <= wc /\ wc = size
          /\ \A k \in DOMAIN offs : offs[k] + ObjSize <= from
        BY <1>3, <2>4, WritesOn DEF RegionInv, Room
    <3>2. mark[1] = mark[2]
        BY <1>1, <1>3, <2>4 DEF RegionInv, Marked
    <3>3. offs' \in Seq(Nat)
        BY DEF TableInv, TableType
    <3>4. Intact'
        BY <2>1, <2>4, <3>1, <3>2, <3>3, IntactCut
    <3> QED
        BY <1>1, <3>4, ValueEnded
  <2> QED
    BY <2>2, <2>3, <2>4
<1> QED
    BY <1>2, <1>3

\* Saving the position and making room for an entry store nothing.
LEMMA ValueEnsured ==
    ASSUME RegionInv, TableInv, ValueInv, MarkPosition \/ EnsureObjectsCapacity
    PROVE  ValueInv'
<1>1. todo # <<>> /\ First.do \in {"mark", "objects"} /\ First.do \in WriteDos /\ Proceed(<<>>)
    BY DEF MarkPosition, EnsureObjectsCapacity, At, First, WriteDos
<1>2. /\ UNCHANGED <<offs, torn, writable, size, wc, words, items>>
      /\ mark' = mark \/ (First.do = "mark" /\ mark' = <<wc, size>>)
    BY DEF MarkPosition, EnsureObjectsCapacity, table, region, ghosts, At, First
<1>3. Intact'
    BY <1>2, IntactSame DEF ValueInv
<1>4. ~call.read /\ call' = call /\ ~At("offset")'
    BY <1>1, WritingTail
<1>5. Writing'
  <2> SUFFICES ASSUME ~torn, writable, todo' # <<>>
               PROVE  Writing'
    BY <1>2 DEF Writing
  <2>1. PICK c, p, d, s : c = call /\ p = from /\ d = Done /\ s = WriteSteps(c)
    OBVIOUS
  <2>2. /\ c \in Written /\ Mapped(c, s)
        /\ d \in 0 .. Len(s) - 1 /\ First = s[d + 1]
        /\ wc = p + Offset(c, d) /\ Lengths(c, p, d) /\ p \in Nat
        /\ \A i \in items : i.end <= p
        /\ \A k \in DOMAIN offs : offs[k] + ObjSize <= p
        /\ mark # <<>> => mark[1] = p
    BY <1>1, <2>1, WritesOn
  <2>3. /\ call' = c /\ from' = p /\ Done' = d + 1
        /\ \A e \in DOMAIN todo' : todo'[e] = s[Done' + e]
    BY <1>1, <2>1, GoesOn
  <2>4. Offset(c, d + 1) = Offset(c, d) /\ s[d + 1].val = NoVal /\ d + 1 \in Nat
    <3>1. s[d + 1].do # "write" /\ d \in Nat
        BY <1>1, <2>2
    <3> QED
        BY <2>2, <3>1, NoLength
  <2>5. Lengths(c, p, d + 1)'
    <3>1. TypeOK
        BY DEF RegionInv
    <3> QED
        BY <1>2, <2>1, <2>2, <2>4, <3>1, LengthsGrow
  <2>6. Lengths(call, from, Done)'
    BY <2>3, <2>5 DEF Lengths
  <2>7. mark' # <<>> => mark'[1] = p
    <3>1. ASSUME First.do = "mark"
          PROVE  wc = p
      <4>1. d + 1 \in 1 .. Len(s) /\ d + 1 = 1
        BY <2>2, <3>1 DEF Mapped
      <4>2. d = 0 /\ Offset(c, 0) = 0
        BY <2>2, <4>1 DEF Mapped
      <4> QED
        BY <2>2, <4>2
    <3>2. <<wc, size>>[1] = wc
        OBVIOUS
    <3> QED
        BY <1>2, <2>2, <3>1, <3>2
  <2> HIDE DEF Done
  <2> QED
    BY <1>2, <2>1, <2>2, <2>3, <2>4, <2>6, <2>7 DEF Writing
<1> QED
    BY <1>3, <1>4, <1>5 DEF ValueInv, Reading, Entered

\* WriteObjectOffset: the value that ends with the object is whole.
LEMMA ValueOffset ==
    ASSUME RegionInv, TableInv, ValueInv, RegionInv', TableInv', WriteObjectOffset
    PROVE  ValueInv'
<1>1. todo # <<>> /\ First.do = "offset" /\ First.do \in WriteDos /\ Proceed(<<>>)
      /\ At("offset") /\ writable
    BY DEF WriteObjectOffset, At, First, WriteDos, ValueInv, Entered
<1>2. ~call.read /\ call' = call /\ todo' = <<>>
  <2>1. /\ ~call.read /\ call' = call /\ todo' = Tail(todo) /\ todo \in Seq(WSteps)
        /\ Ordered(todo) /\ First = todo[1]
    BY <1>1, WritingTail
  <2>2. 1 \in DOMAIN todo
    BY <1>1, <2>1
  <2>3. 1 = Len(todo)
    BY <1>1, <2>1, <2>2 DEF Ordered
  <2> QED
    BY <2>1, <2>3
<1>3. /\ UNCHANGED <<torn, writable, size, wc, words>>
      /\ offs' = IF place > size \/ InTable(place) THEN offs ELSE Append(offs, place)
      /\ items' = items \cup {[off |-> from, end |-> wc, call |-> call]}
    BY DEF WriteObjectOffset, region
<1>4. Intact'
  <2> SUFFICES ASSUME ~torn
               PROVE  Intact'
    BY <1>3 DEF Intact
  <2>1. PICK c, p, d, s, new : /\ c = call /\ p = from /\ d = Done /\ s = WriteSteps(c)
                               /\ new = [off |-> p, end |-> wc, call |-> c]
    OBVIOUS
  <2>2. /\ c \in Written /\ Mapped(c, s)
        /\ d \in 0 .. Len(s) - 1 /\ First = s[d + 1]
        /\ wc = p + Offset(c, d) /\ Lengths(c, p, d) /\ p \in Nat
        /\ \A i \in items : i.end <= p
        /\ \A k \in DOMAIN offs : offs[k] + ObjSize <= p
    BY <1>1, <2>1, WritesOn
  <2>3. Len(s) \in Nat /\ d + 1 \in 1 .. Len(s)
    BY <2>2 DEF Mapped
  <2>4. HasObject(c) /\ d + 1 = Len(s) /\ Offset(c, d) = Span(c)
    <3>1. HasObject(c) /\ d + 1 = Len(s)
        BY <1>1, <2>2, <2>3 DEF Mapped
    <3>2. Len(s) - 1 = d
        BY <2>2, <2>3, <3>1
    <3> QED
        BY <2>2, <3>1, <3>2 DEF Mapped
  <2>5. /\ size = wc /\ size \in Nat /\ place \in Nat /\ place + ObjSize = size
        /\ offs \in Seq(Nat) /\ offs' \in Seq(Nat) /\ TypeOK
    BY <1>1 DEF RegionInv, TypeOK, Room, TableInv, TableType, Placed
  <2>6. place = ObjectAt(c, p) /\ place >= p
    <3>1. ObjectAt(c, p) \in Nat /\ ObjectAt(c, p) >= p /\ ObjectAt(c, p) + ObjSize = wc
        BY <2>2, <2>4, ObjectEnds
    <3>2. ObjSize \in Nat /\ place + ObjSize = ObjectAt(c, p) + ObjSize
        BY <2>5, <3>1 DEF ObjSize
    <3>3. \A a, b, k \in Nat : a + k = b + k => a = b
        OBVIOUS
    <3>4. place = ObjectAt(c, p)
        BY <2>5, <3>1, <3>2, <3>3
    <3> QED
        BY <3>1, <3>4
  <2>7. offs' = Append(offs, place)
    <3>1. ~(place > size)
        BY <2>5 DEF ObjSize
    <3>2. \A k \in DOMAIN offs : offs[k] \in Nat /\ offs[k] # place
      <4>1. \A k \in DOMAIN offs : offs[k] \in Nat
        BY <2>5
      <4> QED
        BY <2>2, <2>5, <2>6, <4>1 DEF ObjSize
    <3> QED
        BY <1>3, <3>1, <3>2 DEF InTable
  <2>8. /\ \A k \in DOMAIN offs : k \in DOMAIN offs' /\ offs'[k] = offs[k]
        /\ \E j \in DOMAIN offs' : offs'[j] = place
        /\ \A j \in DOMAIN offs' : offs'[j] = place \/ \E k \in DOMAIN offs : offs[k] = offs'[j]
    <3>1. Len(offs) \in Nat /\ DOMAIN offs = 1 .. Len(offs)
        BY <2>5
    <3>2. /\ DOMAIN offs' = 1 .. Len(offs) + 1 /\ offs'[Len(offs) + 1] = place
          /\ \A k \in 1 .. Len(offs) : offs'[k] = offs[k]
        BY <2>5, <2>7
    <3> QED
        BY <3>1, <3>2
  <2>9. ASSUME NEW i \in items
        PROVE  Laid(i)'
    <3>1. Laid(i) /\ i.end \in Nat /\ i.end <= p
        BY <2>2, ItemFacts
    <3>2. i.end <= size' /\ size' \in Nat
        BY <1>3, <2>5, <2>6, <3>1 DEF Laid
    <3>3. \A j \in DOMAIN offs' : offs'[j] >= i.end \/ \E k \in DOMAIN offs : offs[k] = offs'[j]
      <4>1. place >= i.end
        BY <2>2, <2>5, <2>6, <3>1
      <4> QED
        BY <2>8, <4>1
    <3>4. \A k \in DOMAIN offs : \E j \in DOMAIN offs' : offs'[j] = offs[k]
        BY <2>8
    <3> QED
        BY <1>3, <2>5, <3>1, <3>2, <3>3, <3>4, LaidKept
  <2>10. Laid(new)'
    <3>1. new.call = c /\ new.off = p /\ new.end = wc
        BY <2>1
    <3>2. Lengths(c, p, Len(s))'
      <4>1. s[d + 1].val = NoVal
        BY <1>1, <2>2, NoLength
      <4>2. Lengths(c, p, d + 1)'
        BY <1>3, <2>1, <2>2, <2>5, <4>1, LengthsGrow
      <4> QED
        BY <2>4, <4>2
    <3>3. InTable(ObjectAt(c, p))'
        BY <2>6, <2>8 DEF InTable
    <3>4. Free(p, ObjectAt(c, p))'
      <4>1. \A j \in DOMAIN offs' : offs'[j] + ObjSize <= p \/ offs'[j] >= ObjectAt(c, p)
        <5> TAKE j \in DOMAIN offs'
        <5>1. CASE offs'[j] = place
            BY <2>5, <2>6, <5>1
        <5>2. CASE \E k \in DOMAIN offs : offs[k] = offs'[j]
            BY <2>2, <5>2
        <5> QED
            BY <2>8, <5>1, <5>2
      <4> QED
        BY <4>1 DEF Free
    <3>5. new.end <= size'
        BY <1>3, <2>5, <3>1
    <3> QED
        BY <2>1, <2>2, <2>4, <3>1, <3>2, <3>3, <3>4, <3>5 DEF Laid
  <2>11. items' = items \cup {new}
    BY <1>3, <2>1
  <2>12. \A i, j \in items' : i.off = j.off => i = j
    <3>1. \A i, j \in items : i.off = j.off => i = j
        BY DEF ValueInv, Intact
    <3>2. \A i \in items : i.off # p
        BY <2>2, ItemFacts
    <3>3. new.off = p
        BY <2>1
    <3> QED
        BY <2>11, <3>1, <3>2, <3>3
  <2>13. \A i \in items' : Laid(i)'
    BY <2>9, <2>10, <2>11
  <2>14. \A u, v \in words' : u.off = v.off => u = v
    BY <1>3 DEF ValueInv, Intact
  <2> QED
    BY <1>1, <1>3, <2>12, <2>13, <2>14 DEF Intact
<1> QED
    BY <1>2, <1>4, ValueEnded

\* The record of a call stands for the call.
LEMMA SameCall ==
    ASSUME NEW c \in Calls, NEW r, r.op = c.op, r.n = c.n, r.w = c.w
    PROVE  WriteSteps(r) = WriteSteps(c) /\ ReadSteps(r) = ReadSteps(c)
BY DEF WriteSteps, ReadSteps

\* A value begins to be written behind all others, or to be read from its
\* beginning.
LEMMA ValueBegin ==
    ASSUME RegionInv, TableInv, ValueInv, NEW c \in Calls, BeginWrite(c) \/ BeginRead(c)
    PROVE  ValueInv'
<1>1. c.op \in Ops /\ c.n \in Int /\ c.w \in Nat \ {0} /\ (c.op # "string" => c.n >= 0)
      /\ (c.op \in {"buffer", "raw"} => c.n > 0)
    BY ParcelConstants
<1>2. UNCHANGED <<torn, writable, words, items, size, offs, wc, rc>>
    BY DEF BeginWrite, BeginRead, region, ghosts, table
<1>3. Intact'
    BY <1>2, IntactSame DEF ValueInv
<1>4. CASE BeginWrite(c)
  <2>1. /\ todo' = WriteSteps(c) /\ from' = wc /\ mark' = <<>>
        /\ call' = [op |-> c.op, n |-> c.n, w |-> c.w, read |-> FALSE]
    BY <1>4 DEF BeginWrite
  <2>2. ~call'.read /\ call'.op = c.op /\ call'.n = c.n /\ call'.w = c.w
    BY <2>1
  <2>3. call' \in Written
    BY <1>1, <2>1 DEF Written, CallRecs
  <2>4. WriteSteps(call') = WriteSteps(c)
    BY <2>2, SameCall
  <2>5. Mapped(call', todo') /\ Len(todo') \in Nat
    <3>1. PICK r \in Written : r = call' /\ WriteSteps(r) = todo'
        BY <2>1, <2>3, <2>4
    <3>2. Mapped(r, WriteSteps(r))
        BY <3>1, Layout
    <3>3. Len(WriteSteps(r)) \in Nat
        BY <3>2 DEF Mapped
    <3> QED
        BY <3>1, <3>2, <3>3
  <2>6. Done' = 0
    BY <2>1, <2>4, <2>5 DEF Done
  <2>7. Offset(call', 0) = 0 /\ \A e \in DOMAIN todo' : e \in Nat
    BY <2>5 DEF Mapped
  <2>8. Writing'
    <3> SUFFICES ASSUME ~torn, writable
                 PROVE  Writing'
        BY <1>2 DEF Writing
    <3>1. size = wc /\ wc \in Nat
        BY DEF RegionInv, TypeOK, Room
    <3>2. \A i \in items : i.end <= wc
        BY <3>1, ItemFacts DEF Laid
    <3>3. \A k \in DOMAIN offs : offs[k] + ObjSize <= wc
        BY <3>1 DEF TableInv, Lined
    <3>4. \A e \in DOMAIN todo' : todo'[e] = WriteSteps(call')[Done' + e]
        BY <2>1, <2>4, <2>6, <2>7
    <3>5. Lengths(call, from, Done)'
        BY <2>6 DEF Lengths
    <3>6. wc' = from' + Offset(call', Done')
        BY <1>2, <2>1, <2>6, <2>7, <3>1
    <3> HIDE DEF Done
    <3> QED
        BY <1>2, <2>1, <2>3, <2>6, <3>2, <3>3, <3>4, <3>5, <3>6 DEF Writing
  <2>9. Entered'
    <3>1. todo' # <<>> /\ Head(todo') = todo'[1] /\ 1 \in DOMAIN WriteSteps(c)
        BY <2>1, WriteShape
    <3> QED
        BY <2>1, <3>1, WriteShape DEF Entered, At
  <2> QED
    BY <1>3, <2>2, <2>8, <2>9 DEF ValueInv, Reading
<1>5. CASE BeginRead(c)
  <2>1. /\ todo' = ReadSteps(c) /\ from' = rc
        /\ call' = [op |-> c.op, n |-> c.n, w |-> c.w, read |-> TRUE]
    BY <1>5 DEF BeginRead
  <2>2. call'.read
    BY <2>1
  <2>3. todo' # <<>> /\ todo' \in Seq(RSteps)
    BY <2>1, ReadShape
  <2>4. Reading'
    <3> SUFFICES ASSUME NEW i \in items, i.off = rc, i.call = [call' EXCEPT !.read = FALSE]
                 PROVE  todo' = ReadSteps(i.call) /\ rc' = i.off
        BY <1>2, <2>1, <2>3 DEF Reading, ReadsBack, Arrived, Reached
    <3>1. i.call.op = c.op /\ i.call.n = c.n /\ i.call.w = c.w
        BY <2>1
    <3> QED
        BY <1>2, <2>1, <3>1, SameCall
  <2>5. Entered'
    <3>1. Head(todo') \in RSteps
        BY <2>3
    <3> QED
        BY <3>1 DEF Entered, At, RSteps, ReadDos
  <2> QED
    BY <1>3, <2>2, <2>4, <2>5 DEF ValueInv, Writing
<1> QED
    BY <1>4, <1>5

\* A call that is one step keeps the values when it keeps the data.
LEMMA ValueReturned ==
    ASSUME Intact', NEW yes, Returns(yes)
    PROVE  ValueInv'
BY ValueEnded, NoCallType DEF Returns

\* RewindWrite keeps the values that end before the new end.
LEMMA ValueRewound ==
    ASSUME RegionInv, TableInv, ValueInv, NEW p \in Nat, RewindWrite(p), TableInv'
    PROVE  ValueInv'
<1>1. /\ size' = p /\ p <= size /\ CutGhosts(p) /\ writable' = writable
    BY DEF RewindWrite
<1>2. offs \in Seq(Nat) /\ offs' \in Seq(Nat) /\ Len(offs) \in Nat
    BY DEF TableInv, TableType
<1>3. PICK k \in 0 .. Len(offs), yes \in BOOLEAN :
        /\ Kept(p, k) /\ Returns(yes)
        /\ \/ k = Len(offs) /\ UNCHANGED <<torn, offs>>
           \/ k = 0 /\ offs' = <<>> /\ UNCHANGED torn
           \/ 0 < k /\ k < Len(offs) /\ offs' = SubSeq(offs, 1, k) /\ UNCHANGED torn
           \/ torn' = TRUE
    BY DEF RewindWrite, ClearTable
<1>4. CASE torn' = TRUE
    BY <1>3, <1>4, ValueReturned DEF Intact
<1>5. CASE torn' = torn /\ DOMAIN offs' = 1 .. k /\ \A j \in 1 .. k : offs'[j] = offs[j]
  <2>1. \A j \in DOMAIN offs : j \in 1 .. k \/ j \in k + 1 .. Len(offs)
    BY <1>2
  <2>2. \A j \in DOMAIN offs : offs[j] + ObjSize <= p => j \in DOMAIN offs' /\ offs'[j] = offs[j]
    <3>1. \A j \in k + 1 .. Len(offs) : offs[j] + ObjSize > p /\ offs[j] \in Nat
        BY <1>2, <1>3 DEF Kept
    <3> QED
        BY <1>5, <2>1, <3>1 DEF ObjSize
  <2>3. \A j \in DOMAIN offs' : j \in DOMAIN offs /\ offs[j] = offs'[j]
    BY <1>2, <1>5
  <2>4. Intact'
    BY <1>1, <1>2, <1>5, <2>2, <2>3, IntactCut
  <2> QED
    BY <1>3, <2>4, ValueReturned
<1> QED
  <2>1. CASE k = Len(offs) /\ UNCHANGED <<torn, offs>>
    BY <1>2, <1>5, <2>1
  <2>2. CASE k = 0 /\ offs' = <<>> /\ UNCHANGED torn
    BY <1>5, <2>2
  <2>3. CASE 0 < k /\ k < Len(offs) /\ offs' = SubSeq(offs, 1, k) /\ UNCHANGED torn
    BY <1>2, <1>5, <2>3
  <2> QED
    BY <1>3, <1>4, <2>1, <2>2, <2>3

\* Data that holds no value keeps holding none.
LEMMA IntactEmpty ==
    ASSUME ValueInv, ~torn => items' = {} /\ words' \subseteq words, torn' = torn
    PROVE  Intact'
BY DEF ValueInv, Intact

\* Every call that is one step keeps the values.
LEMMA ValueOneStep ==
    ASSUME RegionInv, TableInv, ValueInv, TableInv',
           \/ \E p \in Positions : RewindRead(p) \/ RewindWrite(p) \/ RewindWriteRefused(p)
           \/ \E n \in Capacities : SetDataCapacity(n) \/ SetMaxCapacity(n) \/ ParseFrom(n)
           \/ \E n \in Sizes : SetDataSize(n)
           \/ \E n \in {4, 100} : SkipBytes(n)
           \/ \E t \in SenderTables : InjectOffsets(t)
           \/ SetAllocator \/ FlushBuffer
    PROVE  ValueInv'
<1>1. ASSUME NEW p \in Positions, RewindWrite(p)
      PROVE  ValueInv'
  <2>1. p \in Nat
    BY PositionType DEF RegionInv
  <2> QED
    BY <1>1, <2>1, ValueRewound
<1>2. CASE \E p \in Positions : RewindRead(p) \/ RewindWriteRefused(p)
  <2>1. (\E yes : Returns(yes)) /\ UNCHANGED <<torn, writable, words, items, size, offs>>
    BY <1>2 DEF RewindRead, RewindWriteRefused, region, table, ghosts
  <2> QED
    BY <2>1, IntactSame, ValueReturned DEF ValueInv
<1>3. CASE \/ \E n \in Capacities : SetDataCapacity(n) \/ SetMaxCapacity(n)
           \/ \E n \in {4, 100} : SkipBytes(n)
           \/ SetAllocator
  <2>1. (\E yes : Returns(yes)) /\ UNCHANGED <<torn, writable, words, items, size, offs>>
    BY <1>3 DEF SetDataCapacity, SetMaxCapacity, SkipBytes, SetAllocator, region, table, ghosts
  <2> QED
    BY <2>1, IntactSame, ValueReturned DEF ValueInv
<1>4. ASSUME NEW n \in Capacities, ParseFrom(n)
      PROVE  ValueInv'
  <2>1. (\E yes : Returns(yes)) /\ UNCHANGED <<torn, words, items>>
    BY <1>4 DEF ParseFrom, ghosts
  <2>2. CASE data
    <3>1. UNCHANGED <<writable, size, offs>>
        BY <1>4, <2>2 DEF ParseFrom, table
    <3> QED
        BY <2>1, <3>1, IntactSame, ValueReturned DEF ValueInv
  <2>3. CASE ~data
    <3>1. size = 0
        BY <2>3 DEF RegionInv, Room
    <3>2. ~torn => items = {}
        BY <3>1, ItemFacts DEF Laid
    <3> QED
        BY <2>1, <3>2, IntactEmpty, ValueReturned
  <2> QED
    BY <2>2, <2>3
<1>5. ASSUME NEW n \in Sizes, SetDataSize(n)
      PROVE  ValueInv'
  <2>1. (\E yes : Returns(yes)) /\ torn' = TRUE
    BY <1>5 DEF SetDataSize
  <2> QED
    BY <2>1, ValueReturned DEF Intact
<1>6. ASSUME NEW t \in SenderTables, InjectOffsets(t)
      PROVE  ValueInv'
  <2>1. Returns(TRUE) /\ UNCHANGED <<torn, words, items>> /\ ~writable
    BY <1>6 DEF InjectOffsets, region, ghosts
  <2>2. ~torn => items = {}
    BY <2>1 DEF ValueInv, Intact
  <2> QED
    BY <2>1, <2>2, IntactEmpty, ValueReturned
<1>7. CASE FlushBuffer
  <2>1. Returns(TRUE) /\ words' = {} /\ items' = {}
    BY <1>7 DEF FlushBuffer
  <2> QED
    BY <2>1, ValueReturned DEF Intact
<1> QED
    BY <1>1, <1>2, <1>3, <1>4, <1>5, <1>6, <1>7

-----------------------------------------------------------------------------
(* Reading a value: where the call is and what it finds there.             *)

\* Bytes that are in the data and belong to no object can be read.
LEMMA Readable ==
    ASSUME RegionInv, TableInv, NEW p \in Nat, NEW q \in Nat, Free(p, q), q <= size,
           NEW n \in Nat, p <= rc, rc + n <= q
    PROVE  n <= GetReadableBytes /\ ~Refused(rc + n) /\ ~ReadFails(n)
<1>1. rc \in Nat /\ size \in Nat /\ ObjSize \in Nat
    BY DEF RegionInv, TypeOK, ObjSize
<1>2. offs \in Seq(Nat) /\ nextObj \in Nat
    BY DEF TableInv, TableType
<1>3. n <= GetReadableBytes
    BY <1>1 DEF GetReadableBytes
<1>4. ASSUME NEW k \in nextObj .. Len(offs), Passed(k, rc + n)
      PROVE  ClearOf(k)
  <2> SUFFICES ASSUME NEW j \in nextObj + 1 .. k
               PROVE  rc >= offs[j] + ObjSize
    BY DEF ClearOf
  <2>1. j \in DOMAIN offs /\ offs[j] \in Nat
    BY <1>2
  <2>2. offs[j] < rc + n
    BY <1>4 DEF Passed
  <2>3. offs[j] + ObjSize <= p \/ offs[j] >= q
    BY <2>1 DEF Free
  <2> QED
    BY <1>1, <2>1, <2>2, <2>3
<1>5. ~Refused(rc + n)
    BY <1>4 DEF Refused
<1> QED
    BY <1>1, <1>3, <1>5 DEF ReadFails, GetReadableBytes

\* Padding that is in the data is skipped.
LEMMA Skips ==
    ASSUME TypeOK, NEW p \in Nat, NEW b \in Nat, p + b <= size
    PROVE  Skipped(p, b) = p + b
BY DEF Skipped, ReadableAt, TypeOK

\* A length that was written is the one that is read.
LEMMA OneLength ==
    ASSUME ValueInv, ~torn, NEW p, NEW v, [off |-> p, val |-> v] \in words
    PROVE  LengthsAt(p) = {v}
<1> DEFINE x == [off |-> p, val |-> v]
<1>1. x.off = p /\ x.val = v /\ x \in words
    OBVIOUS
<1> HIDE DEF x
<1>2. \A y \in words : y.off = p => y = x
    BY <1>1 DEF ValueInv, Intact
<1> QED
    BY <1>1, <1>2 DEF LengthsAt

\* A reading call whose first primitive succeeded.
LEMMA ReadOn ==
    ASSUME RegionInv, call.read, todo # <<>>, Proceed(<<>>)
    PROVE  /\ call' = call /\ from' = from
           /\ todo' \in Seq(RSteps) /\ Len(todo) \in Nat \ {0} /\ Len(todo') = Len(todo) - 1
           /\ \A e \in DOMAIN todo' : e \in Nat \ {0} /\ e + 1 \in DOMAIN todo /\ todo'[e] = todo[e + 1]
           /\ Len(todo) = 1 => todo' = <<>> /\ ret' = "true"
<1>1. todo \in Seq(RSteps)
    BY DEF RegionInv, Running
<1>2. Tail(todo) \in Seq(RSteps)
    BY <1>1
<1>3. <<>> \o Tail(todo) = Tail(todo)
    BY <1>2, ConcatEmptySeq
<1>4. /\ todo' = Tail(todo) /\ call' = call /\ from' = from
      /\ ret' = IF Tail(todo) = <<>> THEN "true" ELSE "busy"
    BY <1>3 DEF Proceed
<1> QED
    BY <1>1, <1>4

\* The length at the beginning of a value.
LengthOf(c) ==
    CASE c.op = "string" -> IF c.n < 0 THEN -1 ELSE c.n
      [] c.op \in {"vector", "strings"} -> c.n
      [] c.op \in {"null", "strongnull"} -> 0
      [] c.op \in {"plain", "remote"} -> 1

\* It is where the value begins.
LEMMA FirstLength ==
    ASSUME NEW i, Laid(i), i.off \in Nat,
           i.call.op \in {"string", "vector", "strings", "null", "strongnull", "plain", "remote"}
    PROVE  [off |-> i.off, val |-> LengthOf(i.call)] \in words /\ LengthOf(i.call) \in Int
<1>1. PICK c \in Written : c = i.call
    BY DEF Laid
<1>2. PICK s : s = WriteSteps(c)
    OBVIOUS
<1>3. Mapped(c, s) /\ Lengths(c, i.off, Len(s))
    BY <1>1, <1>2, Layout DEF Laid
<1>4. \A e \in 1 .. Len(s) :
        s[e].val # NoVal => [off |-> i.off + Offset(c, e - 1), val |-> s[e].val] \in words
    BY <1>2, <1>3 DEF Lengths
<1>5. c.n \in Int /\ (c.op # "string" => c.n \in Nat)
    BY WrittenType
<1>6. ASSUME NEW v \in Int, v # NoVal, NEW e \in 1 .. Len(s), s[e] = Word(v), Offset(c, e - 1) = 0
      PROVE  [off |-> i.off, val |-> v] \in words
  <2>1. s[e].val = v
    BY <1>6, WordFacts
  <2> QED
    BY <1>4, <1>6, <2>1
<1>7. Len(s) \in Nat /\ 1 \in 1 .. Len(s) /\ 1 - 1 = 0 /\ Offset(c, 0) = 0
    BY <1>3 DEF Mapped
<1>8. CASE c.op = "remote"
  <2>1. s = <<Step("mark", 0), Word(1), Step("objects", 0), Padded(ObjSize), Step("offset", c.n)>>
    BY <1>2, <1>8, StepsOf
  <2>2. Len(s) = 5 /\ s[2] = Word(1)
    BY <2>1
  <2>3. 2 \in 1 .. Len(s) /\ 2 - 1 = 1 /\ Offset(c, 1) = 0
    BY <1>8, <2>2 DEF Offset
  <2>4. LengthOf(c) = 1
    BY <1>8 DEF LengthOf
  <2>5. [off |-> i.off, val |-> 1] \in words
    BY <1>6, <2>2, <2>3 DEF NoVal
  <2> QED
    BY <1>1, <2>4, <2>5
<1>9. CASE c.op # "remote"
  <2>1. c.op = "string" /\ c.n < 0 => s[1] = Word(-1)
    BY <1>2, StepsOf
  <2>2. c.op = "string" /\ c.n >= 0 => s[1] = Word(c.n)
    BY <1>2, StepsOf
  <2>3. c.op \in {"vector", "strings"} => s[1] = Word(c.n)
    BY <1>2, StepsOf
  <2>4. c.op \in {"null", "strongnull"} => s[1] = Word(0)
    BY <1>2, StepsOf
  <2>5. c.op = "plain" => s[1] = Word(1)
    BY <1>2, StepsOf
  <2>6. c.op \in {"string", "vector", "strings", "null", "strongnull", "plain"}
    BY <1>1, <1>9
  <2>7. s[1] = Word(LengthOf(c)) /\ LengthOf(c) \in Int /\ LengthOf(c) # NoVal
    BY <1>5, <2>1, <2>2, <2>3, <2>4, <2>5, <2>6 DEF LengthOf, NoVal
  <2> QED
    BY <1>1, <1>6, <1>7, <2>7
<1> QED
    BY <1>8, <1>9

\* And the lengths of the strings of a vector are where each begins.
LEMMA NthLength ==
    ASSUME NEW i, Laid(i), i.off \in Nat, i.call.op = "strings",
           NEW q \in 0 .. i.call.n - 1
    PROVE  [off |-> i.off + 4 + q * Unit(i.call), val |-> 1] \in words
<1>1. PICK c \in Written : c = i.call
    BY DEF Laid
<1>2. PICK s : s = WriteSteps(c)
    OBVIOUS
<1>3. Lengths(c, i.off, Len(s))
    BY <1>1, <1>2 DEF Laid
<1>4. c.n \in Nat /\ Offset(c, 2 * q + 1) = 4 + q * Unit(c) /\ q * Unit(c) \in Nat
  <2>1. c.n \in Nat /\ \A a \in 0 .. c.n : Offset(c, 2 * a + 1) = 4 + a * Unit(c) /\ a * Unit(c) \in Nat
    BY <1>1, StringOffsets
  <2>2. q \in 0 .. c.n
    BY <1>1, <2>1
  <2> QED
    BY <2>1, <2>2
<1>5. PICK e \in Nat : e = 2 * q + 2
    BY <1>1, <1>4
<1>6. e \in 2 .. 2 * c.n + 1 /\ e % 2 = 0 /\ e - 1 = 2 * q + 1
    BY <1>1, <1>4, <1>5
<1>7. Len(s) = 2 * c.n + 2 /\ s[e] = Word(1)
    BY <1>1, <1>2, <1>6, StepsOf
<1>8. e \in 1 .. Len(s)
  <2>1. PICK n \in Nat : n = c.n
    BY <1>4
  <2>2. PICK k : k = Len(s)
    OBVIOUS
  <2>3. e \in 2 .. 2 * n + 1 /\ k = 2 * n + 2
    BY <1>6, <1>7, <2>1, <2>2
  <2>4. e \in 1 .. k
    BY <2>3
  <2> QED
    BY <2>2, <2>4
<1>9. s[e].val = 1
    BY <1>7, WordFacts
<1>10. [off |-> i.off + Offset(c, e - 1), val |-> 1] \in words
    BY <1>2, <1>3, <1>8, <1>9 DEF Lengths, NoVal
<1>11. PICK m \in Nat : m = q * Unit(c)
    BY <1>4
<1>12. i.off + Offset(c, e - 1) = i.off + 4 + m
    BY <1>4, <1>6, <1>11
<1> QED
    BY <1>1, <1>10, <1>11, <1>12

\* The primitives that read a value back.
LEMMA ReadStepsOf ==
    ASSUME NEW c \in Written
    PROVE  /\ c.op = "prim" => ReadSteps(c) = <<Step("get", c.w)>>
           /\ c.op = "buffer" => ReadSteps(c) = <<Step("unpad", c.n)>>
           /\ c.op = "raw" => ReadSteps(c) = <<Step("raw", c.n)>>
           /\ c.op = "cstring" => ReadSteps(c) = <<Step("cstring", 0)>>
           /\ c.op = "string" => ReadSteps(c) = <<Step("length", c.w)>>
           /\ c.op = "vector" => ReadSteps(c) = <<Step("count", c.w)>>
           /\ c.op = "strings" => ReadSteps(c) = <<Step("strings", c.w)>>
           /\ c.op \in {"null", "strongnull", "plain"} =>
                ReadSteps(c) = <<Step("meta", 0), Step("get", 4)>>
           /\ c.op = "remote" => ReadSteps(c) = <<Step("meta", 0), Step("object", 0)>>
           /\ c.op = "object" => ReadSteps(c) = <<Step("object", 0)>>
BY DEF ReadSteps

\* The first primitive that is left tells how far the call has come.
LEMMA Stages ==
    ASSUME RegionInv, todo # <<>>, First.do \in ReadDos, NEW c \in Written, NEW p, Reached(c, p)
    PROVE  /\ First.do = "get" =>
                \/ c.op = "prim" /\ todo = <<Step("get", c.w)>> /\ rc = p
                \/ c.op = "vector" /\ AtElement(c, p)
                \/ c.op = "plain" /\ todo = <<Step("get", 4)>> /\ rc = p + 4
           /\ First.do = "unpad" =>
                c.op = "buffer" /\ todo = <<Step("unpad", c.n)>> /\ rc = p
           /\ First.do = "raw" => c.op = "raw" /\ todo = <<Step("raw", c.n)>> /\ rc = p
           /\ First.do = "cstring" => c.op = "cstring" /\ Len(todo) = 1 /\ rc = p
           /\ First.do = "length" =>
                \/ c.op = "string" /\ todo = <<Step("length", c.w)>> /\ rc = p
                \/ c.op = "strings" /\ AtString(c, p)
           /\ First.do = "body" =>
                \/ /\ c.op = "string" /\ c.n >= 0
                   /\ todo = <<Step("body", (c.n + 1) * c.w)>> /\ rc = p + 4 /\ mark = <<p>>
                \/ c.op = "strings" /\ AtString(c, p)
           /\ First.do = "count" => c.op = "vector" /\ todo = <<Step("count", c.w)>> /\ rc = p
           /\ First.do = "strings" => c.op = "strings" /\ todo = <<Step("strings", c.w)>> /\ rc = p
           /\ First.do = "skip" => c.op = "vector" /\ AtElement(c, p)
           /\ First.do = "meta" =>
                /\ c.op \in {"null", "strongnull", "plain", "remote"} /\ rc = p
                /\ todo = <<Step("meta", 0), IF c.op = "remote" THEN Step("object", 0)
                                             ELSE Step("get", 4)>>
           /\ First.do = "object" =>
                /\ HasObject(c) /\ Len(todo) = 1 /\ rc = ObjectAt(c, p)
<1>1. First = todo[1] /\ todo \in Seq(RSteps) /\ Len(todo) \in Nat \ {0} /\ 1 \in DOMAIN todo
    BY Phase
<1>2. c.op \in Ops
    BY WrittenType
<1>3. ASSUME NEW d, NEW n, todo[1] = Step(d, n)
      PROVE  First.do = d
    BY <1>1, <1>3 DEF Step
<1>4. CASE todo = ReadSteps(c) /\ rc = p
  <2>1. CASE c.op \in {"prim", "buffer", "raw", "cstring", "string", "vector", "strings"}
    <3>1. PICK d, n : todo = <<Step(d, n)>> /\ ReadSteps(c) = <<Step(d, n)>>
        BY <1>4, <2>1, ReadStepsOf
    <3>2. Len(todo) = 1 /\ First.do = d
        BY <1>3, <3>1
    <3> QED
        BY <1>4, <2>1, <3>2, ReadStepsOf, <1>3
  <2>2. CASE c.op \in {"null", "strongnull", "plain", "remote"}
    <3>1. todo = <<Step("meta", 0), IF c.op = "remote" THEN Step("object", 0) ELSE Step("get", 4)>>
        BY <1>4, <2>2, ReadStepsOf
    <3>2. First.do = "meta"
        BY <1>3, <3>1
    <3> QED
        BY <1>4, <2>2, <3>1, <3>2
  <2>3. CASE c.op = "object"
    <3>1. todo = <<Step("object", 0)>>
        BY <1>4, <2>3, ReadStepsOf
    <3>2. First.do = "object" /\ Len(todo) = 1
        BY <1>3, <3>1
    <3> QED
        BY <1>4, <2>3, <3>2 DEF HasObject, ObjectAt
  <2> QED
    BY <1>2, <2>1, <2>2, <2>3 DEF Ops
<1>5. CASE /\ c.op = "string" /\ c.n >= 0
           /\ todo = <<Step("body", (c.n + 1) * c.w)>> /\ rc = p + 4 /\ mark = <<p>>
  <2>1. First.do = "body"
    BY <1>3, <1>5
  <2> QED
    BY <1>5, <2>1
<1>6. CASE c.op = "vector" /\ AtElement(c, p)
  <2>1. First.do \in {"get", "skip"}
    BY <1>1, <1>3, <1>6 DEF AtElement
  <2> QED
    BY <1>6, <2>1
<1>7. CASE c.op = "strings" /\ AtString(c, p)
  <2>1. First.do \in {"length", "body"}
    BY <1>3, <1>7 DEF AtString
  <2> QED
    BY <1>7, <2>1
<1>8. CASE c.op = "plain" /\ todo = <<Step("get", 4)>> /\ rc = p + 4
  <2>1. First.do = "get"
    BY <1>3, <1>8
  <2> QED
    BY <1>8, <2>1
<1>9. CASE c.op = "remote" /\ todo = <<Step("object", 0)>> /\ rc = p + 4
  <2>1. First.do = "object" /\ Len(todo) = 1
    BY <1>3, <1>9
  <2> QED
    BY <1>9, <2>1 DEF HasObject, ObjectAt
<1> QED
    BY <1>4, <1>5, <1>6, <1>7, <1>8, <1>9 DEF Reached

\* A call that reads a value back is in its bytes.
LEMMA Finds ==
    ASSUME RegionInv, TableInv, ValueInv, ~torn, todo # <<>>, First.do \in ReadDos,
           NEW i \in items, ReadsBack(i)
    PROVE  /\ call.read /\ i.call \in Written /\ i.off \in Nat /\ i.end \in Nat /\ Laid(i)
           /\ Reached(i.call, i.off) /\ call.op = i.call.op
           /\ i.end = i.off + Span(i.call) /\ i.end <= size
           /\ ~HasObject(i.call) => Free(i.off, i.end)
           /\ HasObject(i.call) => Free(i.off, ObjectAt(i.call, i.off))
                                   /\ InTable(ObjectAt(i.call, i.off))
<1>1. call.read /\ call \in CallRecs
    BY Phase DEF RegionInv, TypeOK
<1>2. Laid(i) /\ i.off \in Nat /\ i.end \in Nat
    BY ItemFacts
<1>3. Reached(i.call, i.off)
    BY <1>1 DEF ValueInv, Reading, Arrived
<1>4. call.op = i.call.op
    BY <1>1 DEF ReadsBack, CallRecs
<1> QED
    BY <1>1, <1>2, <1>3, <1>4 DEF Laid

\* The call has come to the end of the value.
LEMMA AtEnd ==
    ASSUME NEW i, i.call.op # "raw", rc' = i.end, todo' = <<>>, ret' = "true" \/ Missing(i.call)
    PROVE  Arrived(i)'
BY DEF Arrived, ReadTo

\* Or it goes on.
LEMMA OnTheWay ==
    ASSUME NEW i, NEW c, NEW p, c = i.call, p = i.off, todo' # <<>>, Reached(c, p)'
    PROVE  Arrived(i)'
BY DEF Arrived

\* The value or the element that Read<T> reads.
LEMMA GetArrives ==
    ASSUME RegionInv, TableInv, ValueInv, ~torn, Get, NEW i \in items, ReadsBack(i)
    PROVE  Arrived(i)'
<1>1. todo # <<>> /\ First.do = "get" /\ First.do \in ReadDos
    BY DEF Get, At, First, ReadDos
<1>2. PICK c, p, q : c = i.call /\ p = i.off /\ q = i.end
    OBVIOUS
<1>3. /\ call.read /\ c \in Written /\ p \in Nat /\ q \in Nat /\ Laid(i) /\ Reached(c, p)
      /\ q = p + Span(c) /\ q <= size /\ (~HasObject(c) => Free(p, q))
    BY <1>1, <1>2, Finds
<1>4. First = todo[1] /\ First \in RSteps /\ First.n \in Nat
    BY <1>1, Phase
<1>5. c.w \in Nat \ {0} /\ c.w \in Nat
    BY <1>3, WrittenType
<1>6. CASE c.op = "prim" /\ todo = <<Step("get", c.w)>> /\ rc = p
  <2>1. First.n = c.w /\ Len(todo) = 1 /\ ~HasObject(c) /\ Span(c) = c.w
    BY <1>4, <1>6 DEF Step, HasObject, Span
  <2>2. ~ReadFails(First.n)
    BY <1>3, <1>5, <1>6, <2>1, Readable
  <2>3. ReadOk(First.n) /\ Proceed(<<>>)
    BY <2>2 DEF Get
  <2> QED
    BY <1>1, <1>2, <1>3, <1>6, <2>1, <2>3, ReadOn, AtEnd DEF ReadOk
<1>7. CASE c.op = "plain" /\ todo = <<Step("get", 4)>> /\ rc = p + 4
  <2>1. First.n = 4 /\ Len(todo) = 1 /\ ~HasObject(c) /\ Span(c) = 8
    BY <1>4, <1>7 DEF Step, HasObject, Span
  <2>2. ~ReadFails(First.n)
    BY <1>3, <1>7, <2>1, Readable
  <2>3. ReadOk(First.n) /\ Proceed(<<>>)
    BY <2>2 DEF Get
  <2>4. rc' = q
    BY <1>3, <1>7, <2>1, <2>3 DEF ReadOk
  <2> QED
    BY <1>1, <1>2, <1>3, <1>7, <2>1, <2>3, <2>4, ReadOn, AtEnd
<1>8. CASE c.op = "vector" /\ AtElement(c, p)
  <2>1. c.n \in Nat /\ c.n * c.w \in Nat
    BY <1>3, <1>5, <1>8, WrittenType
  <2>2. /\ Len(todo) \in 1 .. c.n + 1 /\ 1 \in DOMAIN todo
        /\ rc = p + 4 + (c.n + 1 - Len(todo)) * c.w
        /\ \A e \in DOMAIN todo :
             todo[e] = IF e = Len(todo) THEN Step("skip", GetPadSize(c.n * c.w)) ELSE Step("get", c.w)
    BY <1>1, <1>4, <1>8, Phase DEF AtElement
  <2>3. Len(todo) # 1 /\ First.n = c.w
    BY <1>1, <1>4, <2>2 DEF Step
  <2>4. PICK m \in Nat : m = c.n + 1 - Len(todo) /\ m < c.n
    <3>1. PICK n \in Nat : n = c.n
        BY <2>1
    <3>2. Len(todo) \in 1 .. n + 1 /\ Len(todo) # 1
        BY <2>2, <2>3, <3>1
    <3>3. PICK l \in 1 .. n + 1 : l = Len(todo) /\ l # 1
        BY <3>2
    <3>4. n + 1 - l \in Nat /\ n + 1 - l < n
        BY <3>3
    <3> QED
        BY <3>1, <3>3, <3>4
  <2>5. m * c.w \in Nat /\ (m + 1) * c.w = m * c.w + c.w /\ m * c.w + c.w <= c.n * c.w
    BY <1>5, <2>1, <2>4, Multiples
  <2>6. PICK a \in Nat, b \in Nat : a = m * c.w /\ b = c.n * c.w
    BY <2>1, <2>5
  <2>7. Sized(b) \in Nat /\ Sized(b) >= b /\ Span(c) = 4 + Sized(b)
    BY <1>8, <2>6, SizedFacts DEF Span
  <2>8. rc = p + 4 + a /\ a + c.w <= b
    BY <2>2, <2>4, <2>5, <2>6
  <2>9. p <= rc /\ rc + c.w <= q
    BY <1>3, <1>5, <2>7, <2>8
  <2>10. ~HasObject(c)
    BY <1>8 DEF HasObject
  <2>11. ~ReadFails(First.n)
    BY <1>3, <1>5, <2>3, <2>9, <2>10, Readable
  <2>12. ReadOk(First.n) /\ Proceed(<<>>)
    BY <2>11 DEF Get
  <2>13. /\ todo' \in Seq(RSteps) /\ Len(todo') = Len(todo) - 1
         /\ \A e \in DOMAIN todo' : e \in Nat \ {0} /\ e + 1 \in DOMAIN todo /\ todo'[e] = todo[e + 1]
    BY <1>1, <1>3, <2>12, ReadOn
  <2>14. Len(todo') \in 1 .. c.n + 1 /\ c.n + 1 - Len(todo') = m + 1
    BY <2>1, <2>2, <2>3, <2>4, <2>13
  <2>15. rc' = p + 4 + (c.n + 1 - Len(todo')) * c.w
    <3>1. rc' = rc + c.w
        BY <2>3, <2>12 DEF ReadOk
    <3>2. (m + 1) * c.w = a + c.w
        BY <2>5, <2>6
    <3>3. PICK x \in Nat : x = (m + 1) * c.w
        BY <1>5, <2>4, <3>2, <2>6
    <3>4. rc' = p + 4 + x
      <4>1. p \in Nat /\ x = a + c.w
        BY <1>3, <3>2, <3>3
      <4> QED
        BY <1>5, <2>8, <3>1, <4>1
    <3> QED
        BY <2>14, <3>3, <3>4
  <2>16. \A e \in DOMAIN todo' :
          todo'[e] = IF e = Len(todo') THEN Step("skip", GetPadSize(c.n * c.w)) ELSE Step("get", c.w)
    BY <2>2, <2>13
  <2>17. AtElement(c, p)' /\ todo' # <<>>
    BY <2>13, <2>14, <2>15, <2>16 DEF AtElement
  <2>18. Reached(c, p)'
    BY <1>8, <2>17 DEF Reached
  <2> QED
    BY <1>2, <2>17, <2>18, OnTheWay
<1> QED
    BY <1>1, <1>3, <1>6, <1>7, <1>8, Stages

\* A buffer and its padding.
LEMMA ReadUnpadBufferArrives ==
    ASSUME RegionInv, TableInv, ValueInv, ~torn, ReadUnpadBuffer, NEW i \in items, ReadsBack(i)
    PROVE  Arrived(i)'
<1>1. todo # <<>> /\ First.do = "unpad" /\ First.do \in ReadDos
    BY DEF ReadUnpadBuffer, At, First, ReadDos
<1>2. PICK c, p, q : c = i.call /\ p = i.off /\ q = i.end
    OBVIOUS
<1>3. /\ call.read /\ c \in Written /\ p \in Nat /\ q \in Nat /\ Reached(c, p)
      /\ q = p + Span(c) /\ q <= size /\ (~HasObject(c) => Free(p, q))
    BY <1>1, <1>2, Finds
<1>4. c.op = "buffer" /\ todo = <<Step("unpad", c.n)>> /\ rc = p
    BY <1>1, <1>3, Stages
<1>5. PICK n \in Nat : n = c.n
    BY <1>3, <1>4, WrittenType
<1>6. First = todo[1] /\ First.n = n /\ Len(todo) = 1 /\ ~HasObject(c) /\ Span(c) = Sized(n)
    BY <1>1, <1>4, <1>5, Phase DEF Step, HasObject, Span
<1>7. Sized(n) >= n /\ Sized(n) = n + GetPadSize(n) /\ GetPadSize(n) \in Nat
    BY SizedFacts
<1>8. n <= GetReadableBytes /\ ~Refused(rc + n)
    BY <1>3, <1>4, <1>6, <1>7, Readable
<1>9. rc' = Skipped(rc + n, GetPadSize(n)) /\ Proceed(<<>>)
  <2>1. GetReadableBytes \in Nat
    BY DEF GetReadableBytes, RegionInv, TypeOK
  <2> QED
    BY <1>6, <1>8, <2>1 DEF ReadUnpadBuffer
<1>10. Skipped(p + n, GetPadSize(n)) = (p + n) + GetPadSize(n)
    BY <1>3, <1>6, <1>7, Skips DEF RegionInv
<1>11. rc' = q
    BY <1>3, <1>4, <1>6, <1>7, <1>9, <1>10
<1> QED
    BY <1>1, <1>2, <1>3, <1>4, <1>6, <1>9, <1>11, ReadOn, AtEnd

\* A buffer without its padding.
LEMMA ReadBufferArrives ==
    ASSUME RegionInv, TableInv, ValueInv, ~torn, ReadBuffer, NEW i \in items, ReadsBack(i)
    PROVE  Arrived(i)'
<1>1. todo # <<>> /\ First.do = "raw" /\ First.do \in ReadDos
    BY DEF ReadBuffer, At, First, ReadDos
<1>2. PICK c, p, q : c = i.call /\ p = i.off /\ q = i.end
    OBVIOUS
<1>3. /\ call.read /\ c \in Written /\ p \in Nat /\ q \in Nat /\ Reached(c, p)
      /\ q = p + Span(c) /\ q <= size /\ (~HasObject(c) => Free(p, q))
    BY <1>1, <1>2, Finds
<1>4. c.op = "raw" /\ todo = <<Step("raw", c.n)>> /\ rc = p
    BY <1>1, <1>3, Stages
<1>5. PICK n \in Nat : n = c.n
    BY <1>3, <1>4, WrittenType
<1>6. First = todo[1] /\ First.n = n /\ Len(todo) = 1 /\ ~HasObject(c) /\ Span(c) = Sized(n)
    BY <1>1, <1>4, <1>5, Phase DEF Step, HasObject, Span
<1>7. Sized(n) >= n /\ Sized(n) \in Nat
    BY SizedFacts
<1>8. n <= GetReadableBytes /\ ~Refused(rc + n)
    BY <1>3, <1>4, <1>6, <1>7, Readable
<1>9. rc' = rc + n /\ Proceed(<<>>)
  <2>1. GetReadableBytes \in Nat
    BY DEF GetReadableBytes, RegionInv, TypeOK
  <2> QED
    BY <1>6, <1>8, <2>1 DEF ReadBuffer
<1>10. rc' = ReadTo(i)
    BY <1>2, <1>4, <1>5, <1>9 DEF ReadTo
<1>11. todo' = <<>> /\ ret' = "true"
    BY <1>1, <1>3, <1>6, <1>9, ReadOn
<1> QED
    BY <1>10, <1>11 DEF Arrived

\* A C string, its terminator and its padding.
LEMMA ReadCStringArrives ==
    ASSUME RegionInv, TableInv, ValueInv, ~torn, ReadCString, NEW i \in items, ReadsBack(i)
    PROVE  Arrived(i)'
<1>1. todo # <<>> /\ First.do = "cstring" /\ First.do \in ReadDos
    BY DEF ReadCString, At, First, ReadDos
<1>2. PICK c, p, q : c = i.call /\ p = i.off /\ q = i.end
    OBVIOUS
<1>3. /\ call.read /\ c \in Written /\ p \in Nat /\ q \in Nat /\ Reached(c, p)
      /\ q = p + Span(c) /\ q <= size /\ (~HasObject(c) => Free(p, q))
    BY <1>1, <1>2, Finds
<1>4. c.op = "cstring" /\ Len(todo) = 1 /\ rc = p
    BY <1>1, <1>3, Stages
<1>5. PICK n \in Nat : n = c.n
    BY <1>3, <1>4, WrittenType
<1>6. PICK m \in Nat : m = n + 1
    OBVIOUS
<1>7. ~HasObject(c) /\ Span(c) = Sized(m)
    BY <1>4, <1>5, <1>6 DEF HasObject, Span
<1>8. Sized(m) >= m /\ Sized(m) = m + GetPadSize(m) /\ GetPadSize(m) \in Nat
    BY SizedFacts
<1>9. m <= GetReadableBytes /\ ~Refused(rc + m)
    BY <1>3, <1>4, <1>7, <1>8, Readable
<1>10. StringLengths = {n}
  <2>1. \A j \in items : j.off = rc => j = i
    BY <1>2, <1>4 DEF ValueInv, Intact
  <2> DEFINE here == {j \in items : j.off = rc /\ j.call.op = "cstring"}
  <2>2. here = {i}
    BY <1>2, <1>4, <2>1
  <2>3. {j.call.n : j \in here} = {n}
    BY <1>2, <1>5, <2>2
  <2>4. here # {}
    BY <2>2
  <2>5. StringLengths = {x \in {n} : x + 1 <= GetReadableBytes}
    BY <2>3, <2>4 DEF StringLengths
  <2> QED
    BY <1>6, <1>9, <2>5
<1>11. rc + n + 1 = rc + m
    BY <1>3, <1>4, <1>6
<1>12. rc' = Skipped(rc + m, GetPadSize(m)) /\ Proceed(<<>>)
  <2>1. \E j \in items : j.off = rc
    BY <1>2, <1>4
  <2>2. StringLengths # {} /\ ~\E x \in StringLengths : Refused(rc + x + 1)
    BY <1>9, <1>10, <1>11
  <2>3. \E x \in StringLengths :
             rc' = Skipped(rc + x + 1, GetPadSize(x + 1)) /\ Proceed(<<>>)
    BY <2>1, <2>2 DEF ReadCString
  <2> QED
    BY <1>6, <1>10, <1>11, <2>3
<1>13. Skipped(p + m, GetPadSize(m)) = (p + m) + GetPadSize(m)
    BY <1>3, <1>7, <1>8, Skips DEF RegionInv
<1>14. rc' = q
    BY <1>3, <1>4, <1>7, <1>8, <1>12, <1>13
<1> QED
    BY <1>1, <1>2, <1>3, <1>4, <1>12, <1>14, ReadOn, AtEnd

\* A reading call goes on with the primitives in push, then with the others.
LEMMA PushedFirst ==
    ASSUME RegionInv, call.read, todo # <<>>, NEW push \in Seq(RSteps), Proceed(push)
    PROVE  /\ todo' \in Seq(RSteps) /\ Len(todo) \in Nat \ {0}
           /\ Len(todo') = Len(push) + Len(todo) - 1
           /\ \A e \in 1 .. Len(push) : todo'[e] = push[e]
           /\ \A e \in DOMAIN todo' : e > Len(push) => todo'[e] = todo[e - Len(push) + 1]
           /\ todo' = <<>> => ret' = "true"
<1>1. todo \in Seq(RSteps)
    BY DEF RegionInv, Running
<1> DEFINE t == Tail(todo)
<1>2. /\ t \in Seq(RSteps) /\ Len(t) = Len(todo) - 1 /\ Len(todo) \in Nat \ {0}
      /\ \A e \in 1 .. Len(t) : t[e] = todo[e + 1]
    BY <1>1
<1>3. todo' = push \o t /\ (todo' = <<>> => ret' = "true")
    BY DEF Proceed
<1> HIDE DEF t
<1>4. /\ push \o t \in Seq(RSteps) /\ Len(push \o t) = Len(push) + Len(t)
      /\ \A e \in 1 .. Len(push) + Len(t) :
            (push \o t)[e] = IF e <= Len(push) THEN push[e] ELSE t[e - Len(push)]
    BY <1>2, ConcatProperties, Zenon
<1>5. Len(push) \in Nat /\ Len(t) \in Nat
    BY <1>2
<1>6. \A e \in 1 .. Len(push) : todo'[e] = push[e]
    BY <1>3, <1>4, <1>5
<1>7. \A e \in DOMAIN todo' : e > Len(push) => todo'[e] = todo[e - Len(push) + 1]
  <2> SUFFICES ASSUME NEW e \in DOMAIN todo', e > Len(push)
               PROVE  todo'[e] = todo[e - Len(push) + 1]
    OBVIOUS
  <2>1. e \in 1 .. Len(push) + Len(t) /\ ~(e <= Len(push))
    BY <1>3, <1>4, <1>5
  <2>2. todo'[e] = t[e - Len(push)]
    BY <1>3, <1>4, <2>1
  <2>3. PICK x \in 1 .. Len(t) : x = e - Len(push)
    BY <1>5, <2>1
  <2> QED
    BY <1>2, <2>2, <2>3
<1> QED
    BY <1>2, <1>3, <1>4, <1>5, <1>6, <1>7

\* The padding behind the elements of a vector.
LEMMA SkipPaddingArrives ==
    ASSUME RegionInv, TableInv, ValueInv, ~torn, SkipPadding, NEW i \in items, ReadsBack(i)
    PROVE  Arrived(i)'
<1>1. todo # <<>> /\ First.do = "skip" /\ First.do \in ReadDos
    BY DEF SkipPadding, At, First, ReadDos
<1>2. PICK c, p, q : c = i.call /\ p = i.off /\ q = i.end
    OBVIOUS
<1>3. /\ call.read /\ c \in Written /\ p \in Nat /\ q \in Nat /\ Reached(c, p)
      /\ q = p + Span(c) /\ q <= size
    BY <1>1, <1>2, Finds
<1>4. c.op = "vector" /\ AtElement(c, p)
    BY <1>1, <1>3, Stages
<1>5. c.n \in Nat /\ c.w \in Nat /\ c.n * c.w \in Nat
    BY <1>3, <1>4, WrittenType
<1>6. First = todo[1] /\ 1 \in DOMAIN todo
    BY <1>1, Phase
<1>7. PICK b \in Nat : b = c.n * c.w
    BY <1>5
<1>8. Len(todo) = 1 /\ First.n = GetPadSize(b)
  <2>1. First = IF 1 = Len(todo) THEN Step("skip", GetPadSize(b)) ELSE Step("get", c.w)
    BY <1>4, <1>6, <1>7 DEF AtElement
  <2> QED
    BY <1>1, <2>1 DEF Step
<1>9. rc = p + 4 + b
  <2>1. c.n + 1 - Len(todo) = c.n
    BY <1>5, <1>8
  <2>2. rc = p + 4 + (c.n + 1 - Len(todo)) * c.w
    BY <1>4 DEF AtElement
  <2> QED
    BY <1>7, <2>1, <2>2
<1>10. Sized(b) = b + GetPadSize(b) /\ GetPadSize(b) \in Nat /\ Span(c) = 4 + Sized(b)
    BY <1>4, <1>7, SizedFacts DEF Span
<1>11. Skipped(p + 4 + b, GetPadSize(b)) = (p + 4 + b) + GetPadSize(b)
    BY <1>3, <1>10, Skips DEF RegionInv
<1>12. rc' = q
    BY <1>3, <1>8, <1>9, <1>10, <1>11 DEF SkipPadding
<1> QED
    BY <1>1, <1>2, <1>3, <1>4, <1>8, <1>12, ReadOn, AtEnd DEF SkipPadding

\* A remote object.
LEMMA ReadObjectArrives ==
    ASSUME RegionInv, TableInv, ValueInv, ~torn, ReadObject, NEW i \in items, ReadsBack(i)
    PROVE  Arrived(i)'
<1>1. todo # <<>> /\ First.do = "object" /\ First.do \in ReadDos
    BY DEF ReadObject, At, First, ReadDos
<1>2. PICK c, p, q : c = i.call /\ p = i.off /\ q = i.end
    OBVIOUS
<1>3. /\ call.read /\ c \in Written /\ p \in Nat /\ q \in Nat /\ Reached(c, p)
      /\ q = p + Span(c) /\ q <= size /\ (HasObject(c) => InTable(ObjectAt(c, p)))
    BY <1>1, <1>2, Finds
<1>4. HasObject(c) /\ Len(todo) = 1 /\ rc = ObjectAt(c, p)
    BY <1>1, <1>3, Stages
<1>5. rc + ObjSize = q /\ InTable(rc)
    BY <1>3, <1>4, ObjectEnds
<1>6. rc' = q /\ Proceed(<<>>)
  <2>1. ~(q > size)
    BY <1>3 DEF RegionInv, TypeOK
  <2> QED
    BY <1>5, <2>1 DEF ReadObject
<1> QED
    BY <1>1, <1>2, <1>3, <1>4, <1>6, ReadOn, AtEnd DEF HasObject

\* The word at the beginning of a value is read, and nothing else is.
LEMMA ReadsLength ==
    ASSUME RegionInv, TableInv, ValueInv, ~torn, NEW i \in items,
           i.call.op \in {"string", "vector", "strings", "null", "strongnull", "plain", "remote"},
           rc = i.off
    PROVE  ~ReadFails(4) /\ LengthsAt(rc) = {LengthOf(i.call)}
<1>1. PICK c, p, q : c = i.call /\ p = i.off /\ q = i.end
    OBVIOUS
<1>2. Laid(i) /\ p \in Nat /\ q \in Nat /\ c \in Written /\ q = p + Span(c) /\ q <= size
    BY <1>1, ItemFacts DEF Laid
<1>3. LengthsAt(rc) = {LengthOf(c)}
    BY <1>1, <1>2, FirstLength, OneLength
<1>4. CASE c.op = "remote"
  <2>1. HasObject(c) /\ ObjectAt(c, p) = p + 4 /\ Span(c) = 28
    BY <1>4 DEF HasObject, ObjectAt, Span, ObjSize
  <2>2. PICK r \in Nat : r = p + 4 /\ r <= size /\ p <= r
    BY <1>2, <2>1 DEF RegionInv, TypeOK
  <2>3. Free(p, r)
    BY <1>1, <1>2, <2>1, <2>2 DEF Laid
  <2>4. ~ReadFails(4)
    BY <1>1, <1>2, <2>2, <2>3, Readable
  <2> QED
    BY <1>1, <1>3, <2>4
<1>5. CASE c.op # "remote"
  <2>1. ~HasObject(c)
    BY <1>1, <1>5 DEF HasObject
  <2>2. Free(p, q)
    BY <1>1, <1>2, <2>1 DEF Laid
  <2>3. Span(c) >= 4 /\ Span(c) \in Nat
    <3>1. PICK s : s = WriteSteps(c) /\ Mapped(c, s)
        BY <1>2, Layout
    <3>2. c.op \in {"null", "strongnull", "plain"} => Span(c) >= 4
        BY DEF Span
    <3>3. c.n \in Int /\ c.w \in Nat /\ (c.op # "string" => c.n \in Nat)
        BY <1>2, WrittenType
    <3>4. c.op = "string" => Span(c) >= 4
      <4>1. CASE c.n < 0
        BY <4>1 DEF Span
      <4>2. CASE c.n >= 0
        <5>1. PICK a \in Nat : a = (c.n + 1) * c.w
            BY <3>3, <4>2
        <5>2. Sized(a) \in Nat
            BY SizedFacts
        <5> QED
            BY <3>3, <4>2, <5>1, <5>2 DEF Span
      <4> QED
        BY <3>3, <4>1, <4>2
    <3>5. c.op = "vector" => Span(c) >= 4
      <4> SUFFICES ASSUME c.op = "vector"
                   PROVE  Span(c) >= 4
        OBVIOUS
      <4>1. PICK a \in Nat : a = c.n * c.w
        BY <3>3
      <4>2. Sized(a) \in Nat
        BY SizedFacts
      <4> QED
        BY <4>1, <4>2 DEF Span
    <3>6. c.op = "strings" => Span(c) >= 4
      <4> SUFFICES ASSUME c.op = "strings"
                   PROVE  Span(c) >= 4
        OBVIOUS
      <4>1. Unit(c) \in Nat /\ Span(c) = 4 + c.n * Unit(c) /\ c.n \in Nat
        BY <1>2, StringOffsets
      <4>2. PICK a \in Nat : a = c.n * Unit(c)
        BY <4>1
      <4> QED
        BY <4>1, <4>2
    <3>7. Span(c) \in Nat
        BY <3>1 DEF Mapped
    <3> QED
        BY <1>1, <1>5, <3>2, <3>4, <3>5, <3>6, <3>7
  <2> QED
    BY <1>1, <1>2, <1>3, <2>2, <2>3, Readable
<1> QED
    BY <1>4, <1>5

\* The word in front of a Parcelable.
LEMMA ReadMetaArrives ==
    ASSUME RegionInv, TableInv, ValueInv, ~torn, ReadMeta, NEW i \in items, ReadsBack(i)
    PROVE  Arrived(i)'
<1>1. todo # <<>> /\ First.do = "meta" /\ First.do \in ReadDos
    BY DEF ReadMeta, At, First, ReadDos
<1>2. PICK c, p, q : c = i.call /\ p = i.off /\ q = i.end
    OBVIOUS
<1>3. /\ call.read /\ c \in Written /\ p \in Nat /\ q \in Nat /\ Reached(c, p)
      /\ q = p + Span(c)
    BY <1>1, <1>2, Finds
<1>4. /\ c.op \in {"null", "strongnull", "plain", "remote"} /\ rc = p
      /\ todo = <<Step("meta", 0), IF c.op = "remote" THEN Step("object", 0) ELSE Step("get", 4)>>
    BY <1>1, <1>3, Stages
<1>5. ~ReadFails(4) /\ LengthsAt(rc) = {LengthOf(c)}
    BY <1>2, <1>4, ReadsLength
<1>6. PICK len \in LengthsAt(rc) :
          /\ ReadOk(4)
          /\ IF len = 0 THEN todo' = <<>> ELSE Proceed(<<>>)
    BY <1>5 DEF ReadMeta
<1>7. rc' = p + 4 /\ len = LengthOf(c)
    BY <1>4, <1>5, <1>6 DEF ReadOk
<1>8. CASE c.op \in {"null", "strongnull"}
  <2>1. len = 0 /\ Span(c) = 4 /\ Missing(c)
    BY <1>7, <1>8 DEF LengthOf, Span, Missing
  <2> QED
    BY <1>2, <1>3, <1>6, <1>7, <1>8, <2>1, AtEnd
<1>9. CASE c.op \in {"plain", "remote"}
  <2>1. len = 1
    BY <1>7, <1>9 DEF LengthOf
  <2>2. Proceed(<<>>)
    BY <1>6, <2>1
  <2> DEFINE s == IF c.op = "remote" THEN Step("object", 0) ELSE Step("get", 4)
  <2>3. Len(todo) = 2 /\ todo[2] = s
    BY <1>4
  <2>4. /\ todo' \in Seq(RSteps) /\ Len(todo') = 1 /\ todo'[1] = s
    <3>1. /\ todo' \in Seq(RSteps) /\ Len(todo') = Len(todo) - 1
          /\ \A e \in DOMAIN todo' : todo'[e] = todo[e + 1]
        BY <1>1, <1>3, <2>2, ReadOn
    <3>2. Len(todo') = 1 /\ 1 \in DOMAIN todo'
        BY <2>3, <3>1
    <3>3. todo'[1] = todo[2]
        BY <3>1, <3>2
    <3> QED
        BY <2>3, <3>1, <3>2, <3>3
  <2> HIDE DEF s
  <2>5. todo' = <<s>>
    BY <2>4
  <2>6. Reached(c, p)'
    BY <1>7, <1>9, <2>5 DEF Reached, s
  <2>7. todo' # <<>>
    BY <2>4
  <2> QED
    BY <1>2, <2>6, <2>7, OnTheWay
<1> QED
    BY <1>4, <1>8, <1>9

\* Enough bytes for a vector pass the check of its length.
LEMMA Fits ==
    ASSUME NEW r \in Nat, NEW n \in Nat, NEW w \in Nat \ {0}, n * w <= r
    PROVE  n <= r \div w
<1>1. PICK d \in Nat : d = r \div w /\ r < d * w + w
  <2>1. r \div w \in Nat /\ r < (r \div w) * w + w
    OBVIOUS
  <2> QED
    BY <2>1
<1> SUFFICES ASSUME d < n
             PROVE  FALSE
    BY <1>1
<1>2. d * w + w <= n * w
    BY Multiples
<1>3. PICK x \in Nat, y \in Nat : x = d * w /\ y = n * w
    OBVIOUS
<1> QED
    BY <1>1, <1>2, <1>3

\* The count of a vector.
LEMMA ReadVectorCountArrives ==
    ASSUME RegionInv, TableInv, ValueInv, ~torn, ReadVectorCount, NEW i \in items, ReadsBack(i)
    PROVE  Arrived(i)'
<1>1. todo # <<>> /\ First.do = "count" /\ First.do \in ReadDos
    BY DEF ReadVectorCount, At, First, ReadDos
<1>2. PICK c, p, q : c = i.call /\ p = i.off /\ q = i.end
    OBVIOUS
<1>3. /\ call.read /\ c \in Written /\ p \in Nat /\ q \in Nat /\ Reached(c, p)
      /\ q = p + Span(c) /\ q <= size
    BY <1>1, <1>2, Finds
<1>4. c.op = "vector" /\ todo = <<Step("count", c.w)>> /\ rc = p
    BY <1>1, <1>3, Stages
<1>5. PICK n \in Nat, w \in Nat \ {0} : n = c.n /\ w = c.w
    BY <1>3, <1>4, WrittenType
<1>6. First.n = w /\ Len(todo) = 1
    BY <1>1, <1>4, <1>5, Phase DEF Step
<1>7. ~ReadFails(4) /\ LengthsAt(rc) = {n}
    BY <1>2, <1>4, <1>5, ReadsLength DEF LengthOf
<1>8. /\ ReadOk(4)
      /\ IF n < 0 \/ n > ReadableAt(rc') \div w THEN Fail ELSE Proceed(Elements(n, w))
    BY <1>6, <1>7 DEF ReadVectorCount
<1>9. rc' = p + 4
    BY <1>4, <1>8 DEF ReadOk
<1>10. PICK b \in Nat : b = n * w
    OBVIOUS
<1>11. Proceed(Elements(n, w))
  <2>1. Sized(b) >= b /\ Sized(b) \in Nat /\ Span(c) = 4 + Sized(b)
    BY <1>4, <1>5, <1>10, SizedFacts DEF Span
  <2>2. PICK r \in Nat : r = ReadableAt(rc') /\ b <= r
    <3>1. ReadableAt(p + 4) \in Nat /\ b <= ReadableAt(p + 4)
        BY <1>3, <2>1 DEF ReadableAt, RegionInv, TypeOK
    <3> QED
        BY <1>9, <3>1
  <2>3. n <= r \div w
    BY <1>10, <2>2, Fits
  <2>4. r \div w \in Int
    OBVIOUS
  <2>5. ~(n < 0 \/ n > ReadableAt(rc') \div w)
    BY <2>2, <2>3, <2>4
  <2> QED
    BY <1>8, <2>5
<1>12. PICK s \in Seq(RSteps) :
         /\ s = Elements(n, w) /\ Len(s) = n + 1
         /\ \A e \in DOMAIN s : s[e] = IF e = n + 1 THEN Step("skip", GetPadSize(b)) ELSE Step("get", w)
  <2> DEFINE x == [j \in 1 .. n |-> Step("get", w)]
             y == Step("skip", GetPadSize(b))
  <2>1. x \in Seq(RSteps) /\ Len(x) = n /\ \A e \in 1 .. n : x[e] = Step("get", w)
    <3>1. Step("get", w) \in RSteps
        BY StepKinds DEF ReadDos
    <3> QED
        BY <3>1
  <2>2. y \in RSteps
    BY SizedFacts, StepKinds
  <2>3. Elements(n, w) = x \o <<y>>
    BY <1>10 DEF Elements
  <2> HIDE DEF x
  <2>4. x \o <<y>> = Append(x, y)
    BY <2>1, <2>2
  <2> HIDE DEF y
  <2>5. /\ Append(x, y) \in Seq(RSteps) /\ Len(Append(x, y)) = n + 1
        /\ \A e \in 1 .. n + 1 : Append(x, y)[e] = IF e = n + 1 THEN y ELSE x[e]
    BY <2>1, <2>2
  <2>6. \A e \in 1 .. n + 1 : e # n + 1 => e \in 1 .. n
    OBVIOUS
  <2>7. \A e \in 1 .. n + 1 : Append(x, y)[e] = IF e = n + 1 THEN y ELSE Step("get", w)
    BY <2>1, <2>5, <2>6
  <2>8. PICK z \in Seq(RSteps) : z = Append(x, y)
    BY <2>5
  <2>9. Len(z) = n + 1 /\ DOMAIN z = 1 .. n + 1 /\ z = Elements(n, w)
    BY <2>3, <2>4, <2>5, <2>8
  <2>10. \A e \in DOMAIN z : z[e] = IF e = n + 1 THEN y ELSE Step("get", w)
    BY <2>7, <2>8, <2>9
  <2> QED
    BY <2>9, <2>10 DEF y
<1>13. /\ todo' \in Seq(RSteps) /\ Len(todo') = n + 1
       /\ \A e \in 1 .. n + 1 : todo'[e] = s[e]
    BY <1>1, <1>3, <1>6, <1>11, <1>12, PushedFirst
<1>14. AtElement(c, p)'
  <2>1. \A e \in DOMAIN todo' :
          todo'[e] = IF e = Len(todo') THEN Step("skip", GetPadSize(b)) ELSE Step("get", w)
    BY <1>12, <1>13
  <2>2. n + 1 - Len(todo') = 0 /\ Len(todo') \in 1 .. n + 1
    BY <1>13
  <2>3. 0 * w = 0
    OBVIOUS
  <2>4. rc' = p + 4 + (n + 1 - Len(todo')) * w
    BY <1>3, <1>9, <2>2, <2>3
  <2> QED
    BY <1>5, <1>10, <2>1, <2>2, <2>4 DEF AtElement
<1>15. Reached(c, p)' /\ todo' # <<>>
    BY <1>4, <1>13, <1>14 DEF Reached
<1> QED
    BY <1>2, <1>15, OnTheWay

\* The strings of a vector are shorter than it.
LEMMA StringPlace ==
    ASSUME NEW c \in Written, c.op = "strings", NEW k \in Nat, k < c.n
    PROVE  /\ k * Unit(c) \in Nat /\ (k + 1) * Unit(c) = k * Unit(c) + Unit(c)
           /\ k * Unit(c) + Unit(c) <= c.n * Unit(c)
           /\ Unit(c) \in Nat /\ Span(c) = 4 + c.n * Unit(c) /\ c.n * Unit(c) \in Nat
           /\ Unit(c) = 4 + Sized(2 * c.w) /\ Sized(2 * c.w) \in Nat
<1>1. /\ c.n \in Nat /\ Sized(2 * c.w) \in Nat /\ Unit(c) = 4 + Sized(2 * c.w)
      /\ Unit(c) \in Nat /\ Span(c) = 4 + c.n * Unit(c)
    BY StringOffsets
<1> QED
    BY <1>1, Multiples

\* The k-th of them in a vector at p, in numbers.
LEMMA StringNumbers ==
    ASSUME NEW c \in Written, c.op = "strings", NEW k \in Nat, k < c.n, NEW p \in Nat
    PROVE  \E a \in Nat, b \in Nat, u \in Nat, z \in Nat :
              /\ a = k * Unit(c) /\ b = c.n * Unit(c) /\ u = Unit(c) /\ z = Sized(2 * c.w)
              /\ (k + 1) * u = a + u
              /\ a + u <= b /\ u = 4 + z /\ p + Span(c) = p + 4 + b
<1>1. /\ k * Unit(c) \in Nat /\ (k + 1) * Unit(c) = k * Unit(c) + Unit(c)
      /\ k * Unit(c) + Unit(c) <= c.n * Unit(c)
      /\ Unit(c) \in Nat /\ Span(c) = 4 + c.n * Unit(c) /\ c.n * Unit(c) \in Nat
      /\ Unit(c) = 4 + Sized(2 * c.w) /\ Sized(2 * c.w) \in Nat
    BY StringPlace
<1>2. PICK a \in Nat, b \in Nat, u \in Nat, z \in Nat :
        a = k * Unit(c) /\ b = c.n * Unit(c) /\ u = Unit(c) /\ z = Sized(2 * c.w)
    BY <1>1
<1>3. (k + 1) * u = a + u /\ a + u <= b /\ u = 4 + z /\ Span(c) = 4 + b
    BY <1>1, <1>2
<1>4. p + Span(c) = p + 4 + b
    BY <1>3
<1> QED
    BY <1>2, <1>3, <1>4

\* The count of a vector of strings.
LEMMA ReadStringVectorArrives ==
    ASSUME RegionInv, TableInv, ValueInv, ~torn, ReadStringVector, NEW i \in items, ReadsBack(i)
    PROVE  Arrived(i)'
<1>1. todo # <<>> /\ First.do = "strings" /\ First.do \in ReadDos
    BY DEF ReadStringVector, At, First, ReadDos
<1>2. PICK c, p, q : c = i.call /\ p = i.off /\ q = i.end
    OBVIOUS
<1>3. /\ call.read /\ c \in Written /\ p \in Nat /\ q \in Nat /\ Reached(c, p)
      /\ q = p + Span(c) /\ q <= size
    BY <1>1, <1>2, Finds
<1>4. c.op = "strings" /\ todo = <<Step("strings", c.w)>> /\ rc = p
    BY <1>1, <1>3, Stages
<1>5. PICK n \in Nat, w \in Nat \ {0} : n = c.n /\ w = c.w
    BY <1>3, <1>4, WrittenType
<1>6. First.n = w /\ Len(todo) = 1
    BY <1>1, <1>4, <1>5, Phase DEF Step
<1>7. ~ReadFails(4) /\ LengthsAt(rc) = {n}
    BY <1>2, <1>4, <1>5, ReadsLength DEF LengthOf
<1> DEFINE s == [j \in 1 .. n |-> Step("length", w)]
<1>8. /\ ReadOk(4)
      /\ IF n < 0 \/ n > ReadableAt(rc') THEN Fail ELSE Proceed(s)
    BY <1>6, <1>7 DEF ReadStringVector
<1>9. rc' = p + 4
    BY <1>4, <1>8 DEF ReadOk
<1>10. PICK u \in Nat \ {0}, b \in Nat : u = Unit(c) /\ b = n * u /\ Span(c) = 4 + b
  <2>1. Sized(2 * c.w) \in Nat /\ Unit(c) = 4 + Sized(2 * c.w) /\ Span(c) = 4 + c.n * Unit(c)
    BY <1>3, <1>4, StringOffsets
  <2>2. PICK u \in Nat \ {0} : u = Unit(c)
    BY <2>1
  <2>3. n * u \in Nat /\ Span(c) = 4 + n * u
    BY <1>5, <2>1, <2>2
  <2> QED
    BY <2>2, <2>3
<1>11. n <= b
    BY <1>10
<1>12. Proceed(s)
  <2>1. ReadableAt(p + 4) \in Nat /\ n <= ReadableAt(p + 4)
    <3>1. p + 4 + b <= size /\ size \in Nat
        BY <1>3, <1>10 DEF RegionInv, TypeOK
    <3> QED
        BY <1>3, <1>11, <3>1 DEF ReadableAt
  <2>2. ~(n < 0 \/ n > ReadableAt(rc'))
    BY <1>9, <2>1
  <2> QED
    BY <1>8, <2>2
<1>13. s \in Seq(RSteps) /\ Len(s) = n /\ \A e \in 1 .. n : s[e] = Step("length", w)
  <2>1. Step("length", w) \in RSteps
    BY StepKinds DEF ReadDos
  <2> QED
    BY <2>1
<1> HIDE DEF s
<1>14. /\ todo' \in Seq(RSteps) /\ Len(todo') = n
       /\ \A e \in 1 .. n : todo'[e] = Step("length", w)
       /\ todo' = <<>> => ret' = "true"
  <2>1. /\ todo' \in Seq(RSteps) /\ Len(todo') = Len(s) + Len(todo) - 1
        /\ \A e \in 1 .. Len(s) : todo'[e] = s[e]
        /\ todo' = <<>> => ret' = "true"
    BY <1>1, <1>3, <1>12, <1>13, PushedFirst
  <2>2. Len(todo') = n
    BY <1>6, <1>13, <2>1
  <2> QED
    BY <1>13, <2>1, <2>2
<1>15. CASE n = 0
  <2>1. todo' = <<>>
    BY <1>14, <1>15
  <2>2. 0 * u = 0
    OBVIOUS
  <2>3. rc' = q
    BY <1>3, <1>9, <1>10, <1>15, <2>2
  <2> QED
    BY <1>2, <1>4, <1>14, <2>1, <2>3, AtEnd
<1>16. CASE n > 0
  <2>1. todo' # <<>> /\ 1 \in 1 .. n /\ DOMAIN todo' = 1 .. n /\ Len(todo') \in 1 .. n
    BY <1>14, <1>16
  <2>2. Place(c, p)' = p + 4
    <3>1. c.n - Len(todo') = 0 /\ 0 * u = 0
        BY <1>5, <1>14
    <3>2. (c.n - Len(todo')) * Unit(c) = 0
        BY <1>10, <3>1
    <3> QED
        BY <1>3, <3>2 DEF Place
  <2>3. AtString(c, p)'
    BY <1>5, <1>9, <1>14, <2>1, <2>2 DEF AtString
  <2>4. Reached(c, p)'
    BY <1>4, <2>3 DEF Reached
  <2> QED
    BY <1>2, <2>1, <2>4, OnTheWay
<1> QED
    BY <1>15, <1>16

\* The length of a string.
LEMMA ReadStringLengthArrives ==
    ASSUME RegionInv, TableInv, ValueInv, ~torn, ReadStringLength, NEW i \in items, ReadsBack(i)
    PROVE  Arrived(i)'
<1>1. todo # <<>> /\ First.do = "length" /\ First.do \in ReadDos
    BY DEF ReadStringLength, At, First, ReadDos
<1>2. PICK c, p, q : c = i.call /\ p = i.off /\ q = i.end
    OBVIOUS
<1>3. /\ call.read /\ c \in Written /\ p \in Nat /\ q \in Nat /\ Laid(i) /\ Reached(c, p)
      /\ q = p + Span(c) /\ q <= size /\ call.op = c.op /\ (~HasObject(c) => Free(p, q))
    BY <1>1, <1>2, Finds
<1>4. c.n \in Int /\ (c.op # "string" => c.n \in Nat)
    BY <1>3, WrittenType
<1>5. PICK w \in Nat \ {0} : w = c.w
    BY <1>3, WrittenType
<1>6. ASSUME NEW len \in Nat, ReadOk(4), Proceed(<<Step("body", (len + 1) * w)>>)
      PROVE  /\ rc' = rc + 4 /\ todo' \in Seq(RSteps) /\ Len(todo') = Len(todo) /\ todo' # <<>>
             /\ todo'[1] = Step("body", (len + 1) * w)
             /\ \A e \in DOMAIN todo' : e > 1 => todo'[e] = todo[e]
  <2>1. PICK m \in Nat \ {0} : m = (len + 1) * w
    <3>1. len + 1 \in Nat \ {0}
        OBVIOUS
    <3> QED
        BY <3>1, Product
  <2>2. Step("body", m) \in RSteps
    BY StepKinds DEF ReadDos
  <2>3. PICK s \in Seq(RSteps) : s = <<Step("body", m)>> /\ Len(s) = 1 /\ s[1] = Step("body", m)
    <3>1. PICK t \in RSteps : t = Step("body", m)
        BY <2>2
    <3>2. <<t>> \in Seq(RSteps) /\ Len(<<t>>) = 1 /\ <<t>>[1] = t
        OBVIOUS
    <3> QED
        BY <3>1, <3>2
  <2>4. Proceed(s)
    BY <1>6, <2>1, <2>3
  <2>5. /\ todo' \in Seq(RSteps) /\ Len(todo) \in Nat \ {0}
        /\ Len(todo') = Len(s) + Len(todo) - 1
        /\ \A e \in 1 .. Len(s) : todo'[e] = s[e]
        /\ \A e \in DOMAIN todo' : e > Len(s) => todo'[e] = todo[e - Len(s) + 1]
    BY <1>1, <1>3, <2>4, PushedFirst
  <2>6. Len(todo') = Len(todo) /\ todo' # <<>> /\ todo'[1] = Step("body", m)
    BY <2>3, <2>5
  <2>7. \A e \in DOMAIN todo' : e > 1 => todo'[e] = todo[e]
    <3> SUFFICES ASSUME NEW e \in DOMAIN todo', e > 1
                 PROVE  todo'[e] = todo[e]
        OBVIOUS
    <3>1. e \in Nat /\ e - 1 + 1 = e
        BY <2>5
    <3> QED
        BY <2>3, <2>5, <3>1
  <2> QED
    BY <1>6, <2>1, <2>5, <2>6, <2>7 DEF ReadOk
<1>7. CASE c.op = "string" /\ todo = <<Step("length", c.w)>> /\ rc = p
  <2>1. ~ReadFails(4) /\ LengthsAt(rc) = {LengthOf(c)}
    BY <1>2, <1>7, ReadsLength
  <2>2. First.n = w /\ Len(todo) = 1
    BY <1>1, <1>5, <1>7, Phase DEF Step
  <2>3. /\ ReadOk(4)
        /\ IF LengthOf(c) < 0 THEN NoString
           ELSE /\ Proceed(<<Step("body", (LengthOf(c) + 1) * w)>>) /\ mark' = <<rc>>
    BY <2>1, <2>2 DEF ReadStringLength
  <2>4. CASE c.n < 0
    <3>1. LengthOf(c) < 0 /\ Span(c) = 4 /\ Missing(c)
        BY <1>7, <2>4 DEF LengthOf, Span, Missing
    <3>2. NoString
        BY <2>3, <3>1
    <3>3. todo' = <<>>
        BY <1>3, <1>7, <3>2 DEF NoString, Fail
    <3>4. rc' = q
        BY <1>3, <1>7, <2>3, <3>1 DEF ReadOk
    <3> QED
        BY <1>2, <1>7, <3>1, <3>3, <3>4, AtEnd
  <2>5. CASE c.n >= 0
    <3>1. PICK n \in Nat : n = c.n /\ LengthOf(c) = n
        BY <1>4, <1>7, <2>5 DEF LengthOf
    <3>2. Proceed(<<Step("body", (n + 1) * w)>>) /\ mark' = <<p>>
        BY <1>7, <2>3, <3>1
    <3>3. /\ rc' = p + 4 /\ todo' \in Seq(RSteps) /\ Len(todo') = 1 /\ todo' # <<>>
          /\ todo'[1] = Step("body", (n + 1) * w)
        BY <1>6, <1>7, <2>2, <2>3, <3>2
    <3>4. todo' = <<Step("body", (n + 1) * w)>>
      <4>1. PICK s : s = Step("body", (n + 1) * w)
        OBVIOUS
      <4> QED
        BY <3>3, <4>1
    <3>5. Reached(c, p)'
        BY <1>5, <1>7, <2>5, <3>1, <3>2, <3>3, <3>4 DEF Reached
    <3> QED
        BY <1>2, <3>3, <3>5, OnTheWay
  <2> QED
    BY <1>4, <2>4, <2>5
<1>8. CASE c.op = "strings" /\ AtString(c, p)
  <2>1. First = todo[1] /\ 1 \in DOMAIN todo
    BY <1>1, Phase
  <2>2. /\ Len(todo) \in 1 .. c.n /\ todo[1] = Step("length", w) /\ rc = Place(c, p)
        /\ \A e \in DOMAIN todo : e > 1 => todo[e] = Step("length", c.w)
    BY <1>1, <1>5, <1>8, <2>1 DEF AtString, Step
  <2>3. PICK k \in Nat : k = c.n - Len(todo) /\ k < c.n /\ k \in 0 .. c.n - 1
    <3>1. PICK n \in Nat : n = c.n
        BY <1>4, <1>8
    <3>2. PICK l \in 1 .. n : l = Len(todo)
        BY <2>2, <3>1
    <3>3. n - l \in Nat /\ n - l < n /\ n - l \in 0 .. n - 1
        BY <3>2
    <3> QED
        BY <3>1, <3>2, <3>3
  <2>4. PICK a \in Nat, b \in Nat, u \in Nat, z \in Nat :
            /\ a = k * Unit(c) /\ b = c.n * Unit(c) /\ u = Unit(c) /\ z = Sized(2 * c.w)
            /\ (k + 1) * u = a + u
            /\ a + u <= b /\ u = 4 + z /\ p + Span(c) = p + 4 + b
    <3>1. c \in Written /\ c.op = "strings" /\ k < c.n /\ p \in Nat
        BY <1>3, <1>8, <2>3
    <3> QED
        BY <3>1, StringNumbers, Zenon
  <2>5. rc = p + 4 + a
    BY <2>2, <2>3, <2>4 DEF Place
  <2>6. [off |-> p + 4 + a, val |-> 1] \in words
    BY <1>2, <1>3, <1>8, <2>3, <2>4, NthLength
  <2>7. LengthsAt(rc) = {1}
    BY <2>5, <2>6, OneLength
  <2>8. ~ReadFails(4)
    <3>1. p \in Nat /\ q = p + 4 + b /\ a + u <= b /\ u = 4 + z
        BY <1>3, <2>4
    <3>2. p <= rc /\ rc + 4 <= q
        BY <2>5, <3>1
    <3>3. ~HasObject(c)
        BY <1>8 DEF HasObject
    <3> QED
        BY <1>3, <3>2, <3>3, Readable
  <2>9. First.n = w
    BY <2>1, <2>2 DEF Step
  <2>10. ReadOk(4) /\ Proceed(<<Step("body", (1 + 1) * w)>>) /\ mark' = <<rc>>
    BY <2>7, <2>8, <2>9 DEF ReadStringLength
  <2>11. /\ rc' = rc + 4 /\ todo' \in Seq(RSteps) /\ Len(todo') = Len(todo) /\ todo' # <<>>
         /\ todo'[1] = Step("body", 2 * w)
         /\ \A e \in DOMAIN todo' : e > 1 => todo'[e] = todo[e]
    <3>1. (1 + 1) * w = 2 * w
        OBVIOUS
    <3> QED
        BY <1>6, <2>10, <3>1
  <2>12. Place(c, p)' = rc
    BY <2>2, <2>11 DEF Place
  <2>13. \A e \in DOMAIN todo' : e > 1 => todo'[e] = Step("length", c.w)
    <3>1. DOMAIN todo' = DOMAIN todo
        BY <1>1, <2>11, Phase
    <3> QED
        BY <2>2, <2>11, <3>1
  <2>14. AtString(c, p)'
    BY <1>5, <2>2, <2>10, <2>11, <2>12, <2>13 DEF AtString
  <2>15. Reached(c, p)'
    BY <1>8, <2>14 DEF Reached
  <2> QED
    BY <1>2, <2>11, <2>15, OnTheWay
<1> QED
    BY <1>1, <1>3, <1>7, <1>8, Stages

\* The characters of a string, its terminator and its padding.
LEMMA ReadStringBodyArrives ==
    ASSUME RegionInv, TableInv, ValueInv, ~torn, ReadStringBody, NEW i \in items, ReadsBack(i)
    PROVE  Arrived(i)'
<1>1. todo # <<>> /\ First.do = "body" /\ First.do \in ReadDos
    BY DEF ReadStringBody, At, First, ReadDos
<1>2. PICK c, p, q : c = i.call /\ p = i.off /\ q = i.end
    OBVIOUS
<1>3. /\ call.read /\ c \in Written /\ p \in Nat /\ q \in Nat /\ Laid(i) /\ Reached(c, p)
      /\ q = p + Span(c) /\ q <= size /\ (~HasObject(c) => Free(p, q))
    BY <1>1, <1>2, Finds
<1>4. c.n \in Int /\ (c.op # "string" => c.n \in Nat) /\ c.w \in Nat
    BY <1>3, WrittenType
<1>5. ASSUME NEW m \in Nat, m = First.n, ~HasObject(c), NEW r \in Nat, rc = r, p <= r,
             r + Sized(m) <= q, NEW v \in words, v.off = mark[1]
      PROVE  rc' = r + Sized(m) /\ Proceed(<<>>)
  <2>1. Sized(m) >= m /\ Sized(m) = m + GetPadSize(m) /\ GetPadSize(m) \in Nat
    BY SizedFacts
  <2>2. rc + m <= q /\ p <= rc
    BY <1>3, <1>5, <2>1
  <2>3. m <= GetReadableBytes /\ ~Refused(rc + m)
    BY <1>3, <1>5, <2>2, Readable
  <2>4. WrittenString
    BY <1>5 DEF WrittenString
  <2>5. GetReadableBytes \in Nat
    BY DEF GetReadableBytes, RegionInv, TypeOK
  <2>6. ~(m > GetReadableBytes)
    BY <2>3, <2>5
  <2>7. rc' = Skipped(rc + m, GetPadSize(m)) /\ Proceed(<<>>)
    BY <1>5, <2>3, <2>4, <2>6 DEF ReadStringBody
  <2>8. r + m \in Nat /\ (r + m) + GetPadSize(m) <= size
    <3>1. PICK g \in Nat : g = GetPadSize(m) /\ Sized(m) = m + g
        BY <2>1
    <3>2. r + (m + g) <= q /\ q <= size /\ q \in Nat /\ size \in Nat
        BY <1>3, <1>5, <3>1 DEF RegionInv, TypeOK
    <3>3. r + m + g <= size
        BY <3>2
    <3> QED
        BY <3>1, <3>3
  <2>9. Skipped(r + m, GetPadSize(m)) = (r + m) + GetPadSize(m)
    BY <2>1, <2>8, Skips DEF RegionInv
  <2> QED
    BY <1>5, <2>1, <2>7, <2>9
<1>6. First = todo[1] /\ 1 \in DOMAIN todo
    BY <1>1, Phase
<1>7. CASE /\ c.op = "string" /\ c.n >= 0
           /\ todo = <<Step("body", (c.n + 1) * c.w)>> /\ rc = p + 4 /\ mark = <<p>>
  <2>1. PICK m \in Nat : m = (c.n + 1) * c.w
    BY <1>4, <1>7
  <2>2. First.n = m /\ Len(todo) = 1 /\ mark[1] = p /\ ~HasObject(c)
    BY <1>6, <1>7, <2>1 DEF Step, HasObject
  <2>3. Span(c) = 4 + Sized(m) /\ Sized(m) \in Nat
    BY <1>4, <1>7, <2>1, SizedFacts DEF Span
  <2>4. PICK v \in words : v.off = mark[1]
    <3>1. PICK v : v = [off |-> p, val |-> LengthOf(c)] /\ v \in words
        BY <1>2, <1>3, <1>7, FirstLength
    <3> QED
        BY <2>2, <3>1
  <2>5. PICK r \in Nat : r = p + 4
    BY <1>3
  <2>6. r + Sized(m) = q /\ p <= r
    BY <1>3, <2>3, <2>5
  <2>7. rc' = r + Sized(m) /\ Proceed(<<>>)
    BY <1>3, <1>5, <1>7, <2>2, <2>4, <2>5, <2>6
  <2> QED
    BY <1>1, <1>2, <1>3, <1>7, <2>2, <2>6, <2>7, ReadOn, AtEnd
<1>8. CASE c.op = "strings" /\ AtString(c, p)
  <2>1. /\ Len(todo) \in 1 .. c.n /\ todo[1] = Step("body", 2 * c.w)
        /\ rc = Place(c, p) + 4 /\ mark = <<Place(c, p)>>
        /\ \A e \in DOMAIN todo : e > 1 => todo[e] = Step("length", c.w)
    BY <1>1, <1>6, <1>8 DEF AtString, Step
  <2>2. PICK k \in Nat : k = c.n - Len(todo) /\ k < c.n /\ k \in 0 .. c.n - 1
    <3>1. PICK n \in Nat : n = c.n
        BY <1>4, <1>8
    <3>2. PICK l \in 1 .. n : l = Len(todo)
        BY <2>1, <3>1
    <3>3. n - l \in Nat /\ n - l < n /\ n - l \in 0 .. n - 1
        BY <3>2
    <3> QED
        BY <3>1, <3>2, <3>3
  <2>3. PICK a \in Nat, b \in Nat, u \in Nat, z \in Nat :
            /\ a = k * Unit(c) /\ b = c.n * Unit(c) /\ u = Unit(c) /\ z = Sized(2 * c.w)
            /\ (k + 1) * u = a + u
            /\ a + u <= b /\ u = 4 + z /\ p + Span(c) = p + 4 + b
    <3>1. c \in Written /\ c.op = "strings" /\ k < c.n /\ p \in Nat
        BY <1>3, <1>8, <2>2
    <3> QED
        BY <3>1, StringNumbers, Zenon
  <2>4. PICK r \in Nat : r = p + 4 + a + 4
    BY <1>3
  <2>5. Place(c, p) = p + 4 + a /\ rc = r
    <3>1. Place(c, p) = p + 4 + a
        BY <2>2, <2>3 DEF Place
    <3> QED
        BY <2>1, <2>4, <3>1
  <2>6. mark[1] = p + 4 + a
    BY <2>1, <2>5
  <2>7. PICK v \in words : v.off = mark[1]
    <3>1. [off |-> p + 4 + k * Unit(c), val |-> 1] \in words
        BY <1>2, <1>3, <1>8, <2>2, NthLength
    <3>2. PICK v : v = [off |-> p + 4 + a, val |-> 1] /\ v \in words
        BY <2>3, <3>1
    <3> QED
        BY <2>6, <3>2
  <2>8. PICK m \in Nat : m = 2 * c.w /\ m = First.n /\ z = Sized(m)
    <3>1. PICK m \in Nat : m = 2 * c.w
        BY <1>4
    <3>2. First = Step("body", m)
        BY <1>6, <2>1, <3>1
    <3> QED
        BY <2>3, <3>1, <3>2 DEF Step
  <2>9. p <= r /\ r + z <= q /\ ~HasObject(c)
    <3>1. p \in Nat /\ q = p + 4 + b /\ a + u <= b /\ u = 4 + z
        BY <1>3, <2>3
    <3>2. p <= r /\ r + z <= q
        BY <2>4, <3>1
    <3> QED
        BY <1>8, <3>2 DEF HasObject
  <2>10. rc' = r + z /\ Proceed(<<>>)
    BY <1>5, <2>5, <2>7, <2>8, <2>9
  <2>11. /\ todo' \in Seq(RSteps) /\ Len(todo') = Len(todo) - 1
         /\ \A e \in DOMAIN todo' : e \in Nat \ {0} /\ e + 1 \in DOMAIN todo /\ todo'[e] = todo[e + 1]
         /\ Len(todo) = 1 => todo' = <<>> /\ ret' = "true"
    BY <1>1, <1>3, <2>10, ReadOn
  <2>12. PICK x \in Nat : x = (k + 1) * u
    BY <2>3
  <2>13. rc' = p + 4 + x
    <3>1. p \in Nat /\ x = a + u /\ u = 4 + z
        BY <1>3, <2>3, <2>12
    <3> QED
        BY <2>4, <2>10, <3>1
  <2>14. PICK n \in Nat : n = c.n
    BY <1>4, <1>8
  <2>15. PICK l \in 1 .. n : l = Len(todo) /\ k = n - l
    BY <2>1, <2>2, <2>14
  <2>16. CASE l = 1
    <3>1. k + 1 = n
        BY <2>15, <2>16
    <3>2. x = b
        BY <2>3, <2>12, <2>14, <3>1
    <3>3. rc' = q
      <4>1. q = p + 4 + b
        BY <1>3, <2>3
      <4> QED
        BY <2>13, <3>2, <4>1
    <3> QED
        BY <1>2, <1>8, <2>11, <2>15, <2>16, <3>3, AtEnd
  <2>17. CASE l # 1
    <3>1. l - 1 \in 1 .. n /\ n - (l - 1) = k + 1 /\ Len(todo') = l - 1
        BY <2>11, <2>15, <2>17
    <3>2. Place(c, p)' = p + 4 + x
      <4>1. c.n - Len(todo') = k + 1
        BY <2>14, <3>1
      <4>2. (c.n - Len(todo')) * Unit(c) = x
        BY <2>3, <2>12, <4>1
      <4> QED
        BY <4>2 DEF Place
    <3>3. todo' # <<>> /\ 1 \in DOMAIN todo'
        BY <2>11, <3>1
    <3>4. \A e \in DOMAIN todo' : todo'[e] = Step("length", c.w)
        BY <2>1, <2>11
    <3>5. Len(todo') \in 1 .. c.n
        BY <2>14, <3>1
    <3>6. AtString(c, p)'
        BY <2>13, <3>2, <3>3, <3>4, <3>5 DEF AtString
    <3>7. Reached(c, p)'
        BY <1>8, <3>6 DEF Reached
    <3> QED
        BY <1>2, <3>3, <3>7, OnTheWay
  <2> QED
    BY <2>16, <2>17
<1> QED
    BY <1>1, <1>3, <1>7, <1>8, Stages

\* The primitives of reading calls.
ReadRun ==
    \/ Get \/ ReadUnpadBuffer \/ ReadBuffer \/ ReadCString \/ ReadStringLength \/ ReadStringBody
    \/ ReadVectorCount \/ ReadStringVector \/ SkipPadding \/ ReadMeta \/ ReadObject

\* What all of them leave alone.
LEMMA ReadRunFrame ==
    ASSUME ReadRun
    PROVE  /\ todo # <<>> /\ First.do \in ReadDos /\ ReadFrame
           /\ UNCHANGED <<call, from>>
<1>1. todo # <<>> /\ First.do \in ReadDos /\ ReadFrame
    BY DEF ReadRun, Get, ReadUnpadBuffer, ReadBuffer, ReadCString, ReadStringLength, ReadStringBody,
       ReadVectorCount, ReadStringVector, SkipPadding, ReadMeta, ReadObject, At, First, ReadDos
<1>2. UNCHANGED <<call, from>>
  <2> USE DEF Proceed, Fail, NoString
  <2>1. CASE Get \/ ReadUnpadBuffer \/ ReadBuffer \/ ReadCString \/ SkipPadding \/ ReadObject
    BY <2>1 DEF Get, ReadUnpadBuffer, ReadBuffer, ReadCString, SkipPadding, ReadObject
  <2>2. CASE ReadStringLength
    BY <2>2 DEF ReadStringLength
  <2>3. CASE ReadStringBody
    BY <2>3 DEF ReadStringBody
  <2>4. CASE ReadVectorCount \/ ReadStringVector \/ ReadMeta
    BY <2>4 DEF ReadVectorCount, ReadStringVector, ReadMeta
  <2> QED
    BY <2>1, <2>2, <2>3, <2>4 DEF ReadRun
<1> QED
    BY <1>1, <1>2

\* A reading step keeps the values, and gets on in the one it reads.
LEMMA ValueRead ==
    ASSUME RegionInv, TableInv, ValueInv, RegionInv', ReadRun
    PROVE  ValueInv'
<1>1. todo # <<>> /\ First.do \in ReadDos /\ ReadFrame /\ call' = call /\ from' = from
    BY ReadRunFrame
<1>2. call.read /\ call'.read
    BY <1>1, Phase
<1>3. UNCHANGED <<torn, writable, words, items, size, offs>>
    BY <1>1 DEF ReadFrame, region, table, ghosts
<1>4. Intact'
    BY <1>3, IntactSame DEF ValueInv
<1>5. Writing'
    BY <1>2 DEF Writing
<1>6. Entered'
  <2>1. todo' \in Seq(RSteps)
    BY <1>2 DEF RegionInv, Running
  <2>2. todo' # <<>> => Head(todo') \in RSteps
    BY <2>1
  <2>3. \A s \in RSteps : s.do # "offset"
    BY DEF RSteps, ReadDos
  <2> QED
    BY <2>2, <2>3 DEF Entered, At
<1>7. ASSUME ~torn, NEW i \in items, ReadsBack(i)
      PROVE  Arrived(i)'
    BY <1>7, GetArrives, ReadUnpadBufferArrives, ReadBufferArrives, ReadCStringArrives, ReadStringLengthArrives,
       ReadStringBodyArrives, ReadVectorCountArrives, ReadStringVectorArrives,
       SkipPaddingArrives, ReadMetaArrives, ReadObjectArrives DEF ReadRun
<1>8. Reading'
  <2> SUFFICES ASSUME ~torn, NEW i \in items, ReadsBack(i)'
               PROVE  Arrived(i)'
    BY <1>3 DEF Reading
  <2>1. ReadsBack(i)
    BY <1>1 DEF ReadsBack
  <2> QED
    BY <1>7, <2>1
<1> QED
    BY <1>4, <1>5, <1>6, <1>8 DEF ValueInv

\* Every step keeps what is known of the values.
LEMMA ValueStep ==
    ASSUME RegionInv, TableInv, ValueInv, RegionInv', TableInv', [Next]_vars
    PROVE  ValueInv'
<1>1. CASE StartCall
    BY <1>1, ValueBegin, ValueOneStep DEF StartCall
<1>2. CASE WriteInPlace \/ WriteGrowing
    BY <1>2, ValueStored DEF WriteInPlace, WriteGrowing
<1>3. CASE WriteFails \/ EnsureObjectsFails
  <2>1. todo # <<>> /\ First.do \in WriteDos
    BY <1>3 DEF WriteFails, EnsureObjectsFails, At, First, WriteDos
  <2>2. UNCHANGED <<torn, writable, offs>> /\ Fail /\ RollBack
    BY <1>3 DEF WriteFails, EnsureObjectsFails, table
  <2> QED
    BY <2>1, <2>2, ValueRolledBack
<1>4. CASE MarkPosition \/ EnsureObjectsCapacity \/ WriteObjectOffset
    BY <1>4, ValueEnsured, ValueOffset
<1>5. CASE ReadRun
    BY <1>5, ValueRead
<1>6. CASE UNCHANGED vars
  <2>1. UNCHANGED <<torn, writable, words, items, size, offs, wc, rc, todo, call, from, mark, ret>>
    BY <1>6 DEF vars, region, table, locals, ghosts
  <2>2. Intact'
    BY <2>1, IntactSame DEF ValueInv
  <2>3. Writing'
    BY <2>1 DEF ValueInv, Writing, Done, Lengths
  <2>4. Reading'
    <3> SUFFICES ASSUME ~torn, call.read, NEW i \in items, ReadsBack(i)'
                 PROVE  Arrived(i)'
        BY <2>1 DEF Reading
    <3>1. Arrived(i)
        BY <2>1 DEF ValueInv, Reading, ReadsBack
    <3>2. PICK c, p : c = i.call /\ p = i.off
        OBVIOUS
    <3>3. Reached(c, p) => Reached(c, p)'
        BY <2>1 DEF Reached, AtElement, AtString, Place
    <3> QED
        BY <2>1, <3>1, <3>2, <3>3 DEF Arrived
  <2>5. Entered'
    BY <2>1 DEF ValueInv, Entered, At
  <2> QED
    BY <2>2, <2>3, <2>4, <2>5 DEF ValueInv
<1> QED
    BY <1>1, <1>2, <1>3, <1>4, <1>5, <1>6 DEF Next, RunCall, Idle, ReadRun

\* A new Parcel holds no values.
LEMMA ValueStarts == Init => ValueInv
<1> SUFFICES ASSUME Init
             PROVE  ValueInv
    OBVIOUS
<1>1. words = {} /\ items = {} /\ todo = <<>>
    BY DEF Init
<1> QED
    BY <1>1 DEF ValueInv, Intact, Writing, Reading, Entered, At

\* A value that was written whole is read back with the matching call from
\* where it was written: the call succeeds and stops where the next value
\* begins, whatever was written, rewound and read before.
THEOREM ValuesReadBack == Spec => []RoundTrip
<1>1. ASSUME RegionInv, ValueInv
      PROVE  RoundTrip
  <2> SUFFICES ASSUME call.read, ret # "busy", ~torn, NEW i \in items, ReadsBack(i)
               PROVE  rc = ReadTo(i) /\ (ret = "true" \/ Missing(i.call))
    BY DEF RoundTrip, ReadsBack
  <2>1. todo = <<>>
    BY <1>1 DEF RegionInv, Running
  <2> QED
    BY <1>1, <2>1 DEF ValueInv, Reading, Arrived
<1>2. RegionInv /\ TableInv /\ ValueInv /\ [Next]_vars => RegionInv' /\ TableInv' /\ ValueInv'
    BY RegionStep, TableStep, ValueStep
<1> QED
    BY <1>1, <1>2, RegionStarts, TableStarts, ValueStarts, PTL DEF Spec
===============================================================================
