------------------------------- MODULE Parcel -------------------------------
(***************************************************************************)
(* The data region, the cursors and the object table of one Parcel         *)
(* (base/src/parcel.cpp, base/include/parcel.h), built with                *)
(* PARCEL_OBJECT_CHECK as base/BUILD.gn does.                              *)
(*                                                                         *)
(* A Parcel is used by one thread.  A call is the sequence todo of the     *)
(* primitive reads and writes it makes; the next call begins when todo is  *)
(* empty, so a call that fails in the middle leaves behind exactly what    *)
(* its earlier primitives did.  Bytes are not modelled, except the 32-bit  *)
(* words that a later read interprets as a length (words).                 *)
(***************************************************************************)
EXTENDS Integers, Sequences

CONSTANTS
    Calls,          \* descriptors [op, n, w] of the values written and read
    Capacities,     \* arguments of SetDataCapacity, SetMaxCapacity, ParseFrom
    MaxCalls,       \* bound: calls in a behaviour
    AllocMayFail,   \* may malloc/realloc return nullptr
    Sizes           \* arguments of SetDataSize

\* "buffer" and "raw" are both written by WriteBuffer, and read by
\* ReadUnpadBuffer and by ReadBuffer.
Ops == {"prim", "buffer", "raw", "cstring", "string", "vector",
        "strings", "null", "strongnull", "plain", "remote", "object"}

ASSUME ParcelConstants ==
    /\ Calls \subseteq [op : Ops, n : Int, w : Nat \ {0}]
    /\ \A c \in Calls : c.op # "string" => c.n >= 0
    /\ \A c \in Calls : c.op \in {"buffer", "raw"} => c.n > 0
    /\ Capacities \subseteq Nat
    /\ MaxCalls \in Nat
    /\ AllocMayFail \in BOOLEAN
    /\ Sizes \subseteq Nat

DEFAULT_CPACITY    == 204800
CAPACITY_THRESHOLD == 4096
ObjSize            == 24            \* sizeof(parcel_flat_binder_object)

VARIABLES
    data,           \* data_ # nullptr
    cap, size,      \* dataCapacity_, dataSize_
    wc, rc,         \* writeCursor_, readCursor_
    maxCap,         \* maxDataCapacity_
    writable,
    offs,           \* objectOffsets_[0 .. objectCursor_ - 1]
    offsCap,        \* objectsCapacity_
    nextObj,        \* nextObjectIdx_
    holder,         \* objectHolder_, as the offsets of the held objects
    torn,           \* ghost: dataSize_ was moved without the rest (SetDataSize,
                    \* or a RewindWrite whose realloc failed)
    todo,           \* primitives the running call still has to do
    call,           \* the running or last call: [op, n, w, read]
    from,           \* cursor at its start
    mark,           \* locals of the running call: saved cursors, or <<>>
    place,          \* placeholder of WriteRemoteObject
    ret,            \* "busy" while a call runs, then what it returned
    acc,            \* last bytes touched: [lo, hi, kind]
    words,          \* length words in the data: [off, val]
    items,          \* values written whole: [off, end, call]
    heldAt,         \* offsets of objects written with HOLD_OBJECT
    calls

region == <<data, cap, size, wc, maxCap, writable, torn>>
table  == <<offs, offsCap, holder, heldAt>>
locals == <<call, from, mark, place>>
ghosts == <<words, items>>
vars == <<region, rc, table, nextObj, todo, locals, ret, acc, ghosts, calls>>

-----------------------------------------------------------------------------
(* Arithmetic.                                                             *)

GetPadSize(n) == ((n + 3) \div 4) * 4 - n

GetWritableBytes == IF cap > wc THEN cap - wc ELSE 0
GetReadableBytes == IF size > rc THEN size - rc ELSE 0

\* The capacities 64, 128, ... that the doubling loop runs through.
Doublings == {64, 128, 256, 512, 1024, 2048, 4096}
Doubled(n) == CHOOSE c \in Doublings : c >= n /\ \A d \in Doublings : d >= n => c <= d

Capped(n) == IF maxCap > 0 /\ n > maxCap THEN maxCap ELSE n

CalcNewCapacityLow(min) ==
    IF min <= CAPACITY_THRESHOLD THEN Capped(Doubled(min))
    ELSE Capped((min \div CAPACITY_THRESHOLD) * CAPACITY_THRESHOLD)

CalcNewCapacity(min) ==
    IF min = CAPACITY_THRESHOLD THEN CAPACITY_THRESHOLD
    ELSE IF min > CAPACITY_THRESHOLD
         THEN LET steps == (min \div CAPACITY_THRESHOLD) * CAPACITY_THRESHOLD
              IN  IF maxCap > 0 /\ steps > maxCap - CAPACITY_THRESHOLD
                  THEN maxCap ELSE steps + CAPACITY_THRESHOLD
         ELSE Capped(Doubled(min))

-----------------------------------------------------------------------------
(* The primitives of a call.                                               *)

NoVal == -2
Write(n, pad, tail, val) ==
    [do |-> "write", n |-> n, pad |-> pad, tail |-> tail, val |-> val]
Chunk(n)  == Write(n, 0, FALSE, NoVal)              \* Write<T>
Word(val) == Write(4, 0, FALSE, val)                \* Write<int32_t>(length)
Padded(n) == Write(n, GetPadSize(n), TRUE, NoVal)   \* WriteBuffer[AddTerminator]
PadFor(n) == Write(0, GetPadSize(n), TRUE, NoVal)   \* the end of WriteVector

Step(do, n) == [do |-> do, n |-> n, pad |-> 0, tail |-> FALSE, val |-> NoVal]

\* WriteRemoteObject: EnsureObjectsCapacity, Marshalling, WriteObjectOffset.
Remote(hold) == <<Step("objects", 0), Padded(ObjSize), Step("offset", hold)>>

WriteString(n, w) ==
    IF n < 0 THEN <<Word(-1)>> ELSE <<Word(n), Padded((n + 1) * w)>>

\* WriteVector and WriteFixedAlignVector.
WriteVector(n, w) == <<Word(n)>> \o [i \in 1..n |-> Chunk(w)] \o <<PadFor(n * w)>>

\* WriteVector of n one-character strings; sizeof(std::string) needs no padding.
WriteStrings(n, w) ==
    <<Word(n)>> \o [i \in 1..2 * n |-> WriteString(1, w)[IF i % 2 = 1 THEN 1 ELSE 2]]
                \o <<PadFor(0)>>

WriteSteps(c) ==
    CASE c.op = "prim"    -> <<Chunk(c.w)>>
      [] c.op \in {"buffer", "raw"} -> <<Padded(c.n)>>
      [] c.op = "cstring" -> <<Padded(c.n + 1)>>
      [] c.op = "string"  -> WriteString(c.n, c.w)
      [] c.op = "vector"  -> WriteVector(c.n, c.w)
      [] c.op = "strings" -> WriteStrings(c.n, c.w)
      [] c.op \in {"null", "strongnull"} -> <<Word(0)>>
      [] c.op = "plain"   -> <<Word(1), Chunk(4)>>
      [] c.op = "remote"  -> <<Step("mark", 0), Word(1)>> \o Remote(c.n)
      [] c.op = "object"  -> Remote(c.n)

\* The reader of each value, in the order the client's Unmarshalling uses.
ReadSteps(c) ==
    CASE c.op = "prim"    -> <<Step("get", c.w)>>
      [] c.op = "buffer"  -> <<Step("unpad", c.n)>>
      [] c.op = "raw"     -> <<Step("raw", c.n)>>
      [] c.op = "cstring" -> <<Step("cstring", 0)>>
      [] c.op = "string"  -> <<Step("length", c.w)>>
      [] c.op = "vector"  -> <<Step("count", c.w)>>
      [] c.op = "strings" -> <<Step("strings", c.w)>>
      [] c.op \in {"null", "strongnull", "plain"} -> <<Step("meta", 0), Step("get", 4)>>
      [] c.op = "remote"  -> <<Step("meta", 0), Step("object", 0)>>
      [] c.op = "object"  -> <<Step("object", 0)>>

-----------------------------------------------------------------------------
NoCall == [op |-> "prim", n |-> 0, w |-> 1, read |-> FALSE]

Init ==
    /\ data = FALSE /\ cap = 0 /\ size = 0 /\ wc = 0 /\ rc = 0
    /\ maxCap = DEFAULT_CPACITY /\ writable = TRUE /\ torn = FALSE
    /\ offs = <<>> /\ offsCap = 0 /\ nextObj = 0 /\ holder = <<>> /\ heldAt = {}
    /\ todo = <<>> /\ call = NoCall /\ from = 0 /\ mark = <<>> /\ place = 0
    /\ ret = "none" /\ acc = [lo |-> 0, hi |-> 0, kind |-> "none"]
    /\ words = {} /\ items = {} /\ calls = 0

NoAccess == acc' = [lo |-> 0, hi |-> 0, kind |-> "none"]
Access(kind, lo, hi) == acc' = [lo |-> lo, hi |-> hi, kind |-> kind]

\* A call of the client: everything it does not change is listed by the caller.
Begins == ret # "busy" /\ calls < MaxCalls /\ calls' = calls + 1
Returns(yes) ==
    /\ ret' = IF yes THEN "true" ELSE "false"
    /\ todo' = <<>> /\ mark' = <<>>
    /\ call' = NoCall

\* The data beyond p is gone.
CutGhosts(p) ==
    /\ words' = {v \in words : v.off < p}
    /\ items' = {i \in items : i.end <= p}

BeginWrite(c) ==
    /\ Begins
    /\ todo' = WriteSteps(c)
    /\ call' = [op |-> c.op, n |-> c.n, w |-> c.w, read |-> FALSE]
    /\ from' = wc /\ mark' = <<>> /\ ret' = "busy"
    /\ NoAccess
    /\ UNCHANGED <<region, rc, table, nextObj, place, ghosts>>

BeginRead(c) ==
    /\ Begins
    /\ todo' = ReadSteps(c)
    /\ call' = [op |-> c.op, n |-> c.n, w |-> c.w, read |-> TRUE]
    /\ from' = rc /\ mark' = <<>> /\ ret' = "busy"
    /\ NoAccess
    /\ UNCHANGED <<region, rc, table, nextObj, place, ghosts>>

\* The first primitive of todo is done, those in push come next.
Proceed(push) ==
    /\ todo' = push \o Tail(todo)
    /\ ret' = IF push \o Tail(todo) = <<>> THEN "true" ELSE "busy"
    /\ UNCHANGED <<call, from>>

\* A primitive returned false; WriteStrongParcelable(nullptr) ignores it.
Fail ==
    /\ todo' = <<>> /\ mark' = <<>>
    /\ ret' = IF call.op = "strongnull" /\ ~call.read THEN "true" ELSE "false"
    /\ UNCHANGED <<call, from, place>>

-----------------------------------------------------------------------------
(* Writing.                                                                *)

At(do) == todo # <<>> /\ Head(todo).do = do
First  == Head(todo)
Need   == First.n + First.pad

Grown(need) == CalcNewCapacity(need + wc)
MayGrowSome(need) == Grown(need) > cap
MayGrow(need) == Grown(need) > cap /\ Grown(need) >= need + wc

\* The bytes are stored, then WritePadBytes masks the last 32-bit word.
LowestByte == IF First.tail /\ Need < 4 THEN wc + Need - 4 ELSE wc

Store ==
    /\ wc' = wc + Need /\ size' = size + Need
    /\ Access("write", LowestByte, wc + Need)
    /\ words' = {v \in words : v.off < wc}
                 \cup IF First.val = NoVal THEN {} ELSE {[off |-> wc, val |-> First.val]}
    /\ items' = IF Tail(todo) = <<>> /\ First.do = "write"
                THEN items \cup {[off |-> from, end |-> wc + Need, call |-> call]}
                ELSE items
    /\ Proceed(<<>>)
    /\ UNCHANGED <<rc, maxCap, writable, torn, table, nextObj, mark, place, calls>>

\* EnsureWritableCapacity finds room, or reallocates.
WriteInPlace ==
    /\ At("write") /\ writable
    /\ Need <= GetWritableBytes /\ data
    /\ Store
    /\ UNCHANGED <<data, cap>>

WriteGrowing ==
    /\ At("write") /\ writable
    /\ Need > GetWritableBytes /\ MayGrow(Need)
    /\ data' = TRUE /\ cap' = Grown(Need)
    /\ Store

\* WriteParcelable of a remote object rolls its own words back.
RollBack ==
    IF mark = <<>> THEN UNCHANGED <<wc, size, ghosts>>
    ELSE /\ wc' = mark[1] /\ size' = mark[2]
         /\ CutGhosts(mark[1])

NoRoom(need) ==
    \/ ~writable
    \/ need <= GetWritableBytes /\ ~data
    \/ need > GetWritableBytes /\ (AllocMayFail \/ ~MayGrow(need))

WriteFails ==
    /\ At("write") /\ NoRoom(Need)
    /\ Fail /\ RollBack /\ NoAccess
    /\ UNCHANGED <<data, cap, rc, maxCap, writable, torn, table, nextObj, calls>>

MarkPosition ==
    /\ At("mark")
    /\ mark' = <<wc, size>>
    /\ Proceed(<<>>) /\ NoAccess
    /\ UNCHANGED <<region, rc, table, nextObj, place, ghosts, calls>>

GrowTable(n) == ((n + 2) * 3) \div 2

EnsureObjectsCapacity ==
    /\ At("objects")
    /\ offsCap' = IF offsCap - Len(offs) >= 1 THEN offsCap ELSE GrowTable(offsCap)
    /\ place' = wc
    /\ Proceed(<<>>) /\ NoAccess
    /\ UNCHANGED <<region, rc, offs, holder, heldAt, nextObj, mark, ghosts, calls>>

EnsureObjectsFails ==
    /\ At("objects") /\ AllocMayFail /\ offsCap - Len(offs) < 1
    /\ Fail /\ RollBack /\ NoAccess
    /\ UNCHANGED <<data, cap, rc, maxCap, writable, torn, table, nextObj, calls>>

InTable(off) == \E i \in DOMAIN offs : offs[i] = off

\* WriteObjectOffset, whose result is ignored, and the HOLD_OBJECT behaviour.
WriteObjectOffset ==
    /\ At("offset")
    /\ offs' = IF place > size \/ InTable(place) THEN offs ELSE Append(offs, place)
    /\ holder' = IF First.n = 1 THEN Append(holder, place) ELSE holder
    /\ heldAt' = IF First.n = 1 THEN heldAt \cup {place} ELSE heldAt
    /\ items' = items \cup {[off |-> from, end |-> wc, call |-> call]}
    /\ mark' = <<>>
    /\ Proceed(<<>>) /\ NoAccess
    /\ UNCHANGED <<region, rc, offsCap, nextObj, place, words, calls>>

-----------------------------------------------------------------------------
(* Reading.                                                                *)

ReadableAt(p) == IF size > p THEN size - p ELSE 0

\* ValidateReadData: the loop stops at the first entry not below upper, and
\* an entry it passes must end at or before the read cursor.
Passed(k, upper) ==
    /\ \A i \in nextObj + 1..k : offs[i] < upper
    /\ k < Len(offs) => offs[k + 1] >= upper
ClearOfStart(k) == \A i \in nextObj + 1..k : rc >= offs[i]
ClearOf(k) == \A i \in nextObj + 1..k : rc >= offs[i] + ObjSize

Validated(upper) ==
    \E k \in nextObj..Len(offs) : Passed(k, upper) /\ ClearOf(k) /\ nextObj' = k
Refused(upper) ==
    /\ \E k \in nextObj..Len(offs) : Passed(k, upper) /\ ~ClearOf(k)
    /\ UNCHANGED nextObj

\* Read<T>: the cursor moves on even when the data belongs to an object.
ReadOk(n) ==
    /\ n <= GetReadableBytes /\ Validated(rc + n)
    /\ rc' = rc + n
    /\ Access("read", rc, rc + n)
ReadFails(n) ==
    /\ NoAccess
    /\ \/ n > GetReadableBytes /\ UNCHANGED <<rc, nextObj>>
       \/ n <= GetReadableBytes /\ Refused(rc + n) /\ rc' = rc + n

\* SkipBytes from p.
SkippedNot(p, bytes) == p
Skipped(p, bytes) ==
    IF ReadableAt(p) >= bytes THEN p + bytes ELSE IF p < cap THEN cap ELSE p

\* The int32_t at p: what was written there, or any value at all.
Garbage == {-1, 0, 2}
LengthsAt(p) ==
    IF \E v \in words : v.off = p THEN {v.val : v \in {x \in words : x.off = p}} ELSE Garbage

ReadFrame == UNCHANGED <<region, table, place, ghosts, calls>>

Get ==
    /\ At("get")
    /\ \/ ReadOk(First.n) /\ Proceed(<<>>) /\ UNCHANGED mark
       \/ ReadFails(First.n) /\ Fail
    /\ ReadFrame

\* ReadUnpadBuffer: a refused read leaves the cursor.
ReadUnpadBuffer ==
    /\ At("unpad")
    /\ \/ /\ First.n <= GetReadableBytes /\ Validated(rc + First.n)
          /\ rc' = Skipped(rc + First.n, GetPadSize(First.n))
          /\ Access("read", rc, rc + First.n)
          /\ Proceed(<<>>) /\ UNCHANGED mark
       \/ /\ First.n > GetReadableBytes \/ Refused(rc + First.n)
          /\ Fail /\ NoAccess /\ UNCHANGED <<rc, nextObj>>
    /\ ReadFrame

\* ReadBuffer: the same, but the padding stays unread.
ReadBuffer ==
    /\ At("raw")
    /\ \/ /\ First.n <= GetReadableBytes /\ Validated(rc + First.n)
          /\ rc' = rc + First.n
          /\ Access("read", rc, rc + First.n)
          /\ Proceed(<<>>) /\ UNCHANGED mark
       \/ /\ First.n > GetReadableBytes \/ Refused(rc + First.n)
          /\ Fail /\ NoAccess /\ UNCHANGED <<rc, nextObj>>
    /\ ReadFrame

\* Where memchr may find the terminator of a C string at the cursor.
StringLengths ==
    LET here == {i \in items : i.off = rc /\ i.call.op = "cstring"}
    IN  {n \in IF here # {} THEN {i.call.n : i \in here} ELSE {0, 3} :
            n + 1 <= GetReadableBytes}

ReadCString ==
    /\ At("cstring")
    /\ \/ \E n \in StringLengths :
             /\ Validated(rc + n + 1)
             /\ rc' = Skipped(rc + n + 1, GetPadSize(n + 1))
             /\ Access("read", rc, rc + n + 1)
             /\ Proceed(<<>>) /\ UNCHANGED mark
       \/ /\ \/ StringLengths = {} \/ ~\E i \in items : i.off = rc
             \/ \E n \in StringLengths : Refused(rc + n + 1)
          /\ Fail /\ NoAccess /\ UNCHANGED <<rc, nextObj>>
    /\ ReadFrame

\* A string that cannot be read is empty; only ReadStringVector goes on.
NoString == IF call.op = "strings" THEN Proceed(<<>>) /\ UNCHANGED <<mark, place>> ELSE Fail

ReadStringLength ==
    /\ At("length")
    /\ \/ /\ ReadOk(4)
          /\ \E len \in LengthsAt(rc) :
                IF len < 0 THEN NoString
                ELSE /\ Proceed(<<Step("body", (len + 1) * First.n)>>)
                     /\ mark' = <<rc>>
       \/ ReadFails(4) /\ NoString
    /\ ReadFrame

\* Was there a length word where this string began?
WrittenString == \E v \in words : v.off = mark[1]

ReadStringBody ==
    /\ At("body")
    /\ \/ /\ First.n <= GetReadableBytes /\ Validated(rc + First.n)
          /\ Access("read", rc, rc + First.n)
          /\ \/ /\ rc' = Skipped(rc + First.n, GetPadSize(First.n))
                /\ Proceed(<<>>) /\ UNCHANGED mark
             \/ ~WrittenString /\ rc' = mark[1] /\ NoString
       \/ /\ \/ First.n > GetReadableBytes /\ UNCHANGED nextObj
             \/ First.n <= GetReadableBytes /\ Refused(rc + First.n)
          /\ rc' = mark[1] /\ NoString /\ NoAccess
    /\ ReadFrame

\* The elements and the padding of a vector of len elements of w bytes.
Elements(len, w) == [i \in 1..len |-> Step("get", w)] \o <<Step("skip", GetPadSize(len * w))>>

\* ReadVector: ReadInt32() gives 0 when there is nothing to read.
ReadVectorCount ==
    /\ At("count")
    /\ \E len \in LengthsAt(rc) \cup {0} :
          /\ \/ ReadOk(4) /\ len \in LengthsAt(rc)
             \/ ReadFails(4) /\ len = 0
          /\ IF len < 0 \/ len > ReadableAt(rc') \div First.n THEN Fail
             ELSE Proceed(Elements(len, First.n)) /\ UNCHANGED mark
    /\ ReadFrame

ReadStringVector ==
    /\ At("strings")
    /\ \E len \in LengthsAt(rc) \cup {0} :
          /\ \/ ReadOk(4) /\ len \in LengthsAt(rc)
             \/ ReadFails(4) /\ len = 0
          /\ IF len < 0 \/ len > ReadableAt(rc') THEN Fail
             ELSE Proceed([i \in 1..len |-> Step("length", First.n)]) /\ UNCHANGED mark
    /\ ReadFrame

SkipPadding ==
    /\ At("skip")
    /\ rc' = Skipped(rc, First.n)
    /\ Proceed(<<>>) /\ NoAccess
    /\ UNCHANGED <<nextObj, mark>> /\ ReadFrame

\* ReadParcelable: 0 stands for nullptr, and is what a failed read gives.
ReadMeta ==
    /\ At("meta")
    /\ \E len \in LengthsAt(rc) \cup {0} :
          /\ \/ ReadOk(4) /\ len \in LengthsAt(rc)
             \/ ReadFails(4) /\ len = 0
          /\ IF len = 0 THEN /\ todo' = <<>> /\ ret' = "null" /\ mark' = <<>>
                             /\ UNCHANGED <<call, from>>
             ELSE Proceed(<<>>) /\ UNCHANGED mark
    /\ ReadFrame

\* ReadObject: CheckOffsets, then ReadBuffer(sizeof(flat), false).
ReadObject ==
    /\ At("object")
    /\ \/ /\ rc + ObjSize <= size /\ InTable(rc)
          /\ rc' = rc + ObjSize
          /\ Access("object", rc, rc + ObjSize)
          /\ Proceed(<<>>) /\ UNCHANGED mark
       \/ /\ rc + ObjSize > size \/ ~InTable(rc)
          /\ Fail /\ NoAccess /\ UNCHANGED rc
    /\ UNCHANGED nextObj /\ ReadFrame

-----------------------------------------------------------------------------
(* Calls that do not read or write values.                                 *)

Positions == {0, size, size + 1} \cup {i.off : i \in items}

SkipBytes(n) ==
    /\ Begins
    /\ rc' = Skipped(rc, n)
    /\ Returns(TRUE) /\ NoAccess
    /\ UNCHANGED <<region, table, nextObj, from, place, ghosts>>

RewindRead(p) ==
    /\ Begins
    /\ rc' = IF p > size THEN rc ELSE p
    /\ nextObj' = IF p > size THEN nextObj ELSE 0
    /\ Returns(p <= size) /\ NoAccess
    /\ UNCHANGED <<region, table, from, place, ghosts>>

\* The objects that end at or before p, counted from the back of the table.
Kept(p, k) ==
    /\ k > 0 => offs[k] + ObjSize <= p
    /\ \A i \in k + 1..Len(offs) : offs[i] + ObjSize > p

Null == -1
ResizedTail(s, k) == [i \in 1..k |-> IF i <= Len(s) THEN s[Len(s) + 1 - i] ELSE Null]
Resized(s, k) == [i \in 1..k |-> IF i <= Len(s) THEN s[i] ELSE Null]

\* ClearObjects; the lost references are dropped.
ClearTable == offs' = <<>> /\ offsCap' = 0 /\ holder' = <<>> /\ nextObj' = 0

RewindWrite(p) ==
    /\ /\ p <= size /\ Begins
    /\ wc' = p /\ size' = p
    /\ CutGhosts(p)
    /\ heldAt' = {h \in heldAt : h + ObjSize <= p}
    /\ \E k \in 0..Len(offs) :
          /\ Kept(p, k)
          /\ \/ /\ k = Len(offs) /\ Returns(TRUE)
                /\ UNCHANGED <<torn, offs, offsCap, holder, nextObj>>
             \/ k = 0 /\ Len(offs) > 0 /\ Returns(TRUE) /\ ClearTable /\ UNCHANGED torn
             \/ /\ 0 < k /\ k < Len(offs) /\ Returns(TRUE)
                /\ offs' = SubSeq(offs, 1, k) /\ offsCap' = k
                /\ holder' = Resized(holder, k) /\ nextObj' = 0
                /\ UNCHANGED torn
             \/ /\ 0 < k /\ k < Len(offs) /\ AllocMayFail /\ Returns(FALSE)
                /\ torn' = TRUE /\ UNCHANGED <<offs, offsCap, holder, nextObj>>
    /\ NoAccess
    /\ UNCHANGED <<data, cap, maxCap, writable, rc, from, place>>

RewindWriteRefused(p) ==
    /\ /\ p > size /\ Begins
    /\ Returns(FALSE) /\ NoAccess
    /\ UNCHANGED <<region, rc, table, nextObj, from, place, ghosts>>

SetDataCapacity(n) ==
    /\ Begins
    /\ \/ size < n /\ data' = TRUE /\ cap' = n /\ Returns(TRUE)
       \/ (size >= n \/ AllocMayFail) /\ Returns(FALSE) /\ UNCHANGED <<data, cap>>
    /\ NoAccess
    /\ UNCHANGED <<size, wc, maxCap, writable, torn, rc, table, nextObj, from, place, ghosts>>

SetMaxCapacity(n) ==
    /\ Begins
    /\ maxCap' = IF n > maxCap THEN n ELSE maxCap
    /\ Returns(n > maxCap) /\ NoAccess
    /\ UNCHANGED <<data, cap, size, wc, writable, torn, rc, table, nextObj, from, place, ghosts>>

SetDataSize(n) ==
    /\ Begins
    /\ size' = IF n > cap THEN size ELSE n
    /\ torn' = TRUE
    /\ Returns(n <= cap) /\ NoAccess
    /\ UNCHANGED <<data, cap, wc, maxCap, writable, rc, table, nextObj, from, place, ghosts>>

\* Only a region with data in it moves to the new allocator.
SetAllocator ==
    /\ Begins
    /\ \/ data /\ size > 0 /\ cap' = size /\ Returns(TRUE)
       \/ data /\ size > 0 /\ AllocMayFail /\ Returns(FALSE) /\ UNCHANGED cap
       \/ ~(data /\ size > 0) /\ Returns(TRUE) /\ UNCHANGED cap
    /\ NoAccess
    /\ UNCHANGED <<data, torn, size, wc, maxCap, writable, rc, table, nextObj, from, place, ghosts>>

\* objectOffsets_ # nullptr.
HasTable == offsCap > 0

ParseFrom(n) ==
    /\ Begins
    /\ IF data
       THEN /\ Returns(FALSE)
            /\ UNCHANGED <<data, cap, size, writable, table, nextObj>>
       ELSE /\ Returns(TRUE)
            /\ data' = TRUE /\ cap' = n /\ size' = n /\ writable' = FALSE
            /\ heldAt' = {}
            /\ IF HasTable THEN ClearTable ELSE UNCHANGED <<offs, offsCap, holder, nextObj>>
    /\ NoAccess
    /\ UNCHANGED <<wc, maxCap, torn, rc, from, place, ghosts>>

\* A table that the sender of the data built, as the driver delivers it.
SenderTables == {t \in {<<0>>, <<4>>, <<4, 36>>} : t[Len(t)] + ObjSize <= size}

InjectOffsets(t) ==
    /\ ~writable /\ offs = <<>> /\ Begins
    /\ \/ offs' = t /\ offsCap' = IF offsCap >= Len(t) THEN offsCap ELSE GrowTable(offsCap)
       \/ AllocMayFail /\ offsCap = 0 /\ UNCHANGED <<offs, offsCap>>
    /\ Returns(TRUE) /\ NoAccess
    /\ UNCHANGED <<region, rc, holder, heldAt, nextObj, from, place, ghosts>>

FlushBuffer ==
    /\ Begins
    /\ data' = FALSE /\ torn' = FALSE
    /\ IF data THEN size' = 0 /\ wc' = 0 /\ rc' = 0 /\ cap' = 0
               ELSE UNCHANGED <<size, wc, rc, cap>>
    /\ IF HasTable THEN ClearTable ELSE UNCHANGED <<offs, offsCap, holder, nextObj>>
    /\ heldAt' = {}
    /\ words' = {} /\ items' = {}
    /\ Returns(TRUE) /\ NoAccess
    /\ UNCHANGED <<maxCap, writable, from, place>>

-----------------------------------------------------------------------------
StartCall ==
    \/ \E c \in Calls : BeginWrite(c)
    \/ \E c \in Calls : BeginRead(c)
    \/ \E p \in Positions : RewindRead(p)
    \/ \E p \in Positions : RewindWrite(p)
    \/ \E p \in Positions : RewindWriteRefused(p)
    \/ \E n \in Capacities : SetDataCapacity(n)
    \/ \E n \in Capacities : SetMaxCapacity(n)
    \/ \E n \in Capacities : ParseFrom(n)
    \/ \E n \in Sizes : SetDataSize(n)
    \/ \E n \in {4, 100} : SkipBytes(n)
    \/ \E t \in SenderTables : InjectOffsets(t)
    \/ SetAllocator \/ FlushBuffer

RunCall ==
    \/ WriteInPlace \/ WriteGrowing \/ WriteFails \/ MarkPosition
    \/ EnsureObjectsCapacity \/ EnsureObjectsFails \/ WriteObjectOffset
    \/ Get \/ ReadUnpadBuffer \/ ReadBuffer \/ ReadCString \/ ReadStringLength
    \/ ReadStringBody \/ ReadVectorCount \/ ReadStringVector \/ SkipPadding \/ ReadMeta \/ ReadObject

\* The client makes no more calls.
Idle == ret # "busy" /\ calls = MaxCalls /\ UNCHANGED vars

Next == StartCall \/ RunCall \/ Idle
Spec == Init /\ [][Next]_vars

-----------------------------------------------------------------------------
(* No write touches memory outside data_[0 .. dataCapacity_): neither the  *)
(* value stored after EnsureWritableCapacity, nor the 32-bit word that     *)
(* WritePadBytes masks, which may begin before the write cursor.  Every    *)
(* read lies inside the data that was written or parsed, after any mixture *)
(* of rewinds, skips, reallocations and failed calls; and inside the       *)
(* allocation, unless dataSize_ was torn from the write cursor             *)
(* (SetDataSize leaves the cursor, and each write adds to dataSize_).      *)
AccessesInBounds ==
    /\ acc.kind = "write" => data /\ 0 <= acc.lo /\ acc.hi <= cap
    /\ acc.kind \in {"read", "object"} => data /\ acc.hi <= size /\ (torn \/ size <= cap)

(* ValidateReadData keeps basic reads out of remote objects: a read that   *)
(* succeeds shares no byte with an object of the table, although           *)
(* nextObjectIdx_ makes the check skip the objects already passed.  The    *)
(* check needs an ordered table, see ObjectsTracked.                       *)
ReadsAvoidObjects ==
    acc.kind = "read" /\ ~torn =>
        \A i \in DOMAIN offs : acc.hi <= offs[i] \/ acc.lo >= offs[i] + ObjSize

(* The object table fits its memory and nextObjectIdx_ points into it; the *)
(* table stays in the order of the data, its objects do not overlap and    *)
(* lie inside the data: what the loops of ValidateReadData and RewindWrite *)
(* rely on.  An object written with HOLD_OBJECT is held as long as it is   *)
(* in the parcel (parcel.h:430), although RewindWrite resizes              *)
(* objectHolder_, which has one entry per held object, to the number of    *)
(* all remaining objects.  Only SetDataSize, and a RewindWrite whose       *)
(* realloc fails, cut the data without the table.                          *)
ObjectsTracked ==
    /\ Len(offs) <= offsCap /\ nextObj <= Len(offs)
    /\ ~torn =>
        /\ \A i, j \in DOMAIN offs : i < j => offs[i] + ObjSize <= offs[j]
        /\ \A i \in DOMAIN offs : offs[i] + ObjSize <= size
        /\ \A h \in heldAt : \E i \in DOMAIN holder : holder[i] = h

(* Reading a value back with the matching call, from where it was written, *)
(* succeeds and stops exactly where the next value begins: the reader      *)
(* consumes the lengths, terminators and padding its writer produced.      *)
(* ReadBuffer is the one exception: it stops behind the bytes it returns,  *)
(* before the padding that WriteBuffer added, so that a caller whose       *)
(* length is no multiple of 4 has to skip the rest itself (parcel.cpp:874; *)
(* utils_parcel_test.cpp:1402 expects it).  The data must still be there:  *)
(* SetDataSize may have cut it.                                            *)
Missing(c) == c.op \in {"null", "strongnull"} \/ (c.op = "string" /\ c.n < 0)
ReadTo(i) == IF i.call.op = "raw" THEN i.off + i.call.n ELSE i.end
RoundTrip ==
    call.read /\ ret # "busy" /\ ~torn =>
        \A i \in items :
            i.off = from /\ i.call = [call EXCEPT !.read = FALSE] =>
                /\ rc = ReadTo(i)
                /\ ret = "true" \/ Missing(i.call)

(* A value that fits below maxDataCapacity_ is never refused: whatever the *)
(* cursors, CalcNewCapacity finds a capacity that is large enough and      *)
(* larger than the present one, also next to CAPACITY_THRESHOLD and to the *)
(* maximum.                                                                *)
RoomUpToMax ==
    At("write") /\ writable /\ Need + wc <= maxCap =>
        (Need <= GetWritableBytes /\ data) \/ (Need > GetWritableBytes /\ MayGrow(Need))
=============================================================================
