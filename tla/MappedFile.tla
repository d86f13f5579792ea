------------------------------ MODULE MappedFile ------------------------------
(***************************************************************************)
(* MappedFile (base/src/mapped_file.cpp): a window on a file, inside a     *)
(* mapped region, that can be moved, resized and given other parameters.   *)
(*                                                                         *)
(* Sizes, offsets and addresses are in units of which Page make a page; 0  *)
(* is the null address.  A method is an operator on the object m and the   *)
(* system s that yields the set of its outcomes [res, m, s]: every system  *)
(* call it makes may fail while faults are left.  Map goes in the steps    *)
(* between which somebody else may touch the file.                         *)
(***************************************************************************)
EXTENDS Integers, FiniteSets, FiniteSetsExt

CONSTANTS Objects, Paths,
          Page,        \* PageSize()
          Lengths,     \* path -> length of its file, -1 when there is none
          Offsets, Sizes, Modes, Hints,   \* what callers ask for
          MaxLength,   \* bound: the longest file
          MaxCalls,    \* bound: calls
          MaxFaults    \* bound: system calls that fail of themselves

Default == -1     \* DEFAULT_LENGTH
NoFd    == -1
NoPath  == "nopath"

ASSUME MappedFileConstants ==
    /\ Page \in Nat \ {0} /\ MaxCalls \in Nat /\ MaxFaults \in Nat
    /\ Offsets \subseteq Int /\ Sizes \subseteq Int /\ Hints \subseteq Int /\ MaxLength \in Nat
    /\ Lengths \in [Paths -> -1 .. MaxLength]
    /\ NoPath \notin Paths

VARIABLES obj,    \* object -> its members
          sys,    \* files, mapped pages, open descriptors, faults left
          calls,  \* calls made
          at,     \* object -> the step its Map comes to next, or "idle"
          local   \* object -> fd of OpenFile, before it is fd_

vars == <<obj, sys, calls, at, local>>

\* Reset; the properties except a window that is `skewed'.
Reset == [live |-> TRUE, mapped |-> FALSE, normed |-> FALSE, isNew |-> FALSE,
          rStart |-> 0, rEnd |-> 0, data |-> 0, path |-> NoPath, size |-> Default,
          offset |-> 0, mode |-> {}, fd |-> NoFd, write |-> FALSE, shared |-> FALSE,
          creat |-> FALSE, hint |-> 0, skewed |-> FALSE]
Dead == [Reset EXCEPT !.live = FALSE]

New(path, mode, offset, size, hint) ==
    [Reset EXCEPT !.path = path, !.mode = mode, !.offset = offset,
                  !.size = size, !.hint = hint]

Constructed == {New(p, mode, o, n, h) :
                    p \in Paths, mode \in Modes, o \in Offsets, n \in Sizes, h \in Hints}

Init ==
    /\ \E m \in Constructed, first \in Objects :
           obj = [x \in Objects |-> IF x = first THEN m ELSE Dead]
    /\ sys = [len |-> Lengths, pages |-> {}, open |-> {}, faults |-> MaxFaults,
              lost |-> FALSE, cut |-> {}]
    /\ calls = 0
    /\ at = [x \in Objects |-> "idle"] /\ local = [x \in Objects |-> NoFd]

-----------------------------------------------------------------------------
(* Outcomes, and the system calls.                                         *)
Ok(m, s)   == {[res |-> "ok", m |-> m, s |-> s]}
Err(m, s)  == {[res |-> "err", m |-> m, s |-> s]}
Fault(m, s) == IF s.faults > 0 THEN Err(m, [s EXCEPT !.faults = @ - 1]) ELSE {}
Tries(s, t) == {t} \union IF s.faults > 0 THEN {[s EXCEPT !.faults = @ - 1]} ELSE {}
Then(S, Op(_, _)) == UNION {IF x.res = "ok" THEN Op(x.m, x.s) ELSE {x} : x \in S}

RoundSize(n) == IF n % Page = 0 THEN n ELSE (n \div Page + 1) * Page
Pages(n)     == RoundSize(n) \div Page
EndOffset(m) == IF m.size = Default THEN -1 ELSE m.offset + m.size - 1
End(m)       == m.data + m.size - 1

Exists(s, p) == p # NoPath /\ s.len[p] >= 0

\* s.pages holds <<page address, path, page of the file>>.
Taken(s) == {x[1] : x \in s.pages}
Fits(s, a, n) == a > 0 /\ (a .. a + n - 1) \intersect Taken(s) = {}
Place(s, hint, n) ==
    IF hint % Page = 0 /\ Fits(s, hint \div Page, n) THEN hint \div Page
    ELSE Min({a \in 1 .. 1 + Cardinality(s.pages) + n : Fits(s, a, n)}
             \union {2 + Max({0} \union Taken(s))})
Region(a, n, p, f) == {<<a + i, p, f + i>> : i \in 0 .. n - 1}

Descriptor(s) == Min((3 .. 3 + Cardinality(s.open)) \ {x.fd : x \in s.open})
Writable(s, fd) == \E x \in s.open : x.fd = fd /\ x.write
Closed(s, fd)   == [s EXCEPT !.open = {x \in @ : x.fd # fd}]

-----------------------------------------------------------------------------
(* ValidMappedSize: the part of n that ends within a page of the file, 0   *)
(* when there is none.                                                     *)
ValidMappedSize(n, len, offset) ==
    LET max == RoundSize(len) - offset IN IF max <= 0 THEN 0 ELSE Min({n, max})

NormalizeSize(m, s) ==
    IF m.size = 0 \/ m.size < Default THEN Err(m, s)
    ELSE \* realpath
         Fault(m, s) \union
         IF ~Exists(s, m.path)
         THEN IF "CREATE" \notin m.mode THEN Err(m, s)
              ELSE Ok([m EXCEPT !.size = IF @ = Default THEN Page ELSE @, !.isNew = TRUE], s)
         ELSE LET asked == IF m.size = Default THEN s.len[m.path] ELSE m.size
                  valid == ValidMappedSize(asked, s.len[m.path], m.offset)
              IN  \* stat
                  Fault([m EXCEPT !.size = Page], s) \union
                  IF valid = 0 THEN Err([m EXCEPT !.size = asked], s)
                  ELSE Ok([m EXCEPT !.size = valid], s)

NormalizeMode(m) ==
    LET mode == m.mode \intersect {"PRIVATE", "READ_ONLY", "CREATE"}
    IN  [m EXCEPT !.mode = mode, !.shared = "PRIVATE" \notin mode,
                  !.write = "READ_ONLY" \notin mode, !.creat = "CREATE" \in mode]

\* Normalize; Map goes on when it has been done before.
Normalize(m, s) ==
    IF m.normed THEN Ok(m, s)
    ELSE IF m.offset < 0 \/ m.offset % Page # 0 THEN Err(m, s)
    ELSE Then(NormalizeSize(m, s),
              LAMBDA m1, s1 : Ok([NormalizeMode(m1) EXCEPT !.normed = TRUE], s1))

-----------------------------------------------------------------------------
\* sys.cut: the files that lost contents, or their name to an object that had
\* them open.
Truncate(s, p, n) ==
    [s EXCEPT !.len[p] = n, !.cut = IF 0 < s.len[p] /\ n < s.len[p] THEN @ \union {p} ELSE @]

\* ftruncate on a descriptor opened as p: of a file in cut the model does not
\* say whether the descriptor still has the file of that name.
Ftruncate(s, p, n) ==
    IF p \notin s.cut THEN {Truncate(s, p, n)}
    ELSE {s} \union IF Exists(s, p) THEN {Truncate(s, p, n)} ELSE {}

(* OpenFile: open, which keeps the descriptor of a new file to itself ...  *)
OpenFile(m, s) ==
    LET fd == Descriptor(s)
        s1 == [s EXCEPT !.open = @ \union {[fd |-> fd, write |-> m.write]},
                        !.len[m.path] = IF @ < 0 THEN 0 ELSE @]
    IN  Fault(m, s) \union
        IF m.path = NoPath \/ (~Exists(s, m.path) /\ ~m.creat) THEN Err(m, s)
        ELSE Ok(IF m.isNew THEN m ELSE [m EXCEPT !.fd = fd], s1)

(* ... until it has its length; else it is closed and removed again, and   *)
(* either may fail.                                                        *)
Undone(s, p, fd) ==
    UNION {Tries(t, Truncate(t, p, -1)) : t \in Tries(s, Closed(s, fd))}

SizeFile(m, s, fd) ==
    LET undo(t) == UNION {Err(m, u) : u \in Undone(t, m.path, fd)}
    IN  \* realpath or ftruncate
        (IF s.faults > 0 THEN undo([s EXCEPT !.faults = @ - 1]) ELSE {}) \union
        IF ~m.write THEN undo(s)
        ELSE UNION {Ok([m EXCEPT !.fd = fd, !.isNew = FALSE], u) :
                        u \in Ftruncate(s, m.path, EndOffset(m) + 1)}

\* mmap refuses an unaligned offset and shared writing to a read-only file.
MmapRefused(m, s) == m.offset % Page # 0 \/ (m.shared /\ m.write /\ ~Writable(s, m.fd))

Mapped(m, s, a) ==
    Ok([m EXCEPT !.rStart = a * Page, !.rEnd = a * Page + RoundSize(m.size) - 1,
                 !.data = a * Page, !.mapped = TRUE, !.skewed = FALSE],
       [s EXCEPT !.pages = @ \union Region(a, Pages(m.size), m.path, m.offset \div Page)])

\* The attempts of Map: with the hint, then without.
Mmap(m, s) ==
    LET bare  == [m EXCEPT !.hint = 0]
        again == [s EXCEPT !.faults = @ - 1]
    IN  IF MmapRefused(m, s) THEN Err(bare, s)
        ELSE Mapped(m, s, Place(s, m.hint, Pages(m.size)))
                 \union (IF m.hint = 0 THEN Fault(m, s)
                         ELSE IF s.faults = 0 THEN {}
                         ELSE Mapped(bare, again, Place(s, 0, Pages(m.size)))
                                  \union Fault(bare, again))

\* Map of an object whose file is open, as TurnNext calls it.
Map(m, s) == IF m.mapped THEN Err(m, s) ELSE Then(Normalize(m, s), Mmap)

(* Unmap: munmap from rStart_ for size_.                                   *)
UnmapPages(m) == m.rStart \div Page .. (m.rStart + RoundSize(m.size)) \div Page - 1
Unmap(m, s) ==
    IF ~m.mapped THEN Err(m, s)
    ELSE Fault(m, s) \union
         Ok([m EXCEPT !.rStart = 0, !.rEnd = 0, !.data = 0, !.mapped = FALSE, !.skewed = FALSE],
            [s EXCEPT !.pages = {x \in @ : x[1] \notin UnmapPages(m)}])

-----------------------------------------------------------------------------
SyncFileSize(m, s, n) ==
    IF n <= m.size THEN Ok(m, s)
    ELSE \* stat or ftruncate
         Fault(m, s) \union
         IF ~Exists(s, m.path) THEN Err(m, s)
         ELSE IF m.offset + n <= s.len[m.path] THEN Ok(m, s)
         ELSE IF ~Writable(s, m.fd) THEN Err(m, s)
         ELSE UNION {Ok(m, u) : u \in Ftruncate(s, m.path, m.offset + n)}

\* mremap: pages behind the new end go; a region that grows may move.
Mremap(m, s, n) ==
    LET old   == UnmapPages(m)
        count == Pages(n)
        first == CHOOSE x \in s.pages : x[1] = m.rStart \div Page
        rest  == {x \in s.pages : x[1] \notin old}
        there == [s EXCEPT !.pages = rest]
        a     == Place(there, m.rStart, count)
    IN  Fault(m, s) \union
        Ok([m EXCEPT !.rStart = a * Page, !.rEnd = a * Page + RoundSize(n) - 1,
                     !.data = a * Page, !.size = n,
                     !.skewed = @ \/ m.data # m.rStart],
           [s EXCEPT !.pages = rest \union Region(a, count, first[2], first[3])])

(* Resize(newSize, sync): sync makes a file long enough, otherwise the     *)
(* file limits the new size.                                               *)
ResizeBy(m, s, n, sync) ==
    IF n = 0 \/ n < Default \/ n = m.size \/ ~m.mapped THEN Err(m, s)
    ELSE IF sync THEN Then(SyncFileSize(m, s, n), LAMBDA m1, s1 : Mremap(m1, s1, n))
    ELSE Fault(m, s) \union   \* stat
         IF ~Exists(s, m.path) THEN Err(m, s)
         ELSE LET valid == ValidMappedSize(n, s.len[m.path], m.offset)
              IN  IF valid = 0 THEN Err(m, s) ELSE Mremap(m, s, valid)

\* DEFAULT_LENGTH stands for the length of the file, or a page if stat fails.
ResizeTo(m, s, new, sync) ==
    IF new # Default THEN ResizeBy(m, s, new, sync)
    ELSE ResizeBy(m, s, IF Exists(s, m.path) THEN s.len[m.path] ELSE Page, sync) \union
         IF s.faults > 0 THEN ResizeBy(m, [s EXCEPT !.faults = @ - 1], Page, sync) ELSE {}

(* Resize().                                                               *)
Resize(m, s) == IF m.mapped THEN Err(m, s) ELSE Map(m, s)

TurnUnrestored(m, x) == x
\* TurnNext gives a failed remapping its parameters back.
Restored(m, x) ==
    IF x.res = "ok" THEN x
    ELSE [x EXCEPT !.m.offset = m.offset, !.m.size = m.size,
                   !.m.hint = m.hint, !.m.normed = TRUE]

\* Case 1: the window ends with the region, which is mapped anew.
TurnRegion(m, s) ==
    LET left == s.len[m.path] - EndOffset(m) - 1
        next == [m EXCEPT !.size = Min({m.size, left}), !.normed = FALSE,
                          !.hint = m.rStart, !.offset = @ + m.size]
        s1   == [s EXCEPT !.lost = @ \/ Pages(next.size) < Pages(m.size)]
    IN  {Restored(m, x) : x \in Then(Unmap(next, s1), Resize)}

\* Case 2: the window moves inside the region.
TurnWindow(m, s) ==
    LET size == IF End(m) + m.size > m.rEnd THEN m.rEnd - End(m) ELSE m.size
    IN  Ok([m EXCEPT !.size = size, !.data = @ + m.size, !.offset = @ + m.size],
           [s EXCEPT !.lost = @ \/ RoundSize(size) < m.rEnd - m.rStart + 1])

TurnNext(m, s) ==
    IF ~m.normed THEN Err(m, s)
    ELSE Fault(m, s) \union
         IF ~Exists(s, m.path) \/ EndOffset(m) + 1 >= s.len[m.path] THEN Err(m, s)
         ELSE IF ~m.mapped THEN Ok([m EXCEPT !.offset = @ + Page, !.normed = FALSE], s)
         ELSE IF End(m) = m.rEnd THEN TurnRegion(m, s) ELSE TurnWindow(m, s)

-----------------------------------------------------------------------------
\* A close that fails leaves the descriptor open.
Close(m, s) == IF m.fd = NoFd THEN Ok(m, s) ELSE Fault(m, s) \union Ok(m, Closed(s, m.fd))

(* Clear(force); the destructor goes on after either failure.              *)
Clear(m, s, force) ==
    LET unmapped == IF m.mapped THEN Unmap(m, s) ELSE Ok(m, s)
        goOn     == IF ~force THEN unmapped
                    ELSE {[x EXCEPT !.res = "ok", !.s.lost = @ \/ x.res # "ok"] : x \in unmapped}
    IN  Then(goOn, LAMBDA m1, s1 : Then(Close(m1, s1), LAMBDA m2, s2 : Ok(Reset, s2)))

\* The Change methods unmap before they assign to the member.
Change(m, s, member, v) ==
    Then(IF m.mapped THEN Unmap(m, s) ELSE Ok(m, s),
         LAMBDA m1, s1 : Ok([m1 EXCEPT ![member] = v, !.normed = FALSE], s1))

ChangePath(m, s, p) ==
    Then(Then(IF m.mapped THEN Unmap(m, s) ELSE Ok(m, s), Close),
         LAMBDA m1, s1 : Ok([m1 EXCEPT !.path = p, !.normed = FALSE, !.fd = NoFd], s1))

-----------------------------------------------------------------------------
(* The calls.                                                              *)
Commit(x, o) == obj' = [obj EXCEPT ![x] = o.m] /\ sys' = o.s

Enter(x) == obj[x].live /\ at[x] = "idle" /\ calls < MaxCalls /\ calls' = calls + 1
Call(x)  == Enter(x) /\ UNCHANGED <<at, local>>

\* Map goes on to step p, or returns a failure.
GoesOn(x, o, p) == at' = [at EXCEPT ![x] = IF o.res = "ok" THEN p ELSE "idle"]

(* Map, and Resize() of an object that is not mapped: what FileExists and  *)
(* stat found, ...                                                         *)
MapNormalize(x) ==
    /\ Enter(x) /\ UNCHANGED local
    /\ \E o \in IF obj[x].mapped THEN Err(obj[x], sys) ELSE Normalize(obj[x], sys) :
           Commit(x, o) /\ GoesOn(x, o, IF o.m.fd = NoFd THEN "open" ELSE "mmap")

(* ... open, without O_EXCL, ...                                           *)
MapOpen(x) ==
    /\ at[x] = "open" /\ UNCHANGED calls
    /\ \E o \in OpenFile(obj[x], sys) :
           /\ Commit(x, o) /\ GoesOn(x, o, IF obj[x].isNew THEN "size" ELSE "mmap")
           /\ local' = [local EXCEPT ![x] = IF at'[x] = "size" THEN Descriptor(sys) ELSE NoFd]

\* An object that has p open.
Opened(y, p) == obj[y].path = p /\ (obj[y].fd # NoFd \/ at[y] = "size")

(* ... ftruncate, or unlink, ...                                           *)
MapSize(x) ==
    LET p == obj[x].path
    IN  /\ at[x] = "size" /\ UNCHANGED calls
        /\ \E o \in SizeFile(obj[x], sys, local[x]) :
               /\ obj' = [obj EXCEPT ![x] = o.m] /\ GoesOn(x, o, "mmap")
               /\ sys' = [o.s EXCEPT !.cut = IF /\ ~Exists(o.s, p)
                                               /\ \E y \in Objects \ {x} : Opened(y, p)
                                            THEN @ \union {p} ELSE @]
        /\ local' = [local EXCEPT ![x] = NoFd]

(* ... and mmap.                                                           *)
MapMmap(x) ==
    /\ at[x] = "mmap" /\ UNCHANGED <<calls, local>>
    /\ \E o \in Mmap(obj[x], sys) : Commit(x, o) /\ GoesOn(x, o, "idle")

DoNorm(x)  == Call(x) /\ ~obj[x].normed /\ \E o \in Normalize(obj[x], sys) : Commit(x, o)
DoUnmap(x) == Call(x) /\ \E o \in Unmap(obj[x], sys) : Commit(x, o)
DoTurn(x)  == Call(x) /\ \E o \in TurnNext(obj[x], sys) : Commit(x, o)

DoResize(x) ==
    /\ Call(x)
    /\ \E n \in Sizes, sync \in BOOLEAN :
           \E o \in ResizeTo(obj[x], sys, n, sync) : o.m.offset + o.m.size <= MaxLength /\ Commit(x, o)

DoClear(x) == Call(x) /\ \E force \in BOOLEAN : \E o \in Clear(obj[x], sys, force) : Commit(x, o)

DoChange(x) ==
    LET m == obj[x]
    IN  /\ Call(x)
        /\ \/ \E v \in Offsets \ {m.offset} :
                  \E o \in Change(m, sys, "offset", v) : Commit(x, o)
           \/ \E v \in {n \in Sizes : n > 0 \/ n = Default} \ {m.size} :
                  \E o \in Change(m, sys, "size", v) : Commit(x, o)
           \/ \E v \in Hints \ {m.hint} :
                  \E o \in Change(m, sys, "hint", v) : Commit(x, o)
           \/ \E v \in Modes \ {m.mode} :
                  \E o \in Change(m, sys, "mode", v) : Commit(x, o)

DoChangePath(x) ==
    Call(x) /\ \E p \in Paths \ {obj[x].path} :
                   \E o \in ChangePath(obj[x], sys, p) : Commit(x, o)

\* The destructor: as a forced Clear, and the object is gone even when close
\* fails, which leaves the descriptor open.
Destroy(x) ==
    /\ Call(x)
    /\ \E o \in Clear(obj[x], sys, TRUE) : Commit(x, [o EXCEPT !.m = Dead])

Construct(x) ==
    /\ calls < MaxCalls /\ calls' = calls + 1
    /\ ~obj[x].live /\ \E m \in Constructed : obj' = [obj EXCEPT ![x] = m]
    /\ UNCHANGED <<sys, at, local>>

(* MappedFile(MappedFile&&), and operator=(MappedFile&&), which clears the *)
(* target first and goes on whatever comes of it.                          *)
TakeCopied(x, y) == [obj EXCEPT ![y] = obj[x]]
Take(x, y) == [obj EXCEPT ![y] = obj[x], ![x] = Reset]

MoveConstruct(x, y) == Call(x) /\ ~obj[y].live /\ obj' = Take(x, y) /\ UNCHANGED sys

MoveAssign(x, y) ==
    /\ Call(x) /\ obj[y].live /\ at[y] = "idle" /\ x # y
    /\ \E o \in Clear(obj[y], sys, TRUE) : obj' = Take(x, y) /\ sys' = o.s

(* Somebody else creates a file or makes it longer.                        *)
Grow ==
    /\ calls < MaxCalls /\ calls' = calls + 1
    /\ \E p \in Paths, n \in 1 .. MaxLength :
           n > sys.len[p] /\ n % Page # 0 /\ sys' = [sys EXCEPT !.len[p] = n]
    /\ UNCHANGED <<obj, at, local>>

Next ==
    \/ \E x \in Objects :
           \/ MapNormalize(x) \/ MapOpen(x) \/ MapSize(x) \/ MapMmap(x)
           \/ DoNorm(x) \/ DoUnmap(x) \/ DoTurn(x) \/ DoResize(x) \/ DoClear(x)
           \/ DoChange(x) \/ DoChangePath(x) \/ Construct(x) \/ Destroy(x)
           \/ \E y \in Objects \ {x} : MoveConstruct(x, y) \/ MoveAssign(x, y)
    \/ Grow

Spec == Init /\ [][Next]_vars

-----------------------------------------------------------------------------
\* The page of the file that unit a of memory shows, if any.
Shows(p, a, off) == <<a \div Page, p, off \div Page>> \in sys.pages /\ a % Page = off % Page

(* Unit i of a window, from Begin(), is unit StartOffset() + i of the      *)
(* file, and no unit lies beyond the last page of the file, where an       *)
(* access raises a signal (mapped_file.cpp:32).  The exception is a region *)
(* resized while its window did not start with it: Resize(newSize) puts    *)
(* the window back to the start of the region and leaves offset_ behind.   *)
WindowShowsFile ==
    \A x \in Objects :
        LET m == obj[x]
        IN  m.mapped =>
                /\ m.rStart <= m.data /\ End(m) <= m.rEnd
                /\ ~m.skewed => \A i \in 0 .. m.size - 1 :
                                    /\ Shows(m.path, m.data + i, m.offset + i)
                                    /\ \/ m.path \in sys.cut
                                       \/ m.offset + i < RoundSize(sys.len[m.path])

RegionPages(m) == IF m.mapped THEN m.rStart \div Page .. m.rEnd \div Page ELSE {}

(* Every mapped page belongs to the region of exactly one object, through  *)
(* moves, failed calls and changes of parameters, until a TurnNext that    *)
(* leaves size_ with fewer pages than the region has, when Unmap returns   *)
(* only those, or an object that is gone with a munmap that failed.        *)
PagesAccounted ==
    /\ \A x, y \in Objects : x # y => RegionPages(obj[x]) \intersect RegionPages(obj[y]) = {}
    /\ ~sys.lost => Taken(sys) = UNION {RegionPages(obj[x]) : x \in Objects}

(* No file that is there loses contents, or its name to an object that has *)
(* it open: CREATE_IF_ABSENT creates a file where there is none            *)
(* (docs/zh-cn/c_utils_guide_mapped_file.md:81).                           *)
ContentsKept == sys.cut = {}
=============================================================================
