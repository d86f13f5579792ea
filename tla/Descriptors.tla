------------------------------ MODULE Descriptors ------------------------------
(***************************************************************************)
(* UniqueFd (base/include/unique_fd.h) and Ashmem (base/src/ashmem.cpp):   *)
(* objects that own descriptors of one process, whose numbers the kernel   *)
(* gives out again, lowest first, as soon as they are closed.  A system    *)
(* call that may fail does so whenever it likes.                           *)
(***************************************************************************)
EXTENDS Integers, FiniteSets, FiniteSetsExt

CONSTANTS Holders,      \* UniqueFd objects
          Regions,      \* Ashmem objects
          MaxFd,        \* bound: the highest descriptor
          MaxMaps,      \* bound: mappings at a time
          Width,        \* bits of int32_t
          AshmemSizes   \* sizes of shared memory

MaxInt == 2 ^ (Width - 1) - 1

VARIABLES open,    \* descriptor -> what it is open on
          raw,     \* the descriptors code outside these classes has to close
          fd,      \* object -> fd_ or memoryFd_
          step,    \* Ashmem object -> how far AshmemCreate is with its region
          ash,     \* Ashmem object -> memorySize_, flag_ and startAddr_
          maps     \* address -> what is mapped there

vars == <<open, raw, fd, step, ash, maps>>

None    == -1
Dead    == -2   \* an object that does not exist
NoAddr  == 0    \* nullptr
RW      == {"READ", "WRITE"}
Closed  == [kind |-> "closed", mask |-> {}]
Plain   == [kind |-> "plain", mask |-> {}]
Region  == [kind |-> "region", mask |-> RW]
Members(n) == [size |-> n, flag |-> {}, start |-> NoAddr]
NoMap   == [len |-> 0, prot |-> {}]

\* stdin may be open or not.
Init ==
    /\ \E zero \in BOOLEAN :
           /\ open = [n \in 0 .. MaxFd |-> IF n = 0 /\ zero THEN Plain ELSE Closed]
           /\ raw = IF zero THEN {0} ELSE {}
    /\ fd = [o \in Holders \union Regions |-> Dead]
    /\ step = [r \in Regions |-> 0]
    /\ ash = [r \in Regions |-> Members(0)]
    /\ maps = [a \in 1 .. MaxMaps |-> NoMap]

-----------------------------------------------------------------------------
(* open and close, external.                                               *)
IsOpen(n) == open[n] # Closed
Free      == {n \in DOMAIN open : ~IsOpen(n)}
Opened(what) == [open EXCEPT ![Min(Free)] = what]
Close(n)  == [open EXCEPT ![n] = Closed]

\* Code outside opens, closes and, with AshmemCreate, makes regions.
OpenRaw ==
    /\ Free # {}
    /\ \E what \in {Plain, Region} : open' = Opened(what)
    /\ raw' = raw \union {Min(Free)}
    /\ UNCHANGED <<fd, step, ash, maps>>

CloseRaw(n) ==
    /\ n \in raw /\ raw' = raw \ {n} /\ open' = Close(n)
    /\ UNCHANGED <<fd, step, ash, maps>>

-----------------------------------------------------------------------------
(* UniqueFd.  Release gives the number away, Reset closes what it has.     *)
ReleaseKept(h) == fd
Release(h) == [fd EXCEPT ![h] = None]

Reset(h) == IF fd[h] >= 0 THEN Close(fd[h]) ELSE open

UniqueFd(h) ==
    /\ fd[h] = Dead
    /\ \/ \E n \in raw : fd' = [fd EXCEPT ![h] = n] /\ raw' = raw \ {n}
       \/ fd' = [fd EXCEPT ![h] = None] /\ UNCHANGED raw
    /\ UNCHANGED <<open, step, ash, maps>>

ReleaseToCaller(h) ==
    /\ fd[h] # Dead
    /\ fd' = Release(h) /\ raw' = IF fd[h] >= 0 THEN raw \union {fd[h]} ELSE raw
    /\ UNCHANGED <<open, step, ash, maps>>

MoveFd(h, g) ==
    /\ fd[h] # Dead /\ fd[g] = Dead
    /\ fd' = [Release(h) EXCEPT ![g] = fd[h]]
    /\ UNCHANGED <<open, raw, step, ash, maps>>

\* operator=: Release comes before Reset, so moving onto itself is harmless.
AssignFd(h, g) ==
    /\ fd[h] # Dead /\ fd[g] # Dead
    /\ open' = IF h = g THEN open ELSE Reset(g)
    /\ fd' = [Release(h) EXCEPT ![g] = fd[h]]
    /\ UNCHANGED <<raw, step, ash, maps>>

DestroyFd(h) ==
    /\ fd[h] # Dead /\ open' = Reset(h) /\ fd' = [fd EXCEPT ![h] = Dead]
    /\ UNCHANGED <<raw, step, ash, maps>>

-----------------------------------------------------------------------------
(* Ashmem.  CreateAshmem has AshmemCreate open the device and then make    *)
(* these calls on it, each of which may be refused; step says which is     *)
(* next, and fd already has the descriptor, a local variable until then.   *)
Calls == <<"fstat", "S_ISCHR", "strcpy_s", "SET_NAME", "SET_SIZE">>

\* open: when it fails, nothing has changed.
AshmemOpen(r) ==
    /\ fd[r] = Dead /\ Free # {}
    /\ open' = Opened(Region) /\ fd' = [fd EXCEPT ![r] = Min(Free)]
    /\ step' = [step EXCEPT ![r] = 1]
    /\ UNCHANGED <<raw, ash, maps>>

AshmemCreate(r) ==
    /\ step[r] \in DOMAIN Calls /\ Calls[step[r]] # "SET_SIZE"
    /\ step' = [step EXCEPT ![r] = @ + 1]
    /\ UNCHANGED <<open, raw, fd, ash, maps>>

\* The last call gives the region its size, of which only the object's own
\* idea is kept here.
CreateAshmem(r) ==
    /\ step[r] \in DOMAIN Calls /\ Calls[step[r]] = "SET_SIZE"
    /\ \E n \in AshmemSizes : ash' = [ash EXCEPT ![r] = Members(n)]
    /\ step' = [step EXCEPT ![r] = 0]
    /\ UNCHANGED <<open, raw, fd, maps>>

\* Every return with an error closes the descriptor first.
ClosedUnlessSized(r) == IF Calls[step[r]] = "SET_SIZE" THEN open ELSE Close(fd[r])
ClosedOnError(r) == Close(fd[r])

AshmemCreateFails(r) ==
    /\ step[r] \in DOMAIN Calls
    /\ open' = ClosedOnError(r)
    /\ fd' = [fd EXCEPT ![r] = Dead] /\ step' = [step EXCEPT ![r] = 0]
    /\ UNCHANGED <<raw, ash, maps>>

Exists(r) == fd[r] # Dead /\ step[r] = 0

\* Ashmem(fd, size), of a region that came from elsewhere: the size is what
\* the caller says it is.
Ashmem(r) ==
    /\ fd[r] = Dead
    /\ \E n \in raw :
           /\ open[n].kind = "region"
           /\ fd' = [fd EXCEPT ![r] = n] /\ raw' = raw \ {n}
    /\ \E size \in AshmemSizes : ash' = [ash EXCEPT ![r] = Members(size)]
    /\ UNCHANGED <<open, step, maps>>

\* The driver only takes bits away from the mask.
SetProtection(r) ==
    /\ Exists(r) /\ fd[r] >= 0
    /\ \E mask \in SUBSET open[fd[r]].mask : open' = [open EXCEPT ![fd[r]].mask = mask]
    /\ UNCHANGED <<raw, fd, step, ash, maps>>

\* An ioctl that fails yields -1, every bit.
GetProtection(r) == IF fd[r] < 0 THEN {RW} ELSE {open[fd[r]].mask, RW}

\* mmap refuses size 0 and what the mask forbids, and may refuse or grant more
\* than the region has.
MapAshmem(r) ==
    /\ Exists(r) /\ fd[r] >= 0 /\ ash[r].size > 0
    /\ \E type \in {RW, {"READ"}} :
           /\ type \subseteq open[fd[r]].mask
           /\ \E a \in {b \in DOMAIN maps : maps[b] = NoMap} :
                  /\ maps' = [maps EXCEPT ![a] = [len |-> ash[r].size, prot |-> type]]
                  /\ ash' = [ash EXCEPT ![r].start = a, ![r].flag = type]
    /\ UNCHANGED <<open, raw, fd, step>>

Unmapped(r) ==
    IF ash[r].start = NoAddr THEN maps ELSE [maps EXCEPT ![ash[r].start] = NoMap]

UnmapAshmem(r) ==
    /\ Exists(r)
    /\ maps' = Unmapped(r) /\ ash' = [ash EXCEPT ![r].start = NoAddr, ![r].flag = {}]
    /\ UNCHANGED <<open, raw, fd, step>>

\* CloseAshmem: descriptor 0 is not closed, and a mapping is left behind.
AshmemFdClosed(r) == IF fd[r] > 0 THEN Close(fd[r]) ELSE open

CloseAshmem(r) ==
    /\ Exists(r)
    /\ open' = AshmemFdClosed(r) /\ fd' = [fd EXCEPT ![r] = IF @ > 0 THEN None ELSE @]
    /\ ash' = [ash EXCEPT ![r] = Members(0)]
    /\ UNCHANGED <<raw, step, maps>>

DestroyAshmem(r) ==
    /\ Exists(r)
    /\ maps' = Unmapped(r) /\ open' = AshmemFdClosed(r)
    /\ fd' = [fd EXCEPT ![r] = Dead] /\ ash' = [ash EXCEPT ![r] = Members(0)]
    /\ UNCHANGED <<raw, step>>

-----------------------------------------------------------------------------
Int32(x) == ((x + MaxInt + 1) % 2 ^ Width) - MaxInt - 1

CheckEnds(m, size, offset) == m.start # NoAddr /\ size \in 0 .. m.size /\ offset \in 0 .. m.size

\* CheckValid, without what it tests of protections.
CheckValid(m, size, offset) ==
    /\ m.start # NoAddr
    /\ size \in 0 .. m.size /\ offset \in 0 .. m.size
    /\ Int32(offset + size) <= m.size

(* The accesses that are let through; none changes the state kept here.    *)
Granted(r, cmd, size, offset) ==
    /\ Exists(r) /\ CheckValid(ash[r], size, offset)
    /\ cmd \in ash[r].flag /\ \E mask \in GetProtection(r) : cmd \in mask

\* memcpy_s, external, refuses more than is left behind offset.
WriteToAshmem(r, size, offset) ==
    Granted(r, "WRITE", size, offset) /\ size <= ash[r].size - offset
ReadFromAshmem(r, size, offset) == Granted(r, "READ", size, offset)

Next ==
    \/ OpenRaw \/ \E n \in raw : CloseRaw(n)
    \/ \E h \in Holders :
           \/ UniqueFd(h) \/ ReleaseToCaller(h) \/ DestroyFd(h)
           \/ \E g \in Holders : MoveFd(h, g) \/ AssignFd(h, g)
    \/ \E r \in Regions :
           \/ AshmemOpen(r) \/ AshmemCreate(r) \/ CreateAshmem(r) \/ AshmemCreateFails(r)
           \/ Ashmem(r) \/ SetProtection(r) \/ MapAshmem(r)
           \/ UnmapAshmem(r) \/ CloseAshmem(r) \/ DestroyAshmem(r)

-----------------------------------------------------------------------------
OwnersOf(n) == {o \in DOMAIN fd : fd[o] = n} \union (IF n \in raw THEN {"caller"} ELSE {})

(* No descriptor is closed under its owner, which would hit whatever the   *)
(* kernel opens next under that number, and none is forgotten: every owner *)
(* has an open one of its own and every open one has its owner, through    *)
(* moves, releases and creations that fail at any of their calls           *)
(* (ashmem.cpp:70, 76, 109, 116, 124).  Only descriptor 0 may be left      *)
(* open: CloseAshmem and ~Ashmem test memoryFd_ > 0 (ashmem.cpp:188).      *)
DescriptorsOwned ==
    /\ \A o \in DOMAIN fd : fd[o] >= 0 => IsOpen(fd[o])
    /\ \A n \in DOMAIN open :
           /\ Cardinality(OwnersOf(n)) <= 1
           /\ IsOpen(n) /\ n # 0 => OwnersOf(n) # {}

(* What WriteToAshmem copies to and ReadFromAshmem hands out lies inside a *)
(* mapping that is still there and permits the access (ashmem.cpp:285),    *)
(* whatever size the region has; that is for who constructs the object.    *)
(* For a read the region has to be smaller than 2^30 bytes: offset + size  *)
(* overflows int32_t above it and the sum passes for small.                *)
AccessInside ==
    \A r \in Regions, size, offset \in -1 .. MaxInt :
        LET m == maps[ash[r].start]
        IN  /\ WriteToAshmem(r, size, offset) => "WRITE" \in m.prot /\ offset + size <= m.len
            /\ ReadFromAshmem(r, size, offset) =>
                   "READ" \in m.prot /\ (offset + size <= m.len \/ m.len >= 2 ^ (Width - 2))
=============================================================================
