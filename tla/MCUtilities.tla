----------------------------- MODULE MCUtilities -----------------------------
(***************************************************************************)
(* Instances of MappedFile, Descriptors, Observer and SortedVector for     *)
(* TLC.  The four do not interact: `unit' says which of them a behaviour   *)
(* is about, and the others stay as they began.                            *)
(***************************************************************************)
EXTENDS MappedFile, TLC

CONSTANTS m1, m2,   \* model values
          Units,    \* those a run is about
          Holders, Regions, MaxFd, MaxMaps, Width, AshmemSizes,
          Subjects, Observers, MaxVersion,
          Items, MaxLen

VARIABLES unit,
          open, raw, fd, step, ash, maps,
          obs, changed, holder, version, seen, pc, arrLocal,
          vec, held

fdVars  == <<open, raw, fd, step, ash, maps>>
obsVars == <<obs, changed, holder, version, seen, pc, arrLocal>>
vecVars == <<vec, held>>

D == INSTANCE Descriptors
O == INSTANCE Observer
V == INSTANCE SortedVector

\* What NotifyObservers leaves in holder is a thread; descriptors, addresses,
\* sizes and the items of vectors are numbers; no object is of both classes.
ASSUME UnitsConstants ==
    /\ O!None \notin Subjects
    /\ MaxFd \in Nat /\ MaxMaps \in Nat /\ AshmemSizes \subseteq Nat
    /\ Items \subseteq Int
    /\ Holders \intersect Regions = {}

\* Width is that of a type with a sign and two value bits or more, written as
\* what is needed of powers of two.
ASSUME PowersOfTwo ==
    /\ 2 ^ (Width - 2) \in Nat \ {0}
    /\ 2 ^ (Width - 1) = 2 * 2 ^ (Width - 2) /\ 2 ^ Width = 2 * 2 ^ (Width - 1)

\* A file that ends inside its third page, and a path without a file.
TwoPaths == "a" :> 5 @@ "b" :> -1

\* The whole file, part of a page, and a page and a half.
SomeSizes == {-1, 1, 3}
SomeModes == {{"CREATE"}, {"READ_ONLY"}}
Same      == Permutations({m1, m2})

UnitsInit ==
    /\ unit \in Units
    /\ Init /\ D!Init /\ O!Init /\ V!Init
    /\ unit # "file" =>
           obj = [x \in Objects |-> IF x = m1 THEN New("a", {"CREATE"}, 0, 1, 0) ELSE Dead]
    /\ unit # "descriptors" => raw = {}
    /\ unit # "observer" => obs = {}

UnitsNext ==
    \/ unit = "file" /\ Next /\ UNCHANGED <<fdVars, obsVars, vecVars>>
    \/ unit = "descriptors" /\ D!Next /\ UNCHANGED <<vars, obsVars, vecVars>>
    \/ unit = "observer" /\ O!Next /\ UNCHANGED <<vars, fdVars, vecVars>>
    \/ unit = "vector" /\ V!Next /\ UNCHANGED <<vars, fdVars, obsVars>>

UnitsSpec ==
    UnitsInit /\ [][UnitsNext /\ UNCHANGED unit]_<<unit, vars, fdVars, obsVars, vecVars>>

(* Descriptors of UniqueFd and Ashmem objects are closed once, by their    *)
(* owner (unique_fd.h, ashmem.cpp:188); see Descriptors.                   *)
DescriptorsOwned == unit = "descriptors" => D!DescriptorsOwned

(* An access Ashmem lets through lies inside its mapping (ashmem.cpp:285); *)
(* see Descriptors.                                                        *)
AccessInside == unit = "descriptors" => D!AccessInside

(* A change made between another thread's test and reset of changed_ still *)
(* reaches the observers (observer.cpp:82); see Observer.                  *)
NoChangeMissed == unit = "observer" => O!NoChangeMissed

(* A SortedVector holds what its calls put there, in order, and finds it   *)
(* (sorted_vector.h:351); see SortedVector.                                *)
HoldsInOrder == unit = "vector" => V!HoldsInOrder
=============================================================================
