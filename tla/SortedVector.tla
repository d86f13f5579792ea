----------------------------- MODULE SortedVector -----------------------------
(***************************************************************************)
(* SortedVector<TYPE, AllowDuplicate> (base/include/sorted_vector.h): one  *)
(* object that allows duplicates and one that does not, copied, assigned   *)
(* and merged into each other.  A sequence counts from 1, the code's       *)
(* indices from 0.  held is what a bag, or a set, would hold after the     *)
(* same calls.                                                             *)
(***************************************************************************)
EXTENDS Integers, Sequences, FiniteSets, SequencesExt

CONSTANTS Items,   \* values of TYPE, integers
          MaxLen   \* bound: items of a vector

VARIABLES vec,    \* AllowDuplicate -> vec_
          held    \* AllowDuplicate -> item -> how many of it there should be

NOT_FOUND == -1
Empty == [x \in Items |-> 0]

Init == vec = [d \in BOOLEAN |-> <<>>] /\ held = [d \in BOOLEAN |-> Empty]

-----------------------------------------------------------------------------
BagOf(s) == [x \in Items |-> Cardinality({i \in DOMAIN s : s[i] = x})]
InOrder(s) == \A i, j \in DOMAIN s : i < j => s[i] <= s[j]

(* <algorithm>, external; the bounds need a sorted vector.                 *)
lower_bound(s, x) == Cardinality({i \in DOMAIN s : s[i] < x})
upper_bound(s, x) == Cardinality({i \in DOMAIN s : s[i] <= x})
sort(s) == CHOOSE r \in [DOMAIN s -> Items] : InOrder(r) /\ BagOf(r) = BagOf(s)
unique_copy(s) ==
    LET copied[i \in 0 .. Len(s)] ==
            IF i = 0 THEN <<>>
            ELSE IF i > 1 /\ s[i] = s[i - 1] THEN copied[i - 1]
            ELSE Append(copied[i - 1], s[i])
    IN  copied[Len(s)]

IndexOf(s, x) ==
    LET it == lower_bound(s, x)
    IN  IF it = Len(s) \/ s[it + 1] # x THEN NOT_FOUND ELSE it

OrderOf(s, x) == upper_bound(s, x)

\* What every copy into a vector does with its source.
CopiedAll(d, s) == s
Copied(d, s) == IF d THEN s ELSE unique_copy(s)

SortedOf(d, invec) == Copied(d, sort(invec))

\* The reference: one of each, or as many as there are.
Capped(d, bag) == [x \in Items |-> IF d \/ bag[x] = 0 THEN bag[x] ELSE 1]

Becomes(d, s, bag) ==
    /\ Len(s) <= MaxLen
    /\ vec' = [vec EXCEPT ![d] = s]
    /\ held' = [held EXCEPT ![d] = bag]

-----------------------------------------------------------------------------
SortedVectorOf(d, invec) == Becomes(d, SortedOf(d, invec), Capped(d, BagOf(invec)))

\* The constructors and operator= that take a SortedVector of either kind.
Assign(d, e) ==
    IF d = e THEN UNCHANGED <<vec, held>> ELSE Becomes(d, Copied(d, vec[e]), Capped(d, held[e]))

Add(d, x) ==
    IF IndexOf(vec[d], x) # NOT_FOUND /\ ~d THEN UNCHANGED <<vec, held>>
    ELSE Becomes(d, InsertAt(vec[d], upper_bound(vec[d], x) + 1, x),
                 [held[d] EXCEPT ![x] = @ + 1])

\* Merge, of another vector of this kind or of this one.
Merge(d, rhs, bag) ==
    Becomes(d, Copied(d, sort(vec[d] \o rhs)),
            Capped(d, [x \in Items |-> held[d][x] + bag[x]]))

\* Erase(IndexOf(x)): NOT_FOUND, as a size_t, is beyond every vector.
EraseAt(s, index) == IF index = NOT_FOUND \/ index >= Len(s) THEN s ELSE RemoveAt(s, index + 1)
Erase(d, x) ==
    Becomes(d, EraseAt(vec[d], IndexOf(vec[d], x)),
            [held[d] EXCEPT ![x] = IF @ = 0 THEN 0 ELSE @ - 1])

PopBack(d) ==
    /\ vec[d] # <<>>
    /\ Becomes(d, Front(vec[d]), [held[d] EXCEPT ![Last(vec[d])] = @ - 1])

Clear(d) == Becomes(d, <<>>, Empty)

(* EditItemAt, EditArray: the caller has to keep the vector sorted, and    *)
(* may bring in a duplicate.                                               *)
EditItemAt(d, i, x) ==
    /\ i \in DOMAIN vec[d]
    /\ i > 1 => vec[d][i - 1] <= x
    /\ i < Len(vec[d]) => x <= vec[d][i + 1]
    /\ LET s == [vec[d] EXCEPT ![i] = x] IN Becomes(d, s, BagOf(s))

Next == \E d \in BOOLEAN :
    \/ \E e \in BOOLEAN : Assign(d, e)
    \/ \E x \in Items : Add(d, x) \/ Erase(d, x) \/ \E i \in 1 .. MaxLen : EditItemAt(d, i, x)
    \/ \E invec \in BoundedSeq(Items, 2) :
           \/ SortedVectorOf(d, invec)
           \/ Merge(d, SortedOf(d, invec), BagOf(invec))
    \/ Merge(d, vec[d], held[d])
    \/ PopBack(d) \/ Clear(d)

-----------------------------------------------------------------------------
(* Whatever is added, merged, copied between the two kinds and erased, a   *)
(* vector holds what a bag or a set would, in order, and the binary        *)
(* searches answer for it: IndexOf the first occurrence, OrderOf the place *)
(* behind everything that is not greater (sorted_vector.h:351, :365).      *)
HoldsInOrder ==
    \A d \in BOOLEAN :
        /\ InOrder(vec[d])
        /\ BagOf(vec[d]) = held[d]
        /\ \A x \in Items :
               LET at == {i \in DOMAIN vec[d] : vec[d][i] = x}
                   order == OrderOf(vec[d], x)
               IN  /\ at = {} => IndexOf(vec[d], x) = NOT_FOUND
                   /\ at # {} => IndexOf(vec[d], x) + 1 \in at
                                 /\ \A i \in at : IndexOf(vec[d], x) < i
                   /\ \A i \in DOMAIN vec[d] : i <= order <=> vec[d][i] <= x
=============================================================================
