------------------------------ MODULE MCParcel ------------------------------
(* Values for the TLC runs of Parcel.                                      *)
EXTENDS Parcel

C(op, n, w) == [op |-> op, n |-> n, w |-> w]

\* One value of each layout, with lengths that need 0 to 3 bytes of padding,
\* and sizes around a doubling, CAPACITY_THRESHOLD and DEFAULT_CPACITY.
Values == {C("prim", 0, 4), C("prim", 0, 1), C("cstring", 2, 1), C("string", 4, 1),
           C("string", -1, 1), C("string", 2, 2), C("vector", 3, 1), C("vector", 0, 4),
           C("strings", 1, 1), C("null", 0, 4), C("strongnull", 0, 4), C("plain", 0, 4),
           C("remote", 1, 4), C("buffer", 61, 1), C("buffer", 4096, 1),
           C("buffer", 200700, 1), C("raw", 1, 1)}

\* Objects among the data: held or not, with and without the null flag.
Objects == {C("object", 0, 4), C("object", 1, 4), C("remote", 1, 4)}

AllCalls == Values \union Objects
=============================================================================
