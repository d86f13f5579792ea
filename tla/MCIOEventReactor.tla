-------------------------- MODULE MCIOEventReactor --------------------------
(* Instances of IOEventReactor for TLC.                                    *)
EXTENDS IOEventReactor
CONSTANTS h1, h2, a1, a2   \* model values

\* Both handlers watch descriptor 1, for which the table has to grow.
OneFd == [h \in Handlers |-> 1]
FirstEvents == [h \in Handlers |-> IF h = h1 THEN {"READ"} ELSE {"CLOSE"}]
=============================================================================
