--------------------------- MODULE MCRefCollection ---------------------------
\* Instances of RefCollection for TLC.
EXTENDS RefCollection, TLC

CONSTANT all

\* The configuration "all" pulls every ref, any other, the default one of
\* NewProject included, none.
MCMatches == [c \in Config \cup {Default} |-> IF c = all THEN Ref ELSE {}]
=============================================================================
