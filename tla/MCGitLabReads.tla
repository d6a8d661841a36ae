---------------------------- MODULE MCGitLabReads ----------------------------
\* An instance of GitLabReads for TLC.
EXTENDS GitLabReads

CONSTANTS a1, a2, b1, x1

\* Two items share a name; one is not accepted.
MCAccepted == {a1, a2, b1}
MCName == [i \in Item |-> IF i = a2 THEN a1 ELSE i]
=============================================================================
