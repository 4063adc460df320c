---- MODULE MCRouterSessions ----
\* Instances of RouterSessions.
EXTENDS RouterSessions, TLC

CONSTANTS c1, c2, c3, c4

\* Calls differ only in the requests they are given.
CallSymmetry == Permutations(Calls)
====
