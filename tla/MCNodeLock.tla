------------------------------ MODULE MCNodeLock ------------------------------
\* Model-checking instances of NodeLock: two processes and one node.
EXTENDS NodeLock

CONSTANTS p1, p2
===============================================================================
