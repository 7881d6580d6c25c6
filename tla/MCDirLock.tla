------------------------------ MODULE MCDirLock ------------------------------
\* Model-checking instances of DirLock: two processes and one directory.
EXTENDS DirLock

CONSTANTS p1, p2
==============================================================================
