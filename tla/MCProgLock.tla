------------------------------ MODULE MCProgLock ------------------------------
\* Model-checking instances of ProgLock: three processes of one program.
EXTENDS ProgLock

CONSTANTS p1, p2, p3
===============================================================================
