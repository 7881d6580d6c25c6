------------------------------- MODULE MCCallOut -------------------------------
\* Model-checking instances of CallOut.
EXTENDS CallOut, TLC

CONSTANTS n1, n2

TwoInternet == n1 :> "inet" @@ n2 :> "inet"
OneModem == [mode \in {"isdn", "pots"} |-> IF mode = "pots" THEN 1 ELSE 0]
================================================================================
