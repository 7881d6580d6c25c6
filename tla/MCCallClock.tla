------------------------------ MODULE MCCallClock ------------------------------
\* Model-checking instances of CallClock: a day of six times, with a mail hour in
\* the middle and one at the end of the day.
EXTENDS CallClock, TLC

CONSTANTS n1, n2, n3

MCZones == 1 :> <<2, 3>> @@ 2 :> <<4, 5>>
MCOwnHour == <<3, 4>>
System == [zone |-> 1, cm |-> FALSE, icm |-> FALSE, ip |-> FALSE, nocall |-> FALSE,
           modes |-> {"pots"}, windows |-> {}]
MCNode == n1 :> System
       @@ n2 :> [System EXCEPT !.windows = {<<5, 1>>}]
       @@ n3 :> [System EXCEPT !.zone = 2, !.icm = TRUE, !.ip = TRUE, !.modes = {"inet", "pots"}]
\* The same with a system of another network, which has no mail hour of its own.
MCOther == [MCNode EXCEPT ![n1].zone = 7]
MCFiles == n1 :> {<<"o", "ut">>, <<"r", "eq">>} @@ n2 :> {<<"c", "lo">>, <<"h", "ut">>} @@ n3 :> {<<"f", "lo">>}
================================================================================
