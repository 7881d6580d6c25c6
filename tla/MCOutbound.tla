------------------------------ MODULE MCOutbound ------------------------------
\* Model-checking instances of Outbound.
EXTENDS Outbound

Load(p, t, h, s, m) == [packets |-> p, tics |-> t, ticks |-> h, scans |-> s, mishaps |-> m]

\* In a day three packets use up the names, or the file is announced, with a mishap;
\* over a week there is a mishap or a scan of an archive, with one packet both.
MCLoads ==
  {Load(3, 0, 1, 0, 1), Load(1, 1, 1, 0, 1), Load(0, 2, 1, 0, 1),
   Load(2, 0, 4, 0, 1), Load(2, 0, 4, 1, 0), Load(1, 0, 4, 1, 1)}
================================================================================
