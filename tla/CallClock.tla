------------------------------- MODULE CallClock -------------------------------
(*****************************************************************************)
(* When the daemon looks at the outbound again (mbtask/mbtask.c,             *)
(* scheduler()).  The list of nodes to call is made by a scan, and a scan is *)
(* made only when something asked for it: a program that changed the         *)
(* outbound, or the event that the last scan foresaw, when the mail hour or  *)
(* a mail window of a node begins or ends.                                   *)
(* This is one half of scheduler(), TaskQueue is the other; the names of the *)
(* specification begin with Clock: SchedulerProofs speaks of both.           *)
(*****************************************************************************)
EXTENDS OutStat

CONSTANTS
  Nodes,    \* the systems we may have mail for
  Node,     \* what the nodelist and the setup say of each
  Files     \* the files that may be put in the outbound for each

NodeRecord == [zone : Nat, cm : BOOLEAN, icm : BOOLEAN, ip : BOOLEAN, nocall : BOOLEAN,
               modes : SUBSET {"inet", "isdn", "pots"},
               windows : SUBSET ((0 .. Day - 1) \X (0 .. Day - 1))]

ASSUMPTION NodeAssumption == Node \in [Nodes -> NodeRecord]

VARIABLES
  clock,       \* the minute of the day
  olddo,       \* the minute in which the part for each minute was last run
  nextEvent,   \* nxt_hour and nxt_min
  rescan,      \* the master rescan flag
  alist,       \* the nodes that have F_CALL after the last scan
  outbound,    \* the files waiting for each node
  unannounced, \* somebody changed the outbound and has not yet said so
  processing   \* Processing: the BBS is open, there is power and no overload

clockVars == <<clock, olddo, nextEvent, rescan, alist, outbound, unannounced, processing>>

--------------------------------------------------------------------------------
\* start_scheduler() sets the semaphore scanout, and with it the rescan flag.
ClockInit ==
  /\ clock \in 0 .. Day - 1
  /\ olddo = Day
  /\ nextEvent = 0
  /\ rescan = TRUE
  /\ alist = {}
  /\ outbound \in [Nodes -> {{}}]
  /\ unannounced = FALSE
  /\ processing \in BOOLEAN

Due(now) == {n \in Nodes : MustCall(Node[n], outbound[n], 0, now)}

\* A pass takes less than a minute, so none is skipped.
Tick ==
  /\ olddo = clock
  /\ clock' = (clock + 1) % Day
  /\ UNCHANGED <<olddo, nextEvent, rescan, alist, outbound, unannounced, processing>>

\* What the loop does once in each minute.
EachMinute ==
  /\ olddo # clock
  /\ olddo' = clock
  /\ rescan' = (rescan \/ clock = nextEvent)
  /\ UNCHANGED <<clock, nextEvent, alist, outbound, unannounced, processing>>

\* What it does every twenty seconds: outstat().
ScanOutbound ==
  /\ processing
  /\ rescan
  /\ rescan' = FALSE
  /\ alist' = Due(clock)
  /\ nextEvent' = NextEvent({Node[n] : n \in {n \in Nodes : Listed(outbound[n])}}, clock)
  /\ UNCHANGED <<clock, olddo, outbound, unannounced, processing>>

Suspend ==
  /\ processing' = ~processing
  /\ UNCHANGED <<clock, olddo, nextEvent, rescan, alist, outbound, unannounced>>

\* Another program puts a file in the outbound, or a mailer takes all of a node's
\* away; afterwards it creates the semaphore scanout, or its end is noticed.
AddFile(n, name) ==
  /\ outbound' = [outbound EXCEPT ![n] = @ \cup {name}]
  /\ unannounced' = TRUE
  /\ UNCHANGED <<clock, olddo, nextEvent, rescan, alist, processing>>

TakeFiles(n) ==
  /\ outbound[n] # {}
  /\ outbound' = [outbound EXCEPT ![n] = {}]
  /\ unannounced' = TRUE
  /\ UNCHANGED <<clock, olddo, nextEvent, rescan, alist, processing>>

\* sem_set("scanout", TRUE), or checktasks() when a mailer has ended.
Announce_Quiet ==
  /\ unannounced
  /\ unannounced' = FALSE
  /\ UNCHANGED <<clock, olddo, nextEvent, rescan, alist, outbound, processing>>
Announce ==
  /\ unannounced
  /\ unannounced' = FALSE
  /\ rescan' = TRUE
  /\ UNCHANGED <<clock, olddo, nextEvent, alist, outbound, processing>>

ClockNext ==
  \/ Tick \/ EachMinute \/ ScanOutbound \/ Suspend \/ Announce
  \/ \E n \in Nodes : TakeFiles(n) \/ \E name \in Files[n] : AddFile(n, name)

\* The loop runs for ever, and a program that changed the outbound says so.
ClockFairness ==
  /\ WF_clockVars(EachMinute)
  /\ WF_clockVars(ScanOutbound)
  /\ WF_clockVars(Announce)

ClockSpec == ClockInit /\ [][ClockNext]_clockVars /\ ClockFairness

--------------------------------------------------------------------------------
ClockTypeOK ==
  /\ clock \in 0 .. Day - 1
  /\ olddo \in 0 .. Day
  /\ nextEvent \in 0 .. Day - 1
  /\ rescan \in BOOLEAN
  /\ alist \subseteq Nodes
  /\ outbound \in [Nodes -> SUBSET UNION {Files[n] : n \in Nodes}]
  /\ \A n \in Nodes : outbound[n] \subseteq Files[n]
  /\ unannounced \in BOOLEAN
  /\ processing \in BOOLEAN

\* While no scan is due, the list of the last one is what a scan would find now,
\* however long ago it was: no window of a node opens or closes unnoticed.
PlanCurrent ==
  ~rescan /\ ~unannounced /\ olddo = clock => alist = Due(clock)

\* A node that can be reached at any time and has crash mail is put in the list,
\* and stays until its mail has gone, unless the system stays suspended.
CrashMailPlanned ==
  <>[]processing =>
    \A n \in Nodes : []((\A now \in 0 .. Day - 1 : n \in Due(now)) =>
                        <>(n \in alist \/ n \notin Due(clock)))
================================================================================
