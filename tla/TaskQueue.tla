------------------------------- MODULE TaskQueue -------------------------------
(***************************************************************************)
(* The daemon starts programs that other programs ask for (scheduler() of     *)
(* mbtask/mbtask.c, sem_set() of mbtask/taskstat.c).  A request is a           *)
(* semaphore: whoever leaves work for a program sets it.  Each pass of the     *)
(* loop, about one in a second, looks at the semaphores in a fixed order,       *)
(* with a pause after everything that happened.  The programs it starts         *)
(* (mbfido, mbmsg, mbindex, mbfile) do the work that is there, and remove the    *)
(* semaphore themselves: some before they look for work, others when they are    *)
(* done.                                                                      *)
(***************************************************************************)
EXTENDS Integers, FiniteSets, Sequences

CONSTANTS
  MaxTasks,   \* MAXTASKS
  PauseTime,  \* PAUSETIME, in passes
  TossTime,   \* TOSSWAIT_TIME, in minutes
  MaxCalls,   \* the lines and TCFG.max_tcp together
  MaxInbound, \* internet sessions at a time
  Asked,      \* the requests that are made
  MayFail     \* the requests whose programs may not start, or end without any work done

\* The order in which a pass looks at the requests.
Order == <<"mailout", "mailin", "newnews", "mbindex", "msglink", "reqindex">>
Requests == {Order[k] : k \in DOMAIN Order}

ASSUMPTION BoundsAssumption ==
  /\ MaxTasks \in Nat \ {0} /\ PauseTime \in Nat \ {0} /\ TossTime \in Nat
  /\ MaxCalls \in Nat /\ MaxInbound \in Nat /\ MayFail \subseteq Requests /\ Asked \subseteq Requests

VARIABLES
  at,         \* how far the pass is: 0 before it, or the next request to look at, or
              \* Last behind them, or Suspended when Processing is FALSE
  sem,        \* the semaphores that are set
  ptimer,     \* the pause timer
  tosswait,   \* minutes to wait for the end of mail sessions
  running,    \* the number of tasks at the last check
  step,       \* the programs started for requests: 0 not running, or the step that
              \* is next, or one behind the last when it has ended unnoticed
  calls,      \* tasks that call a system, by modem or over the internet
  ipmailers,  \* internet sessions
  work,       \* what there is to do
  untold      \* what was left to do by a program that has not yet set the semaphore

tasks == <<step, calls>>
vars == <<at, sem, ptimer, tosswait, running, tasks, ipmailers, work, untold>>

Last == Len(Order) + 1
Suspended == Last + 1

--------------------------------------------------------------------------------
(* The programs. *)

\* The inbound holds files with a .tic file, and mail packets; mbfido takes care of
\* the first and then of the second.  The other requests are about one thing each.
Items(r) == IF r = "mailin" THEN {"tic", "packet"} ELSE {r}
Work == UNION {Items(r) : r \in Requests}

\* What the program for a request does; "remove" removes the semaphore.
Steps_Late(r) == IF r = "mailin" THEN <<"tic", "packet", "remove">> ELSE <<r, "remove">>
Steps(r) == IF r = "mailin" THEN <<"remove", "tic", "remove", "packet">> ELSE <<r, "remove">>
EndOf(r) == Len(Steps(r)) + 1

Mbfido == {"mailout", "mailin", "newnews", "msglink"}
Running(kind) == \E r \in kind : step[r] # 0

\* How many calls there are, by their way and by whether they have ended unnoticed.
Ways == {"modem", "inet"}
NoCalls == [w \in Ways |-> [runs |-> 0, ended |-> 0]]

Init ==
  /\ at = 0
  /\ sem = {}
  /\ ptimer = PauseTime
  /\ tosswait = TossTime
  /\ running = 0
  /\ step = [r \in Requests |-> 0]
  /\ calls = NoCalls
  /\ ipmailers = 0
  /\ work = {}
  /\ untold = {}

--------------------------------------------------------------------------------
(* The task table. *)

\* checktasks(): what has ended is taken out, and the pause begins again.
Left == [r \in Requests |-> IF step[r] = EndOf(r) THEN 0 ELSE step[r]]
CallsLeft == [w \in Ways |-> [calls[w] EXCEPT !.ended = 0]]
Paused == IF CallsLeft # calls \/ Left # step THEN PauseTime ELSE ptimer
Tasks(way) == calls[way].runs + calls[way].ended
Started(left) == {r \in Requests : left[r] # 0}
Count(left, called) ==
  called["modem"].runs + called["inet"].runs + called["modem"].ended + called["inet"].ended
    + Cardinality(Started(left))

CheckTasks ==
  /\ step' = Left
  /\ calls' = CallsLeft
  /\ running' = Count(Left, CallsLeft)

\* launch(): it checks the tasks, and does nothing if the table is full or fork()
\* fails.
Room == Count(Left, CallsLeft) < MaxTasks
Launched(left, called) ==
  /\ Room
  /\ step' = left
  /\ calls' = called
  /\ running' = Count(left, called)
  /\ ptimer' = PauseTime
NotLaunched(mayfail) ==
  /\ ~Room \/ mayfail
  /\ CheckTasks
  /\ ptimer' = Paused

--------------------------------------------------------------------------------
(* The pass. *)

OneLess == IF Paused > 0 THEN Paused - 1 ELSE 0

\* The top of the loop: the tasks, the load, the power and the state of the BBS, and
\* the pause timer.  A pass that begins within the second does not count it down.
\* Nothing is started while the system is suspended.
Begin ==
  /\ at = 0
  /\ at' \in {1, Suspended}
  /\ CheckTasks
  /\ ptimer' = OneLess
  /\ UNCHANGED <<sem, tosswait, ipmailers, work, untold>>

\* Is the program for this request to be started now?
MbfidoFree_One == ~Running({"mailin", "mailout", "newnews"})
MbfidoFree == ~Running(Mbfido)
NoMailers == ipmailers + Tasks("modem") = 0
MayToss_Patient == NoMailers
MayToss == NoMailers \/ tosswait = 0
Idle_Mbfido == MbfidoFree
Idle == running = 0
Ready(r) ==
  /\ r \in sem
  /\ ptimer = 0
  /\ CASE r \in {"mailout", "newnews"} -> MbfidoFree
       [] r = "mailin" -> MbfidoFree /\ MayToss
       [] OTHER -> Idle

\* The requests that are still to come in this pass, and are ready.  What other
\* processes do meanwhile makes none of them ready, nor takes it away.
Ahead == {k \in DOMAIN Order : at # 0 /\ k >= at /\ Ready(Order[k])}

\* The request is dropped as its program is started, whether that succeeds or not.
Serve(k) ==
  /\ k \in Ahead /\ \A j \in Ahead : k <= j
  /\ NotLaunched(Order[k] \in MayFail) \/ Launched([Left EXCEPT ![Order[k]] = 1], CallsLeft)
  /\ sem' = sem \ {Order[k]}
  /\ tosswait' = IF Order[k] = "mailin" /\ NoMailers THEN TossTime ELSE tosswait
  /\ at' = k + 1
  /\ UNCHANGED <<ipmailers, work, untold>>

\* The end of the pass: now and then a system is called (module CallOut).
Finish ==
  /\ at # 0 /\ Ahead = {}
  /\ at' = 0
  /\ \/ UNCHANGED <<ptimer, running, tasks>>
     \/ /\ at # Suspended
        /\ CallsLeft["modem"].runs + CallsLeft["inet"].runs < MaxCalls
        /\ \/ NotLaunched(MayFail # {})
           \/ \E w \in Ways : Launched(Left, [CallsLeft EXCEPT ![w].runs = @ + 1])
  /\ UNCHANGED <<sem, tosswait, ipmailers, work, untold>>

--------------------------------------------------------------------------------
(* Between two passes: the messages of the clients, and the clock. *)

\* A program leaves work, and then sets the semaphore: sem_set().
LeaveWork(item) ==
  /\ work' = work \cup {item}
  /\ untold' = untold \cup {item}
  /\ UNCHANGED <<at, sem, ptimer, tosswait, running, tasks, ipmailers>>

SemSet(r) ==
  /\ at = 0
  /\ Items(r) \cap untold # {}
  /\ untold' = untold \ Items(r)
  /\ sem' = sem \cup {r}
  /\ ptimer' = PauseTime
  /\ tosswait' = IF r = "mailin" THEN TossTime ELSE tosswait
  /\ UNCHANGED <<at, running, tasks, ipmailers, work>>

\* A minute has passed.
Minute ==
  /\ at = 0
  /\ tosswait > 0
  /\ tosswait' = tosswait - 1
  /\ UNCHANGED <<at, sem, ptimer, running, tasks, ipmailers, work, untold>>

\* An internet session begins or ends.
Session ==
  /\ at = 0
  /\ \/ ipmailers < MaxInbound /\ ipmailers' = ipmailers + 1
     \/ ipmailers > 0 /\ ipmailers' = ipmailers - 1
  /\ UNCHANGED <<at, sem, ptimer, tosswait, running, tasks, work, untold>>

--------------------------------------------------------------------------------
(* The programs, at any moment. *)

CallEnds(w) ==
  /\ calls[w].runs > 0
  /\ calls' = [calls EXCEPT ![w] = [runs |-> @.runs - 1, ended |-> @.ended + 1]]
  /\ UNCHANGED <<at, sem, ptimer, tosswait, running, step, ipmailers, work, untold>>

\* A step of the program for r; a semaphore is removed by a message to the daemon.
\* mbfido asks first whether mailin and newnews are set.
Go(r) == step' = [step EXCEPT ![r] = @ + 1]
DoWork(r) ==
  /\ step[r] \in DOMAIN Steps(r)
  /\ Steps(r)[step[r]] # "remove"
  /\ work' = work \ {Steps(r)[step[r]]}
  /\ Go(r)
  /\ UNCHANGED <<at, sem, ptimer, tosswait, running, calls, ipmailers, untold>>

RemoveSema(r) ==
  /\ at = 0
  /\ step[r] \in DOMAIN Steps(r)
  /\ Steps(r)[step[r]] = "remove"
  /\ sem' = sem \ {r}
  /\ ptimer' = IF r \in {"mailin", "newnews"} \ sem THEN ptimer ELSE PauseTime
  /\ Go(r)
  /\ UNCHANGED <<at, tosswait, running, calls, ipmailers, work, untold>>

\* A full disk, a lock that is held, a signal.
Fail(r) ==
  /\ r \in MayFail
  /\ step[r] \in DOMAIN Steps(r)
  /\ step' = [step EXCEPT ![r] = EndOf(r)]
  /\ UNCHANGED <<at, sem, ptimer, tosswait, running, calls, ipmailers, work, untold>>

Pass == Begin \/ (\E k \in DOMAIN Order : Serve(k)) \/ Finish
Program(r) == DoWork(r) \/ RemoveSema(r)
Next ==
  \/ Pass
  \/ \E r \in Asked : SemSet(r) \/ \E item \in Items(r) : LeaveWork(item)
  \/ Minute \/ Session \/ (\E w \in Ways : CallEnds(w))
  \/ \E r \in Requests : Program(r) \/ Fail(r)

\* The loop goes round, time passes, and programs come to their end: a message to
\* the daemon is read before the pass that follows it.
Fairness ==
  /\ WF_vars(Pass) /\ SF_vars(Minute) /\ (\A w \in Ways : WF_vars(CallEnds(w)))
  /\ \A r \in Asked : SF_vars(Program(r)) /\ SF_vars(SemSet(r))
Spec == Init /\ [][Next]_vars /\ Fairness

--------------------------------------------------------------------------------
TypeOK ==
  /\ at \in 0 .. Suspended
  /\ sem \subseteq Requests
  /\ ptimer \in 0 .. PauseTime
  /\ tosswait \in 0 .. TossTime
  /\ running \in 0 .. MaxTasks
  /\ step \in [Requests -> 0 .. 5] /\ \A r \in Requests : step[r] <= EndOf(r)
  /\ calls \in [Ways -> [runs : 0 .. MaxTasks, ended : 0 .. MaxTasks]]
  /\ Count(step, calls) <= MaxTasks
  /\ ipmailers \in 0 .. MaxInbound
  /\ work \subseteq Work /\ untold \subseteq Work

\* One program that works on the message bases at a time: three requests start the
\* tosser, and linking the bases is the fourth.
OneMbfido == \A r, s \in Mbfido : step[r] # 0 /\ step[s] # 0 => r = s

\* The nodelist compiler, the linker and the request index are not started beside
\* anything else that runs, whatever has ended or begun since the last check.
Alone ==
  [][\A r \in {"mbindex", "msglink", "reqindex"} :
       step[r] # 1 /\ step'[r] = 1
       => (\A w \in Ways : calls[w].runs = 0) /\ \A s \in Requests : step[s] \in {0, EndOf(s)}]_vars

\* What is left to do is asked for: the semaphore is set, or will be, or the program
\* that is running has yet to look.
Expected(item) ==
  \E r \in Requests :
    /\ item \in Items(r)
    /\ \/ r \in sem
       \/ \E k \in DOMAIN Steps(r) : step[r] \in 1 .. k /\ Steps(r)[k] = item
WillBeDone(item) == item \in work => item \in untold \/ Expected(item)

\* A mail packet in the inbound is never forgotten, whenever it arrives.
PacketsExpected == WillBeDone("packet")

\* Nothing is ever forgotten.
AllExpected == \A item \in Work : WillBeDone(item)

\* Inbound mail is tossed in the end, on a system where sessions go on all the time,
\* provided that the requests stop for a while.
MailTossed ==
  /\ <>[](at # Suspended)
  /\ <>[][~\E r \in Requests : SemSet(r)]_vars
  /\ []<>(at = 1 /\ ptimer = 0)
  => ("packet" \in work ~> "packet" \notin work)
================================================================================
