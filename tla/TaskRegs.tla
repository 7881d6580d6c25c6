------------------------------- MODULE TaskRegs -------------------------------
(***************************************************************************)
(* The clients that are registered with mbtask (mbtask/taskregs.c): every  *)
(* program of the system has a record there, with the timer that mbtask    *)
(* keeps on it, the personal messages that wait for its user and its page  *)
(* for the sysop.  mbtask is one thread: it serves one command, or checks  *)
(* all records once, in a step; the clients run, hang and die meanwhile.   *)
(* Record 0 is mbtask's own and left out.  A message buffer has RB places  *)
(* but is used with RB + 1, so two of its places overlap in memory.        *)
(***************************************************************************)
EXTENDS Naturals, Sequences, FiniteSets

CONSTANTS
  MAXCLIENT,  \* the number of records
  RB,         \* places of a message buffer as it is declared
  Mailers,    \* clients that are mbcico
  Users,      \* clients that are mbsebbs, each of a user of its own
  Reached,    \* those whose users others write messages to
  Dozers,     \* clients that may stay silent for as long as their timer
  Free,       \* the pid 0 of a record not in use
  MaxFail     \* bound: how many clients hang or are killed from outside

Clients == Mailers \cup Users

Slots == 1..MAXCLIENT - 1

ASSUME SlotsAssumption ==
  /\ MAXCLIENT \in Nat \ {0} /\ RB \in Nat \ {0}
  /\ MaxFail \in Nat
  /\ Reached \subseteq Users /\ Dozers \subseteq Clients
  /\ Free \notin Clients

ASSUME ClientsAssumption == IsFiniteSet(Clients) /\ Mailers \cap Users = {}

VARIABLES
  reg,            \* reginfo: pid and flags of each record
  in, out,        \* ptr_in and ptr_out of each record
  memory,         \* its bytes from fname to reason, as cells
  mailers,        \* counters: registered mailers
  ipmailers,      \*           and those with a TCP/IP session
  sysop_present,  \* the sysop has said that he is there
  alive,          \* how each client is
  failures,       \* hangs and kills so far
  owed, number    \* history: the messages accepted and not read, by number

regVars == <<reg, mailers, ipmailers>>
msgVars == <<in, out, memory, owed, number>>
clientVars == <<alive, failures>>
vars == <<regVars, msgVars, sysop_present, clientVars>>

Places == 0..RB

\* The arrays fname and msg are followed by reason, and place RB is out of the
\* bounds of both.
Name(i) == IF i < RB THEN <<"fname", i>> ELSE <<"msg", 0>>
Text(i) == IF i < RB THEN <<"msg", i>> ELSE <<"reason", 0>>

Cells == {Name(i) : i \in Places} \cup {Text(i) : i \in Places}

\* Messages are numbered modulo two rounds of the buffer.
Numbers == 0..2 * RB + 1

Contents == ({"from", "text"} \X Numbers) \cup {<<"reason", 0>>, <<"empty", 0>>}

Empty == [pid |-> Free, short |-> FALSE, late |-> FALSE, silent |-> FALSE,
          istcp |-> FALSE, ismsg |-> FALSE, paging |-> FALSE, haspaged |-> FALSE]

Cleared == [x \in Cells |-> <<"empty", 0>>]

Init ==
  /\ reg = [s \in Slots |-> Empty]
  /\ mailers = 0 /\ ipmailers = 0
  /\ in = [s \in Slots |-> 0] /\ out = in
  /\ memory = [s \in Slots |-> Cleared]
  /\ sysop_present = FALSE
  /\ alive = [c \in Clients |-> "off"] /\ failures = 0
  /\ owed = [s \in Slots |-> <<>>] /\ number = [s \in Slots |-> 0]
------------------------------------------------------------------------------
Records(P(_)) == {s \in Slots : reg[s].pid # Free /\ P(reg[s])}

\* reg_find(): the first record with a pid.
Find(pid) == {s \in Slots : reg[s].pid = pid /\ \A r \in 1..s - 1 : reg[r].pid # pid}

\* Every command of a client restarts its timer.
Heard(s, r) == reg' = [reg EXCEPT ![s] = [r EXCEPT !.late = FALSE]]

\* Record s is cleared for a new client, or of one that has gone.
Wipe(s) ==
  /\ in' = [in EXCEPT ![s] = 0] /\ out' = [out EXCEPT ![s] = 0]
  /\ memory' = [memory EXCEPT ![s] = Cleared]
  /\ owed' = [owed EXCEPT ![s] = <<>>] /\ number' = [number EXCEPT ![s] = 0]

Drop_Kept(S) ==
  /\ mailers' = mailers - Cardinality({s \in S : reg[s].pid \in Mailers})
  /\ UNCHANGED ipmailers

\* The counters without the clients of the records S.
Drop(S) ==
  /\ mailers' = mailers - Cardinality({s \in S : reg[s].pid \in Mailers})
  /\ ipmailers' = ipmailers - Cardinality({s \in S : reg[s].istcp})

\* AINI, reg_newcon(): a program starts and takes the first free record; when
\* there is none it gives up.  Nobody is to be disturbed at first.
NewCon(c) ==
  /\ alive[c] = "off"
  /\ \E s \in Find(Free) :
       /\ reg' = [reg EXCEPT ![s] = [Empty EXCEPT !.pid = c, !.silent = TRUE]]
       /\ Wipe(s)
  /\ mailers' = IF c \in Mailers THEN mailers + 1 ELSE mailers
  /\ alive' = [alive EXCEPT ![c] = "on"]
  /\ UNCHANGED <<ipmailers, sysop_present, failures>>

\* ACLO, reg_closecon(): it ends, of itself or in its handler of SIGTERM.
CloseCon(c) ==
  /\ alive[c] \in {"on", "dying"}
  /\ \E s \in Find(c) :
       /\ reg' = [reg EXCEPT ![s] = Empty]
       /\ Wipe(s)
       /\ Drop({s})
  /\ alive' = [alive EXCEPT ![c] = "off"]
  /\ UNCHANGED <<sysop_present, failures>>

\* ADOI, ATTY, AUSR and GNOP: only the timer matters.
Nop(c) ==
  /\ alive[c] \in {"on", "dying"}
  /\ \E s \in Find(c) : reg[s].late /\ Heard(s, reg[s])
  /\ UNCHANGED <<mailers, ipmailers, msgVars, sysop_present, clientVars>>

\* ATIM and ADEF, reg_timer(): the timer is at least ten minutes again.
Timer(c) ==
  /\ alive[c] = "on"
  /\ \E s \in Find(c) : Heard(s, [reg[s] EXCEPT !.short = FALSE])
  /\ UNCHANGED <<mailers, ipmailers, msgVars, sysop_present, clientVars>>

\* ATCP, reg_ip(): sent once by a mailer (RegTCP() of lib/clcomm.c).
RegIp(c) ==
  /\ alive[c] = "on" /\ c \in Mailers
  /\ \E s \in Find(c) : ~ reg[s].istcp /\ Heard(s, [reg[s] EXCEPT !.istcp = TRUE])
  /\ ipmailers' = ipmailers + 1
  /\ UNCHANGED <<mailers, msgVars, sysop_present, clientVars>>

\* ADIS, reg_silent().
SetSilent(c) ==
  /\ alive[c] = "on" /\ c \in Reached
  /\ \E s \in Find(c), flag \in BOOLEAN : Heard(s, [reg[s] EXCEPT !.silent = flag])
  /\ UNCHANGED <<mailers, ipmailers, msgVars, sysop_present, clientVars>>
------------------------------------------------------------------------------
After_Past(p) == IF p <= RB THEN p + 1 ELSE 0


After(p) == IF p < RB THEN p + 1 ELSE 0

Full_Never(s) == FALSE

\* Both pointers the same, and a message waits.
Full(s) == reg[s].ismsg /\ in[s] = out[s]

\* CSPM, reg_spm(): somebody writes to the user of c.  When the buffer is full,
\* or the user is not to be disturbed, the sender is told and nothing changes.
SendMessage(c) ==
  /\ c \in Reached
  /\ \E s \in Find(c) :
       /\ ~ Full(s) /\ ~ reg[s].silent
       /\ reg' = [reg EXCEPT ![s].ismsg = TRUE]
       /\ memory' = [memory EXCEPT ![s][Name(in[s])] = <<"from", number[s]>>,
                                   ![s][Text(in[s])] = <<"text", number[s]>>]
       /\ in' = [in EXCEPT ![s] = After(in[s])]
       /\ owed' = [owed EXCEPT ![s] = Append(@, number[s])]
       /\ number' = [number EXCEPT ![s] = (@ + 1) % (2 * RB + 2)]
  /\ UNCHANGED <<out, mailers, ipmailers, sysop_present, clientVars>>

\* CIPM, reg_ipm_r(): the user reads the oldest.
ReadMessage(c) ==
  /\ alive[c] = "on"
  /\ \E s \in Find(c) :
       /\ reg[s].ismsg
       /\ out' = [out EXCEPT ![s] = After(out[s])]
       /\ Heard(s, [reg[s] EXCEPT !.ismsg = After(out[s]) # in[s]])
       /\ owed' = [owed EXCEPT ![s] = Tail(@)]
  /\ UNCHANGED <<in, memory, number, mailers, ipmailers, sysop_present, clientVars>>
------------------------------------------------------------------------------
\* CSYS, reg_sysop(): mbmon says whether the sysop is there.
Sysop ==
  /\ sysop_present' = ~ sysop_present
  /\ UNCHANGED <<regVars, msgVars, clientVars>>

Busy_Paging(c) == Records(LAMBDA r : r.pid # c /\ r.paging) # {}

\* Another user is paging the sysop or has paged him.
Busy(c) == Records(LAMBDA r : r.pid # c /\ (r.paging \/ r.haspaged)) # {}

\* CPAG, reg_page(): accepted when the sysop is there and not busy.
Page(c) ==
  /\ alive[c] = "on" /\ c \in Users
  /\ sysop_present /\ ~ Busy(c)
  /\ \E s \in Find(c) :
       /\ Heard(s, [reg[s] EXCEPT !.paging = TRUE])
       /\ memory' = [memory EXCEPT ![s][<<"reason", 0>>] = <<"reason", 0>>]
  /\ UNCHANGED <<in, out, owed, number, mailers, ipmailers, sysop_present, clientVars>>

\* CCAN, reg_cancel(): the user has waited for long enough.
Cancel(c) ==
  /\ alive[c] = "on"
  /\ \E s \in Find(c) :
       /\ reg[s].paging
       /\ Heard(s, [reg[s] EXCEPT !.paging = FALSE, !.haspaged = TRUE])
  /\ UNCHANGED <<mailers, ipmailers, msgVars, sysop_present, clientVars>>

\* CISC, chat_checksysop_r() and reg_sysoptalk(): the client asks, and the sysop
\* is in the channel by now.
SysopTalk(c) ==
  /\ alive[c] = "on"
  /\ \E s \in Find(c) :
       /\ reg[s].paging \/ reg[s].haspaged
       /\ reg' = [reg EXCEPT ![s].paging = FALSE, ![s].haspaged = FALSE]
  /\ UNCHANGED <<mailers, ipmailers, msgVars, sysop_present, clientVars>>
------------------------------------------------------------------------------
\* The time that the timer of c gives it passes without a command from it.
Quiet(c) ==
  /\ c \in Dozers \/ alive[c] = "hung"
  /\ alive[c] \in {"on", "dying", "hung"}
  /\ \E s \in Find(c) :
       /\ ~ reg[s].late
       /\ reg' = [reg EXCEPT ![s].late = TRUE]
  /\ UNCHANGED <<mailers, ipmailers, msgVars, sysop_present, clientVars>>

Gone == Records(LAMBDA r : alive[r.pid] = "dead")

Late == Records(LAMBDA r : alive[r.pid] # "dead" /\ r.late)

Signal_Term(c, short) == IF alive[c] = "hung" THEN "hung" ELSE "dying"

\* SIGTERM, which a process that hangs does not handle, and SIGKILL when its
\* timer was the ten seconds that mbtask gives it after a first signal.
Signal(c, short) ==
  IF short THEN "dead" ELSE IF alive[c] = "hung" THEN "hung" ELSE "dying"

\* reg_check(): the records of processes that have gone are cleared, and those
\* that were silent for too long get a signal.
RegCheck ==
  /\ Gone \cup Late # {}
  /\ reg' = [s \in Slots |->
               IF s \in Gone THEN Empty
               ELSE IF s \in Late THEN [reg[s] EXCEPT !.late = FALSE, !.short = TRUE]
               ELSE reg[s]]
  /\ in' = [s \in Slots |-> IF s \in Gone THEN 0 ELSE in[s]]
  /\ out' = [s \in Slots |-> IF s \in Gone THEN 0 ELSE out[s]]
  /\ memory' = [s \in Slots |-> IF s \in Gone THEN Cleared ELSE memory[s]]
  /\ owed' = [s \in Slots |-> IF s \in Gone THEN <<>> ELSE owed[s]]
  /\ number' = [s \in Slots |-> IF s \in Gone THEN 0 ELSE number[s]]
  /\ Drop(Gone)
  /\ alive' = [c \in Clients |->
                 CASE \E s \in Gone : reg[s].pid = c -> "off"
                   [] \E s \in Late : reg[s].pid = c ->
                        Signal(c, \E s \in Late : reg[s].pid = c /\ reg[s].short)
                   [] OTHER -> alive[c]]
  /\ UNCHANGED <<sysop_present, failures>>

\* A client hangs, in a door or on a dead disk, or is killed.
Fail(c) ==
  /\ failures < MaxFail
  /\ failures' = failures + 1
  /\ \/ alive[c] \in {"on", "dying"} /\ alive' = [alive EXCEPT ![c] = "hung"]
     \/ alive[c] \in {"on", "dying", "hung"} /\ alive' = [alive EXCEPT ![c] = "dead"]
  /\ UNCHANGED <<regVars, msgVars, sysop_present>>

Command(c) ==
  \/ NewCon(c) \/ CloseCon(c) \/ Nop(c) \/ Timer(c) \/ RegIp(c) \/ SetSilent(c)
  \/ SendMessage(c) \/ ReadMessage(c) \/ Page(c) \/ Cancel(c) \/ SysopTalk(c)

Next ==
  \/ \E c \in Clients : Command(c) \/ Quiet(c) \/ Fail(c)
  \/ Sysop
  \/ RegCheck

Spec == Init /\ [][Next]_vars

\* mbtask checks its clients in every round, and time passes for a client that
\* hangs.
Fairness == WF_vars(RegCheck) /\ \A c \in Clients : WF_vars(alive[c] = "hung" /\ Quiet(c))

FairSpec == Spec /\ Fairness
------------------------------------------------------------------------------
RecordTypes ==
  [pid : Clients \cup {Free}, short : BOOLEAN, late : BOOLEAN, silent : BOOLEAN,
   istcp : BOOLEAN, ismsg : BOOLEAN, paging : BOOLEAN, haspaged : BOOLEAN]

TypeOK ==
  /\ reg \in [Slots -> RecordTypes]
  /\ in \in [Slots -> Places] /\ out \in [Slots -> Places]
  /\ memory \in [Slots -> [Cells -> Contents]]
  /\ mailers \in Nat /\ ipmailers \in Nat
  /\ sysop_present \in BOOLEAN
  /\ alive \in [Clients -> {"off", "on", "dying", "hung", "dead"}]
  /\ failures \in 0..MaxFail
  /\ owed \in [Slots -> Seq(Numbers)] /\ number \in [Slots -> Numbers]

\* The scheduler starts no more calls over the Internet than max_tcp by the
\* counter of TCP/IP sessions, and tosses no mail while it is not zero
\* (mbtask.c:1361, 1466): both counters are true however clients end, that die
\* unseen or before the reply to their last command included.
CountersTrue ==
  /\ mailers = Cardinality(Records(LAMBDA r : r.pid \in Mailers))
  /\ ipmailers = Cardinality(Records(LAMBDA r : r.istcp))

\* The sysop is paged by one user at a time ("If so, mark sysop busy",
\* taskregs.c:619-621), so the one page mbmon is shown is the only one.
OnePager ==
  Cardinality(Records(LAMBDA r : r.paging \/ r.haspaged)) <= 1

\* Where the k-th message that waits is.
Place(s, k) == (out[s] + k - 1) % (RB + 1)

\* Cells of record s that were written after its k-th waiting message.
Overwritten(s, k) ==
  {<<"reason", 0>>} \cup
    UNION {{Name(Place(s, j)), Text(Place(s, j))} : j \in k + 1..Len(owed[s])}

\* Every message that was accepted waits until it is read, and they are read in
\* the order they came in, as they were sent where the places do not overlap.
MessagesKept ==
  \A s \in Slots :
    /\ reg[s].ismsg <=> owed[s] # <<>>
    /\ in[s] = (out[s] + Len(owed[s])) % (RB + 1)
    /\ \A k \in DOMAIN owed[s] :
         /\ Name(Place(s, k)) \notin Overwritten(s, k) =>
              memory[s][Name(Place(s, k))] = <<"from", owed[s][k]>>
         /\ Text(Place(s, k)) \notin Overwritten(s, k) =>
              memory[s][Text(Place(s, k))] = <<"text", owed[s][k]>>

\* Every message is read as it was sent ("Yes, from .. with message text.",
\* html/programs/mbtask.html:246).  It does not hold: place RB of fname is the
\* beginning of msg, and place RB of msg is reason (README, section 5).
ReadAsSent ==
  \A s \in Slots : \A k \in DOMAIN owed[s] :
    /\ memory[s][Name(Place(s, k))] = <<"from", owed[s][k]>>
    /\ memory[s][Text(Place(s, k))] = <<"text", owed[s][k]>>

\* A client that hangs or was killed does not keep its record for ever, nor
\* what goes with it: the counters, and its page for the sysop.
FailedClientsGo ==
  \A c \in Clients : alive[c] \in {"hung", "dead"} ~> alive[c] = "off"
==============================================================================
