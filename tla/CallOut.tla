-------------------------------- MODULE CallOut --------------------------------
(***************************************************************************)
(* The daemon calls other systems: the list of nodes to call                 *)
(* (mbtask/calllist.c), the table of tasks and the rotation over the list    *)
(* (mbtask/mbtask.c), the count of internet sessions (mbtask/taskregs.c),    *)
(* and the mailers it starts, each with the lock on its node and the call    *)
(* status it leaves (mbcico/call.c, mbcico/callstat.c).                      *)
(*                                                                          *)
(* Which nodes outstat() marks is the subject of OutStat and CallClock; here  *)
(* the nodes with mail are reachable at any time.                            *)
(***************************************************************************)
EXTENDS Integers, FiniteSets

CONSTANTS
  Nodes,     \* the systems to call
  Mode,      \* how each is called: "inet", "isdn" or "pots"
  MaxPid,    \* process numbers go up to this
  NoNode,
  MaxTasks,  \* MAXTASKS: slots of the call list, and tasks
  MaxTcp,    \* TCFG.max_tcp
  Lines,     \* isdn_free and pots_free
  MaxTry,    \* the number of attempts that makes a node undialable (30)
  MaxMail,   \* how often mail is written
  MaxUpset   \* calls that come in, mailers that are killed, internet failures and
             \* statuses cleared by hand, all together

ASSUMPTION ModeAssumption == Mode \in [Nodes -> {"inet", "isdn", "pots"}]
ASSUMPTION NamesAssumption == NoNode \notin Nodes
ASSUMPTION BoundsAssumption ==
  /\ MaxTasks \in Nat \ {0} /\ MaxTry \in Nat \ {0}
  /\ MaxPid \in Nat /\ MaxTcp \in Nat /\ MaxMail \in Nat /\ MaxUpset \in Nat
  /\ Lines \in [{"isdn", "pots"} -> Nat]

VARIABLES
  waiting,     \* nodes with mail in the outbound that must be called
  sts,         \* the status file of each node: tryno, and trytime is still to come
  calllist,    \* the call list: the node, its mailer, and trytime as last read
  call_entry,  \* the entry tried last
  call_work,   \* the list had an entry when it was last made
  rescan,      \* the master rescan flag
  internet,    \* the ping addresses answer
  task,        \* the pids of the running tasks
  mailer,      \* the mailers: what they do, and for which node
  atcp,        \* mailers whose ATCP message is still in the socket
  istcp,       \* clients registered as internet sessions; ipmailers counts them
  letters,     \* how often mail has been written so far
  upsets,      \* how much of that has happened so far
  forgotten,   \* history: nodes whose entry was removed while they were being called
  passed       \* history: how often an entry that could be called was passed over

lists == <<calllist, call_entry, call_work>>
daemon == <<lists, task, rescan, internet>>
files == <<waiting, sts>>
counts == <<letters, upsets>>
history == <<forgotten, passed>>
vars == <<daemon, files, mailer, atcp, istcp, counts, history>>

Slots == 0 .. MaxTasks - 1
Pids == 1 .. MaxPid
NoPid == 0
Empty == [addr |-> NoNode, calling |-> FALSE, taskpid |-> NoPid, late |-> FALSE]
Gone == [doing |-> "none", node |-> NoNode]

ipmailers == Cardinality(istcp)

Init ==
  /\ waiting = {}
  /\ sts = [n \in Nodes |-> [tryno |-> 0, late |-> FALSE]]
  /\ calllist = [e \in Slots |-> Empty]
  /\ call_entry = MaxTasks
  /\ call_work = FALSE
  /\ rescan = TRUE
  /\ internet = FALSE
  /\ task = [i \in Slots |-> NoPid]
  /\ mailer = [p \in Pids |-> Gone]
  /\ atcp = {}
  /\ istcp = {}
  /\ letters = 0
  /\ upsets = 0
  /\ forgotten = {}
  /\ passed = [e \in Slots |-> 0]

--------------------------------------------------------------------------------
(* The daemon. *)

\* checktasks(): the tasks that have ended are taken out, and the entries they
\* were started for may be called again.  The loop makes this check in each pass,
\* launch() before it starts anything.
Ended == {i \in Slots : task[i] # NoPid /\ mailer[task[i]].doing = "ended"}
EndedPids == {task[i] : i \in Ended}
TaskLeft == [i \in Slots |-> IF i \in Ended THEN NoPid ELSE task[i]]
ListLeft_Busy(list) ==
  [e \in Slots |-> IF list[e].taskpid \in EndedPids THEN [list[e] EXCEPT !.taskpid = NoPid] ELSE list[e]]
ListLeft(list) ==
  [e \in Slots |-> IF list[e].taskpid \in EndedPids
                   THEN [list[e] EXCEPT !.calling = FALSE, !.taskpid = NoPid] ELSE list[e]]
MailersLeft == [p \in Pids |-> IF p \in EndedPids THEN Gone ELSE mailer[p]]

CheckTasks ==
  /\ Ended # {}
  /\ task' = TaskLeft
  /\ calllist' = ListLeft(calllist)
  /\ mailer' = MailersLeft
  /\ rescan' = TRUE
  /\ UNCHANGED <<call_entry, call_work, internet, files, atcp, istcp, counts, history>>

\* outstat(): the nodes that have F_CALL.
ToCall == {n \in waiting : sts[n].tryno < MaxTry}

\* The nodes for which a line exists now.
Usable(n) == IF Mode[n] = "inet" THEN MaxTcp > 0 /\ internet ELSE Lines[Mode[n]] > 0

\* check_calllist(): entries of nodes without F_CALL are removed, those that are
\* kept get the last status, and the others of ToCall take the first free entries,
\* in the order of the directory, which may be any.
Kept(e) == IF calllist[e].addr \in ToCall THEN calllist[e] ELSE Empty
Missing == {n \in ToCall : Usable(n) /\ \A e \in Slots : Kept(e).addr # n}
Refreshed(entry) ==
  IF entry.addr # NoNode /\ Usable(entry.addr) THEN [entry EXCEPT !.late = sts[entry.addr].late] ELSE entry
Free == {e \in Slots : Kept(e).addr = NoNode}
Placements ==
  {place \in UNION {[taken -> Missing] : taken \in SUBSET Free} :
     /\ \A e, f \in DOMAIN place : place[e] = place[f] => e = f
     /\ DOMAIN place = Free \/ {place[e] : e \in DOMAIN place} = Missing
     /\ \A e \in DOMAIN place, f \in Free \ DOMAIN place : e < f}
Filled(place) ==
  [e \in Slots |-> IF e \in DOMAIN place THEN Refreshed([Empty EXCEPT !.addr = place[e]])
                                         ELSE Refreshed(Kept(e))]

Rescan ==
  /\ rescan
  /\ rescan' = FALSE
  /\ \E place \in Placements :
       /\ calllist' = Filled(place)
       /\ call_work' = \E e \in Slots : Filled(place)[e].addr # NoNode
  /\ forgotten' = forgotten \cup
       {calllist[e].addr : e \in {e \in Slots : calllist[e].calling /\ calllist[e].addr \notin ToCall}}
  /\ UNCHANGED <<call_entry, internet, task, files, mailer, atcp, istcp, counts, passed>>

\* May this entry be called now?
RunTaskType(mode) ==
  Cardinality({i \in Slots : task[i] # NoPid /\ Mode[mailer[task[i]].node] = mode})
LineFree(n) ==
  IF Mode[n] = "inet" THEN ipmailers < MaxTcp /\ internet ELSE RunTaskType(Mode[n]) < Lines[Mode[n]]
Callable_Again(e) ==
  /\ calllist[e].addr # NoNode
  /\ ~calllist[e].late
  /\ LineFree(calllist[e].addr)
Callable(e) ==
  /\ calllist[e].addr # NoNode
  /\ ~calllist[e].calling
  /\ ~calllist[e].late
  /\ LineFree(calllist[e].addr)

\* The rotation: from call_entry on, over all entries and one behind the last,
\* which is never callable (what lies behind the array is padding).  A full turn that
\* finds nothing ends where it began.
Distance_Top(e) == e
Distance(e) == IF e > call_entry THEN e - call_entry ELSE e - call_entry + MaxTasks + 1
Chosen == {e \in Slots : Callable(e) /\ \A f \in Slots : Callable(f) => Distance(e) <= Distance(f)}

\* A new process gets a number that nothing else has.  Numbers are only compared, so
\* that the model may take the least.
Unused(table) == {p \in Pids : table[p] = Gone /\ p \notin istcp \cup atcp}
Least(p, S) == p \in S /\ \A q \in S : p <= q

\* launch() of mbcico for an entry.  It is refused when the task table is full, and
\* when fork() fails.
Launch(e) ==
  \E p \in Pids, i \in Slots :
    /\ Least(p, Unused(MailersLeft))
    /\ Least(i, {j \in Slots : TaskLeft[j] = NoPid})
    /\ task' = [TaskLeft EXCEPT ![i] = p]
    /\ calllist' = [ListLeft(calllist) EXCEPT ![e].taskpid = p, ![e].calling = TRUE]
    /\ mailer' = [MailersLeft EXCEPT ![p] = [doing |-> "start", node |-> calllist[e].addr]]
    /\ UNCHANGED upsets
Refused ==
  /\ \/ NoPid \notin {TaskLeft[i] : i \in Slots} /\ UNCHANGED upsets
     \/ upsets < MaxUpset /\ upsets' = upsets + 1
  /\ task' = TaskLeft /\ calllist' = ListLeft(calllist) /\ mailer' = MailersLeft

\* Every twenty seconds one entry is called.
Call(e) ==
  /\ ~rescan
  /\ call_work
  /\ e \in Chosen
  /\ call_entry' = e
  /\ passed' = [f \in Slots |-> IF f # e /\ Callable(f) THEN passed[f] + 1 ELSE 0]
  /\ rescan' = TRUE
  /\ Launch(e) \/ Refused
  /\ UNCHANGED <<call_work, internet, files, atcp, istcp, letters, forgotten>>

\* check_ping(): the internet connection comes up or goes down.
Ping ==
  /\ internet' = ~internet
  /\ rescan' = TRUE
  /\ \/ ~internet /\ UNCHANGED upsets
     \/ internet /\ upsets < MaxUpset /\ upsets' = upsets + 1
  /\ UNCHANGED <<lists, task, files, mailer, atcp, istcp, letters, history>>

\* reg_ip(), and reg_check() for the clients that died without a word.
RegIp(p) ==
  /\ p \in atcp
  /\ atcp' = atcp \ {p}
  /\ istcp' = istcp \cup {p}
  /\ UNCHANGED <<daemon, files, mailer, counts, history>>

Silent_Never == {}
Silent == {p \in istcp : mailer[p].doing = "none"}
RegCheck ==
  /\ Silent # {}
  /\ istcp' = istcp \ Silent
  /\ UNCHANGED <<daemon, files, mailer, atcp, counts, history>>

--------------------------------------------------------------------------------
(* The mailers. *)

InSession(p) == mailer[p].doing \in {"session", "answer"}
Alive(p) == mailer[p].doing = "start" \/ InSession(p)
LockedNodes == {mailer[p].node : p \in {p \in Pids : InSession(p)}}
End(p) == mailer' = [mailer EXCEPT ![p].doing = IF \E i \in Slots : task[i] = p THEN "ended" ELSE "none",
                                   ![p].node = IF \E i \in Slots : task[i] = p THEN @ ELSE NoNode]

\* call(): the lock on the node first, and a word to the daemon if it is a call over
\* the internet.
TakeNode(p) ==
  /\ mailer[p].doing = "start"
  /\ mailer[p].node \notin LockedNodes
  /\ mailer' = [mailer EXCEPT ![p].doing = "session"]
  /\ atcp' = IF Mode[mailer[p].node] = "inet" THEN atcp \cup {p} ELSE atcp
  /\ UNCHANGED <<daemon, files, istcp, counts, history>>

NodeLocked(p) ==
  /\ mailer[p].doing = "start"
  /\ mailer[p].node \in LockedNodes
  /\ sts' = [sts EXCEPT ![mailer[p].node].late = TRUE]
  /\ End(p)
  /\ UNCHANGED <<daemon, waiting, atcp, istcp, counts, history>>

\* The mail has been sent, and the session goes on.
Deliver(p) ==
  /\ InSession(p)
  /\ mailer[p].node \in waiting
  /\ waiting' = waiting \ {mailer[p].node}
  /\ UNCHANGED <<daemon, sts, mailer, atcp, istcp, counts, history>>

\* The end of a session: after a good one the status is cleared, by both sides; after
\* a bad one the caller counts 0, 1, 5 or 10 attempts and sets the time of the next.
\* The client unregisters after everything it has sent before was read.
Good(n) == sts' = [sts EXCEPT ![n] = [tryno |-> 0, late |-> FALSE]]
Bad(n) ==
  \E tries \in sts[n].tryno .. MaxTry : sts' = [sts EXCEPT ![n] = [tryno |-> tries, late |-> TRUE]]
Finish(p) ==
  /\ InSession(p)
  /\ p \notin atcp
  /\ \/ Good(mailer[p].node)
     \/ mailer[p].doing = "session" /\ Bad(mailer[p].node)
     \/ mailer[p].doing = "answer" /\ UNCHANGED sts
  /\ End(p)
  /\ istcp' = istcp \ {p}
  /\ UNCHANGED <<daemon, waiting, atcp, counts, history>>

\* The mailer is killed: it leaves no status and stays registered.
Killed(p) ==
  /\ upsets < MaxUpset
  /\ upsets' = upsets + 1
  /\ Alive(p)
  /\ End(p)
  /\ UNCHANGED <<daemon, files, atcp, istcp, letters, history>>

\* A system calls in.
Answer(p, n) ==
  /\ upsets < MaxUpset
  /\ Least(p, Unused(mailer))
  /\ n \notin LockedNodes
  /\ upsets' = upsets + 1
  /\ mailer' = [mailer EXCEPT ![p] = [doing |-> "answer", node |-> n]]
  /\ atcp' = IF Mode[n] = "inet" THEN atcp \cup {p} ELSE atcp
  /\ UNCHANGED <<daemon, files, istcp, letters, history>>

--------------------------------------------------------------------------------
(* The rest of the world. *)

\* Mail is written, and the semaphore scanout set.
Write(n) ==
  /\ letters < MaxMail
  /\ letters' = letters + 1
  /\ waiting' = waiting \cup {n}
  /\ rescan' = TRUE
  /\ UNCHANGED <<lists, internet, task, sts, mailer, atcp, istcp, upsets, history>>

\* The time of the next attempt comes.
Later(n) ==
  /\ sts[n].late \/ \E e \in Slots : calllist[e].addr = n /\ calllist[e].late
  /\ sts' = [sts EXCEPT ![n].late = FALSE]
  /\ calllist' = [e \in Slots |-> IF calllist[e].addr = n THEN [calllist[e] EXCEPT !.late = FALSE] ELSE calllist[e]]
  /\ UNCHANGED <<call_entry, call_work, rescan, internet, task, waiting, mailer, atcp, istcp, counts, history>>

\* reset() of mbout, and poll() after a failed call: the status is cleared by hand.
ResetStatus(n) ==
  /\ upsets < MaxUpset
  /\ upsets' = upsets + 1
  /\ sts[n] # [tryno |-> 0, late |-> FALSE]
  /\ Good(n)
  /\ rescan' = TRUE
  /\ UNCHANGED <<lists, internet, task, waiting, mailer, atcp, istcp, letters, history>>

\* The event that the last scan foresaw, at least once a day (module CallClock).
Event ==
  /\ ~rescan
  /\ rescan' = TRUE
  /\ UNCHANGED <<lists, internet, task, files, mailer, atcp, istcp, counts, history>>

Daemon == CheckTasks \/ Rescan \/ (\E e \in Slots : Call(e)) \/ RegCheck \/ \E p \in Pids : RegIp(p)
Mailer(p) == TakeNode(p) \/ NodeLocked(p) \/ Finish(p)
Next ==
  \/ Daemon
  \/ \E p \in Pids : Mailer(p) \/ Deliver(p) \/ Killed(p) \/ \E n \in Nodes : Answer(p, n)
  \/ \E n \in Nodes : Write(n) \/ Later(n) \/ ResetStatus(n)
  \/ Ping \/ Event

\* The passes go on, and in one that looks for a call the list is made right before:
\* a rescan does not keep it from a call for ever.
Fairness ==
  /\ WF_vars(CheckTasks) /\ WF_vars(Rescan) /\ SF_vars(\E e \in Slots : Call(e))
  /\ WF_vars(RegCheck) /\ WF_vars(\E p \in Pids : RegIp(p))
  /\ (\A n \in Nodes : WF_vars(Later(n))) /\ WF_vars(Event)
  /\ \A p \in Pids : WF_vars(Mailer(p))

Spec == Init /\ [][Next]_vars /\ Fairness

--------------------------------------------------------------------------------
TypeOK ==
  /\ waiting \subseteq Nodes
  /\ sts \in [Nodes -> [tryno : 0 .. MaxTry, late : BOOLEAN]]
  /\ calllist \in [Slots -> [addr : Nodes \cup {NoNode}, calling : BOOLEAN,
                             taskpid : Pids \cup {NoPid}, late : BOOLEAN]]
  /\ call_entry \in 0 .. MaxTasks
  /\ {call_work, rescan, internet} \subseteq BOOLEAN
  /\ task \in [Slots -> Pids \cup {NoPid}]
  /\ mailer \in [Pids -> [doing : {"none", "start", "session", "answer", "ended"}, node : Nodes \cup {NoNode}]]
  /\ atcp \subseteq Pids /\ istcp \subseteq Pids /\ forgotten \subseteq Nodes
  /\ passed \in [Slots -> Nat]
  /\ letters \in 0 .. MaxMail /\ upsets \in 0 .. MaxUpset

\* The mailers the daemon has started for a node and that have not ended.
Calling(n) == {i \in Slots : task[i] # NoPid /\ mailer[task[i]].node = n /\ mailer[task[i]].doing # "ended"}

\* No node is called while it is being called.
NoDoubleCall == \A n \in Nodes : \A i, j \in Calling(n) : i = j

\* The same, for nodes whose entry was not removed during a call.
NoDoubleCallWhileListed == \A n \in Nodes \ forgotten : \A i, j \in Calling(n) : i = j

\* An entry that waits for the end of its mailer will see it: the mailer is in the
\* task table, and no other entry waits for it.
CallingIsRunning ==
  \A e \in Slots : calllist[e].calling =>
    /\ calllist[e].taskpid # NoPid
    /\ \E i \in Slots : task[i] = calllist[e].taskpid
    /\ \A f \in Slots : calllist[f].taskpid = calllist[e].taskpid => f = e

\* The entries take turns: one that can be called is passed over at most once for
\* each other entry, whatever becomes of the calls.
TakeTurns == \A e \in Slots : passed[e] < MaxTasks

\* Every node with mail is called in its turn, however many others fail, unless its
\* mail goes another way, it is undialable, or the internet stays away.
EveryNodeCalled ==
  <>[]internet =>
    \A n \in Nodes : n \in waiting ~> (n \notin waiting \/ Calling(n) # {} \/ sts[n].tryno = MaxTry)
================================================================================
