----------------------------- MODULE CallOutProofs -----------------------------
(***************************************************************************)
(* What the call list and the table of tasks guarantee for any number of   *)
(* nodes, slots, lines and processes: an entry that is being called has    *)
(* its task, no node is called twice while it is listed, and the entries   *)
(* take turns.                                                             *)
(***************************************************************************)
EXTENDS CallOut, TLAPS

Entry == [addr : Nodes \cup {NoNode}, calling : BOOLEAN, taskpid : Pids \cup {NoPid}, late : BOOLEAN]
Lists == [Slots -> Entry]
Tables == [Slots -> Pids \cup {NoPid}]
Process == [doing : {"none", "start", "session", "answer", "ended"}, node : Nodes \cup {NoNode}]
Processes == [Pids -> Process]

\* The call list, the task table and the processes fit together: an entry is being
\* called if it has a pid, that pid is in the table, no other entry has it, and a
\* process stays until the table has let go of it.
Linked(list, table, procs) ==
  /\ \A e \in Slots :
       /\ list[e].calling <=> list[e].taskpid # NoPid
       /\ list[e].calling => list[e].addr \in Nodes /\ \E i \in Slots : table[i] = list[e].taskpid
  /\ \A e, f \in Slots : list[e].taskpid # NoPid /\ list[f].taskpid = list[e].taskpid => e = f
  /\ \A i \in Slots : table[i] # NoPid => procs[table[i]].doing # "none"

IInv == TypeOK /\ Linked(calllist, task, mailer)

LEMMA NoPidIsNone == NoPid \notin Pids
BY BoundsAssumption DEF NoPid, Pids

LEMMA TypeFacts ==
  ASSUME TypeOK
  PROVE  calllist \in Lists /\ task \in Tables /\ mailer \in Processes
BY DEF TypeOK, Lists, Tables, Processes, Process, Entry

LEMMA Constants == Empty \in Entry /\ Gone \in Process
BY DEF Empty, Entry, Gone, Process, NoPid

--------------------------------------------------------------------------------
(* The check of the tasks. *)

LEMMA CheckedTypes ==
  ASSUME TypeOK
  PROVE  ListLeft(calllist) \in Lists /\ TaskLeft \in Tables /\ MailersLeft \in Processes
<1>1. \A e \in Slots : ListLeft(calllist)[e] \in Entry
  BY TypeFacts DEF ListLeft, Lists, Entry
<1>2. ListLeft(calllist) \in Lists
  BY <1>1 DEF ListLeft, Lists
<1>3. TaskLeft \in Tables
  BY TypeFacts DEF TaskLeft, Tables
<1>4. MailersLeft \in Processes
  BY TypeFacts, Constants DEF MailersLeft, Processes
<1> QED
  BY <1>2, <1>3, <1>4

\* What ended is out of the table, and the rest is in its place.
LEMMA TaskLeftFacts ==
  ASSUME TypeOK, NEW i \in Slots
  PROVE  /\ TaskLeft[i] = NoPid \/ (TaskLeft[i] = task[i] /\ task[i] \notin EndedPids)
         /\ task[i] = NoPid \/ task[i] \in EndedPids \/ TaskLeft[i] = task[i]
         /\ TaskLeft[i] # NoPid => MailersLeft[TaskLeft[i]] = mailer[task[i]]
<1>1. task[i] \in Pids \cup {NoPid} /\ TaskLeft[i] = IF i \in Ended THEN NoPid ELSE task[i]
  BY TypeFacts DEF TaskLeft, Tables
<1>2. i \in Ended => task[i] \in EndedPids
  BY DEF EndedPids
<1>3. i \notin Ended /\ task[i] # NoPid => task[i] \notin EndedPids
  BY DEF Ended, EndedPids
<1>4. \A p \in Pids : p \notin EndedPids => MailersLeft[p] = mailer[p]
  BY DEF MailersLeft
<1>5. CASE i \in Ended
  BY <1>1, <1>2, <1>5
<1>6. CASE i \notin Ended
  BY <1>1, <1>3, <1>4, <1>6
<1> QED
  BY <1>5, <1>6

LEMMA ListLeftFacts ==
  ASSUME TypeOK, NEW e \in Slots
  PROVE  /\ ListLeft(calllist)[e].addr = calllist[e].addr
         /\ ListLeft(calllist)[e].late = calllist[e].late
         /\ calllist[e].taskpid \in EndedPids
              => ListLeft(calllist)[e].calling = FALSE /\ ListLeft(calllist)[e].taskpid = NoPid
         /\ calllist[e].taskpid \notin EndedPids => ListLeft(calllist)[e] = calllist[e]
BY TypeFacts DEF ListLeft, Lists, Entry

LEMMA CheckedLinked ==
  ASSUME IInv
  PROVE  Linked(ListLeft(calllist), TaskLeft, MailersLeft)
<1> USE DEF IInv
<1>1. ASSUME NEW e \in Slots
      PROVE  /\ ListLeft(calllist)[e].calling <=> ListLeft(calllist)[e].taskpid # NoPid
             /\ ListLeft(calllist)[e].calling
                  => /\ ListLeft(calllist)[e].addr \in Nodes
                     /\ \E i \in Slots : TaskLeft[i] = ListLeft(calllist)[e].taskpid
  <2>1. CASE calllist[e].taskpid \in EndedPids
    BY <2>1, ListLeftFacts
  <2>2. CASE calllist[e].taskpid \notin EndedPids
    <3>1. ListLeft(calllist)[e] = calllist[e]
      BY <2>2, ListLeftFacts
    <3>2. ASSUME calllist[e].calling PROVE \E i \in Slots : TaskLeft[i] = calllist[e].taskpid
      <4>1. PICK i \in Slots : task[i] = calllist[e].taskpid /\ task[i] # NoPid
        BY <3>2 DEF Linked
      <4> QED
        BY <2>2, <4>1, TaskLeftFacts
    <3> QED
      BY <3>1, <3>2 DEF Linked
  <2> QED
    BY <2>1, <2>2
<1>2. ASSUME NEW e \in Slots, NEW f \in Slots,
             ListLeft(calllist)[e].taskpid # NoPid,
             ListLeft(calllist)[f].taskpid = ListLeft(calllist)[e].taskpid
      PROVE  e = f
  <2>1. ListLeft(calllist)[e] = calllist[e] /\ ListLeft(calllist)[f] = calllist[f]
    BY <1>2, ListLeftFacts
  <2> QED
    BY <1>2, <2>1 DEF Linked
<1>3. \A i \in Slots : TaskLeft[i] # NoPid => MailersLeft[TaskLeft[i]].doing # "none"
  BY TaskLeftFacts DEF Linked
<1> QED
  BY <1>1, <1>2, <1>3 DEF Linked

\* A task more, for an entry that has none.
LEMMA LaunchLinked ==
  ASSUME NEW list \in Lists, NEW table \in Tables, NEW procs \in Processes,
         Linked(list, table, procs),
         NEW e \in Slots, NEW i \in Slots, NEW p \in Pids, NEW n \in Nodes,
         procs[p] = Gone, table[i] = NoPid, list[e].addr = n
  PROVE  Linked([list EXCEPT ![e].taskpid = p, ![e].calling = TRUE],
                [table EXCEPT ![i] = p],
                [procs EXCEPT ![p] = [doing |-> "start", node |-> n]])
<1> DEFINE list2 == [list EXCEPT ![e].taskpid = p, ![e].calling = TRUE]
           table2 == [table EXCEPT ![i] = p]
           procs2 == [procs EXCEPT ![p] = [doing |-> "start", node |-> n]]
<1>1. p # NoPid /\ \A j \in Slots : table[j] # p
  BY NoPidIsNone DEF Linked, Gone
<1>2. \A f \in Slots : list[f].taskpid # p
  BY <1>1 DEF Linked
<1>3. /\ list2[e].taskpid = p /\ list2[e].calling /\ list2[e].addr = n
      /\ \A f \in Slots \ {e} : list2[f] = list[f]
  BY DEF Lists, Entry
<1>4. table2[i] = p /\ \A j \in Slots \ {i} : table2[j] = table[j]
  BY DEF Tables
<1>5. procs2[p].doing = "start" /\ \A q \in Pids \ {p} : procs2[q] = procs[q]
  BY DEF Processes
<1>6. \A f \in Slots : \A j \in Slots : table[j] = list[f].taskpid /\ list[f].taskpid # NoPid => table2[j] = table[j]
  BY <1>4
<1>7. \A f \in Slots :
        /\ list2[f].calling <=> list2[f].taskpid # NoPid
        /\ list2[f].calling => list2[f].addr \in Nodes /\ \E j \in Slots : table2[j] = list2[f].taskpid
  <2> TAKE f \in Slots
  <2>1. CASE f = e
    BY <1>1, <1>3, <1>4, <2>1
  <2>2. CASE f # e
    <3>1. list2[f] = list[f]
      BY <1>3, <2>2
    <3>2. ASSUME list[f].calling PROVE \E j \in Slots : table2[j] = list[f].taskpid
      <4>1. PICK j \in Slots : table[j] = list[f].taskpid /\ list[f].taskpid # NoPid
        BY <3>2 DEF Linked
      <4> QED
        BY <1>6, <4>1
    <3>3. (list[f].calling <=> list[f].taskpid # NoPid) /\ (list[f].calling => list[f].addr \in Nodes)
      BY DEF Linked
    <3> QED
      BY <3>1, <3>2, <3>3
  <2> QED
    BY <2>1, <2>2
<1>8. \A f, g \in Slots : list2[f].taskpid # NoPid /\ list2[g].taskpid = list2[f].taskpid => f = g
  <2> TAKE f, g \in Slots
  <2>1. CASE f = e \/ g = e
    BY <1>2, <1>3, <2>1
  <2>2. CASE f # e /\ g # e
    BY <1>3, <2>2 DEF Linked
  <2> QED
    BY <2>1, <2>2
<1>9. \A j \in Slots : table2[j] # NoPid => procs2[table2[j]].doing # "none"
  BY <1>1, <1>4, <1>5 DEF Linked, Tables
<1> HIDE DEF list2, table2, procs2
<1>10. Linked(list2, table2, procs2)
  BY <1>7, <1>8, <1>9 DEF Linked
<1> QED
  BY <1>10 DEF list2, table2, procs2

--------------------------------------------------------------------------------
(* The mailers: what a process does, its table does not see, but that it ends. *)

\* A step of a process that leaves the lists alone.
Runs(p, q) ==
  /\ mailer' = [mailer EXCEPT ![p] = q]
  /\ UNCHANGED <<calllist, task>>

LEMMA RunLinked ==
  ASSUME IInv, NEW p \in Pids, NEW q \in Process, Runs(p, q),
         q.doing # "none" \/ \A i \in Slots : task[i] # p
  PROVE  Linked(calllist, task, mailer)' /\ mailer' \in Processes
<1>1. mailer' \in Processes /\ mailer'[p] = q /\ \A r \in Pids \ {p} : mailer'[r] = mailer[r]
  BY TypeFacts DEF IInv, Runs, Processes
<1>2. \A i \in Slots : task[i] # NoPid => mailer'[task[i]].doing # "none"
  BY <1>1, TypeFacts DEF IInv, Linked, Tables
<1>3. calllist' = calllist /\ task' = task
  BY DEF Runs
<1> QED
  BY <1>1, <1>2, <1>3 DEF IInv, Linked

LEMMA EndLinked ==
  ASSUME IInv, NEW p \in Pids, End(p), UNCHANGED <<calllist, task>>
  PROVE  Linked(calllist, task, mailer)' /\ mailer' \in Processes
<1> DEFINE inTable == \E i \in Slots : task[i] = p
           q == [doing |-> IF inTable THEN "ended" ELSE "none",
                 node |-> IF inTable THEN mailer[p].node ELSE NoNode]
<1>1. mailer[p] \in Process /\ mailer \in Processes
  BY TypeFacts DEF IInv, Processes
<1>2. q \in Process
  BY <1>1 DEF Process
<1>3. mailer' = [mailer EXCEPT ![p] = q]
  <2>1. mailer' = [mailer EXCEPT ![p] = [mailer[p] EXCEPT !.doing = q.doing, !.node = q.node]]
    BY <1>1 DEF End, Process, Processes
  <2>2. [mailer[p] EXCEPT !.doing = q.doing, !.node = q.node] = q
    BY <1>1 DEF Process
  <2> QED
    BY <2>1, <2>2
<1>4. q.doing # "none" \/ \A i \in Slots : task[i] # p
  OBVIOUS
<1> HIDE DEF q
<1> QED
  BY <1>2, <1>3, <1>4, RunLinked DEF Runs

--------------------------------------------------------------------------------
(* The call list. *)

LEMMA FilledFacts ==
  ASSUME IInv, NEW place \in Placements, NEW e \in Slots
  PROVE  /\ Filled(place)[e] \in Entry
         /\ e \in DOMAIN place =>
              /\ Kept(e).addr = NoNode /\ place[e] \in Missing
              /\ Filled(place)[e].addr = place[e]
              /\ Filled(place)[e].calling = FALSE /\ Filled(place)[e].taskpid = NoPid
         /\ e \notin DOMAIN place =>
              /\ Filled(place)[e].addr = Kept(e).addr
              /\ Filled(place)[e].calling = Kept(e).calling
              /\ Filled(place)[e].taskpid = Kept(e).taskpid
<1>1. PICK taken \in SUBSET Free : place \in [taken -> Missing]
  BY DEF Placements
<1>2. Missing \subseteq Nodes
  BY DEF IInv, TypeOK, Missing, ToCall
<1>3. Kept(e) \in Entry
  BY TypeFacts, Constants DEF IInv, Kept, Lists
<1>4. \A entry \in Entry :
        /\ Refreshed(entry) \in Entry
        /\ Refreshed(entry).addr = entry.addr
        /\ Refreshed(entry).calling = entry.calling
        /\ Refreshed(entry).taskpid = entry.taskpid
  <2> TAKE entry \in Entry
  <2>1. CASE entry.addr # NoNode /\ Usable(entry.addr)
    <3>1. sts[entry.addr].late \in BOOLEAN
      BY <2>1 DEF IInv, TypeOK, Entry
    <3> QED
      BY <2>1, <3>1 DEF Refreshed, Entry
  <2>2. CASE ~ (entry.addr # NoNode /\ Usable(entry.addr))
    BY <2>2 DEF Refreshed
  <2> QED
    BY <2>1, <2>2
<1>5. CASE e \in DOMAIN place
  <2>1. e \in taken /\ place[e] \in Missing /\ place[e] \in Nodes
    BY <1>1, <1>2, <1>5
  <2>2. Kept(e).addr = NoNode
    BY <2>1 DEF Free
  <2> DEFINE new == [Empty EXCEPT !.addr = place[e]]
  <2>3. new \in Entry /\ new.addr = place[e] /\ new.calling = FALSE /\ new.taskpid = NoPid
    BY <2>1 DEF Empty, Entry
  <2>4. Filled(place)[e] = Refreshed(new)
    BY <1>5 DEF Filled
  <2> HIDE DEF new
  <2> QED
    BY <1>4, <1>5, <2>1, <2>2, <2>3, <2>4
<1>6. CASE e \notin DOMAIN place
  <2>1. Filled(place)[e] = Refreshed(Kept(e))
    BY <1>6 DEF Filled
  <2> QED
    BY <1>3, <1>4, <1>6, <2>1
<1> QED
  BY <1>5, <1>6

LEMMA KeptFacts ==
  ASSUME NEW e \in Slots
  PROVE  \/ Kept(e) = calllist[e] /\ calllist[e].addr \in ToCall
         \/ /\ calllist[e].addr \notin ToCall
            /\ Kept(e).addr = NoNode /\ Kept(e).calling = FALSE /\ Kept(e).taskpid = NoPid
BY DEF Kept, Empty

LEMMA RescanLinked ==
  ASSUME IInv, Rescan
  PROVE  Linked(calllist, task, mailer)' /\ calllist' \in Lists
<1>1. PICK place \in Placements : calllist' = Filled(place)
  BY DEF Rescan
<1>2. \A e \in Slots :
        \/ calllist'[e].calling = FALSE /\ calllist'[e].taskpid = NoPid
        \/ /\ calllist'[e].calling = calllist[e].calling /\ calllist'[e].taskpid = calllist[e].taskpid
           /\ calllist'[e].addr = calllist[e].addr
  <2> TAKE e \in Slots
  <2>1. CASE e \in DOMAIN place
    BY <1>1, <2>1, FilledFacts
  <2>2. CASE e \notin DOMAIN place
    <3>1. /\ calllist'[e].calling = Kept(e).calling
          /\ calllist'[e].taskpid = Kept(e).taskpid
          /\ calllist'[e].addr = Kept(e).addr
      BY <1>1, <2>2, FilledFacts
    <3> QED
      BY <3>1, KeptFacts
  <2> QED
    BY <2>1, <2>2
<1>3. task' = task /\ mailer' = mailer
  BY DEF Rescan, files
<1>4. \A e \in Slots :
        /\ calllist'[e].calling <=> calllist'[e].taskpid # NoPid
        /\ calllist'[e].calling => calllist'[e].addr \in Nodes /\ \E i \in Slots : task'[i] = calllist'[e].taskpid
  BY <1>2, <1>3 DEF IInv, Linked
<1>5. \A e, f \in Slots : calllist'[e].taskpid # NoPid /\ calllist'[f].taskpid = calllist'[e].taskpid => e = f
  BY <1>2 DEF IInv, Linked
<1>6. \A i \in Slots : task'[i] # NoPid => mailer'[task'[i]].doing # "none"
  BY <1>3 DEF IInv, Linked
<1>7. calllist' \in Lists
  <2>1. \A e \in Slots : Filled(place)[e] \in Entry
    BY FilledFacts
  <2> QED
    BY <1>1, <2>1 DEF Filled, Lists
<1> QED
  BY <1>4, <1>5, <1>6, <1>7 DEF Linked

\* A call: the tasks are checked, and the entry gets a process of its own, or none.
LinkType ==
  /\ Linked(calllist, task, mailer)
  /\ calllist \in Lists /\ task \in Tables /\ mailer \in Processes

LEMMA CheckedStep ==
  ASSUME IInv, task' = TaskLeft, calllist' = ListLeft(calllist), mailer' = MailersLeft
  PROVE  LinkType'
BY CheckedLinked, CheckedTypes DEF IInv, LinkType

LEMMA LaunchStep ==
  ASSUME IInv, NEW e \in Slots, Callable(e), Launch(e)
  PROVE  LinkType'
<1>1. PICK p \in Pids, i \in Slots :
        /\ p \in Unused(MailersLeft) /\ TaskLeft[i] = NoPid
        /\ task' = [TaskLeft EXCEPT ![i] = p]
        /\ calllist' = [ListLeft(calllist) EXCEPT ![e].taskpid = p, ![e].calling = TRUE]
        /\ mailer' = [MailersLeft EXCEPT ![p] = [doing |-> "start", node |-> calllist[e].addr]]
  BY DEF Launch, Least
<1> DEFINE list == ListLeft(calllist)
           n == calllist[e].addr
<1>2. n \in Nodes /\ list[e].addr = n
  BY TypeFacts, ListLeftFacts DEF IInv, Callable, Lists, Entry
<1>3. list \in Lists /\ TaskLeft \in Tables /\ MailersLeft \in Processes /\ Linked(list, TaskLeft, MailersLeft)
  BY CheckedTypes, CheckedLinked DEF IInv
<1>4. MailersLeft[p] = Gone
  BY <1>1 DEF Unused
<1> HIDE DEF list, n
<1>5. Linked([list EXCEPT ![e].taskpid = p, ![e].calling = TRUE], [TaskLeft EXCEPT ![i] = p],
             [MailersLeft EXCEPT ![p] = [doing |-> "start", node |-> n]])
  BY <1>1, <1>2, <1>3, <1>4, LaunchLinked
<1>6. Linked(calllist', task', mailer')
  BY <1>1, <1>5 DEF list, n
<1>7. [list EXCEPT ![e].taskpid = p, ![e].calling = TRUE] \in Lists
  BY <1>3 DEF Lists, Entry
<1>8. [TaskLeft EXCEPT ![i] = p] \in Tables
  BY <1>3 DEF Tables
<1>9. [MailersLeft EXCEPT ![p] = [doing |-> "start", node |-> n]] \in Processes
  BY <1>2, <1>3 DEF Processes, Process
<1>10. calllist' \in Lists /\ task' \in Tables /\ mailer' \in Processes
  BY <1>1, <1>7, <1>8, <1>9 DEF list, n
<1> QED
  BY <1>6, <1>10 DEF LinkType

--------------------------------------------------------------------------------
(* Every step. *)

\* The rest of the types.
RestType ==
  /\ waiting \subseteq Nodes
  /\ sts \in [Nodes -> [tryno : 0 .. MaxTry, late : BOOLEAN]]
  /\ call_entry \in 0 .. MaxTasks
  /\ {call_work, rescan, internet} \subseteq BOOLEAN
  /\ atcp \subseteq Pids /\ istcp \subseteq Pids /\ forgotten \subseteq Nodes
  /\ passed \in [Slots -> Nat]
  /\ letters \in 0 .. MaxMail /\ upsets \in 0 .. MaxUpset

LEMMA Together == IInv <=> RestType /\ LinkType
BY DEF IInv, TypeOK, RestType, LinkType, Lists, Tables, Processes, Process, Entry

LEMMA SameLinks ==
  ASSUME IInv, UNCHANGED <<calllist, task, mailer>>
  PROVE  LinkType'
BY Together DEF LinkType, Linked

LEMMA EndStep ==
  ASSUME IInv, NEW p \in Pids, End(p), UNCHANGED <<calllist, task>>
  PROVE  LinkType'
<1>1. calllist' \in Lists /\ task' \in Tables
  BY TypeFacts DEF IInv
<1> QED
  BY <1>1, EndLinked DEF LinkType

LEMMA RunStep ==
  ASSUME IInv, NEW p \in Pids, NEW q \in Process, Runs(p, q), q.doing # "none"
  PROVE  LinkType'
<1>1. calllist' \in Lists /\ task' \in Tables
  BY TypeFacts DEF IInv, Runs
<1> QED
  BY <1>1, RunLinked DEF LinkType

LEMMA NextLinks == ASSUME IInv, [Next]_vars PROVE LinkType'
<1> USE DEF files, lists, daemon, counts, history
<1>1. CASE CheckTasks
  BY <1>1, CheckedStep DEF CheckTasks
<1>2. CASE Rescan
  <2>1. task' \in Tables /\ mailer' \in Processes
    BY <1>2, TypeFacts DEF Rescan, IInv
  <2> QED
    BY <1>2, <2>1, RescanLinked DEF LinkType
<1>3. ASSUME NEW e \in Slots, Call(e) PROVE LinkType'
  <2>1. CASE Launch(e)
    BY <1>3, <2>1, LaunchStep DEF Call, Chosen
  <2>2. CASE Refused
    BY <2>2, CheckedStep DEF Refused
  <2> QED
    BY <1>3, <2>1, <2>2 DEF Call
<1>4. CASE RegCheck \/ Ping \/ Event \/ (\E p \in Pids : RegIp(p) \/ Deliver(p)) \/ UNCHANGED vars
  <2>1. UNCHANGED <<calllist, task, mailer>>
    BY <1>4 DEF RegCheck, Ping, Event, RegIp, Deliver, vars
  <2> QED
    BY <2>1, SameLinks
<1>5. CASE \E n \in Nodes : Write(n) \/ ResetStatus(n)
  <2>1. UNCHANGED <<calllist, task, mailer>>
    BY <1>5 DEF Write, ResetStatus
  <2> QED
    BY <2>1, SameLinks
<1>6. ASSUME NEW p \in Pids, TakeNode(p) PROVE LinkType'
  <2> DEFINE q == [mailer[p] EXCEPT !.doing = "session"]
  <2>1. mailer \in Processes /\ mailer[p] \in Process
    BY TypeFacts DEF IInv, Processes
  <2>2. q \in Process /\ q.doing # "none"
    BY <2>1 DEF Process
  <2>3. mailer' = [mailer EXCEPT ![p] = q] /\ UNCHANGED <<calllist, task>>
    BY <1>6, <2>1 DEF TakeNode, Processes
  <2> HIDE DEF q
  <2> QED
    BY <2>2, <2>3, RunStep DEF Runs
<1>7. ASSUME NEW p \in Pids, NodeLocked(p) \/ Finish(p) \/ Killed(p) PROVE LinkType'
  <2>1. End(p) /\ UNCHANGED <<calllist, task>>
    BY <1>7 DEF NodeLocked, Finish, Killed
  <2> QED
    BY <2>1, EndStep
<1>8. ASSUME NEW p \in Pids, NEW n \in Nodes, Answer(p, n) PROVE LinkType'
  <2> DEFINE q == [doing |-> "answer", node |-> n]
  <2>1. q \in Process /\ q.doing # "none"
    BY DEF Process
  <2>2. mailer' = [mailer EXCEPT ![p] = q] /\ UNCHANGED <<calllist, task>>
    BY <1>8 DEF Answer
  <2> HIDE DEF q
  <2> QED
    BY <2>1, <2>2, RunStep DEF Runs
<1>9. ASSUME NEW n \in Nodes, Later(n) PROVE LinkType'
  <2>1. task' = task /\ mailer' = mailer
    BY <1>9 DEF Later
  <2>2. \A e \in Slots :
          /\ calllist'[e] \in Entry /\ calllist'[e].addr = calllist[e].addr
          /\ calllist'[e].calling = calllist[e].calling /\ calllist'[e].taskpid = calllist[e].taskpid
    BY <1>9, TypeFacts DEF Later, IInv, Lists, Entry
  <2>3. calllist' \in Lists
    BY <1>9, <2>2 DEF Later, Lists
  <2>4. Linked(calllist, task, mailer)'
    BY <2>1, <2>2 DEF IInv, Linked
  <2> QED
    BY <2>1, <2>3, <2>4, TypeFacts DEF LinkType, IInv
<1> QED
  BY <1>1, <1>2, <1>3, <1>4, <1>5, <1>6, <1>7, <1>8, <1>9 DEF Next, Daemon, Mailer

Statuses == [Nodes -> [tryno : 0 .. MaxTry, late : BOOLEAN]]

\* Writing the status of a node: of one that is not in the node list, too.
LEMMA StatusTypes ==
  ASSUME sts \in Statuses, NEW n
  PROVE  /\ Good(n) => sts' \in Statuses
         /\ Bad(n) => sts' \in Statuses
         /\ sts' = [sts EXCEPT ![n].late = TRUE] => sts' \in Statuses
         /\ sts' = [sts EXCEPT ![n].late = FALSE] => sts' \in Statuses
<1> USE BoundsAssumption
<1>1. CASE n \notin Nodes
  <2>1. \A s : [sts EXCEPT ![n] = s] = sts
    BY <1>1 DEF Statuses
  <2> QED
    BY <1>1, <2>1 DEF Good, Bad, Statuses
<1>2. CASE n \in Nodes
  <2>1. sts[n] \in [tryno : 0 .. MaxTry, late : BOOLEAN]
    BY <1>2 DEF Statuses
  <2>2. \A s \in [tryno : 0 .. MaxTry, late : BOOLEAN] : [sts EXCEPT ![n] = s] \in Statuses
    BY DEF Statuses
  <2>3. ASSUME Bad(n) PROVE sts' \in Statuses
    <3>1. PICK tries \in sts[n].tryno .. MaxTry : sts' = [sts EXCEPT ![n] = [tryno |-> tries, late |-> TRUE]]
      BY <2>3 DEF Bad
    <3>2. sts[n].tryno \in 0 .. MaxTry
      BY <2>1
    <3>3. tries \in 0 .. MaxTry
      BY <3>1, <3>2
    <3> QED
      BY <2>2, <3>1, <3>3
  <2>4. Good(n) => sts' \in Statuses
    <3>1. [tryno |-> 0, late |-> FALSE] \in [tryno : 0 .. MaxTry, late : BOOLEAN]
      OBVIOUS
    <3> QED
      BY <2>2, <3>1 DEF Good
  <2>5. \A b \in BOOLEAN : sts' = [sts EXCEPT ![n].late = b] => sts' \in Statuses
    BY <1>2, <2>1 DEF Statuses
  <2> QED
    BY <2>3, <2>4, <2>5
<1> QED
  BY <1>1, <1>2

LEMMA NextRest == ASSUME IInv, [Next]_vars PROVE RestType'
<1> USE BoundsAssumption DEF files, lists, daemon, counts, history
<1>0. RestType
  BY Together
<1>00. /\ sts \in Statuses /\ atcp \subseteq Pids /\ istcp \subseteq Pids /\ waiting \subseteq Nodes
       /\ upsets \in 0 .. MaxUpset /\ letters \in 0 .. MaxMail /\ {rescan, internet} \subseteq BOOLEAN
       /\ call_work \in BOOLEAN
  BY <1>0 DEF RestType, Statuses
<1>000. upsets < MaxUpset /\ upsets' = upsets + 1 => upsets' \in 0 .. MaxUpset
  BY <1>00
<1>1. CASE CheckTasks
  BY <1>0, <1>1 DEF CheckTasks, RestType
<1>2. CASE Rescan
  <2>1. forgotten' \subseteq Nodes
    <3>1. \A e \in Slots : calllist[e].calling => calllist[e].addr \in Nodes
      BY DEF IInv, Linked
    <3> QED
      BY <1>0, <1>2, <3>1 DEF Rescan, RestType
  <2>2. call_work' \in BOOLEAN
    BY <1>2 DEF Rescan
  <2> QED
    BY <1>0, <1>2, <2>1, <2>2 DEF Rescan, RestType
<1>3. ASSUME NEW e \in Slots, Call(e) PROVE RestType'
  <2>1. passed' \in [Slots -> Nat]
    <3>1. \A f \in Slots : passed[f] \in Nat
      BY <1>0 DEF RestType
    <3>2. passed' = [f \in Slots |-> IF f # e /\ Callable(f) THEN passed[f] + 1 ELSE 0]
      BY <1>3 DEF Call
    <3>3. \A f \in Slots : (IF f # e /\ Callable(f) THEN passed[f] + 1 ELSE 0) \in Nat
      BY <3>1
    <3> QED
      BY <3>2, <3>3
  <2>2. upsets' = upsets \/ (upsets < MaxUpset /\ upsets' = upsets + 1)
    <3>1. CASE Launch(e)
      BY <3>1 DEF Launch
    <3>2. CASE Refused
      BY <3>2 DEF Refused
    <3> QED
      BY <1>3, <3>1, <3>2 DEF Call
  <2>3. upsets' \in 0 .. MaxUpset
    BY <1>00, <1>000, <2>2
  <2>4. call_entry' \in 0 .. MaxTasks
    BY <1>3 DEF Call, Slots
  <2>5. /\ UNCHANGED <<call_work, internet, waiting, sts, atcp, istcp, letters, forgotten>>
        /\ rescan' = TRUE
    BY <1>3 DEF Call
  <2> QED
    BY <1>0, <2>1, <2>3, <2>4, <2>5 DEF RestType
<1>4. CASE RegCheck \/ Event \/ UNCHANGED vars
  BY <1>0, <1>4 DEF RegCheck, Event, vars, RestType
<1>5. CASE Ping
  <2>1. upsets' \in 0 .. MaxUpset /\ internet' \in BOOLEAN
    BY <1>00, <1>000, <1>5 DEF Ping
  <2> QED
    BY <1>0, <1>5, <2>1 DEF Ping, RestType
<1>6. ASSUME NEW p \in Pids, RegIp(p) \/ Deliver(p) \/ TakeNode(p) PROVE RestType'
  BY <1>0, <1>6 DEF RegIp, Deliver, TakeNode, RestType
<1>7. ASSUME NEW p \in Pids, Killed(p) PROVE RestType'
  <2>1. upsets' \in 0 .. MaxUpset
    BY <1>000, <1>7 DEF Killed
  <2> QED
    BY <1>0, <1>7, <2>1 DEF Killed, RestType
<1>8. ASSUME NEW p \in Pids, NEW n \in Nodes, Answer(p, n) PROVE RestType'
  <2>1. upsets' \in 0 .. MaxUpset /\ atcp' \subseteq Pids
    BY <1>00, <1>000, <1>8 DEF Answer
  <2> QED
    BY <1>0, <1>8, <2>1 DEF Answer, RestType
<1>9. ASSUME NEW p \in Pids, NodeLocked(p) PROVE RestType'
  <2>1. sts' \in Statuses
    BY <1>00, <1>9, StatusTypes DEF NodeLocked
  <2>2. UNCHANGED <<call_entry, call_work, forgotten, passed, atcp, istcp, upsets, letters, waiting, rescan, internet>>
    BY <1>9 DEF NodeLocked
  <2> QED
    BY <1>0, <2>1, <2>2 DEF RestType, Statuses
<1>10. ASSUME NEW p \in Pids, Finish(p) PROVE RestType'
  <2>1. sts' \in Statuses
    BY <1>00, <1>10, StatusTypes DEF Finish
  <2>2. istcp' \subseteq Pids
    BY <1>00, <1>10 DEF Finish
  <2>3. UNCHANGED <<call_entry, call_work, forgotten, passed, atcp, upsets, letters, waiting, rescan, internet>>
    BY <1>10 DEF Finish
  <2> QED
    BY <1>0, <2>1, <2>2, <2>3 DEF RestType, Statuses
<1>11. ASSUME NEW n \in Nodes, Write(n) PROVE RestType'
  <2>1. letters' \in 0 .. MaxMail /\ waiting' \subseteq Nodes
    BY <1>00, <1>11 DEF Write
  <2> QED
    BY <1>0, <1>11, <2>1 DEF Write, RestType
<1>12. ASSUME NEW n \in Nodes, Later(n) PROVE RestType'
  <2>1. sts' \in Statuses
    BY <1>00, <1>12, StatusTypes DEF Later
  <2> QED
    BY <1>0, <1>12, <2>1 DEF Later, RestType, Statuses
<1>13. ASSUME NEW n \in Nodes, ResetStatus(n) PROVE RestType'
  <2>1. sts' \in Statuses
    BY <1>00, <1>13, StatusTypes DEF ResetStatus
  <2>2. upsets' \in 0 .. MaxUpset
    BY <1>000, <1>13 DEF ResetStatus
  <2> QED
    BY <1>0, <1>13, <2>1, <2>2 DEF ResetStatus, RestType, Statuses
<1> QED
  BY <1>1, <1>2, <1>3, <1>4, <1>5, <1>6, <1>7, <1>8, <1>9, <1>10, <1>11, <1>12, <1>13
     DEF Next, Daemon, Mailer

--------------------------------------------------------------------------------
LEMMA InitIInv == Init => IInv
<1> SUFFICES ASSUME Init PROVE IInv
  OBVIOUS
<1> USE BoundsAssumption DEF Init
<1>1. RestType
  <2>1. sts \in [Nodes -> [tryno : 0 .. MaxTry, late : BOOLEAN]]
    OBVIOUS
  <2>2. passed \in [Slots -> Nat]
    OBVIOUS
  <2>3. 0 \in 0 .. MaxMail /\ 0 \in 0 .. MaxUpset /\ MaxTasks \in 0 .. MaxTasks
    OBVIOUS
  <2> QED
    BY <2>1, <2>2, <2>3 DEF RestType
<1>2. calllist \in Lists /\ task \in Tables /\ mailer \in Processes
  BY Constants DEF Lists, Tables, Processes
<1>3. Linked(calllist, task, mailer)
  BY DEF Linked, Empty
<1> QED
  BY <1>1, <1>2, <1>3, Together DEF LinkType

LEMMA TogetherAfter == RestType' /\ LinkType' => IInv'
BY DEF IInv, TypeOK, RestType, LinkType, Lists, Tables, Processes, Process, Entry

LEMMA NextIInv == IInv /\ [Next]_vars => IInv'
BY NextLinks, NextRest, TogetherAfter

\* Every variable of the daemon and of its mailers keeps its type.
THEOREM TypeCorrect == Spec => []TypeOK
<1>1. Init => IInv
  BY InitIInv
<1>2. IInv /\ [Next]_vars => IInv'
  BY NextIInv
<1>3. IInv => TypeOK
  BY DEF IInv
<1> QED
  BY <1>1, <1>2, <1>3, PTL DEF Spec

\* calllist.c and checktasks(): an entry that waits for the end of its mailer has it in
\* the table of tasks, alone, so that it will see that end.
THEOREM EntryHasItsTask == Spec => []CallingIsRunning
<1>1. Init => IInv
  BY InitIInv
<1>2. IInv /\ [Next]_vars => IInv'
  BY NextIInv
<1>3. IInv => CallingIsRunning
  BY DEF IInv, Linked, CallingIsRunning
<1> QED
  BY <1>1, <1>2, <1>3, PTL DEF Spec

--------------------------------------------------------------------------------
(* The turns. *)

\* How many entries the rotation tries until it comes to this one.
Ahead(f, c) ==
  IF f > c THEN f - c ELSE IF c = MaxTasks THEN f + 1 ELSE f - c + MaxTasks

TurnInv == \A f \in Slots : passed[f] + Ahead(f, call_entry) <= MaxTasks

LEMMA AheadBounds ==
  ASSUME NEW f \in Slots, NEW c \in 0 .. MaxTasks
  PROVE  Ahead(f, c) \in 1 .. MaxTasks
BY BoundsAssumption DEF Ahead, Slots

\* An entry that is passed over is nearer afterwards.
LEMMA Nearer ==
  ASSUME call_entry \in 0 .. MaxTasks, NEW e \in Slots, NEW f \in Slots, e # f, Distance(e) <= Distance(f)
  PROVE  Ahead(f, e) + 1 <= Ahead(f, call_entry)
BY BoundsAssumption DEF Ahead, Slots, Distance

LEMMA NextTurn == IInv /\ TurnInv /\ [Next]_vars => TurnInv'
<1> SUFFICES ASSUME IInv, TurnInv, [Next]_vars PROVE TurnInv'
  OBVIOUS
<1> USE BoundsAssumption DEF files, lists, daemon, counts, history
<1>1. ASSUME NEW e \in Slots, Call(e) PROVE TurnInv'
  <2>1. /\ call_entry \in 0 .. MaxTasks /\ call_entry' = e /\ e \in 0 .. MaxTasks
        /\ \A f \in Slots : passed[f] \in Nat
    BY <1>1 DEF IInv, TypeOK, Call, Slots
  <2>2. ASSUME NEW f \in Slots PROVE passed'[f] + Ahead(f, e) <= MaxTasks
    <3>1. Ahead(f, e) \in 1 .. MaxTasks /\ Ahead(f, call_entry) \in 1 .. MaxTasks
      BY <2>1, AheadBounds
    <3>2. CASE f # e /\ Callable(f)
      <4>1. Distance(e) <= Distance(f)
        BY <1>1, <3>2 DEF Call, Chosen
      <4>2. Ahead(f, e) + 1 <= Ahead(f, call_entry)
        BY <2>1, <3>2, <4>1, Nearer
      <4>3. passed'[f] = passed[f] + 1 /\ passed[f] \in Nat /\ passed[f] + Ahead(f, call_entry) <= MaxTasks
        BY <1>1, <2>1, <3>2 DEF Call, TurnInv
      <4> QED
        BY <3>1, <4>2, <4>3
    <3>3. CASE ~ (f # e /\ Callable(f))
      <4>1. passed'[f] = 0
        BY <1>1, <3>3 DEF Call
      <4> QED
        BY <3>1, <4>1
    <3> QED
      BY <3>2, <3>3
  <2> QED
    BY <2>1, <2>2 DEF TurnInv
<1>2. CASE UNCHANGED <<call_entry, passed>>
  BY <1>2 DEF TurnInv
<1>3. CASE CheckTasks \/ Rescan \/ RegCheck \/ Ping \/ Event \/ UNCHANGED vars
  BY <1>2, <1>3 DEF CheckTasks, Rescan, RegCheck, Ping, Event, vars
<1>4. ASSUME NEW p \in Pids, RegIp(p) \/ Deliver(p) \/ Killed(p) \/ \E n \in Nodes : Answer(p, n) PROVE TurnInv'
  BY <1>2, <1>4 DEF RegIp, Deliver, Killed, Answer
<1>5. ASSUME NEW p \in Pids, Mailer(p) PROVE TurnInv'
  BY <1>2, <1>5 DEF Mailer, TakeNode, NodeLocked, Finish
<1>6. ASSUME NEW n \in Nodes, Write(n) \/ Later(n) \/ ResetStatus(n) PROVE TurnInv'
  BY <1>2, <1>6 DEF Write, Later, ResetStatus
<1> QED
  BY <1>1, <1>3, <1>4, <1>5, <1>6 DEF Next, Daemon

\* scheduler() of mbtask.c: the search for the next call begins behind the entry
\* tried last, so that one that can be called waits at most for one try of each other,
\* whether that one was started or not.
THEOREM Turns == Spec => []TakeTurns
<1>1. Init => IInv /\ TurnInv
  <2> SUFFICES ASSUME Init PROVE TurnInv
    BY InitIInv
  <2>1. call_entry = MaxTasks /\ \A f \in Slots : passed[f] = 0
    BY DEF Init
  <2>2. \A f \in Slots : Ahead(f, MaxTasks) \in 1 .. MaxTasks
    BY AheadBounds, BoundsAssumption
  <2> QED
    BY <2>1, <2>2, BoundsAssumption DEF TurnInv
<1>2. IInv /\ TurnInv /\ [Next]_vars => (IInv /\ TurnInv)'
  BY NextIInv, NextTurn
<1>3. IInv /\ TurnInv => TakeTurns
  <2> SUFFICES ASSUME IInv, TurnInv, NEW f \in Slots PROVE passed[f] < MaxTasks
    BY DEF TakeTurns
  <2>1. passed[f] \in Nat /\ Ahead(f, call_entry) \in 1 .. MaxTasks
    BY AheadBounds DEF IInv, TypeOK
  <2>2. passed[f] + Ahead(f, call_entry) <= MaxTasks
    BY DEF TurnInv
  <2> QED
    BY <2>1, <2>2, BoundsAssumption
<1> QED
  BY <1>1, <1>2, <1>3, PTL DEF Spec

--------------------------------------------------------------------------------
(* One mailer for a node. *)

\* No two tasks have a pid, no two entries a node, and the entry from which a mailer
\* was started is still there, or the node was forgotten.
Single(list, table, procs, gone) ==
  /\ \A i, j \in Slots : table[i] # NoPid /\ table[j] = table[i] => i = j
  /\ \A e, f \in Slots : list[e].addr # NoNode /\ list[f].addr = list[e].addr => e = f
  /\ \A i \in Slots : table[i] # NoPid /\ procs[table[i]].doing # "ended" =>
       \/ procs[table[i]].node \in gone
       \/ \E e \in Slots : list[e].taskpid = table[i] /\ list[e].addr = procs[table[i]].node

SingleInv == Single(calllist, task, mailer, forgotten)

LEMMA CheckedSingle ==
  ASSUME IInv, SingleInv
  PROVE  Single(ListLeft(calllist), TaskLeft, MailersLeft, forgotten)
<1>1. \A i, j \in Slots : TaskLeft[i] # NoPid /\ TaskLeft[j] = TaskLeft[i] => i = j
  BY TaskLeftFacts DEF IInv, SingleInv, Single
<1>2. \A e, f \in Slots :
        ListLeft(calllist)[e].addr # NoNode /\ ListLeft(calllist)[f].addr = ListLeft(calllist)[e].addr => e = f
  <2>1. \A e \in Slots : ListLeft(calllist)[e].addr = calllist[e].addr
    BY ListLeftFacts DEF IInv
  <2> QED
    BY <2>1 DEF SingleInv, Single
<1>3. ASSUME NEW i \in Slots, TaskLeft[i] # NoPid, MailersLeft[TaskLeft[i]].doing # "ended"
      PROVE  \/ MailersLeft[TaskLeft[i]].node \in forgotten
             \/ \E e \in Slots : /\ ListLeft(calllist)[e].taskpid = TaskLeft[i]
                                 /\ ListLeft(calllist)[e].addr = MailersLeft[TaskLeft[i]].node
  <2>1. TaskLeft[i] = task[i] /\ task[i] \notin EndedPids /\ MailersLeft[TaskLeft[i]] = mailer[task[i]]
    BY <1>3, TaskLeftFacts DEF IInv
  <2>2. CASE mailer[task[i]].node \in forgotten
    BY <2>1, <2>2
  <2>3. ASSUME NEW e \in Slots, calllist[e].taskpid = task[i], calllist[e].addr = mailer[task[i]].node
        PROVE  /\ ListLeft(calllist)[e].taskpid = TaskLeft[i]
               /\ ListLeft(calllist)[e].addr = MailersLeft[TaskLeft[i]].node
    BY <2>1, <2>3, ListLeftFacts DEF IInv
  <2> QED
    BY <1>3, <2>1, <2>2, <2>3 DEF SingleInv, Single
<1> QED
  BY <1>1, <1>2, <1>3 DEF Single

LEMMA LaunchSingle ==
  ASSUME NEW list \in Lists, NEW table \in Tables, NEW procs \in Processes, NEW gone,
         Linked(list, table, procs), Single(list, table, procs, gone),
         NEW e \in Slots, NEW i \in Slots, NEW p \in Pids, NEW n \in Nodes,
         procs[p] = Gone, table[i] = NoPid, list[e].addr = n, list[e].taskpid = NoPid
  PROVE  Single([list EXCEPT ![e].taskpid = p, ![e].calling = TRUE],
                [table EXCEPT ![i] = p],
                [procs EXCEPT ![p] = [doing |-> "start", node |-> n]], gone)
<1> DEFINE list2 == [list EXCEPT ![e].taskpid = p, ![e].calling = TRUE]
           table2 == [table EXCEPT ![i] = p]
           procs2 == [procs EXCEPT ![p] = [doing |-> "start", node |-> n]]
<1>1. p # NoPid /\ \A j \in Slots : table[j] # p
  BY NoPidIsNone DEF Linked, Gone
<1>2. /\ list2[e].taskpid = p /\ list2[e].addr = n
      /\ \A f \in Slots \ {e} : list2[f] = list[f]
      /\ \A f \in Slots : list2[f].addr = list[f].addr
  BY DEF Lists, Entry
<1>3. table2[i] = p /\ \A j \in Slots \ {i} : table2[j] = table[j]
  BY DEF Tables
<1>4. procs2[p].node = n /\ \A q \in Pids \ {p} : procs2[q] = procs[q]
  BY DEF Processes
<1> HIDE DEF list2, table2, procs2
<1>5. \A j, k \in Slots : table2[j] # NoPid /\ table2[k] = table2[j] => j = k
  BY <1>1, <1>3 DEF Single
<1>6. \A f, g \in Slots : list2[f].addr # NoNode /\ list2[g].addr = list2[f].addr => f = g
  BY <1>2 DEF Single
<1>7. ASSUME NEW j \in Slots, table2[j] # NoPid, procs2[table2[j]].doing # "ended"
      PROVE  \/ procs2[table2[j]].node \in gone
             \/ \E f \in Slots : list2[f].taskpid = table2[j] /\ list2[f].addr = procs2[table2[j]].node
  <2>1. CASE j = i
    BY <1>2, <1>3, <1>4, <2>1
  <2>2. CASE j # i
    <3>1. table2[j] = table[j] /\ table[j] \in Pids \ {p} /\ procs2[table[j]] = procs[table[j]]
      BY <1>1, <1>3, <1>4, <1>7, <2>2 DEF Tables
    <3>2. CASE procs[table[j]].node \in gone
      BY <3>1, <3>2
    <3>3. ASSUME NEW f \in Slots, list[f].taskpid = table[j], list[f].addr = procs[table[j]].node
          PROVE  list2[f].taskpid = table2[j] /\ list2[f].addr = procs2[table2[j]].node
      <4>1. f # e
        BY <3>1, <3>3, NoPidIsNone
      <4> QED
        BY <1>2, <3>1, <3>3, <4>1
    <3> QED
      BY <1>7, <3>1, <3>2, <3>3 DEF Single
  <2> QED
    BY <2>1, <2>2
<1>8. Single(list2, table2, procs2, gone)
  BY <1>5, <1>6, <1>7 DEF Single
<1> QED
  BY <1>8 DEF list2, table2, procs2

LEMMA RescanSingle ==
  ASSUME IInv, SingleInv, Rescan
  PROVE  SingleInv'
<1>1. PICK place \in Placements : calllist' = Filled(place)
  BY DEF Rescan
<1>2. task' = task /\ mailer' = mailer
  BY DEF Rescan, files
<1>3. PICK taken \in SUBSET Free : place \in [taken -> Missing]
  BY DEF Placements
<1>4. \A e, f \in DOMAIN place : place[e] = place[f] => e = f
  BY DEF Placements
<1>5. \A e \in Slots :
        \/ e \in DOMAIN place /\ calllist'[e].addr = place[e] /\ place[e] \in Missing
        \/ e \notin DOMAIN place /\ calllist'[e].addr = Kept(e).addr /\ calllist'[e].taskpid = Kept(e).taskpid
  BY <1>1, FilledFacts
<1>6. \A e, f \in Slots : calllist'[e].addr # NoNode /\ calllist'[f].addr = calllist'[e].addr => e = f
  <2> SUFFICES ASSUME NEW e \in Slots, NEW f \in Slots,
                      calllist'[e].addr # NoNode, calllist'[f].addr = calllist'[e].addr
               PROVE  e = f
    OBVIOUS
  <2>1. CASE e \in DOMAIN place /\ f \in DOMAIN place
    BY <1>4, <1>5, <2>1
  <2>2. CASE (e \in DOMAIN place) # (f \in DOMAIN place)
    BY <1>5, <2>2 DEF Missing
  <2>3. CASE e \notin DOMAIN place /\ f \notin DOMAIN place
    <3>1. Kept(e).addr # NoNode /\ Kept(f).addr = Kept(e).addr
      BY <1>5, <2>3
    <3>2. calllist[e].addr # NoNode /\ calllist[f].addr = calllist[e].addr
      BY <3>1, KeptFacts
    <3> QED
      BY <3>2 DEF SingleInv, Single
  <2> QED
    BY <2>1, <2>2, <2>3
<1>7. ASSUME NEW i \in Slots, task[i] # NoPid, mailer[task[i]].doing # "ended"
      PROVE  \/ mailer[task[i]].node \in forgotten'
             \/ \E e \in Slots : calllist'[e].taskpid = task[i] /\ calllist'[e].addr = mailer[task[i]].node
  <2>1. CASE mailer[task[i]].node \in forgotten
    BY <2>1 DEF Rescan
  <2>2. ASSUME NEW e \in Slots, calllist[e].taskpid = task[i], calllist[e].addr = mailer[task[i]].node
        PROVE  \/ mailer[task[i]].node \in forgotten'
               \/ calllist'[e].taskpid = task[i] /\ calllist'[e].addr = mailer[task[i]].node
    <3>1. calllist[e].calling /\ calllist[e].addr \in Nodes
      BY <1>7, <2>2 DEF IInv, Linked
    <3>2. CASE calllist[e].addr \notin ToCall
      BY <2>2, <3>1, <3>2 DEF Rescan
    <3>3. CASE calllist[e].addr \in ToCall
      <4>1. Kept(e) = calllist[e] /\ Kept(e).addr # NoNode
        BY <3>1, <3>3, NamesAssumption DEF Kept
      <4>2. e \notin DOMAIN place
        BY <1>3, <4>1 DEF Free
      <4> QED
        BY <1>5, <2>2, <4>1, <4>2
    <3> QED
      BY <3>2, <3>3
  <2> QED
    BY <1>7, <2>1, <2>2 DEF SingleInv, Single
<1>8. \A i, j \in Slots : task[i] # NoPid /\ task[j] = task[i] => i = j
  BY DEF SingleInv, Single
<1> QED
  BY <1>2, <1>6, <1>7, <1>8 DEF SingleInv, Single

\* A step of one process that is not a new one of the daemon.
LEMMA ProcessSingle ==
  ASSUME IInv, SingleInv, NEW p \in Pids,
         UNCHANGED <<calllist, task, forgotten>>,
         \A q \in Pids \ {p} : mailer'[q] = mailer[q],
         \/ \A i \in Slots : task[i] # p
         \/ mailer'[p].doing = "ended"
         \/ mailer[p].doing # "ended" /\ mailer'[p].node = mailer[p].node
  PROVE  SingleInv'
<1>1. ASSUME NEW i \in Slots, task[i] # NoPid, mailer'[task[i]].doing # "ended"
      PROVE  \/ mailer'[task[i]].node \in forgotten
             \/ \E e \in Slots : calllist[e].taskpid = task[i] /\ calllist[e].addr = mailer'[task[i]].node
  <2>1. task[i] \in Pids
    BY <1>1, TypeFacts DEF IInv, Tables
  <2>2. mailer[task[i]].doing # "ended" /\ mailer'[task[i]].node = mailer[task[i]].node
    BY <1>1, <2>1
  <2> QED
    BY <1>1, <2>2 DEF SingleInv, Single
<1> QED
  BY <1>1 DEF SingleInv, Single

LEMMA EndSingle ==
  ASSUME IInv, SingleInv, NEW p \in Pids, End(p), UNCHANGED <<calllist, task, forgotten>>
  PROVE  SingleInv'
<1>1. mailer \in Processes /\ mailer[p] \in Process
  BY TypeFacts DEF IInv, Processes
<1>2. \A q \in Pids \ {p} : mailer'[q] = mailer[q]
  BY <1>1 DEF End, Processes
<1>3. (\E i \in Slots : task[i] = p) => mailer'[p].doing = "ended"
  BY <1>1 DEF End, Processes, Process
<1> QED
  BY <1>2, <1>3, ProcessSingle

LEMMA NextSingle == IInv /\ SingleInv /\ [Next]_vars => SingleInv'
<1> SUFFICES ASSUME IInv, SingleInv, [Next]_vars PROVE SingleInv'
  OBVIOUS
<1> USE DEF files, lists, daemon, counts, history
<1>1. ASSUME task' = TaskLeft, calllist' = ListLeft(calllist), mailer' = MailersLeft, forgotten' = forgotten
      PROVE  SingleInv'
  BY <1>1, CheckedSingle DEF SingleInv
<1>2. CASE UNCHANGED <<calllist, task, mailer, forgotten>>
  BY <1>2 DEF SingleInv, Single
<1>3. CASE CheckTasks
  BY <1>1, <1>3 DEF CheckTasks
<1>4. CASE Rescan
  BY <1>4, RescanSingle
<1>5. ASSUME NEW e \in Slots, Call(e) PROVE SingleInv'
  <2>1. forgotten' = forgotten /\ Callable(e)
    BY <1>5 DEF Call, Chosen
  <2>2. CASE Refused
    BY <1>1, <2>1, <2>2 DEF Refused
  <2>3. CASE Launch(e)
    <3>1. PICK p \in Pids, i \in Slots :
            /\ p \in Unused(MailersLeft) /\ TaskLeft[i] = NoPid
            /\ task' = [TaskLeft EXCEPT ![i] = p]
            /\ calllist' = [ListLeft(calllist) EXCEPT ![e].taskpid = p, ![e].calling = TRUE]
            /\ mailer' = [MailersLeft EXCEPT ![p] = [doing |-> "start", node |-> calllist[e].addr]]
      BY <2>3 DEF Launch, Least
    <3> DEFINE list == ListLeft(calllist)
               n == calllist[e].addr
    <3>2. n \in Nodes /\ list[e].addr = n
      BY <2>1, TypeFacts, ListLeftFacts DEF IInv, Callable, Lists, Entry
    <3>3. list[e].taskpid = NoPid
      <4>1. calllist[e].taskpid = NoPid
        BY <2>1 DEF Callable, IInv, Linked
      <4> QED
        BY <4>1, ListLeftFacts DEF IInv
    <3>4. /\ list \in Lists /\ TaskLeft \in Tables /\ MailersLeft \in Processes
          /\ Linked(list, TaskLeft, MailersLeft) /\ Single(list, TaskLeft, MailersLeft, forgotten)
      BY CheckedTypes, CheckedLinked, CheckedSingle DEF IInv
    <3>5. MailersLeft[p] = Gone
      BY <3>1 DEF Unused
    <3> HIDE DEF list, n
    <3>6. Single([list EXCEPT ![e].taskpid = p, ![e].calling = TRUE], [TaskLeft EXCEPT ![i] = p],
                 [MailersLeft EXCEPT ![p] = [doing |-> "start", node |-> n]], forgotten)
      BY <3>1, <3>2, <3>3, <3>4, <3>5, LaunchSingle
    <3> QED
      BY <2>1, <3>1, <3>6 DEF SingleInv, list, n
  <2> QED
    BY <1>5, <2>2, <2>3 DEF Call
<1>6. CASE RegCheck \/ Ping \/ Event \/ UNCHANGED vars
  BY <1>2, <1>6 DEF RegCheck, Ping, Event, vars
<1>7. ASSUME NEW p \in Pids, RegIp(p) \/ Deliver(p) PROVE SingleInv'
  BY <1>2, <1>7 DEF RegIp, Deliver
<1>8. ASSUME NEW p \in Pids, NodeLocked(p) \/ Finish(p) \/ Killed(p) PROVE SingleInv'
  BY <1>8, EndSingle DEF NodeLocked, Finish, Killed
<1>9. ASSUME NEW p \in Pids, TakeNode(p) PROVE SingleInv'
  <2>1. mailer \in Processes /\ mailer[p] \in Process
    BY TypeFacts DEF IInv, Processes
  <2>2. mailer' = [mailer EXCEPT ![p].doing = "session"] /\ mailer[p].doing = "start"
    BY <1>9 DEF TakeNode
  <2>3. mailer'[p].node = mailer[p].node /\ \A q \in Pids \ {p} : mailer'[q] = mailer[q]
    BY <2>1, <2>2 DEF Processes, Process
  <2>4. UNCHANGED <<calllist, task, forgotten>>
    BY <1>9 DEF TakeNode
  <2> QED
    BY <2>2, <2>3, <2>4, ProcessSingle
<1>10. ASSUME NEW p \in Pids, NEW n \in Nodes, Answer(p, n) PROVE SingleInv'
  <2>1. mailer[p] = Gone
    BY <1>10 DEF Answer, Least, Unused
  <2>2. \A i \in Slots : task[i] # p
    BY <2>1, NoPidIsNone DEF Gone, IInv, Linked
  <2>3. UNCHANGED <<calllist, task, forgotten>> /\ \A q \in Pids \ {p} : mailer'[q] = mailer[q]
    BY <1>10, TypeFacts DEF Answer, IInv, Processes
  <2> QED
    BY <2>2, <2>3, ProcessSingle
<1>11. ASSUME NEW n \in Nodes, Write(n) \/ ResetStatus(n) PROVE SingleInv'
  BY <1>2, <1>11 DEF Write, ResetStatus
<1>12. ASSUME NEW n \in Nodes, Later(n) PROVE SingleInv'
  <2>1. UNCHANGED <<task, mailer, forgotten>>
    BY <1>12 DEF Later
  <2>2. \A e \in Slots : calllist'[e].addr = calllist[e].addr /\ calllist'[e].taskpid = calllist[e].taskpid
    BY <1>12, TypeFacts DEF Later, IInv, Lists, Entry
  <2> QED
    BY <2>1, <2>2 DEF SingleInv, Single
<1> QED
  BY <1>3, <1>4, <1>5, <1>6, <1>7, <1>8, <1>9, <1>10, <1>11, <1>12 DEF Next, Daemon, Mailer

\* launch() and check_calllist(): the daemon starts no mailer for a node that one of its
\* mailers is calling, as long as the entry of the node was not removed meanwhile.
THEOREM OneMailerWhileListed == Spec => []NoDoubleCallWhileListed
<1>1. Init => IInv /\ SingleInv
  <2> SUFFICES ASSUME Init PROVE SingleInv
    BY InitIInv
  <2> QED
    BY DEF Init, SingleInv, Single, Empty
<1>2. IInv /\ SingleInv /\ [Next]_vars => (IInv /\ SingleInv)'
  BY NextIInv, NextSingle
<1>3. IInv /\ SingleInv => NoDoubleCallWhileListed
  <2> SUFFICES ASSUME IInv, SingleInv, NEW n \in Nodes \ forgotten,
                      NEW i \in Calling(n), NEW j \in Calling(n)
               PROVE  i = j
    BY DEF NoDoubleCallWhileListed
  <2>1. /\ i \in Slots /\ task[i] # NoPid /\ mailer[task[i]].node = n /\ mailer[task[i]].doing # "ended"
        /\ j \in Slots /\ task[j] # NoPid /\ mailer[task[j]].node = n /\ mailer[task[j]].doing # "ended"
    BY DEF Calling
  <2>2. PICK e \in Slots : calllist[e].taskpid = task[i] /\ calllist[e].addr = n
    BY <2>1 DEF SingleInv, Single
  <2>3. PICK f \in Slots : calllist[f].taskpid = task[j] /\ calllist[f].addr = n
    BY <2>1 DEF SingleInv, Single
  <2>4. e = f
    BY <2>2, <2>3, NamesAssumption DEF SingleInv, Single
  <2> QED
    BY <2>1, <2>2, <2>3, <2>4 DEF SingleInv, Single
<1> QED
  BY <1>1, <1>2, <1>3, PTL DEF Spec

================================================================================
