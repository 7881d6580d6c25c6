---------------------------- MODULE SchedulerProofs ----------------------------
(***************************************************************************)
(* What the scheduler guarantees.  Of its task queue, for any number of    *)
(* tasks, lines and sessions: the table never overflows and its count is   *)
(* true, one program at a time works on the message bases, the nodelist    *)
(* compiler and the linker work alone, and no mail packet is forgotten     *)
(* where the table has room for mbfido.  Of its clock, for any nodes,      *)
(* zones and windows and a day of any length: where each zone has an hour  *)
(* of its own the list of nodes to call is the one a scan would make now.  *)
(***************************************************************************)
EXTENDS TaskQueue, CallClock, FiniteSetTheorems, NaturalsInduction, WellFoundedInduction, TLAPS

(* Facts about the requests. *)

LEMMA RequestNames ==
  Requests = {"mailout", "mailin", "newnews", "mbindex", "msglink", "reqindex"}
BY DEF Requests, Order

LEMMA OrderRequests == \A k \in DOMAIN Order : Order[k] \in Requests
BY DEF Requests

LEMMA RequestsFinite == IsFiniteSet(Requests)
<1> DEFINE A == {"mailout"}
           B == A \cup {"mailin"}
           C == B \cup {"newnews"}
           D == C \cup {"mbindex"}
           E == D \cup {"msglink"}
<1>1. IsFiniteSet(A)
  BY FS_Singleton
<1>2. IsFiniteSet(B)
  BY <1>1, FS_AddElement
<1>3. IsFiniteSet(C)
  BY <1>2, FS_AddElement
<1>4. IsFiniteSet(D)
  BY <1>3, FS_AddElement
<1>5. IsFiniteSet(E)
  BY <1>4, FS_AddElement
<1>6. IsFiniteSet(E \cup {"reqindex"})
  BY <1>5, FS_AddElement
<1>7. Requests = E \cup {"reqindex"}
  BY RequestNames
<1> QED
  BY <1>6, <1>7

\* The programs have three steps, and mbfido for inbound mail five, the one behind
\* the last included.
LEMMA StepNumbers ==
  ASSUME NEW r \in Requests
  PROVE  /\ EndOf(r) = IF r = "mailin" THEN 5 ELSE 3
         /\ DOMAIN Steps(r) = 1 .. (EndOf(r) - 1)
<1>1. CASE r = "mailin"
  <2>1. Steps(r) = <<"remove", "tic", "remove", "packet">>
    BY <1>1 DEF Steps
  <2>2. Len(Steps(r)) = 4 /\ DOMAIN Steps(r) = 1 .. 4
    BY <2>1
  <2>3. EndOf(r) = 5 /\ EndOf(r) - 1 = 4
    BY <2>2 DEF EndOf
  <2>4. DOMAIN Steps(r) = 1 .. (EndOf(r) - 1)
    BY <2>2, <2>3
  <2> QED
    BY <1>1, <2>3, <2>4
<1>2. CASE r # "mailin"
  <2>1. Steps(r) = <<r, "remove">>
    BY <1>2 DEF Steps
  <2> QED
    BY <1>2, <2>1 DEF EndOf
<1> QED
  BY <1>1, <1>2

LEMMA MailinSteps == Steps("mailin") = <<"remove", "tic", "remove", "packet">>
BY DEF Steps

(* Counting tasks. *)

StepType == [Requests -> 0 .. 5]
CallType == [Ways -> [runs : Nat, ended : Nat]]

LEMMA StartedType ==
  ASSUME NEW left
  PROVE  IsFiniteSet(Started(left)) /\ Cardinality(Started(left)) \in Nat
<1>1. Started(left) \in SUBSET Requests
  BY DEF Started
<1>2. IsFiniteSet(Started(left))
  BY <1>1, RequestsFinite, FS_Subset
<1> QED
  BY <1>2, FS_CardinalityType

LEMMA CountType ==
  ASSUME NEW left, NEW called \in CallType
  PROVE  Count(left, called) \in Nat
<1>1. called["modem"] \in [runs : Nat, ended : Nat] /\ called["inet"] \in [runs : Nat, ended : Nat]
  BY DEF CallType, Ways
<1> QED
  BY <1>1, StartedType DEF Count

\* Starting a program adds at most one task.
LEMMA StartOne ==
  ASSUME NEW left \in StepType, NEW r \in Requests, NEW called \in CallType
  PROVE  Count([left EXCEPT ![r] = 1], called) <= Count(left, called) + 1
<1>1. Started([left EXCEPT ![r] = 1]) = Started(left) \cup {r}
  BY DEF Started, StepType
<1>2. /\ Cardinality(Started(left)) \in Nat
      /\ Cardinality(Started(left) \cup {r}) \in {Cardinality(Started(left)), Cardinality(Started(left)) + 1}
  <2>1. IsFiniteSet(Started(left)) /\ Cardinality(Started(left)) \in Nat
    BY StartedType
  <2>2. Cardinality(Started(left) \cup {r})
          = IF r \in Started(left) THEN Cardinality(Started(left)) ELSE Cardinality(Started(left)) + 1
    BY <2>1, FS_AddElement
  <2> QED
    BY <2>1, <2>2
<1>3. Count([left EXCEPT ![r] = 1], called) =
        called["modem"].runs + called["inet"].runs + called["modem"].ended + called["inet"].ended
          + Cardinality(Started(left) \cup {r})
  BY <1>1 DEF Count
<1>4. called["modem"] \in [runs : Nat, ended : Nat] /\ called["inet"] \in [runs : Nat, ended : Nat]
  BY DEF CallType, Ways
<1> QED
  BY <1>2, <1>3, <1>4 DEF Count

\* So does a call.
LEMMA CallOne ==
  ASSUME NEW left, NEW called \in CallType, NEW w \in Ways
  PROVE  /\ [called EXCEPT ![w].runs = @ + 1] \in CallType
         /\ Count(left, [called EXCEPT ![w].runs = @ + 1]) = Count(left, called) + 1
<1>1. called["modem"] \in [runs : Nat, ended : Nat] /\ called["inet"] \in [runs : Nat, ended : Nat]
  BY DEF CallType, Ways
<1>2. CASE w = "modem"
  BY <1>1, <1>2, StartedType DEF Count, CallType, Ways
<1>3. CASE w = "inet"
  BY <1>1, <1>3, StartedType DEF Count, CallType, Ways
<1> QED
  BY <1>2, <1>3 DEF Ways

\* Each way has no more calls than there are tasks.
LEMMA CallsBounded ==
  ASSUME NEW left, NEW called \in CallType, NEW n \in Nat, Count(left, called) <= n
  PROVE  called \in [Ways -> [runs : 0 .. n, ended : 0 .. n]]
<1>1. called["modem"] \in [runs : Nat, ended : Nat] /\ called["inet"] \in [runs : Nat, ended : Nat]
  BY DEF CallType, Ways
<1>2. \A w \in Ways : called[w].runs \in 0 .. n /\ called[w].ended \in 0 .. n
  BY <1>1, StartedType DEF Count, Ways
<1>3. \A w \in Ways : called[w] \in [runs : 0 .. n, ended : 0 .. n]
  BY <1>2 DEF CallType
<1> QED
  BY <1>3 DEF CallType

--------------------------------------------------------------------------------
(* The count of tasks is true at any moment, for only a check takes tasks out. *)

IInv == TypeOK /\ running = Count(step, calls)

LEMMA TypeFacts ==
  ASSUME TypeOK
  PROVE  step \in StepType /\ calls \in CallType /\ Left \in StepType /\ CallsLeft \in CallType
<1> USE BoundsAssumption
<1>1. calls \in CallType
  BY DEF TypeOK, CallType
<1>2. step \in StepType
  BY DEF TypeOK, StepType
<1>3. Left \in StepType
  BY <1>2 DEF Left, StepType
<1>4. \A w \in Ways : [calls[w] EXCEPT !.ended = 0] \in [runs : Nat, ended : Nat]
  BY <1>1 DEF CallType
<1> QED
  BY <1>1, <1>2, <1>3, <1>4 DEF CallsLeft, CallType

\* A check never counts more than there was.
LEMMA CheckLess ==
  ASSUME TypeOK
  PROVE  Count(Left, CallsLeft) <= Count(step, calls)
<1>1. Started(Left) \in SUBSET Started(step)
  BY TypeFacts DEF Started, Left, StepType
<1>2. Cardinality(Started(Left)) <= Cardinality(Started(step))
  BY <1>1, StartedType, FS_Subset
<1>3. calls["modem"] \in [runs : Nat, ended : Nat] /\ calls["inet"] \in [runs : Nat, ended : Nat]
  BY TypeFacts DEF CallType, Ways
<1>4. /\ CallsLeft["modem"].runs = calls["modem"].runs /\ CallsLeft["modem"].ended = 0
      /\ CallsLeft["inet"].runs = calls["inet"].runs /\ CallsLeft["inet"].ended = 0
  BY <1>3 DEF CallsLeft, Ways
<1> QED
  BY <1>2, <1>3, <1>4, StartedType DEF Count

\* Whatever a pass does to the tasks, it does not overflow the table, and counts.
LEMMA Tabled ==
  ASSUME TypeOK,
         NEW left \in StepType, NEW called \in CallType,
         \A r \in Requests : left[r] <= EndOf(r),
         step' = left, calls' = called, running' = Count(left, called),
         Count(left, called) <= MaxTasks
  PROVE  /\ running' \in 0 .. MaxTasks
         /\ step' \in [Requests -> 0 .. 5] /\ \A r \in Requests : step'[r] <= EndOf(r)
         /\ calls' \in [Ways -> [runs : 0 .. MaxTasks, ended : 0 .. MaxTasks]]
         /\ Count(step', calls') <= MaxTasks
         /\ running' = Count(step', calls')
<1>1. Count(left, called) \in Nat
  BY CountType
<1>2. called \in [Ways -> [runs : 0 .. MaxTasks, ended : 0 .. MaxTasks]]
  BY CallsBounded, BoundsAssumption
<1> QED
  BY <1>1, <1>2, BoundsAssumption DEF StepType

TaskType ==
  /\ running \in 0 .. MaxTasks
  /\ step \in [Requests -> 0 .. 5] /\ \A r \in Requests : step[r] <= EndOf(r)
  /\ calls \in [Ways -> [runs : 0 .. MaxTasks, ended : 0 .. MaxTasks]]
  /\ Count(step, calls) <= MaxTasks
  /\ running = Count(step, calls)

LEMMA CheckTyped == ASSUME TypeOK, CheckTasks PROVE TaskType'
<1>1. \A r \in Requests : Left[r] <= EndOf(r)
  BY StepNumbers DEF TypeOK, Left
<1>2. Count(Left, CallsLeft) <= MaxTasks
  BY CheckLess, TypeFacts, CountType, BoundsAssumption DEF TypeOK
<1> QED
  BY <1>1, <1>2, TypeFacts, Tabled DEF CheckTasks, TaskType

LEMMA LaunchTyped ==
  ASSUME TypeOK,
         \/ \E r \in Requests : Launched([Left EXCEPT ![r] = 1], CallsLeft)
         \/ \E w \in Ways : Launched(Left, [CallsLeft EXCEPT ![w].runs = @ + 1])
  PROVE  TaskType'
<1>1. \A r \in Requests : Left[r] <= EndOf(r)
  BY StepNumbers DEF TypeOK, Left
<1>2. Count(Left, CallsLeft) \in Nat
  BY TypeFacts, CountType
<1>3. ASSUME NEW r \in Requests, Launched([Left EXCEPT ![r] = 1], CallsLeft) PROVE TaskType'
  <2> DEFINE left == [Left EXCEPT ![r] = 1]
  <2>1. left \in StepType
    BY TypeFacts DEF StepType
  <2>2. \A s \in Requests : left[s] <= EndOf(s)
    BY <1>1, StepNumbers, TypeFacts DEF StepType
  <2>3. Count(left, CallsLeft) <= Count(Left, CallsLeft) + 1 /\ Count(left, CallsLeft) \in Nat
    BY <2>1, TypeFacts, StartOne, CountType
  <2>4. step' = left /\ calls' = CallsLeft /\ running' = Count(left, CallsLeft) /\ Count(Left, CallsLeft) < MaxTasks
    BY <1>3 DEF Launched, Room
  <2>5. Count(left, CallsLeft) <= MaxTasks
    BY <1>2, <2>3, <2>4, BoundsAssumption
  <2> HIDE DEF left
  <2> QED
    BY <2>1, <2>2, <2>4, <2>5, TypeFacts, Tabled DEF TaskType
<1>4. ASSUME NEW w \in Ways, Launched(Left, [CallsLeft EXCEPT ![w].runs = @ + 1]) PROVE TaskType'
  <2> DEFINE called == [CallsLeft EXCEPT ![w].runs = @ + 1]
  <2>1. called \in CallType /\ Count(Left, called) = Count(Left, CallsLeft) + 1
    BY TypeFacts, CallOne
  <2>2. step' = Left /\ calls' = called /\ running' = Count(Left, called) /\ Count(Left, CallsLeft) < MaxTasks
    BY <1>4 DEF Launched, Room
  <2>3. Count(Left, called) <= MaxTasks
    BY <1>2, <2>1, <2>2, BoundsAssumption
  <2> HIDE DEF called
  <2> QED
    BY <1>1, <2>1, <2>2, <2>3, TypeFacts, Tabled DEF TaskType
<1> QED
  BY <1>3, <1>4

\* A task that ends or goes on is counted as before.
LEMMA SameCount ==
  ASSUME TypeOK, running = Count(step, calls),
         NEW left \in StepType, NEW called \in CallType,
         \A r \in Requests : left[r] <= EndOf(r) /\ (left[r] # 0 <=> step[r] # 0),
         called["modem"].runs + called["modem"].ended = calls["modem"].runs + calls["modem"].ended,
         called["inet"].runs + called["inet"].ended = calls["inet"].runs + calls["inet"].ended,
         step' = left, calls' = called, UNCHANGED running
  PROVE  TaskType'
<1>1. Started(left) = Started(step)
  BY DEF Started
<1>2. /\ called["modem"] \in [runs : Nat, ended : Nat] /\ called["inet"] \in [runs : Nat, ended : Nat]
      /\ calls["modem"] \in [runs : Nat, ended : Nat] /\ calls["inet"] \in [runs : Nat, ended : Nat]
  BY TypeFacts DEF CallType, Ways
<1>3. Count(left, called) = Count(step, calls)
  <2>1. Cardinality(Started(left)) = Cardinality(Started(step)) /\ Cardinality(Started(step)) \in Nat
    BY <1>1, StartedType
  <2>2. Count(left, called) =
          called["modem"].runs + called["inet"].runs + called["modem"].ended + called["inet"].ended
            + Cardinality(Started(step))
    BY <2>1 DEF Count
  <2>3. Count(left, called) =
          calls["modem"].runs + calls["inet"].runs + calls["modem"].ended + calls["inet"].ended
            + Cardinality(Started(step))
    BY <1>2, <2>1, <2>2
  <2> QED
    BY <2>3 DEF Count
<1>4. Count(left, called) <= MaxTasks
  BY <1>3 DEF TypeOK
<1>5. running' = Count(left, called)
  BY <1>3
<1> QED
  BY <1>4, <1>5, Tabled DEF TaskType

LEMMA CallEndsTyped == ASSUME IInv, NEW w \in Ways, CallEnds(w) PROVE TaskType'
<1> DEFINE called == [calls EXCEPT ![w] = [runs |-> @.runs - 1, ended |-> @.ended + 1]]
<1>1. calls["modem"] \in [runs : Nat, ended : Nat] /\ calls["inet"] \in [runs : Nat, ended : Nat]
  BY TypeFacts DEF CallType, Ways, IInv
<1>2. calls' = called /\ calls[w].runs > 0
  BY DEF CallEnds
<1>3. called \in CallType
  BY <1>1, <1>2, TypeFacts DEF CallType, Ways, IInv
<1>4. /\ called["modem"].runs + called["modem"].ended = calls["modem"].runs + calls["modem"].ended
      /\ called["inet"].runs + called["inet"].ended = calls["inet"].runs + calls["inet"].ended
  <2>1. CASE w = "modem"
    BY <1>1, <1>2, <2>1, TypeFacts DEF CallType, Ways, IInv
  <2>2. CASE w = "inet"
    BY <1>1, <1>2, <2>2, TypeFacts DEF CallType, Ways, IInv
  <2> QED
    BY <2>1, <2>2 DEF Ways
<1>5. step' = step /\ UNCHANGED running /\ step \in StepType /\ \A r \in Requests : step[r] <= EndOf(r)
  BY TypeFacts DEF CallEnds, IInv, TypeOK
<1> HIDE DEF called
<1> QED
  BY <1>2, <1>3, <1>4, <1>5, SameCount DEF IInv

\* A program that goes on or fails stays in the table.
LEMMA ProgramTyped ==
  ASSUME IInv, NEW r \in Requests, Program(r) \/ Fail(r)
  PROVE  TaskType'
<1> DEFINE left == IF Program(r) THEN [step EXCEPT ![r] = @ + 1] ELSE [step EXCEPT ![r] = EndOf(r)]
<1>1. step' = left /\ calls' = calls /\ UNCHANGED running /\ step[r] \in DOMAIN Steps(r)
  BY DEF Program, DoWork, RemoveSema, Fail, Go
<1>2. EndOf(r) \in {3, 5} /\ step[r] \in 1 .. (EndOf(r) - 1)
  BY <1>1, StepNumbers
<1>3. left[r] \in 1 .. EndOf(r) /\ \A s \in Requests \ {r} : left[s] = step[s]
  BY <1>2, TypeFacts DEF IInv, StepType
<1>4. left \in StepType
  BY <1>2, TypeFacts DEF IInv, StepType
<1>5. \A s \in Requests : left[s] <= EndOf(s) /\ (left[s] # 0 <=> step[s] # 0)
  <2> TAKE s \in Requests
  <2>1. CASE s = r
    BY <1>2, <1>3, <2>1
  <2>2. CASE s # r
    BY <1>3, <2>2 DEF IInv, TypeOK
  <2> QED
    BY <2>1, <2>2
<1>6. calls \in CallType
  BY TypeFacts DEF IInv
<1> HIDE DEF left
<1> QED
  BY <1>1, <1>4, <1>5, <1>6, SameCount DEF IInv

QueueType ==
  /\ at \in 0 .. Suspended
  /\ sem \subseteq Requests
  /\ ptimer \in 0 .. PauseTime
  /\ tosswait \in 0 .. TossTime
  /\ ipmailers \in 0 .. MaxInbound
  /\ work \subseteq Work /\ untold \subseteq Work

LEMMA Numbers == Last = 7 /\ Suspended = 8 /\ DOMAIN Order = 1 .. 6
<1>1. Len(Order) = 6 /\ DOMAIN Order = 1 .. 6
  BY DEF Order
<1> QED
  BY <1>1 DEF Last, Suspended

LEMMA NextQueueType == ASSUME TypeOK, [Next]_vars PROVE QueueType'
<1> USE BoundsAssumption, Numbers DEF TypeOK, QueueType
<1>1. Paused \in 0 .. PauseTime /\ OneLess \in 0 .. PauseTime
  BY DEF Paused, OneLess
<1>2. CASE Begin
  BY <1>1, <1>2 DEF Begin, CheckTasks
<1>3. ASSUME NEW k \in DOMAIN Order, Serve(k) PROVE QueueType'
  <2>1. ptimer' \in 0 .. PauseTime
    BY <1>1, <1>3 DEF Serve, NotLaunched, Launched
  <2>2. k + 1 \in 0 .. Suspended
    BY Numbers
  <2> QED
    BY <1>3, <2>1, <2>2 DEF Serve
<1>4. CASE Finish
  <2>1. ptimer' \in 0 .. PauseTime
    <3>1. CASE UNCHANGED <<ptimer, running, tasks>>
      BY <3>1
    <3>2. CASE NotLaunched(MayFail # {})
      BY <1>1, <3>2 DEF NotLaunched
    <3>3. ASSUME NEW w \in Ways, Launched(Left, [CallsLeft EXCEPT ![w].runs = @ + 1])
          PROVE  ptimer' \in 0 .. PauseTime
      BY <3>3 DEF Launched
    <3> QED
      BY <1>4, <3>1, <3>2, <3>3 DEF Finish
  <2> QED
    BY <1>4, <2>1 DEF Finish
<1>5. ASSUME NEW r \in Asked, SemSet(r) PROVE QueueType'
  BY <1>5 DEF SemSet
<1>6. ASSUME NEW r \in Asked, NEW item \in Items(r), LeaveWork(item) PROVE QueueType'
  BY <1>6 DEF LeaveWork, Work
<1>7. CASE Minute
  BY <1>7 DEF Minute
<1>8. CASE Session
  BY <1>8 DEF Session
<1>9. ASSUME NEW w \in Ways, CallEnds(w) PROVE QueueType'
  BY <1>9 DEF CallEnds
<1>10. ASSUME NEW r \in Requests, Program(r) \/ Fail(r) PROVE QueueType'
  BY <1>10 DEF Program, DoWork, RemoveSema, Fail
<1>11. CASE UNCHANGED vars
  BY <1>11 DEF vars, tasks
<1> QED
  BY <1>2, <1>3, <1>4, <1>5, <1>6, <1>7, <1>8, <1>9, <1>10, <1>11 DEF Next, Pass

LEMMA NextTaskType == ASSUME IInv, [Next]_vars PROVE TaskType'
<1>0. TypeOK /\ TaskType
  BY DEF IInv, TypeOK, TaskType
<1>1. ASSUME CheckTasks PROVE TaskType'
  BY <1>0, <1>1, CheckTyped
<1>2. ASSUME UNCHANGED <<running, tasks>> PROVE TaskType'
  BY <1>0, <1>2 DEF TaskType, tasks
<1>3. CASE Begin
  BY <1>1, <1>3 DEF Begin
<1>4. ASSUME NEW k \in DOMAIN Order, Serve(k) PROVE TaskType'
  BY <1>0, <1>1, <1>4, LaunchTyped, OrderRequests DEF Serve, NotLaunched
<1>5. CASE Finish
  <2>1. CASE UNCHANGED <<ptimer, running, tasks>>
    BY <1>2, <2>1
  <2>2. CASE NotLaunched(MayFail # {})
    BY <1>1, <2>2 DEF NotLaunched
  <2>3. CASE \E w \in Ways : Launched(Left, [CallsLeft EXCEPT ![w].runs = @ + 1])
    BY <1>0, <2>3, LaunchTyped
  <2> QED
    BY <1>5, <2>1, <2>2, <2>3 DEF Finish
<1>6. CASE (\E r \in Asked : SemSet(r) \/ \E item \in Items(r) : LeaveWork(item)) \/ Minute \/ Session
  BY <1>2, <1>6 DEF SemSet, LeaveWork, Minute, Session
<1>7. ASSUME NEW w \in Ways, CallEnds(w) PROVE TaskType'
  BY <1>7, CallEndsTyped
<1>8. ASSUME NEW r \in Requests, Program(r) \/ Fail(r) PROVE TaskType'
  BY <1>8, ProgramTyped
<1>9. CASE UNCHANGED vars
  BY <1>2, <1>9 DEF vars
<1> QED
  BY <1>3, <1>4, <1>5, <1>6, <1>7, <1>8, <1>9 DEF Next, Pass

LEMMA InitIInv == Init => IInv
<1> SUFFICES ASSUME Init PROVE IInv
  OBVIOUS
<1>1. Started(step) = {}
  BY DEF Init, Started
<1>2. Cardinality(Started(step)) = 0
  BY <1>1, FS_EmptySet
<1>3. Count(step, calls) = 0
  BY <1>2 DEF Init, Count, NoCalls, Ways
<1>4. \A r \in Requests : step[r] <= EndOf(r)
  BY StepNumbers DEF Init
<1> QED
  BY <1>3, <1>4, Numbers, BoundsAssumption DEF Init, IInv, TypeOK, NoCalls

LEMMA NextIInv == IInv /\ [Next]_vars => IInv'
<1> SUFFICES ASSUME IInv, [Next]_vars PROVE IInv'
  OBVIOUS
<1> QED
  BY NextQueueType, NextTaskType DEF IInv, TypeOK, QueueType, TaskType

LEMMA IInvariance == Spec => []IInv
BY InitIInv, NextIInv, PTL DEF Spec

\* The table of tasks holds at most MAXTASKS and the timers stay in their range, for
\* any number of tasks, lines and sessions.
THEOREM TypeCorrect == Spec => []TypeOK
<1>1. IInv => TypeOK
  BY DEF IInv
<1> QED
  BY <1>1, IInvariance, PTL

--------------------------------------------------------------------------------
(* What the scheduler may start, and beside what. *)

\* Nothing runs when the count is zero.
LEMMA NothingRuns ==
  ASSUME IInv, running = 0
  PROVE  (\A r \in Requests : step[r] = 0) /\ \A w \in Ways : calls[w].runs = 0
<1>1. calls["modem"] \in [runs : Nat, ended : Nat] /\ calls["inet"] \in [runs : Nat, ended : Nat]
  BY TypeFacts DEF CallType, Ways, IInv
<1>2. Cardinality(Started(step)) \in Nat /\ IsFiniteSet(Started(step))
  BY StartedType
<1>3. Count(step, calls) = 0
  BY DEF IInv
<1>4. Cardinality(Started(step)) = 0 /\ calls["modem"].runs = 0 /\ calls["inet"].runs = 0
  <2> DEFINE a == calls["modem"].runs
             b == calls["inet"].runs
             c == calls["modem"].ended
             d == calls["inet"].ended
             e == Cardinality(Started(step))
  <2>1. a + b + c + d + e = 0
    BY <1>3 DEF Count
  <2>2. a \in Nat /\ b \in Nat /\ c \in Nat /\ d \in Nat /\ e \in Nat
    BY <1>1, <1>2
  <2> HIDE DEF a, b, c, d, e
  <2>3. a = 0 /\ b = 0 /\ e = 0
    BY <2>1, <2>2
  <2> QED
    BY <2>3 DEF a, b, e
<1>5. Started(step) = {}
  BY <1>2, <1>4, FS_EmptySet
<1> QED
  BY <1>4, <1>5 DEF Started, Ways

\* A program begins only when its request is served, and what has begun goes on or is
\* taken out at its end.
LEMMA Begins ==
  ASSUME IInv, [Next]_vars, NEW r \in Requests, step'[r] # 0, step[r] = 0 \/ (step'[r] = 1 /\ step[r] # 1)
  PROVE  \E k \in DOMAIN Order :
           /\ Order[k] = r /\ Serve(k) /\ Ready(r)
           /\ step' = [Left EXCEPT ![r] = 1]
<1>0. step \in StepType /\ Left \in StepType /\ Left[r] \in {0, step[r]}
  BY TypeFacts DEF IInv, Left
<1>1. step' # Left /\ step' # step
  BY <1>0
<1>2. \A s \in Requests : step[s] \in DOMAIN Steps(s) => step[s] # 0
  BY StepNumbers
<1>3. ASSUME NEW s \in Requests, Program(s) \/ Fail(s) PROVE FALSE
  <2>1. step[s] \in DOMAIN Steps(s)
    BY <1>3 DEF Program, DoWork, RemoveSema, Fail
  <2>2. EndOf(s) \in {3, 5} /\ step[s] \in 1 .. (EndOf(s) - 1)
    BY <2>1, StepNumbers
  <2>3. step' \in {[step EXCEPT ![s] = @ + 1], [step EXCEPT ![s] = EndOf(s)]}
    BY <1>3 DEF Program, DoWork, RemoveSema, Fail, Go
  <2>4. step'[r] # step[r]
    BY <2>2, <2>3
  <2>5. s = r
    BY <1>0, <2>3, <2>4 DEF StepType
  <2> QED
    BY <1>0, <2>2, <2>3, <2>5 DEF StepType
<1>4. ~ Begin /\ ~ Finish /\ ~ UNCHANGED vars
  BY <1>1 DEF Begin, Finish, CheckTasks, NotLaunched, Launched, vars, tasks
<1>5. ~ Minute /\ ~ Session /\ ~ (\E w \in Ways : CallEnds(w))
      /\ ~ (\E s \in Asked : SemSet(s) \/ \E item \in Items(s) : LeaveWork(item))
  BY <1>1 DEF Minute, Session, CallEnds, SemSet, LeaveWork, tasks
<1>6. PICK k \in DOMAIN Order : Serve(k)
  BY <1>3, <1>4, <1>5 DEF Next, Pass
<1>7. step' = [Left EXCEPT ![Order[k]] = 1]
  BY <1>1, <1>6 DEF Serve, NotLaunched, CheckTasks, Launched
<1>8. Order[k] = r
  BY <1>0, <1>7 DEF StepType
<1>9. Ready(r)
  BY <1>6, <1>8 DEF Serve, Ahead
<1> QED
  BY <1>6, <1>7, <1>8, <1>9

\* Three requests start the tosser, and the fourth the program that links its message
\* bases: never are two of them running.
LEMMA NextOneMbfido == IInv /\ OneMbfido /\ [Next]_vars => OneMbfido'
<1> SUFFICES ASSUME IInv, OneMbfido, [Next]_vars,
                    NEW r \in Mbfido, NEW s \in Mbfido, step'[r] # 0, step'[s] # 0
             PROVE  r = s
  BY DEF OneMbfido
<1>0. Mbfido \subseteq Requests
  BY RequestNames DEF Mbfido
<1>1. ASSUME NEW x \in Mbfido, NEW y \in Mbfido, step'[x] # 0, step'[y] # 0, step[x] = 0
      PROVE  x = y
  <2>1. PICK k \in DOMAIN Order : Ready(x) /\ step' = [Left EXCEPT ![x] = 1]
    BY <1>0, <1>1, Begins
  <2>2. \A z \in Mbfido : step[z] = 0
    <3>1. CASE MbfidoFree
      BY <3>1 DEF MbfidoFree, Running
    <3>2. CASE Idle
      BY <1>0, <3>2, NothingRuns DEF Idle
    <3> QED
      BY <2>1, <3>1, <3>2 DEF Ready
  <2>3. Left[y] = 0
    BY <1>0, <2>2 DEF Left
  <2> QED
    BY <1>0, <1>1, <2>1, <2>3, TypeFacts DEF IInv, StepType
<1>2. CASE step[r] = 0
  BY <1>1, <1>2
<1>3. CASE step[s] = 0
  BY <1>1, <1>3
<1>4. CASE step[r] # 0 /\ step[s] # 0
  BY <1>4 DEF OneMbfido
<1> QED
  BY <1>2, <1>3, <1>4

\* One program that works on the message bases at a time, whatever is asked for and
\* whenever programs end (mbtask.c:1347-1393).
THEOREM OneTosser == Spec => []OneMbfido
<1>1. Init => OneMbfido
  BY RequestNames DEF Init, OneMbfido, Mbfido
<1> QED
  BY <1>1, NextOneMbfido, IInvariance, PTL DEF Spec

\* The nodelist compiler, the linker and the request index begin only when nothing else
\* runs, although the count they look at is as old as the last check (mbtask.c:1389).
THEOREM StartedAlone == Spec => Alone
<1> DEFINE Quiet(r) == step[r] # 1 /\ step'[r] = 1
                       => (\A w \in Ways : calls[w].runs = 0) /\ \A s \in Requests : step[s] \in {0, EndOf(s)}
<1>1. ASSUME IInv, [Next]_vars, NEW r \in {"mbindex", "msglink", "reqindex"} PROVE Quiet(r)
  <2> SUFFICES ASSUME step[r] # 1, step'[r] = 1 
               PROVE  (\A w \in Ways : calls[w].runs = 0) /\ \A s \in Requests : step[s] \in {0, EndOf(s)}
    OBVIOUS
  <2>1. Ready(r) /\ r \in Requests
    BY <1>1, RequestNames, Begins
  <2>2. running = 0
    BY <2>1 DEF Ready, Idle
  <2> QED
    BY <1>1, <2>2, NothingRuns
<1>2. IInv /\ [Next]_vars => [\A r \in {"mbindex", "msglink", "reqindex"} : Quiet(r)]_vars
  BY <1>1
<1> QED
  BY <1>2, IInvariance, PTL DEF Spec, Alone

--------------------------------------------------------------------------------
(* Mail packets, where the table has room for mbfido. *)

\* One more task than the calls and one other program: when mbfido may be started, the
\* programs beside it are the nodelist compiler or the request index, not both.
Roomy == MaxTasks > MaxCalls + 1 /\ "mailin" \notin MayFail

CallsInLimit == calls["modem"].runs + calls["inet"].runs <= MaxCalls
OneIndexer == step["mbindex"] = 0 \/ step["reqindex"] = 0

Waits == "mailin" \in sem \/ step["mailin"] \in 1 .. 4
Packets == "packet" \in work => "packet" \in untold \/ Waits

\* It is mbfido for inbound mail that looks at packets, in its fourth step.
LEMMA PacketMeaning == Packets <=> PacketsExpected
<1>1. \A r \in Requests : "packet" \in Items(r) <=> r = "mailin"
  BY RequestNames DEF Items
<1>2. \A k \in DOMAIN Steps("mailin") : Steps("mailin")[k] = "packet" <=> k = 4
  <2>1. DOMAIN <<"remove", "tic", "remove", "packet">> = 1 .. 4
    OBVIOUS
  <2> QED
    BY <2>1, MailinSteps
<1>3. 4 \in DOMAIN Steps("mailin") /\ "mailin" \in Requests
  BY RequestNames, MailinSteps
<1>4. (\E k \in DOMAIN Steps("mailin") : step["mailin"] \in 1 .. k /\ Steps("mailin")[k] = "packet")
        <=> step["mailin"] \in 1 .. 4
  BY <1>2, <1>3
<1>5. Expected("packet") <=> Waits
  BY <1>1, <1>3, <1>4 DEF Expected, Waits
<1> QED
  BY <1>5 DEF Packets, PacketsExpected, WillBeDone

PacketInv == IInv /\ OneMbfido /\ CallsInLimit /\ OneIndexer /\ Packets

\* mbfido is not refused.
LEMMA RoomForMbfido ==
  ASSUME Roomy, PacketInv, MbfidoFree
  PROVE  Room
<1>1. PICK x \in {"mbindex", "reqindex"} : \A r \in Requests \ {x} : step[r] = 0
  BY RequestNames DEF MbfidoFree, Running, Mbfido, PacketInv, OneIndexer
<1>2. Started(Left) \in SUBSET {x}
  BY <1>1 DEF Started, Left
<1>3. Cardinality(Started(Left)) <= 1 /\ Cardinality(Started(Left)) \in Nat
  <2>1. IsFiniteSet({x}) /\ Cardinality({x}) = 1
    BY FS_Singleton
  <2>2. Cardinality(Started(Left)) <= Cardinality({x})
    BY <1>2, <2>1, FS_Subset
  <2> QED
    BY <2>1, <2>2, StartedType
<1> DEFINE a == calls["modem"].runs
           b == calls["inet"].runs
           n == Cardinality(Started(Left))
<1>4. Count(Left, CallsLeft) = a + b + 0 + 0 + n
  BY TypeFacts DEF PacketInv, IInv, CallsLeft, CallType, Ways, Count
<1>5. a \in Nat /\ b \in Nat
  BY TypeFacts DEF PacketInv, IInv, CallType, Ways
<1>6. a + b <= MaxCalls
  BY DEF PacketInv, CallsInLimit
<1> HIDE DEF a, b, n
<1>7. n <= 1 /\ n \in Nat
  BY <1>3 DEF n
<1>8. a + b + 0 + 0 + n < MaxTasks
  BY <1>5, <1>6, <1>7, BoundsAssumption DEF Roomy
<1> QED
  BY <1>4, <1>8 DEF Room

LEMMA NextCallsInLimit == ASSUME IInv, CallsInLimit, [Next]_vars PROVE CallsInLimit'
<1> DEFINE Kept(c) == c["modem"].runs <= calls["modem"].runs /\ c["inet"].runs <= calls["inet"].runs
<1>0. /\ calls["modem"] \in [runs : Nat, ended : Nat] /\ calls["inet"] \in [runs : Nat, ended : Nat]
      /\ calls \in CallType
  BY TypeFacts DEF IInv, CallType, Ways
<1>1. CallsLeft \in CallType /\ CallsLeft["modem"].runs = calls["modem"].runs /\ CallsLeft["inet"].runs = calls["inet"].runs
  BY <1>0, TypeFacts DEF IInv, CallsLeft, Ways
<1>2. ASSUME calls' \in {calls, CallsLeft} PROVE CallsInLimit'
  BY <1>1, <1>2 DEF CallsInLimit
<1>3. CASE Begin \/ (\E k \in DOMAIN Order : Serve(k))
  BY <1>2, <1>3 DEF Begin, Serve, CheckTasks, NotLaunched, Launched
<1>4. CASE Finish
  <2>1. CASE UNCHANGED <<ptimer, running, tasks>> \/ NotLaunched(MayFail # {})
    BY <1>2, <2>1 DEF NotLaunched, CheckTasks, tasks
  <2>2. ASSUME NEW w \in Ways, Launched(Left, [CallsLeft EXCEPT ![w].runs = @ + 1]),
               CallsLeft["modem"].runs + CallsLeft["inet"].runs < MaxCalls
        PROVE  CallsInLimit'
    <3> DEFINE a == CallsLeft["modem"].runs
               b == CallsLeft["inet"].runs
    <3>1. a \in Nat /\ b \in Nat
      BY <1>0, <1>1
    <3>2. \/ calls'["modem"].runs = a + 1 /\ calls'["inet"].runs = b
          \/ calls'["modem"].runs = a /\ calls'["inet"].runs = b + 1
      BY <1>1, <2>2 DEF Launched, CallType, Ways
    <3>3. a + b < MaxCalls
      BY <2>2
    <3> HIDE DEF a, b
    <3> QED
      BY <3>1, <3>2, <3>3, BoundsAssumption DEF CallsInLimit
  <2> QED
    BY <1>4, <2>1, <2>2 DEF Finish
<1>5. ASSUME NEW w \in Ways, CallEnds(w) PROVE CallsInLimit'
  <2> DEFINE a == calls["modem"].runs
             b == calls["inet"].runs
  <2>1. a \in Nat /\ b \in Nat
    BY <1>0
  <2>2. \/ calls'["modem"].runs = a - 1 /\ calls'["inet"].runs = b
        \/ calls'["modem"].runs = a /\ calls'["inet"].runs = b - 1
    BY <1>0, <1>5 DEF CallEnds, CallType, Ways
  <2>3. a + b <= MaxCalls
    BY DEF CallsInLimit
  <2> HIDE DEF a, b
  <2> QED
    BY <2>1, <2>2, <2>3, BoundsAssumption DEF CallsInLimit
<1>6. CASE (\E r \in Requests : Program(r) \/ Fail(r)) \/ UNCHANGED vars
  BY <1>2, <1>6 DEF Program, DoWork, RemoveSema, Fail, vars, tasks
<1>7. CASE (\E r \in Asked : SemSet(r) \/ \E item \in Items(r) : LeaveWork(item)) \/ Minute \/ Session
  BY <1>2, <1>7 DEF SemSet, LeaveWork, Minute, Session, tasks
<1> QED
  BY <1>3, <1>4, <1>5, <1>6, <1>7 DEF Next, Pass

\* Each of the two begins only when nothing runs, the other included.
LEMMA NextOneIndexer == ASSUME IInv, OneIndexer, [Next]_vars PROVE OneIndexer'
<1> SUFFICES ASSUME step'["mbindex"] # 0, step'["reqindex"] # 0 PROVE FALSE
  BY DEF OneIndexer
<1>1. ASSUME NEW x \in {"mbindex", "reqindex"}, step[x] = 0 PROVE FALSE
  <2>1. Ready(x) /\ step' = [Left EXCEPT ![x] = 1]
    BY <1>1, RequestNames, Begins
  <2>2. \A r \in Requests : step[r] = 0
    BY <2>1, NothingRuns DEF Ready, Idle
  <2>3. \A r \in Requests \ {x} : step'[r] = 0
    BY <2>1, <2>2, TypeFacts DEF IInv, Left, StepType
  <2> QED
    BY <2>3, RequestNames
<1> QED
  BY <1>1 DEF OneIndexer

\* What is left to do about packets stays asked for.
LEMMA NextPackets == ASSUME Roomy, PacketInv, [Next]_vars PROVE Packets'
<1>0. step \in StepType /\ Left \in StepType /\ "mailin" \in Requests /\ EndOf("mailin") = 5
  BY TypeFacts, RequestNames, StepNumbers DEF PacketInv, IInv
<1>1. ASSUME Left["mailin"] = step'["mailin"] \/ step["mailin"] = step'["mailin"],
             sem \subseteq sem' \/ "mailin" \notin sem \/ "mailin" \in sem',
             work' \subseteq work, untold' = untold
      PROVE  Packets'
  <2>1. step["mailin"] \in 1 .. 4 => step'["mailin"] \in 1 .. 4
    BY <1>0, <1>1 DEF Left
  <2> QED
    BY <1>1, <2>1 DEF PacketInv, Packets, Waits
<1>2. CASE Begin
  BY <1>1, <1>2 DEF Begin, CheckTasks
<1>3. ASSUME NEW k \in DOMAIN Order, Serve(k) PROVE Packets'
  <2>1. CASE Order[k] = "mailin"
    <3>1. Room
      BY <1>3, <2>1, RoomForMbfido DEF Serve, Ahead, Ready
    <3>2. step' = [Left EXCEPT !["mailin"] = 1]
      BY <1>3, <2>1, <3>1 DEF Serve, NotLaunched, Launched, Roomy
    <3>3. step'["mailin"] \in 1 .. 4
      BY <1>0, <3>2 DEF StepType
    <3> QED
      BY <3>3 DEF Packets, Waits
  <2>2. CASE Order[k] # "mailin"
    <3>1. step'["mailin"] = Left["mailin"]
      <4>1. step' = Left \/ step' = [Left EXCEPT ![Order[k]] = 1]
        BY <1>3 DEF Serve, NotLaunched, CheckTasks, Launched
      <4> QED
        BY <1>0, <2>2, <4>1 DEF StepType
    <3>2. "mailin" \in sem => "mailin" \in sem'
      BY <1>3, <2>2 DEF Serve
    <3>3. work' = work /\ untold' = untold
      BY <1>3 DEF Serve
    <3> QED
      BY <1>1, <3>1, <3>2, <3>3
  <2> QED
    BY <2>1, <2>2
<1>4. CASE Finish
  <2>1. step' \in {step, Left} /\ sem' = sem /\ work' = work /\ untold' = untold
    BY <1>4 DEF Finish, NotLaunched, CheckTasks, Launched, tasks
  <2> QED
    BY <1>1, <2>1
<1>5. ASSUME NEW r \in Asked, SemSet(r) PROVE Packets'
  <2>1. CASE r = "mailin"
    BY <1>5, <2>1 DEF SemSet, Packets, Waits
  <2>2. CASE r # "mailin"
    <3>1. "packet" \notin Items(r)
      BY <2>2, RequestNames, BoundsAssumption DEF Items
    <3> QED
      BY <1>5, <3>1 DEF SemSet, PacketInv, Packets, Waits, tasks
  <2> QED
    BY <2>1, <2>2
<1>6. ASSUME NEW r \in Asked, NEW item \in Items(r), LeaveWork(item) PROVE Packets'
  BY <1>6 DEF LeaveWork, PacketInv, Packets, Waits, tasks
<1>7. CASE Minute \/ Session
  BY <1>1, <1>7 DEF Minute, Session, tasks
<1>8. ASSUME NEW w \in Ways, CallEnds(w) PROVE Packets'
  BY <1>1, <1>8 DEF CallEnds
<1>9. ASSUME NEW r \in Requests \ {"mailin"}, Program(r) PROVE Packets'
  <2>1. step'["mailin"] = step["mailin"]
    BY <1>0, <1>9 DEF Program, DoWork, RemoveSema, Go, StepType
  <2>2. "mailin" \in sem => "mailin" \in sem'
    BY <1>9 DEF Program, DoWork, RemoveSema
  <2>3. work' \subseteq work /\ untold' = untold
    BY <1>9 DEF Program, DoWork, RemoveSema
  <2> QED
    BY <1>1, <2>1, <2>2, <2>3
<1>10. CASE Program("mailin")
  <2>1. step["mailin"] \in 1 .. 4
    BY <1>0, <1>10, StepNumbers DEF Program, DoWork, RemoveSema
  <2>2. step'["mailin"] = step["mailin"] + 1
    BY <1>0, <1>10 DEF Program, DoWork, RemoveSema, Go, StepType
  <2>3. CASE step["mailin"] = 4
    <3>1. Steps("mailin")[4] = "packet"
      BY MailinSteps
    <3>2. work' = work \ {"packet"}
      BY <1>10, <2>3, <3>1 DEF Program, DoWork, RemoveSema
    <3> QED
      BY <3>2 DEF Packets
  <2>4. CASE step["mailin"] # 4
    BY <2>1, <2>2, <2>4 DEF Packets, Waits
  <2> QED
    BY <2>3, <2>4
<1>11. ASSUME NEW r \in Requests, Fail(r) PROVE Packets'
  <2>1. r # "mailin" /\ step' = [step EXCEPT ![r] = EndOf(r)]
    BY <1>11 DEF Fail, Roomy
  <2>2. step'["mailin"] = step["mailin"]
    BY <1>0, <2>1 DEF StepType
  <2>3. sem' = sem /\ work' = work /\ untold' = untold
    BY <1>11 DEF Fail
  <2> QED
    BY <1>1, <2>2, <2>3
<1>12. CASE UNCHANGED vars
  BY <1>1, <1>12 DEF vars, tasks
<1> QED
  BY <1>2, <1>3, <1>4, <1>5, <1>6, <1>7, <1>8, <1>9, <1>10, <1>11, <1>12 DEF Next, Pass

\* A mail packet in the inbound is never forgotten, whenever it arrives and for any
\* number of lines and sessions, as long as the table has room and fork() does not fail:
\* the semaphore is set, or will be, or mbfido has yet to look (mbfido.c:612-649).
THEOREM NoPacketForgotten == ASSUME Roomy PROVE Spec => []PacketsExpected
<1>1. Init => PacketInv
  <2>1. Init => OneMbfido /\ OneIndexer /\ Packets
    BY RequestNames DEF Init, OneMbfido, Mbfido, OneIndexer, Packets
  <2>2. Init => CallsInLimit
    BY BoundsAssumption DEF Init, CallsInLimit, NoCalls, Ways
  <2> QED
    BY <2>1, <2>2, InitIInv DEF PacketInv
<1>2. PacketInv /\ [Next]_vars => PacketInv'
  BY NextIInv, NextOneMbfido, NextCallsInLimit, NextOneIndexer, NextPackets DEF PacketInv
<1>3. PacketInv => PacketsExpected
  BY PacketMeaning DEF PacketInv
<1> QED
  BY <1>1, <1>2, <1>3, PTL DEF Spec

--------------------------------------------------------------------------------
(***************************************************************************)
(* When the scheduler looks at the outbound again (CallClock): the list of *)
(* nodes to call is what a scan would find at any moment, although a scan  *)
(* is made only when an event comes that the last one foresaw.             *)
(***************************************************************************)

\* The mail hour of every node is one whose beginning and end are entered as
\* events: that of the system itself is not, so it must be empty where it counts.
HoursForeseen ==
  \A n \in Nodes : Node[n].zone \in DOMAIN FidoZone \/ OwnHour[1] >= OwnHour[2]

Waiting == {Node[n] : n \in {m \in Nodes : Listed(outbound[m])}}

Later(nodes, now) == {e \in UNION {Events(node) : node \in nodes} : e > now}

\* The list, and the next event, are those of minute t.
Planned(t) ==
  /\ alist = Due(t)
  /\ \/ nextEvent = Midnight /\ Later(Waiting, t) = {}
     \/ nextEvent > t /\ \A e \in Later(Waiting, t) : nextEvent <= e

\* Since the last scan the list is up to date, in the last minute when what is
\* done in each has not been done yet in this one.
ListKept ==
  ~ rescan /\ ~ unannounced =>
    \/ Planned(clock)
    \/ olddo # clock /\ olddo \in 0 .. Day - 1 /\ clock = (olddo + 1) % Day /\ Planned(olddo)

LEMMA LeastMoment ==
  ASSUME NEW T \in SUBSET Nat, T # {}
  PROVE  \E x \in T : \A y \in T : x <= y
<1>1. PICK x \in T : \A y \in T : ~ (<<y, x>> \in OpToRel(<, Nat))
  BY WFMin, NatLessThanWellFounded, Zenon
<1>2. ASSUME NEW y \in T, y < x
      PROVE  FALSE
  <2>1. <<y, x>> \in OpToRel(<, Nat)
    BY <1>2 DEF OpToRel
  <2> QED
    BY <1>1, <2>1
<1> QED
  BY <1>2

\* The ends of a node's windows, and of its mail hour.
LEMMA EventKinds ==
  ASSUME NEW node, NEW e
  PROVE  e \in Events(node) <=>
           \/ \E window \in node.windows : e = window[1] \/ e = window[2]
           \/ /\ node.zone \in DOMAIN FidoZone
              /\ e = FidoZone[node.zone][1] \/ e = FidoZone[node.zone][2]
<1>1. e \in UNION {Ends(window) : window \in node.windows}
        <=> \E window \in node.windows : e \in Ends(window)
  OBVIOUS
<1>2. e \in Events(node)
        <=> \/ e \in UNION {Ends(window) : window \in node.windows}
            \/ node.zone \in DOMAIN FidoZone /\ e \in Ends(FidoZone[node.zone])
  <2> DEFINE windows == UNION {Ends(window) : window \in node.windows}
         hours == IF node.zone \in DOMAIN FidoZone THEN Ends(FidoZone[node.zone]) ELSE {}
  <2>1. Events(node) = windows \cup hours
    BY DEF Events
  <2>2. e \in hours <=> node.zone \in DOMAIN FidoZone /\ e \in Ends(FidoZone[node.zone])
    OBVIOUS
  <2> HIDE DEF windows, hours
  <2>3. e \in Events(node) <=> e \in windows \/ e \in hours
    BY <2>1
  <2> QED
    BY <2>2, <2>3 DEF windows
<1>3. \A window : e \in Ends(window) <=> e = window[1] \/ e = window[2]
  BY DEF Ends
<1> QED
  BY <1>1, <1>2, <1>3

LEMMA EventTimes ==
  ASSUME NEW n \in Nodes
  PROVE  Events(Node[n]) \subseteq 0 .. Day - 1
<1>1. Node[n] \in NodeRecord
  BY NodeAssumption
<1>2. \A window \in Node[n].windows : window[1] \in 0 .. Day - 1 /\ window[2] \in 0 .. Day - 1
  BY <1>1 DEF NodeRecord
<1> QED
  BY <1>2, EventKinds, HoursAssumption

LEMMA LaterTimes ==
  ASSUME NEW t
  PROVE  /\ Later(Waiting, t) \subseteq 0 .. Day - 1
         /\ \A e : e \in Later(Waiting, t) <=>
              e > t /\ \E n \in Nodes : Listed(outbound[n]) /\ e \in Events(Node[n])
<1>1. \A e : e \in UNION {Events(node) : node \in Waiting}
              <=> \E n \in Nodes : Listed(outbound[n]) /\ e \in Events(Node[n])
  BY DEF Waiting
<1> QED
  BY <1>1, EventTimes DEF Later

\* set_next() finds the first event.
LEMMA NextIsFirst ==
  ASSUME NEW t \in 0 .. Day - 1
  PROVE  LET e == NextEvent(Waiting, t) IN
         /\ e \in 0 .. Day - 1
         /\ \/ e = Midnight /\ Later(Waiting, t) = {}
            \/ e > t /\ \A other \in Later(Waiting, t) : e <= other
<1>1. Later(Waiting, t) \subseteq 0 .. Day - 1
  BY LaterTimes
<1>2. NextEvent(Waiting, t) =
        IF Later(Waiting, t) = {} THEN Midnight
        ELSE CHOOSE e \in Later(Waiting, t) : \A other \in Later(Waiting, t) : e <= other
  BY DEF NextEvent, Later
<1>3. CASE Later(Waiting, t) = {}
  BY <1>2, <1>3, DayAssumption DEF Midnight
<1>4. CASE Later(Waiting, t) # {}
  <2>1. Later(Waiting, t) \in SUBSET Nat
    BY <1>1, DayAssumption
  <2>2. \E e \in Later(Waiting, t) : \A other \in Later(Waiting, t) : e <= other
    BY <1>4, <2>1, LeastMoment
  <2>3. /\ NextEvent(Waiting, t) \in Later(Waiting, t)
        /\ \A other \in Later(Waiting, t) : NextEvent(Waiting, t) <= other
    BY <1>2, <1>4, <2>2
  <2>4. NextEvent(Waiting, t) > t
    BY <2>3 DEF Later
  <2> QED
    BY <1>1, <2>3, <2>4
<1> QED
  BY <1>3, <1>4

\* Whether a node is to be called changes only at one of its events.
LEMMA DueSteady ==
  ASSUME HoursForeseen, NEW n \in Nodes, NEW t \in 0 .. Day - 1, t + 1 < Day,
         Listed(outbound[n]) => t + 1 \notin Events(Node[n])
  PROVE  n \in Due(t) <=> n \in Due(t + 1)
<1> DEFINE node == Node[n]
           flags == Flags(outbound[n])
<1>1. node \in NodeRecord /\ node.windows \subseteq (0 .. Day - 1) \X (0 .. Day - 1)
  BY NodeAssumption DEF NodeRecord
<1>2. CASE ~ Listed(outbound[n])
  BY <1>2 DEF Listed, Due, MustCall, Wanted
<1>3. CASE Listed(outbound[n])
  <2>1. \A window \in node.windows : InWindow(window, t) <=> InWindow(window, t + 1)
    <3> SUFFICES ASSUME NEW window \in node.windows
                 PROVE  InWindow(window, t) <=> InWindow(window, t + 1)
      OBVIOUS
    <3>1. window[1] \in Int /\ window[2] \in Int
      BY <1>1, DayAssumption
    <3>2. window[1] \in Events(node) /\ window[2] \in Events(node)
      BY EventKinds
    <3>3. window[1] # t + 1 /\ window[2] # t + 1
      BY <1>3, <3>2
    <3> QED
      BY <3>1, <3>3, DayAssumption DEF InWindow
  <2>2. TWindow(node, t) <=> TWindow(node, t + 1)
    BY <2>1 DEF TWindow
  <2>3. ZoneMailHour(node, t) <=> ZoneMailHour(node, t + 1)
    <3>1. CASE node.zone \in DOMAIN FidoZone
      <4> DEFINE hour == FidoZone[node.zone]
      <4>1. hour[1] \in Int /\ hour[2] \in Int
        BY <3>1, HoursAssumption, DayAssumption
      <4>2. hour[1] \in Events(node) /\ hour[2] \in Events(node)
        BY <3>1, EventKinds
      <4>3. hour[1] # t + 1 /\ hour[2] # t + 1
        BY <1>3, <4>2
      <4> QED
        BY <3>1, <4>1, <4>3, DayAssumption DEF ZoneMailHour
    <3>2. CASE node.zone \notin DOMAIN FidoZone
      <4>1. OwnHour[1] \in Int /\ OwnHour[2] \in Int /\ OwnHour[1] >= OwnHour[2]
        BY <3>2, HoursAssumption, DayAssumption DEF HoursForeseen
      <4> QED
        BY <3>2, <4>1, DayAssumption DEF ZoneMailHour
    <3> QED
      BY <3>1, <3>2
  <2>4. Wanted(node, flags, t) <=> Wanted(node, flags, t + 1)
    BY <2>2, <2>3 DEF Wanted, Reachable
  <2> QED
    BY <2>4 DEF Due, MustCall
<1> QED
  BY <1>2, <1>3

\* A minute that is not the next event changes nothing.
LEMMA MinutePasses ==
  ASSUME HoursForeseen, ClockTypeOK, NEW t \in 0 .. Day - 1, Planned(t),
         clock = (t + 1) % Day, clock # nextEvent
  PROVE  Planned(clock)
<1>1. Later(Waiting, t) \subseteq 0 .. Day - 1
  BY LaterTimes
<1>2. nextEvent \in 0 .. Day - 1 /\ clock \in 0 .. Day - 1
  BY DEF ClockTypeOK
<1>3. t + 1 < Day /\ clock = t + 1
  <2>1. CASE t + 1 < Day
    BY <2>1, DayAssumption
  <2>2. CASE t + 1 = Day
    <3>1. clock = 0
      BY <2>2, DayAssumption
    <3> QED
      BY <1>2, <2>2, <3>1 DEF Planned, Midnight
  <2> QED
    BY <2>1, <2>2, DayAssumption
<1>4. clock \notin Later(Waiting, t)
  BY <1>1, <1>2, <1>3 DEF Planned
<1>5. \A n \in Nodes : Listed(outbound[n]) => t + 1 \notin Events(Node[n])
  BY <1>3, <1>4, LaterTimes, DayAssumption
<1>6. Due(clock) = Due(t)
  <2>1. \A n \in Nodes : n \in Due(t) <=> n \in Due(t + 1)
    BY <1>3, <1>5, DueSteady
  <2> QED
    BY <1>3, <2>1 DEF Due
<1>7. Later(Waiting, clock) \subseteq Later(Waiting, t)
  <2> SUFFICES ASSUME NEW e \in Later(Waiting, clock) PROVE e \in Later(Waiting, t)
    OBVIOUS
  <2>1. e \in 0 .. Day - 1
    BY LaterTimes
  <2> QED
    BY <1>3, <2>1, LaterTimes, DayAssumption
<1>8. nextEvent > t => nextEvent > clock
  BY <1>2, <1>3
<1> QED
  BY <1>6, <1>7, <1>8 DEF Planned

\* The clock, the next event, the list and the outbound stay in their types; a moment
\* foreseen (set_next(), outstat.c:113) is always one of the day.
THEOREM ClockTypes == ClockSpec => []ClockTypeOK
<1>1. ClockInit => ClockTypeOK
  <2> SUFFICES ASSUME ClockInit PROVE ClockTypeOK
    OBVIOUS
  <2>1. outbound \in [Nodes -> {{}}] /\ \A n \in Nodes : outbound[n] = {}
    BY DEF ClockInit
  <2>2. outbound \in [Nodes -> SUBSET UNION {Files[n] : n \in Nodes}]
    <3>1. {} \in SUBSET UNION {Files[n] : n \in Nodes}
      OBVIOUS
    <3> QED
      BY <2>1, <3>1
  <2> QED
    <3>1. /\ clock \in 0 .. Day - 1 /\ olddo \in 0 .. Day /\ nextEvent \in 0 .. Day - 1
          /\ rescan \in BOOLEAN /\ alist \subseteq Nodes /\ unannounced \in BOOLEAN
          /\ processing \in BOOLEAN
      <4>1. rescan = TRUE /\ unannounced = FALSE /\ processing \in BOOLEAN
        BY DEF ClockInit
      <4>2. rescan \in BOOLEAN /\ unannounced \in BOOLEAN /\ processing \in BOOLEAN
        BY <4>1, Zenon
      <4> QED
        BY <4>2, DayAssumption DEF ClockInit
    <3>2. \A n \in Nodes : outbound[n] \subseteq Files[n]
      BY <2>1
    <3> QED
      BY <2>2, <3>1, <3>2 DEF ClockTypeOK
<1>2. ClockTypeOK /\ [ClockNext]_clockVars => ClockTypeOK'
  <2> SUFFICES ASSUME ClockTypeOK, [ClockNext]_clockVars PROVE ClockTypeOK'
    OBVIOUS
  <2> USE DayAssumption DEF ClockTypeOK
  <2>1. CASE Tick
    BY <2>1 DEF Tick
  <2>2. CASE EachMinute
    BY <2>2 DEF EachMinute
  <2>3. CASE ScanOutbound
    <3>1. nextEvent' \in 0 .. Day - 1
      BY <2>3, NextIsFirst DEF ScanOutbound, Waiting
    <3> QED
      BY <2>3, <3>1 DEF ScanOutbound, Due
  <2>4. CASE Suspend \/ Announce
    BY <2>4 DEF Suspend, Announce
  <2>5. ASSUME NEW n \in Nodes, TakeFiles(n) \/ \E name \in Files[n] : AddFile(n, name)
        PROVE  ClockTypeOK'
    <3>1. PICK names : names \subseteq Files[n] /\ outbound' = [outbound EXCEPT ![n] = names]
      BY <2>5 DEF TakeFiles, AddFile
    <3>2. names \in SUBSET UNION {Files[m] : m \in Nodes}
      BY <3>1
    <3>3. outbound' \in [Nodes -> SUBSET UNION {Files[m] : m \in Nodes}]
      BY <3>1, <3>2
    <3>4. \A m \in Nodes : outbound'[m] \subseteq Files[m]
      BY <3>1
    <3> QED
      BY <2>5, <3>3, <3>4 DEF TakeFiles, AddFile
  <2>6. CASE UNCHANGED clockVars
    BY <2>6 DEF clockVars
  <2> QED
    BY <2>1, <2>2, <2>3, <2>4, <2>5, <2>6 DEF ClockNext
<1> QED
  BY <1>1, <1>2, PTL DEF ClockSpec

LEMMA NextListKept ==
  ASSUME HoursForeseen, ClockTypeOK, ListKept, [ClockNext]_clockVars
  PROVE  ListKept'
<1>3. CASE Tick
  <2>1. ~ rescan' /\ ~ unannounced' => Planned(clock)
    BY <1>3 DEF Tick, ListKept
  <2> QED
    BY <1>3, <2>1, DayAssumption DEF Tick, ListKept, ClockTypeOK, Planned, Waiting, Due
<1>4. CASE EachMinute
  <2> SUFFICES ASSUME ~ rescan', ~ unannounced' PROVE Planned(clock)'
    BY DEF ListKept
  <2>1. ~ rescan /\ ~ unannounced /\ clock # nextEvent
    BY <1>4 DEF EachMinute
  <2>2. Planned(clock)
    BY <2>1, MinutePasses DEF ListKept
  <2> QED
    BY <1>4, <2>2 DEF EachMinute, Planned, Waiting, Due
<1>5. CASE ScanOutbound
  <2>1. clock \in 0 .. Day - 1
    BY DEF ClockTypeOK
  <2>2. Planned(clock)'
    BY <1>5, <2>1, NextIsFirst DEF ScanOutbound, Planned, Waiting, Due, Later
  <2> QED
    BY <2>2 DEF ListKept
<1>6. CASE Suspend
  BY <1>6 DEF Suspend, ListKept, Planned, Waiting, Due
<1>7. CASE Announce \/ \E n \in Nodes : TakeFiles(n) \/ \E name \in Files[n] : AddFile(n, name)
  BY <1>7 DEF Announce, TakeFiles, AddFile, ListKept
<1>8. CASE UNCHANGED clockVars
  BY <1>8 DEF clockVars, ListKept, Planned, Waiting, Due
<1> QED
  BY <1>3, <1>4, <1>5, <1>6, <1>7, <1>8 DEF ClockNext

\* While no scan is due the list is that of a scan made now, for any nodes, mail
\* hours, windows and length of the day, however long ago the last scan was.
THEOREM ListIsCurrent == ASSUME HoursForeseen PROVE ClockSpec => []PlanCurrent
<1>1. ClockInit => ListKept
  BY DEF ClockInit, ListKept
<1>2. ClockTypeOK /\ ListKept /\ [ClockNext]_clockVars => ListKept'
  BY NextListKept
<1>3. ListKept => PlanCurrent
  BY DEF ListKept, Planned, PlanCurrent
<1> QED
  BY <1>1, <1>2, <1>3, ClockTypes, PTL DEF ClockSpec
================================================================================
