---------------------------- MODULE DirLockProofs ----------------------------
(***************************************************************************)
(* The directory lock is a mutex, for any number of processes, as long as  *)
(* no owner goes away while others look at its lock; and it is a mutex     *)
(* even then when no more than two processes ever compete.                 *)
(***************************************************************************)
EXTENDS DirLock, TLAPS

\* The two situations in which the removal of a stale lock is harmless: no
\* lock is ever stale, or there is nobody else whose lock could be removed.
Harmless ==
  \/ Leavers = {}
  \/ \A a, b, c \in Procs : a = b \/ a = c \/ b = c

\* A process that is about to remove a lock has seen its owner dead.
SeenDead ==
  \A p \in Procs :
    /\ pc[p] = "kill" => oldpid[p] \in Procs
    /\ pc[p] = "unlink" => oldpid[p] \in Procs /\ pc[oldpid[p]] = "dead"

OnlyLeaversDie == \A p \in Procs : pc[p] = "dead" => p \in Leavers

IInv == TypeOK /\ SeenDead /\ OnlyLeaversDie /\ LockNamesHolder

USE DEF States, Inside, Holders

LEMMA InitIInv == Init => IInv
BY NoFileAssumption DEF Init, IInv, TypeOK, SeenDead, OnlyLeaversDie, LockNamesHolder

\* The removal of a stale lock takes it from nobody.
LEMMA RemovalHarmless ==
  ASSUME IInv, Harmless, NEW p \in Procs, pc[p] = "unlink"
  PROVE  Holders = {}
<1>1. oldpid[p] \in Procs /\ pc[oldpid[p]] = "dead" /\ oldpid[p] # p
  BY DEF IInv, SeenDead
<1>2. oldpid[p] \in Leavers
  BY <1>1 DEF IInv, OnlyLeaversDie
<1>3. \A q \in Procs : q = p \/ q = oldpid[p]
  BY <1>1, <1>2 DEF Harmless
<1> QED
  BY <1>1, <1>3

LEMMA NextIInv == Harmless /\ IInv /\ [Next]_vars => IInv'
<1> SUFFICES ASSUME Harmless, IInv, [Next]_vars PROVE IInv'
  OBVIOUS
<1> USE NoFileAssumption DEF IInv, TypeOK, SeenDead, OnlyLeaversDie, LockNamesHolder, Goto
<1>1. ASSUME NEW p \in Procs, Start(p) PROVE IInv'
  BY <1>1 DEF Start
<1>2. ASSUME NEW p \in Procs, Link(p) PROVE IInv'
  BY <1>2 DEF Link
<1>3. ASSUME NEW p \in Procs, ReadLock(p) PROVE IInv'
  BY <1>3 DEF ReadLock
<1>4. ASSUME NEW p \in Procs, Probe(p) PROVE IInv'
  BY <1>4 DEF Probe, OwnerGone
<1>5. ASSUME NEW p \in Procs, UnlinkStale(p) PROVE IInv'
  <2>1. Holders = {}
    BY <1>5, RemovalHarmless DEF UnlinkStale
  <2> QED
    BY <1>5, <2>1 DEF UnlinkStale
<1>6. ASSUME NEW p \in Procs, ReadOwn(p) PROVE IInv'
  BY <1>6 DEF ReadOwn
<1>7. ASSUME NEW p \in Procs, Unlock(p) PROVE IInv'
  BY <1>7 DEF Unlock
<1>8. ASSUME NEW p \in Procs, Die(p) PROVE IInv'
  BY <1>8 DEF Die
<1>9. CASE UNCHANGED vars
  BY <1>9 DEF vars
<1> QED
  BY <1>1, <1>2, <1>3, <1>4, <1>5, <1>6, <1>7, <1>8, <1>9 DEF Next, Lock, Ulock

LEMMA Invariance == ASSUME Harmless PROVE Spec => []IInv
<1>1. IInv /\ [Next]_vars => IInv'
  BY NextIInv
<1> QED
  BY <1>1, InitIInv, PTL DEF Spec

\* Every variable keeps its type, whoever dies.
THEOREM TypeCorrect == Spec => []TypeOK
<1>1. Init => TypeOK
  BY DEF Init, TypeOK
<1>2. TypeOK /\ [Next]_vars => TypeOK'
  BY DEF TypeOK, Next, vars, Lock, Ulock, Start, Link, ReadLock, Probe, OwnerGone,
         UnlinkStale, ReadOwn, Unlock, Die, Goto
<1> QED
  BY <1>1, <1>2, PTL DEF Spec

\* At most one process works in the directory, for any set of processes.
THEOREM Mutual == ASSUME Harmless PROVE Spec => []MutualExclusion
<1>1. IInv => MutualExclusion
  BY DEF IInv, LockNamesHolder, MutualExclusion
<1> QED
  BY <1>1, Invariance, PTL
==============================================================================
