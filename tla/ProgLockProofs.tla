---------------------------- MODULE ProgLockProofs ----------------------------
(***************************************************************************)
(* What the program lock guarantees for any number of processes, although  *)
(* they share the temporary file: when nobody is killed, no lock is left   *)
(* behind for good, and two of them exclude each other.                    *)
(***************************************************************************)
EXTENDS ProgLock, TLAPS

USE DEF States, Inside, Holders

LEMMA TypeStep == TypeOK /\ [Next]_vars => TypeOK'
<1> SUFFICES ASSUME TypeOK, [Next]_vars PROVE TypeOK'
  OBVIOUS
<1> USE DEF TypeOK, Goto, Ended
<1>1. ASSUME NEW p \in Procs, OpenTemp(p) \/ WriteTemp(p) PROVE TypeOK'
  BY <1>1 DEF OpenTemp, WriteTemp
<1>2. ASSUME NEW p \in Procs, Link(p) \/ DropTemp(p) \/ UnlinkStale(p) PROVE TypeOK'
  BY <1>2 DEF Link, DropTemp, UnlinkStale
<1>3. ASSUME NEW p \in Procs, ReadLock(p) \/ Probe(p) PROVE TypeOK'
  BY <1>3 DEF ReadLock, LockPid, Probe, OwnerGone
<1>4. ASSUME NEW p \in Procs, Ulock(p) \/ Kill(p) PROVE TypeOK'
  BY <1>4 DEF Ulock, OpenLock, Unlock, Kill
<1>5. CASE AllGone \/ UNCHANGED vars
  BY <1>5 DEF AllGone, vars
<1> QED
  BY <1>1, <1>2, <1>3, <1>4, <1>5 DEF Next, Lock

\* Every variable keeps its type, for any set of processes (proglock.c).
THEOREM TypeCorrect == Spec => []TypeOK
<1>1. Init => TypeOK
  BY DEF Init, TypeOK
<1> QED
  BY <1>1, TypeStep, PTL DEF Spec

\* Whichever process has linked the lock, and whatever pid is in it by now,
\* somebody is there who will remove it, or was killed.
LockHeld == lockfile # None => \E p \in Procs : pc[p] \in Inside \cup {"killed"}

\* The program can be started again when nobody was killed (ulockprogram()).
THEOREM LockReturned == Spec => []NoLockLeft
<1>1. Init => TypeOK /\ LockHeld
  BY DEF Init, TypeOK, LockHeld
<1>2. TypeOK /\ LockHeld /\ [Next]_vars => LockHeld'
  <2> SUFFICES ASSUME TypeOK, LockHeld, [Next]_vars PROVE LockHeld'
    OBVIOUS
  <2> USE DEF TypeOK, LockHeld, Goto
  <2>1. ASSUME NEW p \in Procs, OpenTemp(p) \/ WriteTemp(p) \/ ReadLock(p) \/ Probe(p)
        PROVE  LockHeld'
    BY <2>1 DEF OpenTemp, WriteTemp, ReadLock, Probe
  <2>2. ASSUME NEW p \in Procs, Link(p) PROVE LockHeld'
    BY <2>2 DEF Link
  <2>3. ASSUME NEW p \in Procs, DropTemp(p) PROVE LockHeld'
    BY <2>3 DEF DropTemp
  <2>4. ASSUME NEW p \in Procs, UnlinkStale(p) \/ Unlock(p) PROVE LockHeld'
    BY <2>4 DEF UnlinkStale, Unlock
  <2>5. ASSUME NEW p \in Procs, OpenLock(p) PROVE LockHeld'
    BY <2>5 DEF OpenLock
  <2>6. ASSUME NEW p \in Procs, Kill(p) PROVE LockHeld'
    BY <2>6 DEF Kill
  <2>7. CASE AllGone \/ UNCHANGED vars
    BY <2>7 DEF AllGone, vars
  <2> QED
    BY <2>1, <2>2, <2>3, <2>4, <2>5, <2>6, <2>7 DEF Next, Lock, Ulock
<1>3. LockHeld => NoLockLeft
  BY DEF LockHeld, NoLockLeft
<1> QED
  BY <1>1, <1>2, <1>3, TypeCorrect, PTL DEF Spec

\* A pid in a file is that of a process that has been started.
WritersStarted ==
  \A p \in Procs :
    /\ content[p] # None => pc[content[p]] # "new"
    /\ fp[p] = None => pc[p] = "new"
    /\ oldpid[p] # None => pc[oldpid[p]] # "new"
    /\ pc[p] \in {"kill", "unlink"} => oldpid[p] # None

\* Whoever is about to remove a lock as stale has seen that its owner ended.
SeenEnded == \A p \in Procs : pc[p] = "unlink" => pc[oldpid[p]] \in Ended

\* A holder has lost the lock only after another process has ended.
LockLost ==
  \A p \in Holders : lockfile = None => \E r \in Procs : pc[r] \in Ended

PairInv == TypeOK /\ WritersStarted /\ SeenEnded /\ LockLost /\ TwoOnlyAfterThird

\* Two instances exclude each other: two run at once only after a third has
\* ended (lockprogram(), whatever dies and whoever unlocks).
THEOREM PairExcluded == Spec => []TwoOnlyAfterThird
<1>1. Init => PairInv
  BY DEF Init, PairInv, TypeOK, WritersStarted, SeenEnded, LockLost, TwoOnlyAfterThird
<1>2. PairInv /\ [Next]_vars => PairInv'
  <2> SUFFICES ASSUME PairInv, [Next]_vars PROVE PairInv'
    OBVIOUS
  <2>0. TypeOK'
    BY TypeStep DEF PairInv
  <2> USE ProcsAssumption, <2>0
      DEF PairInv, TypeOK, WritersStarted, SeenEnded, LockLost, TwoOnlyAfterThird, Goto, Ended
  <2>1. ASSUME NEW p \in Procs, OpenTemp(p) PROVE PairInv'
    BY <2>1 DEF OpenTemp
  <2>2. ASSUME NEW p \in Procs, WriteTemp(p) PROVE PairInv'
    BY <2>2 DEF WriteTemp
  <2>3. ASSUME NEW p \in Procs, Link(p) PROVE PairInv'
    BY <2>3 DEF Link
  <2>4. ASSUME NEW p \in Procs, DropTemp(p) PROVE PairInv'
    BY <2>4 DEF DropTemp
  <2>5. ASSUME NEW p \in Procs, ReadLock(p) PROVE PairInv'
    BY <2>5 DEF ReadLock, LockPid
  <2>6. ASSUME NEW p \in Procs, Probe(p) PROVE PairInv'
    BY <2>6 DEF Probe, OwnerGone
  <2>7. ASSUME NEW p \in Procs, UnlinkStale(p) PROVE PairInv'
    BY <2>7 DEF UnlinkStale
  <2>8. ASSUME NEW p \in Procs, OpenLock(p) PROVE PairInv'
    BY <2>8 DEF OpenLock
  <2>9. ASSUME NEW p \in Procs, Unlock(p) PROVE PairInv'
    BY <2>9 DEF Unlock
  <2>10. ASSUME NEW p \in Procs, Kill(p) PROVE PairInv'
    BY <2>10 DEF Kill
  <2>11. CASE AllGone \/ UNCHANGED vars
    BY <2>11 DEF AllGone, vars
  <2> QED
    BY <2>1, <2>2, <2>3, <2>4, <2>5, <2>6, <2>7, <2>8, <2>9, <2>10, <2>11
       DEF Next, Lock, Ulock
<1>3. PairInv => TwoOnlyAfterThird
  BY DEF PairInv
<1> QED
  BY <1>1, <1>2, <1>3, PTL DEF Spec
===============================================================================
