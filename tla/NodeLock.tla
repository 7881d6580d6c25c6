------------------------------- MODULE NodeLock -------------------------------
(***************************************************************************)
(* nodelock() and nodeulock() of lib/nodelock.c: the busy file <node>.bsy  *)
(* that a mailer session or mbfido's queue takes on the outbound of a      *)
(* node.  It is linked from a private file that holds the pid already.     *)
(* Another operating system may have left a lock of zero bytes.  A lock    *)
(* is broken when its owner is gone and when it is over six hours old.     *)
(* Every action is one system call.                                        *)
(***************************************************************************)
EXTENDS Naturals, FiniteSets

CONSTANTS
  Procs,      \* the processes that ever lock the node
  Leavers,    \* those that may exit, or be killed at any moment
  Again,      \* those that may lock the node again after they have unlocked it
  Foreign,    \* another operating system may hold the lock at the start
  MayAge,     \* a lock may stay for six hours
  ZeroLocks,  \* CFG.ZeroLocks: zero byte locks are respected
  NoFile,     \* there is no lock file
  Zero        \* a lock file without a pid, or a pid no process has

ASSUME ProcsAssumption ==
  /\ Leavers \subseteq Procs
  /\ Again \subseteq Procs
  /\ {Foreign, MayAge, ZeroLocks} \subseteq BOOLEAN

ASSUME FilesAssumption == NoFile \notin Procs /\ Zero \notin Procs /\ NoFile # Zero

VARIABLES
  pc,         \* where each process is
  holds,      \* the processes nodelock() has told that the node is theirs
  foreign,    \* the other operating system works on the node
  lockfile,   \* the pid in the lock file, Zero or NoFile
  old,        \* the lock file is over six hours old
  pid,        \* the pid each process has read from the lock
  tooOld,     \* whether that lock looked over six hours old
  disturbed   \* a history: somebody came back after unlocking, a lock grew
              \* old, or the other operating system was there

nodeVars == <<pc, holds, foreign, lockfile, old, pid, tooOld, disturbed>>

States == {"idle", "link", "open", "stat", "kill", "unlink", "relink",
           "unlock", "done", "dead"}

NodeInit ==
  /\ pc = [p \in Procs |-> "idle"]
  /\ holds = {}
  /\ foreign \in {FALSE, Foreign}
  /\ disturbed = foreign
  /\ lockfile = IF foreign THEN Zero ELSE NoFile
  /\ old = FALSE
  /\ pid = [p \in Procs |-> NoFile]
  /\ tooOld = [p \in Procs |-> FALSE]

Goto(p, label) == pc' = [pc EXCEPT ![p] = label]

\* nodelock() returns 0, ...
Locked(p) == Goto(p, "idle") /\ holds' = holds \cup {p}

\* ... or 1: the caller leaves the node alone.
Busy(p) == Goto(p, "idle") /\ holds' = holds \ {p}

\* nodelock() is entered, by a session perhaps for a node that it has locked
\* before the call, and the private file is written.
Start(p) ==
  /\ pc[p] = "idle"
  /\ Goto(p, "link")
  /\ UNCHANGED <<holds, foreign, lockfile, old, pid, tooOld, disturbed>>

\* link() makes the file, when there is none.
Take(p) ==
  /\ lockfile = NoFile
  /\ lockfile' = p
  /\ old' = FALSE

Link(p) ==
  /\ pc[p] = "link"
  /\ \/ Take(p) /\ Locked(p)
     \/ lockfile # NoFile /\ Goto(p, "open") /\ UNCHANGED <<holds, lockfile, old>>
  /\ UNCHANGED <<foreign, pid, tooOld, disturbed>>

\* What fscanf() leaves in tmppid: without a pid in the file whatever was on
\* the stack, for it is not initialised.
Scanned == IF lockfile = Zero THEN Procs \cup {Zero} ELSE {lockfile}

\* A zero byte lock is taken for one only where CFG.ZeroLocks says so.
IsZero == ZeroLocks /\ lockfile = Zero

\* The lock is opened and read; our own is fine.
ReadLock(p) ==
  /\ pc[p] = "open"
  /\ \/ lockfile = NoFile /\ Busy(p) /\ UNCHANGED pid
     \/ /\ lockfile # NoFile
        /\ \E q \in Scanned :
             \/ q = p /\ Locked(p) /\ UNCHANGED pid
             \/ /\ q # p
                /\ pid' = [pid EXCEPT ![p] = IF IsZero THEN NoFile ELSE q]
                /\ Goto(p, "stat")
                /\ UNCHANGED holds
  /\ UNCHANGED <<foreign, lockfile, old, tooOld, disturbed>>

\* file_time() is -1 when there is no file, and now - (-1) is over six hours.
LooksOld == old \/ lockfile = NoFile

\* file_time() of the lock that is there now; without a pid ("NoFile") it
\* decides alone.
Stat(p) ==
  /\ pc[p] = "stat"
  /\ \/ pid[p] # NoFile /\ Goto(p, "kill") /\ UNCHANGED holds
     \/ pid[p] = NoFile /\ LooksOld /\ Goto(p, "unlink") /\ UNCHANGED holds
     \/ pid[p] = NoFile /\ ~LooksOld /\ Busy(p)
  /\ tooOld' = [tooOld EXCEPT ![p] = LooksOld]
  /\ UNCHANGED <<foreign, lockfile, old, pid, disturbed>>

OwnerGone_Unchecked(p) == TRUE

OwnerGone_Never(p) == FALSE

\* kill(pid, 0) finds no process.
OwnerGone(p) == pid[p] \in Procs => pc[pid[p]] = "dead"

Probe(p) ==
  /\ pc[p] = "kill"
  /\ \/ /\ OwnerGone(p) \/ tooOld[p]
        /\ Goto(p, "unlink")
        /\ UNCHANGED holds
     \/ /\ ~(OwnerGone(p) \/ tooOld[p])
        /\ Busy(p)
  /\ UNCHANGED <<foreign, lockfile, old, pid, tooOld, disturbed>>

\* The stale or old lock is removed, whichever lock is there now.
UnlinkStale(p) ==
  /\ pc[p] = "unlink"
  /\ lockfile' = NoFile
  /\ old' = FALSE
  /\ Goto(p, "relink")
  /\ UNCHANGED <<holds, foreign, pid, tooOld, disturbed>>

Relink_Falls(p) ==
  /\ pc[p] = "relink"
  /\ Busy(p)
  /\ \/ Take(p)
     \/ lockfile # NoFile /\ UNCHANGED <<lockfile, old>>
  /\ UNCHANGED <<foreign, pid, tooOld, disturbed>>

\* One more link(), and no further try.
Relink(p) ==
  /\ pc[p] = "relink"
  /\ \/ Take(p) /\ Locked(p)
     \/ lockfile # NoFile /\ Busy(p) /\ UNCHANGED <<lockfile, old>>
  /\ UNCHANGED <<foreign, pid, tooOld, disturbed>>

Lock(p) ==
  \/ Start(p) \/ Link(p) \/ ReadLock(p) \/ Stat(p)
  \/ Probe(p) \/ UnlinkStale(p) \/ Relink(p)

\* The caller is through with the node, for good or until it comes back.
Return(p) ==
  /\ holds' = holds \ {p}
  /\ \/ Goto(p, "done") /\ UNCHANGED disturbed
     \/ p \in Again /\ Goto(p, "idle") /\ disturbed' = TRUE

\* nodeulock() reads the lock and leaves any but our own alone.
ReadOwn(p) ==
  /\ pc[p] = "idle" /\ p \in holds
  /\ \/ lockfile = p /\ Goto(p, "unlock") /\ UNCHANGED <<holds, disturbed>>
     \/ lockfile # p /\ Return(p)
  /\ UNCHANGED <<foreign, lockfile, old, pid, tooOld>>

Unlock(p) ==
  /\ pc[p] = "unlock"
  /\ lockfile' = NoFile
  /\ old' = FALSE
  /\ Return(p)
  /\ UNCHANGED <<foreign, pid, tooOld>>

Ulock(p) == ReadOwn(p) \/ Unlock(p)

\* The process exits or is killed; a lock that it has stays behind.
Die(p) ==
  /\ p \in Leavers
  /\ pc[p] # "dead"
  /\ Goto(p, "dead")
  /\ holds' = holds \ {p}
  /\ UNCHANGED <<foreign, lockfile, old, pid, tooOld, disturbed>>

\* The other operating system is done and removes its lock.
ForeignUnlock ==
  /\ foreign
  /\ foreign' = FALSE
  /\ lockfile' = IF lockfile = Zero THEN NoFile ELSE lockfile
  /\ old' = IF lockfile = Zero THEN FALSE ELSE old
  /\ UNCHANGED <<pc, holds, pid, tooOld, disturbed>>

SixHours ==
  /\ MayAge /\ lockfile # NoFile
  /\ old' = TRUE
  /\ disturbed' = TRUE
  /\ UNCHANGED <<pc, holds, foreign, lockfile, pid, tooOld>>

NodeNext ==
  \/ \E p \in Procs : Lock(p) \/ Ulock(p) \/ Die(p)
  \/ ForeignUnlock
  \/ SixHours

NodeSpec == NodeInit /\ [][NodeNext]_nodeVars

\* mbtask starts the mailer and mbfido for the node again and again: whoever
\* does not hold the node tries to lock it, and a call once made goes on.
NodeFairness == \A p \in Procs : WF_nodeVars(Lock(p) \/ Unlock(p))

FairSpec == NodeSpec /\ NodeFairness
------------------------------------------------------------------------------
NodeTypeOK ==
  /\ pc \in [Procs -> States]
  /\ holds \subseteq Procs
  /\ foreign \in BOOLEAN
  /\ lockfile \in Procs \cup {NoFile, Zero}
  /\ old \in BOOLEAN
  /\ pid \in [Procs -> Procs \cup {NoFile, Zero}]
  /\ tooOld \in [Procs -> BOOLEAN]
  /\ disturbed \in BOOLEAN

\* The outbound of a node is one process' at a time ("First check if node is
\* locked, if not lock it immediatly or stop", call.c:106-107).
MutualExclusion == \A p, q \in holds : p = q

\* It holds until somebody comes back or a lock is broken for its age.
ExclusiveUndisturbed == disturbed \/ MutualExclusion

\* Nobody works on a node another operating system has locked ("Allow zero
\* byte node lockfiles created by another OS", m_global.c:1405).  It does not
\* hold: the pid on the stack may be our own (README, section 5).
ForeignRespected == foreign => holds = {}

\* A lock with a pid is the lock of a process that works on the node or is
\* dead: nobody who has returned or was turned away keeps the node locked.
LockHasOwner == lockfile \in Procs => lockfile \in holds \/ pc[lockfile] = "dead"

\* nodeulock() does not touch the lock of another process (session.c:323).  It
\* does not hold where locks are broken for their age (README, section 5).
OthersUntouched ==
  [][\A p \in Procs : Unlock(p) => lockfile \in {p, NoFile}]_nodeVars

\* The lock of a process that was killed does not block the node for ever,
\* unless nobody is left that wants the node.
StaleLockGoes ==
  \A p \in Procs :
    (pc[p] = "dead" /\ lockfile = p)
      ~> (lockfile # p \/ \A q \in Procs : pc[q] \in {"dead", "done"})
===============================================================================
