------------------------------- MODULE ProgLock -------------------------------
(***************************************************************************)
(* lockprogram() and ulockprogram() of lib/proglock.c: the lock            *)
(* var/run/<prog> of a program that must not run twice.  It is linked from *)
(* var/run/<prog>.tmp, a name all the processes of the program share, so   *)
(* that one may truncate and write the file another has linked already.    *)
(* Every action is one system call.  A process runs once; a file is named  *)
(* after the process that created it.                                      *)
(***************************************************************************)
EXTENDS Naturals, FiniteSets

CONSTANTS
  Procs,       \* the processes of the program
  Killable,    \* those that may be killed at any moment
  DieUnlocks,  \* the program unlocks when lockprogram() has failed as well
  None         \* no file, or nothing in it

ASSUME ProcsAssumption == None \notin Procs /\ Killable \subseteq Procs

ASSUME DieAssumption == DieUnlocks \in BOOLEAN

VARIABLES
  pc,          \* where each process is
  tempfile,    \* the file <prog>.tmp names, or None
  lockfile,    \* the file <prog> names, or None
  content,     \* the pid in each file, or None
  fp,          \* the file each process has opened for writing
  oldpid       \* the pid each process has read from the lock

vars == <<pc, tempfile, lockfile, content, fp, oldpid>>

\* After lockprogram() returned 0, until ulockprogram() has removed the lock.
Inside == {"linked", "held", "unlock"}

States == {"new", "write", "link", "open", "kill", "unlink", "failed", "die",
           "undo", "gone", "killed"} \cup Inside

\* No process any more.
Ended == {"gone", "killed"}

Init ==
  /\ pc = [p \in Procs |-> "new"]
  /\ tempfile = None
  /\ lockfile = None
  /\ content = [p \in Procs |-> None]
  /\ fp = [p \in Procs |-> None]
  /\ oldpid = [p \in Procs |-> None]

Goto(p, label) == pc' = [pc EXCEPT ![p] = label]

\* fopen(tempfile, "w") makes the file, or empties the one that is there.
OpenTemp_Exclusive(p) ==
  /\ pc[p] = "new"
  /\ Goto(p, IF tempfile = None THEN "write" ELSE "failed")
  /\ tempfile' = IF tempfile = None THEN p ELSE tempfile
  /\ fp' = [fp EXCEPT ![p] = tempfile']
  /\ UNCHANGED <<lockfile, content, oldpid>>

OpenTemp(p) ==
  /\ pc[p] = "new"
  /\ Goto(p, "write")
  /\ tempfile' = IF tempfile = None THEN p ELSE tempfile
  /\ fp' = [fp EXCEPT ![p] = tempfile']
  /\ content' = [content EXCEPT ![tempfile'] = None]
  /\ UNCHANGED <<lockfile, oldpid>>

\* fprintf() and fclose(): the pid goes to the file that was opened, which may
\* be the lock by now.
WriteTemp(p) ==
  /\ pc[p] = "write"
  /\ Goto(p, "link")
  /\ content' = [content EXCEPT ![fp[p]] = p]
  /\ UNCHANGED <<tempfile, lockfile, fp, oldpid>>

\* link(tempfile, lockfile)
Link(p) ==
  /\ pc[p] = "link"
  /\ \/ /\ lockfile = None
        /\ tempfile # None
        /\ lockfile' = tempfile
        /\ Goto(p, "linked")
     \/ /\ lockfile # None \/ tempfile = None
        /\ Goto(p, "open")
        /\ UNCHANGED lockfile
  /\ UNCHANGED <<tempfile, content, fp, oldpid>>

\* unlink(tempfile), whichever file that is.
DropTemp(p) ==
  /\ \/ pc[p] = "linked" /\ Goto(p, "held")
     \/ pc[p] = "failed" /\ Goto(p, IF DieUnlocks THEN "die" ELSE "gone")
  /\ tempfile' = None
  /\ UNCHANGED <<lockfile, content, fp, oldpid>>

\* The pid in the lock, if there is a lock with a pid.
LockPid == IF lockfile = None THEN None ELSE content[lockfile]

\* The lock is opened and read; without a pid lockprogram() fails.
ReadLock(p) ==
  /\ pc[p] = "open"
  /\ \/ /\ LockPid # None
        /\ oldpid' = [oldpid EXCEPT ![p] = LockPid]
        /\ Goto(p, "kill")
     \/ /\ LockPid = None
        /\ Goto(p, "failed")
        /\ UNCHANGED oldpid
  /\ UNCHANGED <<tempfile, lockfile, content, fp>>

OwnerGone_Unchecked(p) == TRUE

\* kill(oldpid, 0) finds no process.
OwnerGone(p) == pc[oldpid[p]] \in Ended \cup {"new"}

Probe(p) ==
  /\ pc[p] = "kill"
  /\ Goto(p, IF OwnerGone(p) THEN "unlink" ELSE "failed")
  /\ UNCHANGED <<tempfile, lockfile, content, fp, oldpid>>

\* The stale lock is removed, and the loop tries again.
UnlinkStale(p) ==
  /\ pc[p] = "unlink"
  /\ lockfile' = None
  /\ Goto(p, "link")
  /\ UNCHANGED <<tempfile, content, fp, oldpid>>

Lock(p) ==
  \/ WriteTemp(p) \/ Link(p) \/ DropTemp(p)
  \/ ReadLock(p) \/ Probe(p) \/ UnlinkStale(p)

\* ulockprogram() of a holder ("held") or in die() ("die"): it reads the pid
\* in the lock, but does not look at it.
OpenLock(p) ==
  /\ pc[p] \in {"held", "die"}
  /\ Goto(p, IF lockfile = None THEN "gone"
             ELSE IF pc[p] = "held" THEN "unlock" ELSE "undo")
  /\ UNCHANGED <<tempfile, lockfile, content, fp, oldpid>>

Unlock_Own(p) ==
  /\ pc[p] \in {"unlock", "undo"}
  /\ lockfile' = IF LockPid = p THEN None ELSE lockfile
  /\ Goto(p, "gone")
  /\ UNCHANGED <<tempfile, content, fp, oldpid>>

Unlock(p) ==
  /\ pc[p] \in {"unlock", "undo"}
  /\ lockfile' = None
  /\ Goto(p, "gone")
  /\ UNCHANGED <<tempfile, content, fp, oldpid>>

Ulock(p) == OpenLock(p) \/ Unlock(p)

\* The process is killed.
Kill(p) ==
  /\ p \in Killable
  /\ pc[p] \notin Ended \cup {"new"}
  /\ Goto(p, "killed")
  /\ UNCHANGED <<tempfile, lockfile, content, fp, oldpid>>

AllGone ==
  /\ \A p \in Procs : pc[p] \in Ended
  /\ UNCHANGED vars

Next ==
  \/ \E p \in Procs : OpenTemp(p) \/ Lock(p) \/ Ulock(p) \/ Kill(p)
  \/ AllGone

Spec == Init /\ [][Next]_vars

\* A process that runs goes on; whether another one is started is up to the
\* users.
Fairness == \A p \in Procs : WF_vars(Lock(p) \/ Ulock(p))

FairSpec == Spec /\ Fairness
------------------------------------------------------------------------------
Holders == {p \in Procs : pc[p] \in Inside}

TypeOK ==
  /\ pc \in [Procs -> States]
  /\ tempfile \in Procs \cup {None}
  /\ lockfile \in Procs \cup {None}
  /\ content \in [Procs -> Procs \cup {None}]
  /\ fp \in [Procs -> Procs \cup {None}]
  /\ oldpid \in [Procs -> Procs \cup {None}]

\* The program does not run twice ("Another %s is already running",
\* proglock.c:100).
MutualExclusion == \A p, q \in Holders : p = q

\* Two run at the same time only after a third one has ended: started together,
\* or one after the other, two instances exclude each other.
TwoOnlyAfterThird ==
  \A p, q \in Holders : p = q \/ \E r \in Procs : pc[r] \in Ended

\* When nobody is killed, no lock is left behind: the program can be started
\* again without somebody having to take a lock for stale.
NoLockLeft == (\A p \in Procs : pc[p] \in {"new", "gone"}) => lockfile = None

\* The processes share the temporary file, but do not spoil each other's start
\* so that all of them give up: unless one is killed, one of them has run when
\* all are gone.
SomeoneRuns ==
  <>(\A p \in Procs : pc[p] = "gone") => <>(\E p \in Procs : pc[p] = "held")
===============================================================================
