------------------------------- MODULE DirLock -------------------------------
(***************************************************************************)
(* lockdir() and ulockdir() of mbfido/dirlock.c (mbcico/dirlock.c is the   *)
(* same code): the lock file LOCKFILE in an inbound directory, linked from *)
(* a private file TMP.<pid> that already holds the pid.  Every action is   *)
(* one system call, so the processes interleave between any two of them.   *)
(***************************************************************************)
EXTENDS Naturals, FiniteSets

CONSTANTS
  Procs,     \* the processes (pids) that ever use the directory
  Leavers,   \* those that may exit, or be killed at any moment
  NoFile     \* there is no lock file

ASSUME LeaversAssumption == Leavers \subseteq Procs

ASSUME NoFileAssumption == NoFile \notin Procs

VARIABLES
  pc,        \* where each process is
  lockfile,  \* the pid stored in LOCKFILE, or NoFile
  oldpid     \* the pid each process read from LOCKFILE last

vars == <<pc, lockfile, oldpid>>

\* Where a process that returned TRUE from lockdir() is: working under the
\* lock, or inside ulockdir() before the unlink.
Inside == {"held", "unlock"}

States == {"idle", "link", "open", "kill", "unlink", "dead"} \cup Inside

Init ==
  /\ pc = [p \in Procs |-> "idle"]
  /\ lockfile = NoFile
  /\ oldpid = [p \in Procs |-> NoFile]

Goto(p, label) == pc' = [pc EXCEPT ![p] = label]

\* lockdir() is entered and TMP.<pid> is written and closed.
Start(p) ==
  /\ pc[p] = "idle"
  /\ Goto(p, "link")
  /\ UNCHANGED <<lockfile, oldpid>>

\* link(Tmpfile, lockfile) succeeds only when there is no lock file.
Link(p) ==
  /\ pc[p] = "link"
  /\ \/ /\ lockfile = NoFile
        /\ lockfile' = p
        /\ Goto(p, "held")
     \/ /\ lockfile # NoFile
        /\ Goto(p, "open")
        /\ UNCHANGED lockfile
  /\ UNCHANGED oldpid

\* fopen() and fscanf() of the existing lock; if it has gone in between,
\* lockdir() gives up and returns FALSE.
ReadLock(p) ==
  /\ pc[p] = "open"
  /\ \/ /\ lockfile = NoFile
        /\ Goto(p, "idle")
        /\ UNCHANGED oldpid
     \/ /\ lockfile # NoFile
        /\ oldpid' = [oldpid EXCEPT ![p] = lockfile]
        /\ Goto(p, "kill")
  /\ UNCHANGED lockfile

\* kill(oldpid, 0) finds no process.
OwnerGone_Unchecked(p) == TRUE

OwnerGone_Never(p) == FALSE

OwnerGone(p) == pc[oldpid[p]] = "dead"

\* A living owner makes lockdir() return FALSE, a dead one makes the lock
\* stale.
Probe(p) ==
  /\ pc[p] = "kill"
  /\ Goto(p, IF OwnerGone(p) THEN "unlink" ELSE "idle")
  /\ UNCHANGED <<lockfile, oldpid>>

\* unlink() of the stale lock: it removes whatever lock file is there now,
\* and the loop tries to link again.
UnlinkStale(p) ==
  /\ pc[p] = "unlink"
  /\ lockfile' = NoFile
  /\ Goto(p, "link")
  /\ UNCHANGED oldpid

\* ulockdir() reads the lock: when it is gone or not ours it is left alone.
ReadOwn(p) ==
  /\ pc[p] = "held"
  /\ Goto(p, IF lockfile = p THEN "unlock" ELSE "idle")
  /\ UNCHANGED <<lockfile, oldpid>>

\* ulockdir() unlinks the lock it found to be its own.
Unlock(p) ==
  /\ pc[p] = "unlock"
  /\ lockfile' = NoFile
  /\ Goto(p, "idle")
  /\ UNCHANGED oldpid

\* The process ends: a normal exit when it is idle, else it is killed.  Its
\* lock file, if it has one, stays, and its pid becomes unknown.
Die(p) ==
  /\ p \in Leavers
  /\ pc[p] # "dead"
  /\ Goto(p, "dead")
  /\ UNCHANGED <<lockfile, oldpid>>

Lock(p) == Start(p) \/ Link(p) \/ ReadLock(p) \/ Probe(p) \/ UnlinkStale(p)

Ulock(p) == ReadOwn(p) \/ Unlock(p)

Next == \E p \in Procs : Lock(p) \/ Ulock(p) \/ Die(p)

Spec == Init /\ [][Next]_vars

\* mbtask starts mbfido again and again, and inbound_close() retries 30
\* times: a process keeps trying, and one that holds the lock returns it.
Fairness == \A p \in Procs : WF_vars(Lock(p) \/ Ulock(p))

FairSpec == Spec /\ Fairness
------------------------------------------------------------------------------
Holders == {p \in Procs : pc[p] \in Inside}

TypeOK ==
  /\ pc \in [Procs -> States]
  /\ lockfile \in Procs \cup {NoFile}
  /\ oldpid \in [Procs -> Procs \cup {NoFile}]

\* At most one process works in the directory (html/programs/mbfido.html:
\* the lock prevents that mbfido runs more than once at the same time).
MutualExclusion == \A p, q \in Holders : p = q

\* The lock file names whoever works under the lock: nobody has removed or
\* replaced it, so a third process that looks will still be turned away.
LockNamesHolder == \A p \in Holders : lockfile = p

\* A lock left behind by a killed process does not block the directory for
\* ever: some process that keeps trying removes it.
StaleLockGoes ==
  \A p \in Procs :
    (pc[p] = "dead" /\ lockfile = p)
      ~> (lockfile # p \/ \A q \in Procs : pc[q] = "dead")
==============================================================================
