# A verification project for MBSE BBS

MBSE BBS is a Fidonet bulletin board and mail system: about 150,000 lines of C
in a dozen programs that run side by side, start each other, and share files.
This directory holds TLA+ models of the parts of it whose correctness depends
on the order in which several of those programs, or two systems on a line, do
things; the TLC configurations that check them; and theorems about them checked
by TLAPS. File names below are relative to the source tree (`mbcico/binkp.c`
is `src/mbcico/binkp.c`).

`PROJECT.json` is the index: components, runs, what each definition models
(`map`), hazards, findings and theorems.

## 1. The system

| Part | Where | State it keeps | How it interacts |
|---|---|---|---|
| Mailer | `mbcico/` | one session: files being sent and received | two mailers on one line; the outbound (with `mbfido`); the inbound |
| Locks | `mbfido/dirlock.c`, `lib/proglock.c`, `lib/nodelock.c` | lock files with a pid | every program, through the file system |
| Outbound | `mbcico/filelist.c`, `mbfido/queue.c` | flo files, spool files | written by `mbfido`, marked and removed by `mbcico`, scanned by `mbtask`, whose scan also removes old archives |
| Inbound | `mbcico/inbound.c`, `bopenfile.c`, `openfile.c` | temporary inbound, `tmp`, protected inbound | from the mailer to `mbfido`, under the directory lock |
| Daemon | `mbtask/` | running tasks, nodes to call, semaphores, registered programs, chat | datagrams from every program, semaphore files, signals |
| Tosser | `mbfido/` | packets, message bases, duplicate lists, tickets | started by `mbtask`; reads the inbound, writes the outbound |
| Message base | `lib/jammsg.c` | JAM files under a byte lock | all programs that read or write mail |
| BBS | `mbsebbs/` | a caller's dialogue | message bases, files, `mbtask` |
| Tools | `mbsetup/`, `mbutils/`, `mbmon/`, `mbnntp/`, `unix/` | configuration, statistics | the databases, the program lock |

What is hard in it, and what makes each part correct:

* **binkp** (`mbcico/binkp.c`). Both ends send and receive at the same time on
  one line; commands about a file (`M_GET`, `M_GOT`, `M_SKIP`) arrive while
  that file or another is being sent; a session is a sequence of batches, and
  both ends must agree which is the last; a session can break off anywhere and
  the next resumes the partial file. Correct: no queued file is lost or
  delivered mixed up, none is sent twice, both ends agree how the session went,
  and the session ends.
* **The three locks.** Each is a file with a pid that is linked into place,
  judged stale by `kill(pid, 0)` and removed by name. Every step is a system
  call of its own. Correct: one holder at a time; a dead holder does not block
  the others; nobody removes another's lock.
* **Outbound and inbound.** Two programs change the same flo file and the same
  archives, whose names come back every week; each may be killed between two
  writes; the inbound is emptied while sessions put files into it. Correct: mail
  that has not arrived is in the queue or in an archive that a line names, and
  arrives, unless it is removed on purpose; no file is moved half.
* **The daemon.** Semaphores are set by other programs while the scheduler acts
  on them; tasks end at any moment; tables are full; the list of calls is made
  anew while calls go on; clients die without a word. Correct: every request is
  served, programs that need the system alone have it alone, each node with mail
  is called in its turn and by one mailer, the counters by which calls are held
  back stay true.
* **InterBBS chat, message base, tosser, other protocols**: see the hazards in
  `PROJECT.json` and the plan below.

## 2. What is modelled

### 2.1 Binkp: the file transfer (`Binkp.tla`, `HandOff.tla`)

`Binkp` is `file_transfer()` with everything it calls that changes state, for
two mailers. A step is one call of `binkp_receiver()`, together with the poll
that completed the frame it works on, or one call of `binkp_transmitter()`;
where the code returns `Continue` to be called again before anything else, the
calls are one step, or `FtState` stays `"Transmit"`.

| Code | Model |
|---|---|
| `bp.FtState`, `bp.RxState`, `bp.TxState` | variables of the same names, per node |
| `bp.local_EOB`, `remote_EOB`, `messages`, `batchnr`, `rc` | the same (`messages` is kept up to 3, all the code asks) |
| `bll` with the state of each file, `tosend` | `state`, `offset`, `listed` |
| `cursend`, `bp.txfp` and its position | `cursend`, `txpos` |
| `tql`, the queue of received commands | `tql` |
| `bp.rname`, `rxpos`, `rxbytes`, `rxfp` | `rname`, `rxpos`, `rxbytes`, `rxfp` |
| `infp`, `infpath` of `bopenfile.c` | `infp` |
| the peer's `tempinbound/tmp` and `tempinbound` | `part`, `tempin` |
| flo files, as `execute_disposition()` leaves them | `outbound` |
| the connection in both directions | `chan`, `link` |

A file is a sequence of blocks; `<<f, 0>>` stands for a block of an older file
with the same name. Enums keep their names (`RxWaitF`, `TxGNF`, `IsSent`, ...).
The states `RxAccF`, `RxWriteD` and `TxReadS`, which the code enters and leaves
within one step, are the actions `ReceiveKnownFile` to `ReceiveLowDisk`,
`ReceiveBlock` to `ReceiveCrcAbort`, and `TransmitBlock`/`TransmitEndOfFile`.

`HandOff` is what the transfer promises: files are queued; a file arrives once;
only a file that has arrived is disposed of. `Binkp` is checked to implement it
(`ImplementsHandOff`).

Abstractions. Names, dates and sizes are the identity of the file, except that
the length of what is in `tmp` is compared as the code does. A stream that is
used after it was freed (undefined in C) is a choice: the process dies, or the
session fails. The order of the files in a batch is free. `Unreadable` says which files cannot be
opened in which batch, when the list is made (`fill_binkp_list()`, `2826`) and when
the file is offered; such a file adds nothing to the sizes of `M_NUL TRF`, which is
sent in a later batch only if they are not zero (`1557`), so that a batch of nothing
else counts as empty. That a file can be opened for the list and not when it is
offered is the fault `"refuse"`; the reverse, of which the code has no size, is not
in the model. Not in the model:
compression, files of zero bytes (answered `M_GOT` and not stored,
`binkp.c:1198`), the Taurus workaround (`1207`), commands too long for the
buffer (answered `M_GOT`, `1182-1194`), `M_GET` with the whole size as offset
(our own receiver never sends it), a queued file that has been deleted
(`1579-1581`, `2827-2830`), and the waiting for an `fclose()` that fails.

### 2.2 The locks (`DirLock.tla`, `ProgLock.tla`, `NodeLock.tla`)

Every action is one system call, so processes interleave between any two of
them, and a process may die between any two of them. `pc` says which call comes
next.

* `DirLock` is `lockdir()`/`ulockdir()`. The private file `TMP.<pid>` holds the
  pid before it is linked, so it has no variable.
* `ProgLock` is `lockprogram()`/`ulockprogram()`. All instances write the same
  temporary file, so the model keeps inodes: `tempfile` and `lockfile` say
  which inode each name has (an inode is named after the instance that made
  it), `content` the pid in it, `fp` the inode an open stream writes.
  `DieUnlocks` says whether an instance that was refused leaves through a
  `die()` that unlocks, as most programs do.
* `NodeLock` is `nodelock()`/`nodeulock()`, with zero byte locks of another
  operating system (`Foreign`, `CFG.ZeroLocks` is `ZeroLocks`), locks older
  than six hours (`MayAge`), `file_time()` of a file that has gone (-1), and
  the pid that `fscanf()` did not set. A session may lock a node it has locked
  already, as `call()` and the binkp handshake do; `Again` are the users that
  come back after unlocking. Its specification is `NodeSpec`: mbfido's queue and
  the sessions hold this lock, and `OutboundProofs` is about both.

### 2.3 The daemon (`OutStat.tla`, `CallClock.tla`, `CallOut.tla`, `TaskQueue.tla`, `TaskRegs.tla`)

`mbtask` is one thread: each pass of its loop waits up to a second for datagrams
of the other programs, serves one of each kind, and then goes through its parts
(checks, requests, calls). All others run beside it, start and end and write to
the disk at any moment. A model step is one part of a pass, one datagram, or one
step of another program.

* `OutStat` has no state: `scan_dir()`, `each()` and `outstat()` as functions of
  the files of a node, its nodelist entry, its tries and the minute. `MustCall`
  is the flag `F_CALL`, `NextEvent` the pair `nxt_hour`, `nxt_min` that
  `set_next()` leaves.
* `CallClock` is the clock around it: the part of `scheduler()` that runs once
  in a minute and sets `rescan` when the event comes, the scan, the switch
  `Processing`, and the programs that change the outbound first and tell the
  daemon afterwards (`unannounced`). Its specification is `ClockSpec`: with
  `TaskQueue` it makes up `scheduler()`, and `SchedulerProofs` is about both.
* `CallOut` is what the scan leads to: `check_calllist()`, the choice of the
  next entry from `call_entry` on, `launch()`, `checktasks()`, the count of
  internet sessions, and the mailers (`call()`, `putstatus()`). Pids are
  numbers that only get compared; the model takes the least free one, and the
  real ones repeat as little as these. `Later` is the time of a node's next
  try; the random numbers in `putstatus()` are the choice in `Bad`.
* `TaskQueue` is the rest of `scheduler()`: the semaphores for `mbfido`,
  `mbindex`, `mbmsg` and `mbfile` in the order of the code (`Order`), `ptimer`,
  `tosswait`, the count of tasks taken at the last `checktasks()` (`running`),
  and what each program does with its semaphore while it works (`Steps`).
  Calls are only counted here, by how they are made.
* `TaskRegs` is `taskregs.c`: the records of the programs that have registered,
  their timers and the two signals, the ring of personal messages with its
  pointers and the memory behind them (`memory` has the cells that the arrays
  `fname`, `msg` and the array behind them really have), pages for the sysop
  and the counters `mailers` and `ipmailers`.

| Code | Model |
|---|---|
| `calllist[]`, `call_entry`, `call_work` | the same, in `CallOut` |
| `task[]` | `task` (pids) in `CallOut`, `step` and `calls` in `TaskQueue` |
| `s_scanout`, the master rescan flag | `rescan` |
| `s_mailout`, `s_mailin`, `s_newnews`, `s_index`, `s_msglink`, `s_reqindex` | members of `sem` |
| `ptimer`, `tosswait`, `running` | the same |
| `reginfo[]` | `reg`, `in`, `out`, `memory` |
| `.sts` files | `sts` |

`CallOut` and `TaskQueue` share `launch()`, `checktasks()` and the table of
tasks: each models them whole and the other's tasks as a bounded number of
processes. `CallClock` decides which nodes `CallOut` finds in `waiting`; that a
node's mail hour may be over is left to it.

### 2.4 The outbound (`Outbound.tla`)

`Outbound` is the way of mail for one node, through `flush_dir()` of `mbfido`
(`queue.c`), `attach()` and `un_attach()` (`lib/attach.c`), and
`check_flo()`/`execute_disposition()` of the mailer (`mbcico/filelist.c`), and of the
removals by `scan_dir()` (`scanout.c` of `mbtask` and `mbcico`, the same lines). A
step is one write to the disk, or one look at it; `flush.pc`, `session.pc` and
`scan.pc` say which is next.

| Code | Model |
|---|---|
| packets and `.filelist` in the queue directory | `queue`, `filelist` |
| archives `xxxxxxxx.mo0` ... | `archive[<<"arc", day, number>>]`: whether it is there, the mail in it, its time |
| the flo file, lines with and without `~` | `flo` |
| `.tic` files | `tics` |
| `arcfile`, `nr`, `oldnr`, `Attach`, the time taken at the start | fields of `flush` |
| `fname`, and what `fage` and `file_size()` said of it | fields of `scan` |

The node lock is taken at its word: `mbfido` and a session do not run at once
(what the lock guarantees is the subject of `NodeLock`). `scan_dir()` takes no lock,
and its four looks and removals interleave with the steps of both. It removes
archives that were truncated, on another day or a week ago, and any archive older
than `toss_days` (`TossDays`). One `scan_dir()` is at work at a time. Times are half
days, so that "more than six days" can be missed by less than a day; ages are taken
at the moment, where the mailer's `scan_dir()` takes them from the start of the
program. `damaged` remembers what the code throws away or loses: mail in the names
`NamesExhausted` removes, mail older than `toss_days`, mail packed in a name that
`scan_dir()` removes as truncated, and what the actions of the section Damage
strand. Not in the model: several flavors of flo files, netmail packets that are appended to
directly, file boxes, requests and polls, nodes that are served by a directory
or by FTP.

## 3. What is checked

Every configuration is small enough to be explored completely. Processes that
stop for good are normal in these models, so deadlock is checked only for the
program lock, where `AllGone` marks the intended end. Type correctness is
proved (section 4) where there are proofs and run where there are none.

| Run | Instance | States | What it shows |
|---|---|---|---|
| `binkp_batches` | three files (two in one direction, of 2 blocks; one back, of 1), CRC, binkp/1.1, one file refused once, one that cannot be read in the first batch and one that cannot in the later ones | 19,859 | `SidesAgree`, `GoodSessionDelivers`, `Termination`: both sides agree which batch is the last, the session ends, and a good one has delivered all, refused files in a later batch, but for files that cannot be read when the list of its last batch is made |
| `binkp_resume` | three files (2, 3 and 1 blocks), parts of this or an older version left in `tmp`, CRC, a disk that may be full once | 647,356 | `RightStream`, `NoStaleStream`, `NoResend`, `RepliesExpected`, `ImplementsHandOff`: parts are resumed, each on its own stream, up to two mixtures of versions are found out, every answer finds its file, each file is handed over once and whole |
| `binkp_faults` | one file each way, binkp/1.0, two sessions, any one of six kinds of fault at any moment | 207,839 | `PartIsPrefix`, `NoFileVanishes`: `tmp` holds a beginning of the file, and what left the outbound is whole on one disk |
| `dirlock_pair` | two processes, both may die anywhere | 188 | `MutualExclusion`, `StaleLockGoes` |
| `proglock_users` | three instances, one may be killed anywhere | 35,712 | `TwoOnlyAfterThird`, `NoLockLeft`, `SomeoneRuns` |
| `proglock_die` | three instances that leave through `die()` | | `MutualExclusion` does **not** hold (section 5) |
| `nodelock_users` | two users that come back and may die, foreign and old locks, zero byte locks | 10,113 | `ExclusiveUndisturbed` until somebody comes back or a lock is foreign or old; `LockHasOwner`, `StaleLockGoes` always |
| `callclock` | three nodes, a day of six moments, two zones with a mail hour, one window over midnight | 45,246 | `PlanCurrent`, `CrashMailPlanned` |
| `callout` | two nodes over the internet, two slots, two processes, one internet session at a time, one upset | 239,575 | `NoDoubleCallWhileListed`, `CallingIsRunning`, `TakeTurns`, `EveryNodeCalled` |
| `taskqueue` | the requests `mailin` and `msglink`, the second of which may fail, one call, one session, a table of three | 131,076 | `OneMbfido`, `Alone`, `PacketsExpected`, `MailTossed` |
| `taskregs` | a mailer and two users on two records, a ring of two places, one client that fails | 284,984 | `TypeOK`, `CountersTrue`, `OnePager`, `MessagesKept`, `FailedClientsGo` |
| `outbound` | two numbers a day, a week of two days, mail on hold for one; in a day up to three packets, or one and an announcement, or two announcements, and one mishap; over a week two packets and one mishap or one archive that `scan_dir()` finds, or one packet and both | 128,678 | `TypeOK`, `NoMailStranded`, `LastTicKept`, `MailLeavesSent`, `MailArrives` |

Bounds, and why they are enough:

* *Files and blocks.* Two files in one direction are needed for one to be
  answered while the other is sent, and for a batch that leaves a file over;
  two blocks are the least for a partial file; one file back makes both
  transmitters and both receivers work. More files of the same kind repeat the
  same transmitter states, since the code sends one at a time. Two parts of
  older versions are needed for the second CRC error, after which the session
  is given up (`ReceiveCrcAbort`); their lengths differ, for section 5 says what
  happens when they do not.
* *`BatchLimit` = 3* stands for the 20 of `binkp.c:1553`: a first batch, one
  that sends a refused file again, one that is empty, and the one from which on
  nothing is offered.
* *`messages`* saturates at 3, the only number it is compared with.
* *Two sessions and one fault* (`binkp_faults`). A fault in the first session
  and an undisturbed second, or the reverse, covers every "broken off and
  resumed"; a second fault needs a third session to show more.
* *Two or three processes at a lock.* Two are enough for every pair of system
  calls to interleave; the third is the one that benefits from a lock wrongly
  removed. That the two-process results do not extend is said with each.
* *A day of six moments* has the two mail hours, a time before, between and
  after each, and midnight; a window may begin on one day and end on the next.
* *Two slots and two nodes in the call list*: one entry can be passed over for
  the other, wiped and filled while its mailer runs; the proofs say that more
  change nothing in the safety properties. `MaxTcp` = 1 makes the nodes compete,
  `MaxTry` = 1 makes a node undialable by one failure, and one upset is a kill, a
  call from outside, a lost internet connection or a reset by hand.
* *A task table of three* with a call and two requests is full without mbfido
  and never too full with it; `PauseTime` and `TossTime` of 1 are set, run out
  and are set again. `PAUSETIME` is 3 seconds and the toss wait 30 minutes in
  the code; only whether they are zero is asked. The three requests not made in
  this run follow the same disjuncts; the proofs cover all six.
* *A ring of two places* (`RB` = 2, declared 5 in the code) is filled, wrapped and
  found full by three messages. Two records for three clients make one wait for
  the record of another.
* *A week of two days and two numbers* let every name be used again: an archive is
  sent, truncated, left by for the next number, a week old, and the numbers of
  a day are exhausted. Three packets fill both and need a third. An archive that
  `scan_dir()` comes upon is of today or of the other day, sent or not, older than
  `toss_days` or not, and may be removed, reused or sent before it is. Several archives
  are independent of each other there: each is looked at anew. `Loads` says which
  bounds go together; the proofs cover them all at once.

### Fairness

* `Binkp`: each process runs (weak fairness of its receiver, its transmitter
  and its ending). `file_transfer()` is a loop that polls the line, then calls
  both, so neither can be left out for ever; the line itself delivers in order
  and never holds back a frame, being TCP. Kills, lost lines and redials are
  never fair.
* `DirLock`: `mbtask` starts `mbfido` again and again and `inbound_close()`
  retries; whoever has the lock returns it. Deaths are not fair.
* `ProgLock`: a process that has been started goes on; that one is started is
  not assumed.
* `NodeLock`: calls once made go on and whoever has not the node tries again,
  for `mbtask` calls again; that a session ends is *not* assumed.
* `CallClock`: the loop goes round (weak fairness of the minute's part and of the
  scan), and a program that changed the outbound tells so in the end.
* `CallOut`: the loop goes round and mailers come to an end. The call has strong
  fairness: `rescan` may be set again and again by others, but the pass that
  looks for a call makes the list right before, in the same pass of the loop
  (`mbtask.c:1436-1470`), so that it cannot be kept from a call by rescans for
  ever. `EveryNodeCalled` assumes that the internet stays up from some time on.
* `TaskQueue`: the loop goes round, programs and calls end, and what left work
  behind sets its semaphore. Strong fairness of the minute and of the messages
  of the programs, because both are served only between two passes, which come
  again and again. `MailTossed` assumes, in its statement, that the system is not
  suspended for ever, that the requests stop for a while (each `mailin` restarts
  the toss wait), and that the pause timer runs out again and again, which it
  does: it is 3 seconds, a task is looked for every 20.
* `TaskRegs`: `reg_check()` in each round, and time passes for a client that hangs.
* `Outbound`: mbfido and the mailer come to the end of what they began; strong
  fairness where one waits for the other's node lock, and of the acceptance of an
  archive that is offered again and again. No fairness of `scan_dir()` is assumed.

## 4. What is proved

All proofs hold for every value of the constants that satisfies the named
assumptions (`NodesAssumption`, `FilesAssumption`, `BoundsAssumption`, ...),
which only give the constants their types. Theorems with a further condition
name it: `Leavers` and the number of processes for the locks, `Roomy` for the task
queue, `HoursForeseen` for the clock, and in `Binkp` those listed below for the
content of files and for how a session ends.

| Theorem | Statement | Argument |
|---|---|---|
| `DirLockProofs!TypeCorrect` | `Spec => []TypeOK` | inductive |
| `DirLockProofs!Mutual` | the directory lock excludes, if nobody dies (`Leavers = {}`) or there are at most two processes | `IInv` below |
| `ProgLockProofs!TypeCorrect` | `Spec => []TypeOK` | inductive |
| `ProgLockProofs!LockReturned` | `Spec => []NoLockLeft`, any number of instances, `die()` or not | `LockHeld` |
| `ProgLockProofs!PairExcluded` | `Spec => []TwoOnlyAfterThird`, any number of instances | `PairInv` |
| `OutboundProofs!NodeLockTypes`, `NoOrphanedLock` | `NodeSpec => []NodeTypeOK`, `NodeSpec => []LockHasOwner` | `OwnerInv` |
| `OutboundProofs!NodeMutual` | `NodeSpec => []ExclusiveUndisturbed`, for at most two users | `Undisturbed` |
| `BinkpProofs!TypeCorrect` | `Spec => []TypeOK`, any files, sizes, leftovers, faults | inductive, one lemma per action |
| `BinkpProofs!OneAtATime` | each file is in at most one place of the protocol | `Places` |
| `BinkpProofs!AnswersFindTheirFile` | `Spec => []RepliesExpected` | follows from `Places` |
| `BinkpProofs!NeverResent` | `Spec => []NoResend`, any faults, batches and sessions | `Gone` |
| `BinkpProofs!DataInOrder` | the data on the line is of the file offered last, block after block from its offset | `LineStraight` |
| `BinkpProofs!AloneApart` | `Spec => []ResumesApart`, if `OneEach` | follows from `Places` |
| `BinkpProofs!OwnStream` | `Spec /\ []ResumesApart => []RightStream`, if `NoneLonger` | `Layout` |
| `BinkpProofs!StreamExists` | `Spec /\ []ResumesApart => []NoStaleStream`, if `NoneLonger` and without `"refuse"` | `Layout` |
| `BinkpProofs!PartsAreBeginnings` | `Spec /\ []ResumesApart => []PartIsPrefix`, if `NoneOlder`, any faults | `Prefixes` |
| `BinkpProofs!FilesKept` | `Spec /\ []ResumesApart => []NoFileVanishes`, if `NoneOlder`, any faults | `FlushedOrStray`, `GotStored` |
| `BinkpProofs!FilesHandedOff` | `Spec /\ []ResumesApart => ImplementsHandOff`, if `NoneComplete`, and `CRC` or `NoneOlder` | `PartsShort`, `GotMoved` |
| `BinkpSessionProofs!GoodSessionsDeliver` | `Spec => []GoodSessionDelivers` in binkp/1.1, while the batches stay below `BatchLimit`; any leftovers, faults and unreadable files | `Tally` |
| `BinkpSessionProofs!MailersAgree` | `Spec => []SidesAgree`, if `NothingLeft`, `NothingBreaks` and `Alike` | `Harmony` |
| `BinkpSessionProofs!NothingResumed` | `Spec => []ResumesApart` under the same condition, any number of files | `Harmony` |
| `CallOutProofs!TypeCorrect` | `Spec => []TypeOK` | `IInv` |
| `CallOutProofs!EntryHasItsTask` | `Spec => []CallingIsRunning` | `Linked` |
| `CallOutProofs!Turns` | `Spec => []TakeTurns`, any length of the list | `TurnInv` |
| `CallOutProofs!OneMailerWhileListed` | `Spec => []NoDoubleCallWhileListed` | `Single` |
| `SchedulerProofs!TypeCorrect` | `Spec => []TypeOK`: the table is never overfull | `IInv` |
| `SchedulerProofs!OneTosser` | `Spec => []OneMbfido` | `IInv` |
| `SchedulerProofs!StartedAlone` | `Spec => Alone` | `IInv` |
| `SchedulerProofs!ClockTypes` | `ClockSpec => []ClockTypeOK` | inductive |
| `SchedulerProofs!ListIsCurrent` | `ClockSpec => []PlanCurrent`, any nodes, windows and length of the day, if each zone has an hour of its own (`HoursForeseen`) | `ListKept` |
| `SchedulerProofs!NoPacketForgotten` | `Spec => []PacketsExpected`, when the table has room for one task beside the calls and mbfido (`Roomy`) | `PacketInv` |
| `TaskRegsProofs!TypeCorrect` | `Spec => []TypeOK` | `IInv` |
| `TaskRegsProofs!CountersAreTrue` | `Spec => []CountersTrue`, any number of clients and records | `Counted` |
| `TaskRegsProofs!OnePagerAtATime` | `Spec => []OnePager` | `IInv` |
| `TaskRegsProofs!MessagesAreKept` | `Spec => []MessagesKept`, any size of the ring | `IInv` |
| `OutboundProofs!TypeCorrect` | `Spec => []TypeOK` | `IInv` |
| `OutboundProofs!NoMailIsStranded` | `Spec => []NoMailStranded`, any number of packets, archives and mishaps | `ArchivesSent` |
| `OutboundProofs!MailLeavesOnlySent` | `Spec => MailLeavesSent`, `scan_dir()` included | `Sending`, `Scanning` |
| `OutboundProofs!LastTicIsKept` | `Spec => []LastTicKept`, any number of announcements | `Listed`, `TicKept` |

The inductive invariants, and why the properties alone are not inductive:

* **Directory lock.** `IInv` = `TypeOK`, `SeenDead` (whoever is about to unlink
  has read the pid of a process that is dead), `OnlyLeaversDie` and
  `LockNamesHolder`. The dangerous step is `UnlinkStale`: it removes whatever
  lock is there. `RemovalHarmless` shows that then nobody holds the lock: one
  process is dead, one is unlinking, and there is no third. With a third the
  step takes its lock, and the theorem's condition `Harmless` is there for that.
* **Program lock.** `LockHeld`: when there is a lock file, some instance is
  between link and unlink, or was killed. This is weaker than "the lock names
  its holder", which is false here. `PairInv` follows the pids through the
  shared temporary file: a pid in a file is that of an instance that was
  started (`WritersStarted`), an instance about to unlink a stale lock has read
  the pid of one that has ended (`SeenEnded`), so a holder whose lock has gone
  lost it after somebody has ended (`LockLost`).
* **Node lock.** `OwnerInv` adds `DoubtersLockless`: whoever has read another's
  lock has none of its own, so being refused leaves none behind. For `NodeMutual`
  the variable `disturbed` remembers whether somebody came back
  after unlocking, or a lock was foreign or grew old. Until then `SeenPast` says
  that the pid just read is that of a process that has unlocked for good or
  died, wherever its age or `kill()` will lead to the lock's removal; `Plain`
  excludes the locks with no pid. That it is not simply assumed that none of
  this happens makes the theorems say something about every run, up to the
  moment in which it does.
* **Binkp.** `Places` follows one file through offered (`M_FILE` on the line),
  in receipt, answered (`M_GET`, `M_GOT` or `M_SKIP` on the line) and noted (the
  answer in `tql`); it is in at most one, at most once, and in none while the
  sender's list says it is at rest. So no list is dropped with an answer
  outstanding. It holds with every fault and with binkp/1.0 on either side.
  `Gone` adds that a file whose `M_GOT` or `M_SKIP` has been processed is settled: it
  is not the one being sent, and nothing about it is under way; a new batch lists
  only what is still in the outbound. `LineStraight` is about the line alone: every
  data frame behind an `M_FILE` is the next block of that file, and `txpos` is where
  the last one ended, across the moments in which the sender gives a file up.
  `Layout` ties the two ends together. A receiver that is ready for data has a stream
  as long as `rxpos`; every offset named in an `M_FILE` or `M_GET` is 0 or the number
  of blocks in `tmp`; and a stream that `bopenfile()` left open is of the file named
  last. `Prefixes` then needs only `LineStraight`: the block that is appended is the
  one that comes next.
  `FlushedOrStray`: where a kill can cut a file that is still open, no answer
  about it is under way, so a file for which `M_GOT` was sent is flushed
  (`GotStored`). For `ImplementsHandOff` the steps are matched one by one:
  `ReceiveLastBlock` is `HandOff`'s `Arrive` when it moves the file, the handler of
  `M_GOT` is `Dispose`, everything else leaves both sets alone.

  The conditions of these theorems are the cases of section 5 in which the code
  does otherwise, and nothing more:
  - `ResumesApart`: no file is offered while another file of the same mailer, of
    which exactly as many blocks are in `tmp`, is about to be resumed. Line 1229 of
    `binkp.c` compares the length alone, and takes the open stream of the one for
    that of the other. It is a condition on the run, not on the constants, so the
    theorems speak of every run up to the moment in which two such files meet.
    `AloneApart` proves it for mailers with one file each, whatever the faults,
    versions and sessions; `NothingResumed` for any number of files when nothing is
    left in `tmp` and the line holds. It also holds in the instances `BinkpBatches`,
    `BinkpResume` and `BinkpFaults`, the first two with two files for one mailer:
    TLC says so for a module that extends `MCBinkp` and `BinkpProofs`, with
    `ResumesApart`, `Layout`, `Gone`, `FlushedOrStray` and, where their
    theorem's condition holds, `Prefixes`, `GotStored`, `PartsShort` and `GotMoved` as
    invariants (`LineStraight` quantifies over `Nat`, which TLC cannot enumerate).
  - `NoneLonger`, `NoneOlder`: what lies in `tmp` before the first session is not
    longer than the file; for the content it is a beginning of it and not of an
    older version. A longer leftover is never completed; an older one is found
    out by the CRC only at the end.
  - `NoneComplete`: nothing complete lies in `tmp` before the first session, and no
    kill and no failing move leaves a complete file there. The next session would
    answer `M_GOT` and never move it. `FilesKept` says what remains true then.
* **Binkp, how a session ends.** `Tally` is about one mailer: it has counted at least
  as many frames as it has sent and received ends of the batch (`M_EOB`), and one
  more if its list of this batch had a file on it that could be read, for then it has
  announced what it sends. So a batch with fewer than three frames and both ends had no
  such file (`Served`), and what was not listed is not in the outbound: what stays
  queued could not be read when this list was made. It needs no condition on
  leftovers or faults, only binkp/1.1, where refused files come again in the next
  batch, and that the last batch possible, in which nothing is offered, is not reached.
  Both are needed: in `BinkpBatches.cfg` with `Minor <- Binkp10`, or with `BatchLimit = 1`,
  a session ends well and a refused file waits for the next one.

  `Harmony` is about both. They are in the same batch (`Abreast`), or one has gone on
  to the next and the other has yet to read the end of the last (`Behind`). When they
  are abreast, an end that was sent is on the line until it has been read, once, and
  nothing but answers comes behind it; and what one has counted beyond
  the ends the other has counted too or will read, so that both take the batch
  for empty or neither does. When one is behind, the frames under way to
  it are the rest of its batch, up to the end, and then those of the next. `Somewhere`
  says that every file that is being moved is in one of the places of `Places`, and
  that a mailer that is done has none; `FilesFollow` that behind each `M_FILE`, and for
  the file in receipt, all its remaining blocks are on the line or still to be sent, so
  that no batch begins while a file comes in; `PartsKnown` that what is in `tmp` is
  being received or was. The conditions: no part lies in `tmp` before
  the first session (`NothingLeft`); of the faults only refused files and failing moves
  occur (`NothingBreaks`); both believe the same version in use, 1.0 or 1.1
  (`Alike`). Section 5 shows that the first and the last are needed; when the
  line breaks, one side may well have ended and the other not.
* **Call list.** `Linked`: an entry is being called if it has a pid, that pid is in
  the task table, no two entries have the same, and the process behind a table
  entry is not gone before the table has noticed. A pid that is free is thereby
  in no entry and in no table, which makes `Launch` safe. `Single` adds that pids
  in the table and nodes in the list are distinct, and that the entry a mailer
  was started from is still there, unless it was wiped (`forgotten`). `TurnInv`:
  how often an entry was passed over, plus how many entries the rotation still
  has to try before it (`Ahead`), is at most the length of the list. The
  position behind the last entry, which the rotation starts from, makes the
  count one off from the distance the code walks; the proof shows that this
  costs no entry its turn.
* **Task queue.** `IInv` says that `running`, the count taken at the last check,
  is the number of tasks in the table at any moment: what has ended since then
  is still in the table, and what is started is counted when it is. That is why
  a count that old is enough for `Alone`. `PacketInv` adds how many calls there
  may be and that the nodelist compiler and the request index never run together,
  which leaves mbfido a place (`Roomy`: a request that is refused by a full table
  is dropped, section 5); and that the packet's place in the program's steps is
  not passed as long as the semaphore is cleared before the program looks.
* **Clock.** `ListKept` says from which minute the list and the next event are: from
  this one, or from the last one, in the moment between the clock's tick and what is
  done in each minute. `Planned` says that they are those of a minute `t` when a scan
  at `t` gives this list and no event of a waiting node lies between `t` and the next
  one. From `t` to a minute that is no event the list stays
  what it is: a window or a mail hour is open at one and not at the other only if it
  begins or ends there. The next event is the least element of a finite
  set of moments, or midnight. `HoursForeseen` excludes the nodes of
  zones beyond six (section 5), for which the system's own hour is used but is no
  event, unless that hour is empty.
* **Registrations.** `Registered`: a process has at most one record, and none when it
  is gone for good; so each record that is wiped was counted once, and `Counted`
  holds as an equation of cardinalities. `Rings` gives, for the k-th message that
  waits, the place it lies in (`Spot`), and says that the message is in it unless
  a later one was written to the same cell, which the arrays of RB places with
  pointers over RB + 1 allow in one case (section 5).
* **Outbound.** `ArchivesSent` says of every archive with mail why it is going to
  be sent; that is inductive only with `Turns` (while `flush_dir()` works nobody
  marks or truncates) and `Flushing`: an archive to which a packet is added
  without a new line has one already, because the loop that looks for a name
  ends with the number it began with only at an archive that has mail. `Sending`
  is what makes the truncation harmless: between `M_GOT` and `Dispose` the mail of
  the file has arrived. `Scanning` says what `scan_dir()` knows: an archive that it has
  seen truncated was empty then, so that what it removes later was packed since and is
  in `damaged`, as is what it removes for its age. The announcement's `.tic` is followed by `Listed`: it is
  the last line of `.filelist`, so whatever `un_attach()` removes before is an older
  one, and as long as it is not attached it has no line, unless `mbfido` was
  killed behind it.

## 5. Where code and intent part

One disagreement is kept as a run, with one property that TLC refutes:

* `proglock_die` (`mbsetup/mbsetup.c:142`, and five other programs). An
  instance that was told another is running leaves through `die()`, which
  unlocks without looking at the pid in the lock: the next one starts beside
  the first.

Others were met on the way. Each limits a property to the instance its run
uses, and can be seen by changing the constants as said.

Locks:

* *Stale directory lock, three processes* (`mbfido/dirlock.c:92`).
  `MutualExclusion` of `DirLock` fails with three processes, one of which may
  die: two judge the same lock stale, and the second removes the lock the first
  has just made. This is why `Mutual` needs `Harmless`.
* *Program lock after a third has ended* (`lib/proglock.c:88`).
  `MutualExclusion` of `ProgLock` fails with three instances and
  `Killable = {p1}`, in the same way; hence `TwoOnlyAfterThird`.
* *Node lock that has gone* (`lib/nodelock.c:118`). The age of a lock that has just
  gone counts as more than six hours; what is unlinked next may be a new lock.
  `MutualExclusion` of `NodeLock` fails with two users in `Again`.
* *Node lock broken for its age* (`lib/nodelock.c:171`). `OthersUntouched` fails
  with `MayAge = TRUE`: `nodeulock()` reads its pid, the lock is taken over, and
  is then removed under its new owner. `mbcico/session.c:323` says "locks not
  owned by us are untouched."
* *Zero byte locks* (`lib/nodelock.c:96`). `ForeignRespected` fails with
  `Foreign` and `ZeroLocks`: the pid is not initialised, and what it holds is
  compared with our own pid before the length of the file is looked at.

Binkp:

* *Two parts of the same length* (`mbcico/binkp.c:1229`). A receiver that asks for
  the rest of two partial files can be sent `M_FILE` of the first when the stream
  of the second is the open one; if the lengths match, blocks of the first are
  appended to the second. The comment at 1225 assumes they cannot. `RightStream`
  fails in `BinkpResume.cfg` with `Leftover <- MCPrefix` and `Size <- MCSize`. A session that breaks
  off leaves such parts, which is why `binkp_resume` has one session.
* *Older versions without CRC* (`mbcico/bopenfile.c:83`). `NoLoss` fails with
  `CRC = FALSE` and `Leftover <- MCPartial`: a partial file of any date is
  completed with the rest of the new one.
* *Partial file that cannot be opened* (`mbcico/binkp.c:1280`). `NoStaleStream`
  fails with a leftover part and the fault `"refuse"`: `M_GET` is sent although
  the stream is NULL.
* *Kill inside `bclosefile()`* (`mbcico/binkp.c:1267`). `NoLoss` and
  `ImplementsHandOff` fail in `BinkpFaults.cfg` with `Faults = {"kill"}`: a complete
  file stays in `tmp`, the next session answers `M_GOT` for it, and it is never
  moved to the inbound. `NoFileVanishes` is what remains true.
* *Silent line* (`mbcico/binkp.c:1014`). `Termination` fails with the fault
  `"silent"`: the timer is looked at only when there is no room for output.
* *Short batches* (`mbcico/binkp.c:1814`). `NothingSentAnymore` and `SidesAgree`
  fail with a leftover part: fewer than three messages were counted, and the file
  pending on the other side is cut off. It is sent in the next session. A new batch
  can also begin while a file comes in: `M_EOB` has been received, the file that was
  asked for with `M_GET` arrives behind it, and as soon as the own files are
  acknowledged `TransmitNewBatch` sets `RxState` to `RxWaitF` (`1820`) and the rest of
  the file is ignored. `SidesAgree` does not hold there, and `MailersAgree` supposes
  that nothing is left in `tmp`.
* *Different versions* (`mbcico/binkp.c:2063`). `SidesAgree` fails with
  `Minor = (a :> 1 @@ b :> 0)`, which the option that forces binkp/1.0 on a node
  can bring about. In binkp/1.0 a resumed file is offered again after `M_EOB`,
  and the receiver fails the session (`1481`).

Daemon:

* *Call during a call* (`mbtask/calllist.c:83-86`). `NoDoubleCall` fails: the slot of
  a node whose mail has gone is wiped although its mailer still runs, new mail
  fills a slot again, and a second mailer is started. The node lock then turns it
  away, as `NodeLocked` does, at the price of a delay.
* *Zone without a mail hour* (`mbtask/outstat.c:488`). `PlanCurrent` fails with
  `Node <- MCOther`: for a zone beyond six the system's own hour is used but not
  entered as an event, so that its beginning goes unnoticed until something else
  asks for a scan.
* *Requests lost while they are served* (`mbfido/scan.c:141`, likewise `mbindex.c`,
  `mbmsg.c`, `mbfido/mbfido.c:636`). `AllExpected` fails with `"mailout"` or
  `"msglink"` in `Asked`: these programs remove the semaphore when they are done,
  also one that was set for mail they have not seen. `mailin` is removed before
  the work, and `PacketsExpected` holds for packets; a `.tic` file that comes
  while packets are tossed is not looked for again (`AllExpected` with `"mailin"`).
* *Requests that cannot be started* (`mbtask/mbtask.c:1347-1350`). `PacketsExpected`
  fails with `"mailin"` in `MayFail`: what `launch()` returns is ignored, and the
  semaphore is cleared.
* *Ring of messages* (`mbtask/taskregs.c:491-494`). `ReadAsSent` fails in
  `TaskRegs.cfg`: the pointers run over RB + 1 places of arrays of RB, so that one
  place of the texts is behind the array and one of the names is the first text.
  `MessagesKept` states what is true of the order and of the places that do not
  overlap. `html/programs/mbtask.html:246` says of the call "Yes, from .. with
  message text."

Outbound. `NoMailStranded`, `LastTicKept` and `MailLeavesSent` name their
exceptions in the variable `damaged`; without it they fail:

* *Mail packed in an archive that is being removed* (`mbtask/scanout.c:151-158`, the same
  in `mbcico/scanout.c:148-156`). "Remove truncated ARCmail" looks at the size, then
  removes the name, without the node lock. In between `mbfido`, which has that lock,
  may remove the old archive itself, use its name and pack new mail in it
  (`queue.c:309-318`, `374-397`): the new mail is removed with the name. The moment is
  short, and the archive must be one that earlier scans have left. `OnlyTruncatedRemoved`
  fails in `Outbound.cfg`.
* *Mail on hold longer than `toss_days`* (`mbtask/scanout.c:163-169`) is removed by
  intention, unsent, and with it what `mbfido` adds between the look at its age and
  the removal. Its line stays in the flo file.
* *Numbers of a day used up* (`mbfido/queue.c:328-343`), without any mishap: when the
  last number of the day is an archive that was sent, all numbers are removed,
  also those not sent, as a session that skipped one leaves them.
* *A kill or a failed `fopen()` between an archive and its line* (`queue.c:414`,
  whose call of `attach()` ignores the result), or a kill of the mailer between
  the mark and the truncation: later mail is added to an archive that no line
  names, until the name is free again.
* *A kill between a tic's line and the removal of `.filelist`* (`lib/attach.c:184-199`):
  the list is worked off again, and `un_attach()` of the second time removes the
  ticket file of the first.

Met but outside the models: `binkp.c:2578-2586` uses `cursend` after setting it to
NULL; `callstat.c:74` never ends with a dialdelay of 9 or less;
`queue.c:274-279` returns with the node locked when the archiver is unknown;
`binkp_clear_filelist()` tidies the list of a failed session with the flag that deletes
its temporary files (`binkp.c:2928`), requests that were not sent included;
`mbtask` counts a stopped child as one that ended; a mailer that is killed before
`putstatus()` does not count as a try.

## 6. What is only model-checked

* Liveness (`Termination`, `StaleLockGoes`, `SomeoneRuns`, `CrashMailPlanned`,
  `EveryNodeCalled`, `MailTossed`, `FailedClientsGo`, `MailArrives`): beyond the
  prover.

Every other invariant and action property of the runs is stated by a theorem, under
the conditions of section 4.

Definitions that no run checks (`NoLoss`, `NothingSentAnymore`, `NoDoubleCall`,
`AllExpected`, `ReadAsSent`, `MutualExclusion` of `NodeLock`, `OthersUntouched`,
`ForeignRespected`, `OnlyTruncatedRemoved`) are the statements of section 5, kept to reproduce it;
`LockNamesHolder` is a part of a proof.

## 7. What is not modelled, and why

Within binkp: see the abstractions in 2.1. Within the locks: `kill()` returning
`EPERM`, `fopen()` and `link()` failing for other reasons than the file's
presence (the code then gives up without a trace). Within the daemon: chat, the
ICMP state machine behind `internet`, the listing of clients with its shared
position, disk watch, power failure beyond the switch `Processing`. Within the
outbound: see 2.4. Of the other components of the system:

* *planned, section 8*: inbound, binkp handshake, chat, the other transfer
  protocols, message base and tosser;
* *pure I/O or dialogue*: screens of `mbsebbs`, `mbsetup`, `mbmon`; HTML and
  report generators; terminal and modem handling. These are most of the source
  by far, and their share of what can go wrong by order of events is small;
* *table look-ups and conversions*: nodelists, character sets, configuration
  records, dates: one process, no order of events to get wrong.

`PROJECT.json` lists each with its reason.

## 8. Plan

1. (done) `Binkp`, `HandOff`: the file transfer.
2. (done) `DirLock`, `ProgLock`, `NodeLock`: the locks.
3. (done) `OutStat`, `CallClock`, `CallOut`, `TaskQueue`, `TaskRegs`: the daemon.
4. (done) `Outbound`: mbfido's queue, flo files, the mailer's marks, and what `scan_dir()` removes.
5. `Inbound`: `inbound_open()`/`inbound_close()` under `DirLock`, composed with
   `Binkp`'s `tempin`. Binkp handshake: node locks on the akas, choice of the
   version, whose outcome is `Minor` and `CRC` here.
6. InterBBS chat (`taskibc.c`, `taskchat.c`) on lossy, reordering datagrams.
7. Hydra, Zmodem and EMSI, against the same `HandOff`.
8. Message base locking (`lib/jammsg.c`), the tosser's packets and duplicates.

Theorems to prove next: `SidesAgree` with leftover parts, up to the first `M_GET` that
crosses an `M_EOB`; a condition on the sizes that implies `ResumesApart` after a
broken transfer.
