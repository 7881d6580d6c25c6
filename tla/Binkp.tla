-------------------------------- MODULE Binkp --------------------------------
(***************************************************************************)
(* The file transfer phase of a binkp session (mbcico/binkp.c from         *)
(* file_transfer() on, with bopenfile() and bclosefile()): two mailers,    *)
(* each with a receiver and a transmitter that take turns on one           *)
(* connection.  A step is one call of binkp_receiver() (with the poll that *)
(* found its frame) or of binkp_transmitter(); calls that a TrType of      *)
(* Continue chains without touching the line are one step or keep          *)
(* FtState at "Transmit".                                                  *)
(*                                                                         *)
(* A file is its blocks: <<f, i>> is block i of file f as it is queued     *)
(* now, <<f, 0>> a block of an older file of that name.                    *)
(***************************************************************************)
EXTENDS Naturals, Sequences, FiniteSets, Functions

CONSTANTS
  Nodes,        \* the mailers
  Peer,         \* the node at the other end of the connection
  Files,        \* the files, named as the remote knows them
  Owner,        \* the node that has the file in its outbound
  Size,         \* the number of blocks of each file
  Leftover,     \* what earlier sessions may have left of it in the peer's tmp
  Minor,        \* binkp/1.0 or 1.1, as each node believes it is in use
  CRC,          \* both sides have the CRC option active
  Unreadable,   \* the files that cannot be opened for reading in each batch
  BatchLimit,   \* no more files are offered from this batch on (20)
  MaxSessions,  \* bound: the number of sessions
  Faults,       \* the kinds of fault that may happen
  MaxFaults,    \* bound: how many of them do
  NoFile        \* no file

FaultKinds == {"reset", "silent", "refuse", "lowdisk", "move", "kill"}

ASSUME NodesAssumption ==
  /\ NoFile \notin Files
  /\ Peer \in [Nodes -> Nodes]
  /\ \A n \in Nodes : Peer[n] # n /\ Peer[Peer[n]] = n
  /\ Owner \in [Files -> Nodes]

ASSUME FilesAssumption ==
  /\ Size \in [Files -> Nat \ {0}]
  /\ \A f \in Files : Leftover[f] \subseteq Seq({f} \X Nat)

ASSUME OptionsAssumption ==
  /\ Minor \in [Nodes -> {0, 1}]
  /\ CRC \in BOOLEAN
  /\ BatchLimit \in Nat
  /\ Unreadable \in [0..BatchLimit -> SUBSET Files]
  /\ MaxSessions \in Nat \ {0}
  /\ MaxFaults \in Nat
  /\ Faults \subseteq FaultKinds

VARIABLES
  FtState,      \* of file_transfer()
  RxState,      \* of the receiver
  TxState,      \* of the transmitter
  local_EOB, remote_EOB, messages, batchnr,
  rc,           \* bp.rc is not 0, the session has failed
  chan,         \* the frames under way to each node
  link,         \* the connection: "up", or lost with or without a signal
  tql,          \* received commands the transmitter has to process
  listed,       \* tosend and bll exist
  state,        \* FileState of each file on its owner's bll
  offset,       \* and where to start sending it
  cursend,      \* the file being sent
  txpos,        \* blocks of it already sent
  rname,        \* the file being received
  rxpos,        \* blocks of it received
  rxbytes,      \* size of the file in tmp when it was opened
  rxfp,         \* the receiver's stream: "null", "open" or "closed"
  infp,         \* the file in tmp that bopenfile() opened, or NoFile
  rcrcerr,      \* CRC errors in this session
  part,         \* contents of each file in the peer's tempinbound/tmp
  tempin,       \* and in its tempinbound
  outbound,     \* the files that are still queued
  session, faults

lineVars == <<chan, link>>
batchVars == <<local_EOB, remote_EOB, messages, batchnr>>
txVars == <<TxState, tql, listed, state, offset, cursend, txpos, outbound>>
rxVars == <<RxState, rname, rxpos, rxbytes, rxfp, infp, rcrcerr, part, tempin>>
boundVars == <<session, faults>>
vars == <<FtState, rc, lineVars, batchVars, txVars, rxVars, boundVars>>

\* A frame: a command, or data.  M_FILE and M_GET carry an offset in num, data
\* the number of the block.
Frame ==
  [cmd : {"NUL", "EOB", "ERR", "BSY"}, file : {NoFile}, num : {0}]
    \cup [cmd : {"FILE", "GET", "GOT", "SKIP", "DATA"}, file : Files, num : Nat]

Command(c) == [cmd |-> c, file |-> NoFile, num |-> 0]

About(c, f, k) == [cmd |-> c, file |-> f, num |-> k]

Whole(f) == [i \in 1..Size[f] |-> <<f, i>>]

FileState == {"NotListed", "NoState", "Sending", "IsSent", "Got", "Skipped"}

Own(n) == {f \in Files : Owner[f] = n}

\* bp.messages matters only below 3.
Count(k, m) == IF k + m < 3 THEN k + m ELSE 3

Fault(kind) ==
  /\ kind \in Faults
  /\ faults < MaxFaults
  /\ faults' = faults + 1

Init ==
  /\ FtState = [n \in Nodes |-> "Switch"]
  /\ RxState = [n \in Nodes |-> "RxWaitF"]
  /\ TxState = [n \in Nodes |-> "TxGNF"]
  /\ local_EOB = [n \in Nodes |-> FALSE]
  /\ remote_EOB = [n \in Nodes |-> FALSE]
  /\ messages = [n \in Nodes |-> 0]
  /\ batchnr = [n \in Nodes |-> 0]
  /\ rc = [n \in Nodes |-> FALSE]
  /\ chan = [n \in Nodes |-> <<>>]
  /\ link = "up"
  /\ tql = [n \in Nodes |-> <<>>]
  /\ listed = [n \in Nodes |-> FALSE]
  /\ state = [f \in Files |-> "NotListed"]
  /\ offset = [f \in Files |-> 0]
  /\ cursend = [n \in Nodes |-> NoFile]
  /\ txpos = [n \in Nodes |-> 0]
  /\ rname = [n \in Nodes |-> NoFile]
  /\ rxpos = [n \in Nodes |-> 0]
  /\ rxbytes = [n \in Nodes |-> 0]
  /\ rxfp = [n \in Nodes |-> "null"]
  /\ infp = [n \in Nodes |-> NoFile]
  /\ rcrcerr = [n \in Nodes |-> 0]
  /\ part \in [Files -> UNION {Leftover[f] : f \in Files}]
  /\ \A f \in Files : part[f] \in Leftover[f]
  /\ tempin = [f \in Files |-> <<>>]
  /\ outbound = Files
  /\ session = 1
  /\ faults = 0
------------------------------------------------------------------------------
\* The line.

\* Both halves are done: file_transfer() polls no more.
Finished(n) == RxState[n] = "RxDone" /\ TxState[n] = "TxDone"

\* binkp_poll_frame() has a complete frame, In(n).
Polled(n) ==
  /\ FtState[n] = "Switch"
  /\ ~ Finished(n)
  /\ link = "up"
  /\ chan[n] # <<>>

In(n) == Head(chan[n])

\* The frame is consumed and the frames of out are sent in answer.
Answer(n, out) ==
  /\ chan' = [chan EXCEPT ![n] = Tail(@), ![Peer[n]] = @ \o out]
  /\ messages' = [messages EXCEPT ![n] =
                    Count(@, Len(out) + IF In(n).cmd = "DATA" THEN 0 ELSE 1)]
  /\ UNCHANGED <<link, session>>

\* binkp_send_frame() for each frame of out; what is written to a lost line
\* arrives nowhere.
Send(n, out) ==
  chan' = [chan EXCEPT ![Peer[n]] = IF link = "reset" THEN @ ELSE @ \o out]

Goto(n, s) == FtState' = [FtState EXCEPT ![n] = s]

\* binkp_receiver() returns Ok: when both sides have sent EOB the transmitter
\* goes first, which does nothing in TxDone.
ReceiverOk(n) ==
  /\ Goto(n, IF local_EOB'[n] /\ remote_EOB'[n] /\ TxState[n] # "TxDone"
             THEN "Transmit" ELSE "Switch")
  /\ UNCHANGED rc

Failure(n) ==
  /\ Goto(n, "DeinitTransfer")
  /\ rc' = [rc EXCEPT ![n] = TRUE]

Pending_Unacked(n) == {f \in Own(n) : state[f] \in {"NoState", "Sending"}}

\* binkp_pendingfiles()
Pending(n) == {f \in Own(n) : state[f] \in {"NoState", "Sending", "IsSent"}}

\* binkp_clear_filelist(): the list is dropped, whatever became of its files.
ClearFilelist(n) ==
  /\ listed' = [listed EXCEPT ![n] = FALSE]
  /\ state' = [f \in Files |-> IF Owner[f] = n THEN "NotListed" ELSE state[f]]
  /\ offset' = [f \in Files |-> IF Owner[f] = n THEN 0 ELSE offset[f]]

\* Both sides are in EOB: the next batch.
NewBatch(n) ==
  /\ batchnr' = [batchnr EXCEPT ![n] = IF @ < BatchLimit THEN @ + 1 ELSE @]
  /\ local_EOB' = [local_EOB EXCEPT ![n] = FALSE]
  /\ remote_EOB' = [remote_EOB EXCEPT ![n] = FALSE]
  /\ TxState' = [TxState EXCEPT ![n] = "TxGNF"]
  /\ RxState' = [RxState EXCEPT ![n] = "RxWaitF"]
  /\ ClearFilelist(n)
------------------------------------------------------------------------------
\* The receiver.

\* A frame without effect: M_NUL, or data that is still under way after the
\* file was refused or asked for at another offset.
ReceiveIgnored(n) ==
  /\ Polled(n)
  /\ \/ In(n).cmd = "NUL" /\ RxState[n] # "RxDone"
     \/ In(n).cmd = "DATA" /\ RxState[n] = "RxWaitF"
  /\ Answer(n, <<>>)
  /\ UNCHANGED <<local_EOB, remote_EOB, batchnr>>
  /\ ReceiverOk(n)
  /\ UNCHANGED <<txVars, rxVars, faults>>

\* M_GET, M_GOT and M_SKIP wait for the transmitter: binkp_add_message().
ReceiveMessage(n) ==
  /\ Polled(n)
  /\ In(n).cmd \in {"GET", "GOT", "SKIP"}
  /\ tql' = [tql EXCEPT ![n] = Append(@, In(n))]
  /\ Answer(n, <<>>)
  /\ UNCHANGED <<local_EOB, remote_EOB, batchnr>>
  /\ ReceiverOk(n)
  /\ UNCHANGED <<TxState, listed, state, offset, cursend, txpos, outbound,
                 rxVars, faults>>

\* A command the state does not allow, or the other side's error.
ReceiveError(n) ==
  /\ Polled(n)
  /\ \/ In(n).cmd \in {"ERR", "BSY"}
     \/ In(n).cmd = "EOB" /\ RxState[n] # "RxWaitF"
     \/ In(n).cmd \in {"FILE", "DATA"} /\ RxState[n] = "RxEOB"
  /\ RxState' = [RxState EXCEPT ![n] = "RxDone"]
  /\ remote_EOB' = [remote_EOB EXCEPT ![n] = @ \/ In(n).cmd = "EOB"]
  /\ Answer(n, <<>>)
  /\ Failure(n)
  /\ UNCHANGED <<local_EOB, batchnr, txVars, rname, rxpos, rxbytes, rxfp, infp,
                 rcrcerr, part, tempin, faults>>

\* M_EOB in RxWaitF.  In binkp/1.1 it ends the batch when ours is over too,
\* unless nothing was sent in it or files are still pending; in binkp/1.0 it
\* ends the receiving.
ReceiveEOB(n) ==
  /\ Polled(n)
  /\ In(n).cmd = "EOB"
  /\ RxState[n] = "RxWaitF"
  /\ chan' = [chan EXCEPT ![n] = Tail(@)]
  /\ \/ /\ Minor[n] = 1
        /\ local_EOB[n]
        /\ Count(messages[n], 1) = 3
        /\ Pending(n) = {}
        /\ NewBatch(n)
        /\ messages' = [messages EXCEPT ![n] = 0]
     \/ /\ \/ Minor[n] = 0
           \/ ~ local_EOB[n]
           \/ Count(messages[n], 1) < 3
           \/ Pending(n) # {}
        /\ remote_EOB' = [remote_EOB EXCEPT ![n] = TRUE]
        /\ messages' = [messages EXCEPT ![n] = Count(@, 1)]
        /\ RxState' = [RxState EXCEPT ![n] =
                         IF Minor[n] = 0 THEN "RxEOB" ELSE "RxWaitF"]
        /\ UNCHANGED <<local_EOB, batchnr, TxState, listed, state, offset>>
  /\ ReceiverOk(n)
  /\ UNCHANGED <<link, tql, cursend, txpos, outbound, rname, rxpos,
                 rxbytes, rxfp, infp, rcrcerr, part, tempin, boundVars>>

\* RxAccF.  The file that was open is saved (bclosefile(FALSE)) when M_FILE
\* interrupts it.  The stream of the last file is used again when M_FILE has
\* the offset that was its size; else bopenfile() opens the file in tmp, for
\* appending.
Reused_AnyOffset(n) == In(n).num = rxbytes[n]

Reused_AnySize(n) == In(n).num # 0

Reused(n) == In(n).num # 0 /\ In(n).num = rxbytes[n]

Stream(n) == IF RxState[n] = "RxReceD" THEN "null" ELSE rxfp[n]

TmpSize(n) == IF Reused(n) THEN rxbytes[n] ELSE Len(part[In(n).file])

Opened(n) == IF ~ Reused(n) THEN In(n).file
             ELSE IF RxState[n] = "RxReceD" THEN NoFile ELSE infp[n]

\* The part every M_FILE has in common.
AcceptFile(n) ==
  /\ Polled(n)
  /\ In(n).cmd = "FILE"
  /\ RxState[n] \in {"RxWaitF", "RxReceD"}
  /\ Reused(n) => Stream(n) = "open"
  /\ rname' = [rname EXCEPT ![n] = In(n).file]
  /\ rxpos' = [rxpos EXCEPT ![n] = In(n).num]
  /\ rxbytes' = [rxbytes EXCEPT ![n] = TmpSize(n)]
  /\ UNCHANGED <<local_EOB, remote_EOB, batchnr, tql, listed, state, offset,
                 cursend, txpos, outbound, rcrcerr, part, tempin>>

AlreadyGot_Short(n) == TmpSize(n) + 1 >= Size[In(n).file]

\* A file that is complete in tmp is not received again.
AlreadyGot(n) == TmpSize(n) = Size[In(n).file]

ReceiveKnownFile(n) ==
  /\ AcceptFile(n)
  /\ AlreadyGot(n)
  /\ Answer(n, <<About("GOT", In(n).file, 0)>>)
  /\ RxState' = [RxState EXCEPT ![n] = "RxWaitF"]
  /\ rxfp' = [rxfp EXCEPT ![n] = "null"]
  /\ infp' = [infp EXCEPT ![n] = Opened(n)]
  /\ ReceiverOk(n)
  /\ UNCHANGED <<TxState, faults>>

\* A partial file is asked for from where it ends.
IsPartial(n) ==
  /\ TmpSize(n) < Size[In(n).file]
  /\ In(n).num = 0
  /\ TmpSize(n) # 0

\* The file cannot be opened, or there are not enough free blocks for it: it
\* is asked for all the same when it is partial, and refused else.
CannotStore(n) ==
  /\ Fault("refuse")
  /\ rxfp' = [rxfp EXCEPT ![n] = "null"]
  /\ infp' = [infp EXCEPT ![n] = NoFile]

CanStore(n) ==
  /\ rxfp' = [rxfp EXCEPT ![n] = "open"]
  /\ infp' = [infp EXCEPT ![n] = Opened(n)]
  /\ UNCHANGED faults

ReceivePartial(n) ==
  /\ AcceptFile(n)
  /\ ~ AlreadyGot(n)
  /\ IsPartial(n)
  /\ CanStore(n) \/ CannotStore(n)
  /\ Answer(n, <<About("GET", In(n).file, TmpSize(n))>>)
  /\ RxState' = [RxState EXCEPT ![n] = "RxWaitF"]
  /\ ReceiverOk(n)
  /\ UNCHANGED TxState

ReceiveRefused(n) ==
  /\ AcceptFile(n)
  /\ ~ AlreadyGot(n)
  /\ ~ IsPartial(n)
  /\ CannotStore(n)
  /\ Answer(n, <<About("SKIP", In(n).file, 0)>>)
  /\ RxState' = [RxState EXCEPT ![n] = "RxWaitF"]
  /\ ReceiverOk(n)
  /\ UNCHANGED TxState

ReceiveFile(n) ==
  /\ AcceptFile(n)
  /\ ~ AlreadyGot(n)
  /\ ~ IsPartial(n)
  /\ CanStore(n)
  /\ Answer(n, <<>>)
  /\ RxState' = [RxState EXCEPT ![n] = "RxReceD"]
  /\ ReceiverOk(n)
  /\ UNCHANGED TxState

\* enoughspace() fails: M_BSY, and the session is over.
ReceiveLowDisk(n) ==
  /\ AcceptFile(n)
  /\ Fault("lowdisk")
  /\ Answer(n, <<Command("BSY")>>)
  /\ RxState' = [RxState EXCEPT ![n] = "RxDone"]
  /\ TxState' = [TxState EXCEPT ![n] = "TxDone"]
  /\ rxfp' = [rxfp EXCEPT ![n] = "open"]
  /\ infp' = [infp EXCEPT ![n] = Opened(n)]
  /\ Failure(n)

\* The stream to be used again has been closed, or is NULL: fseek() and
\* fwrite() on it end the process or fail.
StaleStream(n) ==
  /\ Polled(n)
  /\ In(n).cmd = "FILE"
  /\ RxState[n] \in {"RxWaitF", "RxReceD"}
  /\ Reused(n)
  /\ Stream(n) # "open"

ReceiveOnStaleStream(n) ==
  /\ StaleStream(n)
  /\ \/ Goto(n, "Exit")
     \/ Stream(n) = "closed" /\ Goto(n, "DeinitTransfer")
  /\ rc' = [rc EXCEPT ![n] = TRUE]
  /\ infp' = [infp EXCEPT ![n] = Opened(n)]
  /\ Answer(n, <<>>)
  /\ UNCHANGED <<local_EOB, remote_EOB, batchnr, txVars, RxState, rname, rxpos,
                 rxbytes, rxfp, rcrcerr, part, tempin, faults>>

\* RxWriteD: a block is appended to the file that is open.
WriteBlock(n) ==
  /\ Polled(n)
  /\ In(n).cmd = "DATA"
  /\ RxState[n] = "RxReceD"
  /\ rxfp[n] = "open"
  /\ rxpos' = [rxpos EXCEPT ![n] = @ + 1]
  /\ UNCHANGED <<local_EOB, remote_EOB, batchnr, txVars, rname, rxbytes>>

Content(n) == Append(part[infp[n]], <<In(n).file, In(n).num>>)

IsLast(n) == rxpos[n] + 1 = Size[rname[n]]

ReceiveBlock(n) ==
  /\ WriteBlock(n)
  /\ ~ IsLast(n)
  /\ part' = [part EXCEPT ![infp[n]] = Content(n)]
  /\ Answer(n, <<>>)
  /\ ReceiverOk(n)
  /\ UNCHANGED <<RxState, rxfp, infp, rcrcerr, tempin, faults>>

\* The last block: bclosefile(TRUE) closes the stream and checks the CRC.
CloseFile(n) ==
  /\ WriteBlock(n)
  /\ IsLast(n)
  /\ infp' = [infp EXCEPT ![n] = NoFile]

CrcFails_Never(n) == FALSE

CrcFails(n) == CRC /\ Content(n) # Whole(rname[n])

\* The file is moved from tmp to tempinbound.  M_GOT is sent whether or not
\* that succeeds.
ReceiveLastBlock(n) ==
  /\ CloseFile(n)
  /\ ~ CrcFails(n)
  /\ \/ /\ tempin' = [tempin EXCEPT ![infp[n]] = Content(n)]
        /\ part' = [part EXCEPT ![infp[n]] = <<>>]
        /\ UNCHANGED faults
     \/ /\ Fault("move")
        /\ part' = [part EXCEPT ![infp[n]] = Content(n)]
        /\ UNCHANGED tempin
  /\ rxfp' = [rxfp EXCEPT ![n] = "closed"]
  /\ RxState' = [RxState EXCEPT ![n] = "RxWaitF"]
  /\ Answer(n, <<About("GOT", rname[n], 0)>>)
  /\ ReceiverOk(n)
  /\ UNCHANGED rcrcerr

\* A file with a wrong CRC is removed.  The first time it is refused, after
\* that the session is aborted.
RejectFile(n) ==
  /\ CloseFile(n)
  /\ CrcFails(n)
  /\ part' = [part EXCEPT ![infp[n]] = <<>>]
  /\ UNCHANGED <<tempin, faults>>

ReceiveCrcError(n) ==
  /\ RejectFile(n)
  /\ rcrcerr[n] = 0
  /\ rcrcerr' = [rcrcerr EXCEPT ![n] = 1]
  /\ rxfp' = [rxfp EXCEPT ![n] = "closed"]
  /\ RxState' = [RxState EXCEPT ![n] = "RxWaitF"]
  /\ Answer(n, <<About("SKIP", rname[n], 0)>>)
  /\ ReceiverOk(n)

ReceiveCrcAbort(n) ==
  /\ RejectFile(n)
  /\ rcrcerr[n] # 0
  /\ rxfp' = [rxfp EXCEPT ![n] = "null"]
  /\ RxState' = [RxState EXCEPT ![n] = "RxDone"]
  /\ Answer(n, <<Command("ERR")>>)
  /\ Failure(n)
  /\ UNCHANGED rcrcerr

\* The process is killed inside bclosefile(), between the fclose() and the
\* file_mv().
KilledInClose(n) ==
  /\ CloseFile(n)
  /\ Fault("kill")
  /\ part' = [part EXCEPT ![infp[n]] = Content(n)]
  /\ Goto(n, "Exit")
  /\ rc' = [rc EXCEPT ![n] = TRUE]
  /\ Answer(n, <<>>)
  /\ UNCHANGED <<RxState, rxfp, rcrcerr, tempin>>

Receive(n) ==
  \/ ReceiveIgnored(n) \/ ReceiveMessage(n) \/ ReceiveError(n)
  \/ ReceiveEOB(n)
  \/ ReceiveKnownFile(n) \/ ReceivePartial(n) \/ ReceiveRefused(n)
  \/ ReceiveFile(n) \/ ReceiveLowDisk(n) \/ ReceiveOnStaleStream(n)
  \/ ReceiveBlock(n) \/ ReceiveLastBlock(n)
  \/ ReceiveCrcError(n) \/ ReceiveCrcAbort(n) \/ KilledInClose(n)
------------------------------------------------------------------------------
\* The transmitter.

\* binkp_transmitter() is called in this TxState.
Transmits(n, s) ==
  /\ FtState[n] \in {"Switch", "Transmit"}
  /\ TxState[n] = s
  /\ UNCHANGED <<rc, link, session, rname, rxpos, rxbytes, rxfp, infp, rcrcerr,
                 part, tempin>>

Filelist_Once(n) ==
  [f \in Files |->
     IF listed[n] \/ Owner[f] # n THEN state[f]
     ELSE IF f \in outbound /\ batchnr[n] = 0 THEN "NoState"
     ELSE "NotListed"]

Filelist_All(n) ==
  [f \in Files |->
     IF listed[n] \/ Owner[f] # n THEN state[f]
     ELSE IF batchnr[n] < BatchLimit THEN "NoState"
     ELSE "NotListed"]

\* TxGNF.  The first call of a batch makes the list from the outbound.
Filelist(n) ==
  [f \in Files |->
     IF listed[n] \/ Owner[f] # n THEN state[f]
     ELSE IF f \in outbound /\ batchnr[n] < BatchLimit THEN "NoState"
     ELSE "NotListed"]

Sendable(n) == {f \in Own(n) : Filelist(n)[f] = "NoState"}

\* M_NUL TRF announces it: in the first batch always, in a later one when it has
\* bytes to send.  fill_binkp_list() counts those of the files it can open.
Traffic(n) ==
  IF listed[n] \/ (batchnr[n] # 0 /\ Sendable(n) \subseteq Unreadable[batchnr[n]])
  THEN <<>> ELSE <<Command("NUL")>>

GetNextFile(n) ==
  /\ Transmits(n, "TxGNF")
  /\ listed' = [listed EXCEPT ![n] = TRUE]
  /\ UNCHANGED <<RxState, remote_EOB, batchnr, tql, outbound>>

SendCommand(n, out) ==
  /\ Send(n, out)
  /\ messages' = [messages EXCEPT ![n] = Count(@, Len(out))]

StartAt_Zero(f) == 0

\* fseek(txfp, offset) after fopen().
StartAt(f) == offset[f]

TransmitFile(n, f) ==
  /\ GetNextFile(n)
  /\ f \in Sendable(n) \ Unreadable[batchnr[n]]
  /\ SendCommand(n, Append(Traffic(n), About("FILE", f, offset[f])))
  /\ txpos' = [txpos EXCEPT ![n] = StartAt(f)]
  /\ state' = [Filelist(n) EXCEPT ![f] = "Sending"]
  /\ cursend' = [cursend EXCEPT ![n] = f]
  /\ TxState' = [TxState EXCEPT ![n] = "TxTryR"]
  /\ Goto(n, "Transmit")
  /\ UNCHANGED <<local_EOB, offset, faults>>

\* fopen() fails as it did for the list, or the read lock cannot be had.
CannotSend(n, f) ==
  \/ f \in Unreadable[batchnr[n]] /\ UNCHANGED faults
  \/ Fault("refuse")

\* The file is skipped in this batch.
SkipFile(n, f) ==
  /\ GetNextFile(n)
  /\ f \in Sendable(n)
  /\ CannotSend(n, f)
  /\ SendCommand(n, Traffic(n))
  /\ state' = [Filelist(n) EXCEPT ![f] = "Skipped"]
  /\ Goto(n, "Switch")
  /\ UNCHANGED <<local_EOB, TxState, offset, cursend, txpos>>

TransmitEOB(n) ==
  /\ GetNextFile(n)
  /\ Sendable(n) = {}
  /\ SendCommand(n, Append(Traffic(n), Command("EOB")))
  /\ local_EOB' = [local_EOB EXCEPT ![n] = TRUE]
  /\ state' = Filelist(n)
  /\ TxState' = [TxState EXCEPT ![n] = "TxWLA"]
  /\ Goto(n, "Transmit")
  /\ UNCHANGED <<offset, cursend, txpos, faults>>

\* TxTryR with an empty queue goes on to TxReadS at once: the next block of
\* the file is sent.  The end of the file is seen with the last block when
\* that is short, else by a read of nothing.
ReadBlock(n) ==
  /\ Transmits(n, "TxTryR")
  /\ tql[n] = <<>>
  /\ Goto(n, "Switch")
  /\ UNCHANGED <<RxState, batchVars, tql, listed, offset, outbound, faults>>

TransmitBlock(n) ==
  /\ ReadBlock(n)
  /\ txpos[n] < Size[cursend[n]]
  /\ txpos' = [txpos EXCEPT ![n] = @ + 1]
  /\ Send(n, <<About("DATA", cursend[n], txpos'[n])>>)
  /\ UNCHANGED <<TxState, state, cursend>>

TransmitEndOfFile(n) ==
  /\ ReadBlock(n)
  /\ \/ /\ txpos[n] = Size[cursend[n]]
        /\ UNCHANGED <<chan, txpos>>
     \/ /\ txpos[n] + 1 = Size[cursend[n]]
        /\ txpos' = [txpos EXCEPT ![n] = @ + 1]
        /\ Send(n, <<About("DATA", cursend[n], txpos'[n])>>)
  /\ state' = [state EXCEPT ![cursend[n]] = "IsSent"]
  /\ cursend' = [cursend EXCEPT ![n] = NoFile]
  /\ TxState' = [TxState EXCEPT ![n] = "TxGNF"]

\* In TxTryR and TxWLA a queue that is not empty is processed as a whole,
\* one command per step: binkp_process_messages().
ProcessQueue(n) ==
  /\ \/ /\ FtState[n] \in {"Switch", "Transmit"}
        /\ TxState[n] \in {"TxTryR", "TxWLA"}
     \/ FtState[n] = "Messages"
  /\ tql[n] # <<>>
  /\ tql' = [tql EXCEPT ![n] = Tail(@)]
  /\ Goto(n, IF Len(tql[n]) = 1 THEN "Transmit" ELSE "Messages")
  /\ UNCHANGED <<rc, lineVars, batchVars, listed, txpos, rxVars, boundVars>>

Message(n) == Head(tql[n])

\* A command about a file that is not on the list is ignored.
OnList(n) == state[Message(n).file] # "NotListed"

Mark_Forgotten(n, s) ==
  state' = [state EXCEPT ![Message(n).file] = IF s = "Got" THEN s ELSE @]

Mark(n, s) ==
  state' = [state EXCEPT ![Message(n).file] = IF OnList(n) THEN s ELSE @]

\* M_GET of a part of the file: it will be sent again from there.
ProcessGet(n) ==
  /\ ProcessQueue(n)
  /\ Message(n).cmd = "GET"
  /\ Mark(n, "NoState")
  /\ IF OnList(n)
     THEN /\ offset' = [offset EXCEPT ![Message(n).file] = Message(n).num]
          /\ TxState' = [TxState EXCEPT ![n] = "TxGNF"]
     ELSE UNCHANGED <<offset, TxState>>
  /\ UNCHANGED <<cursend, outbound>>

\* The file being sent is closed when the other side has, or refuses, it.
StopSending(n) ==
  IF state[Message(n).file] = "Sending"
  THEN /\ cursend' = [cursend EXCEPT ![n] = NoFile]
       /\ TxState' = [TxState EXCEPT ![n] = "TxGNF"]
  ELSE UNCHANGED <<cursend, TxState>>

\* M_GOT: execute_disposition() takes the file out of the outbound.
ProcessGot(n) ==
  /\ ProcessQueue(n)
  /\ Message(n).cmd = "GOT"
  /\ Mark(n, "Got")
  /\ StopSending(n)
  /\ outbound' = IF OnList(n) THEN outbound \ {Message(n).file} ELSE outbound
  /\ UNCHANGED offset

\* M_SKIP: the file stays queued, but not for this batch.
ProcessSkip(n) ==
  /\ ProcessQueue(n)
  /\ Message(n).cmd = "SKIP"
  /\ Mark(n, "Skipped")
  /\ StopSending(n)
  /\ UNCHANGED <<offset, outbound>>

\* TxWLA.
WaitLastAck(n) ==
  /\ Transmits(n, "TxWLA")
  /\ tql[n] = <<>>
  /\ Goto(n, "Switch")
  /\ UNCHANGED <<chan, tql, cursend, txpos, outbound, faults>>

BothEOB_Local(n) == local_EOB[n]

BothEOB(n) == local_EOB[n] /\ remote_EOB[n]

\* The session is complete: in binkp/1.0 as soon as M_EOB has come, in
\* binkp/1.1 when both sides have ended a batch without anything in it.
SessionOver(n) ==
  IF Minor[n] = 0 THEN RxState[n] \in {"RxEOB", "RxDone"}
  ELSE BothEOB(n) /\ messages[n] < 3

EndSession(n) ==
  /\ WaitLastAck(n)
  /\ Pending(n) = {}
  /\ SessionOver(n)
  /\ TxState' = [TxState EXCEPT ![n] = "TxDone"]
  /\ RxState' = [RxState EXCEPT ![n] = IF BothEOB(n) THEN "RxDone" ELSE @]
  /\ ClearFilelist(n)
  /\ UNCHANGED <<batchVars>>

TransmitNewBatch(n) ==
  /\ WaitLastAck(n)
  /\ Pending(n) = {}
  /\ Minor[n] = 1
  /\ BothEOB(n)
  /\ messages[n] = 3
  /\ NewBatch(n)
  /\ messages' = [messages EXCEPT ![n] = 0]

\* binkp/1.1 drops the list even when the other side is not ready.
ClearSentList(n) ==
  /\ WaitLastAck(n)
  /\ Pending(n) = {}
  /\ Minor[n] = 1
  /\ ~ BothEOB(n)
  /\ listed[n]
  /\ ClearFilelist(n)
  /\ UNCHANGED <<TxState, RxState, batchVars>>

\* Nothing to do but to look at the line again.
WaitForRemote(n) ==
  /\ WaitLastAck(n)
  /\ FtState[n] = "Transmit"
  /\ \/ Pending(n) # {}
     \/ Minor[n] = 0 /\ RxState[n] \notin {"RxEOB", "RxDone"}
     \/ Minor[n] = 1 /\ ~ BothEOB(n) /\ ~ listed[n]
  /\ UNCHANGED <<TxState, RxState, batchVars, listed, state, offset>>

Transmit(n) ==
  \/ \E f \in Own(n) : TransmitFile(n, f) \/ SkipFile(n, f)
  \/ TransmitEOB(n)
  \/ TransmitBlock(n) \/ TransmitEndOfFile(n)
  \/ ProcessGet(n) \/ ProcessGot(n) \/ ProcessSkip(n)
  \/ EndSession(n) \/ TransmitNewBatch(n) \/ ClearSentList(n)
  \/ WaitForRemote(n)
------------------------------------------------------------------------------
\* The session ends.

Idle == <<lineVars, batchVars, TxState, tql, cursend, txpos, outbound, rxVars,
          session>>

\* Polling finds the line lost, or closed by the other side after all it has
\* sent.
Hangup(n) ==
  /\ FtState[n] = "Switch"
  /\ ~ Finished(n)
  /\ chan[n] = <<>>
  /\ link = "reset" \/ (link = "up" /\ FtState[Peer[n]] = "Exit")
  /\ Failure(n)
  /\ UNCHANGED <<Idle, listed, state, offset, faults>>

\* binkp_expired() is asked only when there is no room for output, which a
\* line that is silently lost runs out of when something is written to it.
Timeout(n) ==
  /\ FtState[n] = "Switch"
  /\ ~ Finished(n)
  /\ link = "silent"
  /\ chan[Peer[n]] # <<>>
  /\ Failure(n)
  /\ UNCHANGED <<Idle, listed, state, offset, faults>>

\* DeinitTransfer, and the process goes.
Deinit(n) ==
  /\ FtState[n] = "DeinitTransfer" \/ (FtState[n] = "Switch" /\ Finished(n))
  /\ Goto(n, "Exit")
  /\ ClearFilelist(n)
  /\ UNCHANGED <<Idle, rc, faults>>

\* The connection breaks; what was under way is lost.
LoseLine ==
  /\ link = "up"
  /\ \E n \in Nodes : FtState[n] # "Exit"
  /\ \/ /\ Fault("reset")
        /\ link' = "reset"
        /\ chan' = [n \in Nodes |-> <<>>]
     \/ /\ Fault("silent")
        /\ link' = "silent"
        /\ UNCHANGED chan
  /\ UNCHANGED <<FtState, rc, batchVars, txVars, rxVars, session>>

\* The process is killed: what stdio had not written yet of the open file is
\* lost.
Kill(n) ==
  /\ FtState[n] # "Exit"
  /\ Fault("kill")
  /\ Goto(n, "Exit")
  /\ rc' = [rc EXCEPT ![n] = TRUE]
  /\ IF infp[n] = NoFile THEN UNCHANGED part
     ELSE \E k \in rxbytes[n]..Len(part[infp[n]]) :
            part' = [part EXCEPT ![infp[n]] = SubSeq(@, 1, k)]
  /\ UNCHANGED <<lineVars, batchVars, txVars, RxState, rname, rxpos, rxbytes,
                 rxfp, infp, rcrcerr, tempin, session>>

\* The next session: binkp() starts from scratch with what is on the disks.
Redial ==
  /\ \A n \in Nodes : FtState[n] = "Exit"
  /\ outbound # {}
  /\ session < MaxSessions
  /\ session' = session + 1
  /\ FtState' = [n \in Nodes |-> "Switch"]
  /\ RxState' = [n \in Nodes |-> "RxWaitF"]
  /\ TxState' = [n \in Nodes |-> "TxGNF"]
  /\ local_EOB' = [n \in Nodes |-> FALSE]
  /\ remote_EOB' = [n \in Nodes |-> FALSE]
  /\ messages' = [n \in Nodes |-> 0]
  /\ batchnr' = [n \in Nodes |-> 0]
  /\ rc' = [n \in Nodes |-> FALSE]
  /\ chan' = [n \in Nodes |-> <<>>]
  /\ link' = "up"
  /\ tql' = [n \in Nodes |-> <<>>]
  /\ listed' = [n \in Nodes |-> FALSE]
  /\ state' = [f \in Files |-> "NotListed"]
  /\ offset' = [f \in Files |-> 0]
  /\ cursend' = [n \in Nodes |-> NoFile]
  /\ txpos' = [n \in Nodes |-> 0]
  /\ rname' = [n \in Nodes |-> NoFile]
  /\ rxpos' = [n \in Nodes |-> 0]
  /\ rxbytes' = [n \in Nodes |-> 0]
  /\ rxfp' = [n \in Nodes |-> "null"]
  /\ infp' = [n \in Nodes |-> NoFile]
  /\ rcrcerr' = [n \in Nodes |-> 0]
  /\ UNCHANGED <<part, tempin, outbound, faults>>

End(n) == Hangup(n) \/ Timeout(n) \/ Deinit(n)

Next ==
  \/ \E n \in Nodes : Receive(n) \/ Transmit(n) \/ End(n) \/ Kill(n)
  \/ LoseLine
  \/ Redial

Spec == Init /\ [][Next]_vars

\* Each process runs, and polls between two calls of the transmitter.
Fairness == \A n \in Nodes : /\ WF_vars(Receive(n))
                             /\ WF_vars(Transmit(n))
                             /\ WF_vars(End(n))

FairSpec == Spec /\ Fairness
------------------------------------------------------------------------------
ProcessTypes ==
  /\ FtState \in [Nodes -> {"Switch", "Transmit", "Messages",
                            "DeinitTransfer", "Exit"}]
  /\ rc \in [Nodes -> BOOLEAN]
  /\ session \in 1..MaxSessions
  /\ faults \in 0..MaxFaults

LineTypes ==
  /\ chan \in [Nodes -> Seq(Frame)]
  /\ link \in {"up", "reset", "silent"}

BatchTypes ==
  /\ local_EOB \in [Nodes -> BOOLEAN]
  /\ remote_EOB \in [Nodes -> BOOLEAN]
  /\ messages \in [Nodes -> 0..3]
  /\ batchnr \in [Nodes -> 0..BatchLimit]

TxTypes ==
  /\ TxState \in [Nodes -> {"TxGNF", "TxTryR", "TxWLA", "TxDone"}]
  /\ tql \in [Nodes -> Seq(Frame)]
  /\ listed \in [Nodes -> BOOLEAN]
  /\ state \in [Files -> FileState]
  /\ offset \in [Files -> Nat]
  /\ cursend \in [Nodes -> Files \cup {NoFile}]
  /\ txpos \in [Nodes -> Nat]
  /\ outbound \subseteq Files
  /\ \A n \in Nodes : TxState[n] = "TxTryR" => cursend[n] \in Files

RxTypes ==
  /\ RxState \in [Nodes -> {"RxWaitF", "RxReceD", "RxEOB", "RxDone"}]
  /\ rname \in [Nodes -> Files \cup {NoFile}]
  /\ rxpos \in [Nodes -> Nat]
  /\ rxbytes \in [Nodes -> Nat]
  /\ rxfp \in [Nodes -> {"null", "open", "closed"}]
  /\ infp \in [Nodes -> Files \cup {NoFile}]
  /\ rcrcerr \in [Nodes -> 0..1]
  /\ part \in [Files -> Seq(Files \X Nat)]
  /\ tempin \in [Files -> Seq(Files \X Nat)]
  /\ \A n \in Nodes : RxState[n] = "RxReceD" => rname[n] \in Files

TypeOK == ProcessTypes /\ LineTypes /\ BatchTypes /\ TxTypes /\ RxTypes

\* A file leaves the outbound only when the other side has stored the whole of
\* it: whatever happens to the session, no queued file is lost.
NoLoss == \A f \in Files \ outbound : tempin[f] = Whole(f)

\* Even when the move out of tmp fails, or the receiver is killed before it, a
\* file that has left the outbound is still whole on the receiver's disk.
NoFileVanishes ==
  \A f \in Files \ outbound : tempin[f] = Whole(f) \/ part[f] = Whole(f)

\* The mailers implement the hand-off of files: besides NoLoss, what has been
\* stored is never replaced by something else.
HandOffSpec == INSTANCE HandOff WITH
  queued <- outbound,
  arrived <- {f \in Files : tempin[f] = Whole(f)}

ImplementsHandOff == HandOffSpec!Spec

\* What is in tmp is the beginning of the file, without a gap or a repeat,
\* however often its transfer is broken off and resumed.
PartIsPrefix == \A f \in Files : part[f] = SubSeq(Whole(f), 1, Len(part[f]))

Running(n) == FtState[n] # "Exit"

\* The stream the receiver writes to is that of the file it receives, which
\* it assumes when M_FILE has an offset (binkp.c:1225).
RightStream ==
  \A n \in Nodes : Running(n) /\ RxState[n] = "RxReceD" =>
    rxfp[n] = "open" /\ infp[n] = rname[n]

\* And that stream exists when the receiver goes on with it.
NoStaleStream == \A n \in Nodes : ~ StaleStream(n)

\* A file that has left the outbound is not offered again: the remote would
\* receive it twice.
NoResend ==
  \A n \in Nodes : \A i \in DOMAIN chan[n] :
    chan[n][i].cmd = "FILE" => chan[n][i].file \in outbound

Replies(q) == {m \in Range(q) : m.cmd \in {"GET", "GOT", "SKIP"}}

\* The answer to a file finds it on the list: the list is not dropped, for
\* instance at the end of a batch, while an answer is still under way.
RepliesExpected ==
  \A n \in Nodes : FtState[n] \notin {"DeinitTransfer", "Exit"} =>
    \A m \in Replies(chan[n]) \cup Replies(tql[n]) :
      state[m.file] # "NotListed"

Succeeded(n) == FtState[n] = "Exit" /\ ~ rc[n]

\* Unless the line is lost, a session that ends well on one side does not
\* fail on the other.
SidesAgree == \A n \in Nodes : Succeeded(n) => ~ rc[Peer[n]]

\* A session that ends well has delivered all its files, those included that were
\* refused in one of its batches; only files that could not even be read when its
\* last list was made stay queued.
GoodSessionDelivers ==
  \A n \in Nodes : Succeeded(n) => Own(n) \cap outbound \subseteq Unreadable[batchnr[n]]

\* A side finishes when nothing is sent any more (binkp.c:1816): the other
\* has no file left for it.
NothingSentAnymore ==
  \A n \in Nodes :
    Running(n) /\ Finished(n) /\ ~ rc[n] => Pending(Peer[n]) = {}

\* Every session ends; when it cannot go on, by its global timeout
\* (binkp.h:40).
Termination == <>(\A n \in Nodes : FtState[n] = "Exit")
==============================================================================
