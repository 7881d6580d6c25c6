----------------------------- MODULE BinkpProofs -----------------------------
(***************************************************************************)
(* Theorems about the file transfer of binkp, for any number of mailers,   *)
(* files, blocks, sessions and faults.                                     *)
(***************************************************************************)
EXTENDS Binkp, SequenceTheorems, TLAPS

USE NodesAssumption

\* Frames as they are built.
LEMMA CommandTyped ==
  ASSUME NEW c \in {"NUL", "EOB", "ERR", "BSY"}
  PROVE  Command(c) \in Frame
BY DEF Command, Frame

LEMMA AboutTyped ==
  ASSUME NEW c \in {"FILE", "GET", "GOT", "SKIP", "DATA"}, NEW f \in Files,
         NEW k \in Nat
  PROVE  About(c, f, k) \in Frame
BY DEF About, Frame

\* The answers the receiver gives to a file.
LEMMA AnswersTyped ==
  ASSUME NEW f \in Files, NEW k \in Nat
  PROVE  /\ <<About("GET", f, k)>> \in Seq(Frame)
         /\ <<About("GOT", f, 0)>> \in Seq(Frame)
         /\ <<About("SKIP", f, 0)>> \in Seq(Frame)
<1>1. About("GET", f, k) \in Frame
  BY AboutTyped
<1>2. About("GOT", f, 0) \in Frame
  BY AboutTyped
<1>3. About("SKIP", f, 0) \in Frame
  BY AboutTyped
<1> QED
  BY <1>1, <1>2, <1>3

LEMMA NoFrames == <<>> \in Seq(Frame)
OBVIOUS

\* A frame taken from a queue, and the queue without it.
LEMMA QueueTyped ==
  ASSUME NEW q \in Seq(Frame), q # <<>>
  PROVE  /\ Head(q) \in Frame
         /\ Tail(q) \in Seq(Frame)
BY HeadTailProperties

LEMMA FrameFile ==
  ASSUME NEW m \in Frame, m.cmd \in {"FILE", "GET", "GOT", "SKIP", "DATA"}
  PROVE  m.file \in Files /\ m.num \in Nat
BY DEF Frame

\* Answering and sending keep the line well typed.
LEMMA AnswerTyped ==
  ASSUME TypeOK, NEW n \in Nodes, chan[n] # <<>>, NEW out \in Seq(Frame),
         Answer(n, out)
  PROVE  LineTypes' /\ messages' \in [Nodes -> 0..3]
<1>1. Head(chan[n]) \in Frame /\ Tail(chan[n]) \in Seq(Frame)
  BY QueueTyped DEF TypeOK, LineTypes
<1>2. chan' \in [Nodes -> Seq(Frame)]
  <2>1. Peer[n] \in Nodes /\ Peer[n] # n
    OBVIOUS
  <2>2. chan[Peer[n]] \o out \in Seq(Frame)
    BY <2>1 DEF TypeOK, LineTypes
  <2>3. chan' = [chan EXCEPT ![n] = Tail(chan[n]), ![Peer[n]] = chan[Peer[n]] \o out]
    BY <2>1 DEF Answer, TypeOK, LineTypes
  <2> QED
    BY <1>1, <2>1, <2>2, <2>3 DEF TypeOK, LineTypes
<1>3. Len(out) \in Nat
  OBVIOUS
<1>4. \A k \in 0..3 : Count(k, Len(out) + IF In(n).cmd = "DATA" THEN 0 ELSE 1) \in 0..3
  BY <1>3 DEF Count
<1>5. messages' \in [Nodes -> 0..3]
  BY <1>4 DEF Answer, TypeOK, BatchTypes
<1> QED
  BY <1>2, <1>5 DEF Answer, TypeOK, LineTypes

LEMMA SendTyped ==
  ASSUME TypeOK, NEW n \in Nodes, NEW out \in Seq(Frame), Send(n, out)
  PROVE  chan' \in [Nodes -> Seq(Frame)]
BY DEF Send, TypeOK, LineTypes

\* What the variants of the M_FILE handler have in common.
LEMMA AcceptTyped ==
  ASSUME TypeOK, NEW n \in Nodes, AcceptFile(n)
  PROVE  /\ chan[n] # <<>>
         /\ In(n).file \in Files /\ In(n).num \in Nat
         /\ TmpSize(n) \in Nat
         /\ Opened(n) \in Files \cup {NoFile}
         /\ rname' \in [Nodes -> Files \cup {NoFile}]
         /\ rname'[n] \in Files
         /\ \A p \in Nodes \ {n} : rname'[p] = rname[p]
         /\ rxpos' \in [Nodes -> Nat]
         /\ rxbytes' \in [Nodes -> Nat]
         /\ rcrcerr' \in [Nodes -> 0..1]
         /\ part' \in [Files -> Seq(Files \X Nat)]
         /\ tempin' \in [Files -> Seq(Files \X Nat)]
<1>1. chan[n] # <<>> /\ In(n).cmd = "FILE"
  BY DEF AcceptFile, Polled
<1>2. In(n) \in Frame
  BY <1>1, QueueTyped DEF In, TypeOK, LineTypes
<1>3. In(n).file \in Files /\ In(n).num \in Nat
  BY <1>1, <1>2, FrameFile
<1>4. TmpSize(n) \in Nat
  <2>1. part[In(n).file] \in Seq(Files \X Nat) /\ rxbytes[n] \in Nat
    BY <1>3 DEF TypeOK, RxTypes
  <2>2. Len(part[In(n).file]) \in Nat
    BY <2>1
  <2> QED
    BY <2>1, <2>2 DEF TmpSize
<1>5. Opened(n) \in Files \cup {NoFile}
  BY <1>3 DEF Opened, TypeOK, RxTypes
<1> QED
  BY <1>1, <1>3, <1>4, <1>5 DEF AcceptFile, TypeOK, RxTypes

\* A block that is written.
LEMMA WriteTyped ==
  ASSUME TypeOK, NEW n \in Nodes, WriteBlock(n)
  PROVE  /\ chan[n] # <<>>
         /\ rname[n] \in Files
         /\ infp[n] \in Files => Content(n) \in Seq(Files \X Nat)
         /\ rxpos' \in [Nodes -> Nat]
         /\ rname' = rname /\ rxbytes' = rxbytes
         /\ [part EXCEPT ![infp[n]] = Content(n)] \in [Files -> Seq(Files \X Nat)]
         /\ [part EXCEPT ![infp[n]] = <<>>] \in [Files -> Seq(Files \X Nat)]
         /\ [tempin EXCEPT ![infp[n]] = Content(n)] \in [Files -> Seq(Files \X Nat)]
<1>1. chan[n] # <<>> /\ In(n).cmd = "DATA"
  BY DEF WriteBlock, Polled
<1>2. In(n) \in Frame
  BY <1>1, QueueTyped DEF In, TypeOK, LineTypes
<1>3. In(n).file \in Files /\ In(n).num \in Nat
  BY <1>1, <1>2, FrameFile
<1>4. infp[n] \in Files => Content(n) \in Seq(Files \X Nat)
  BY SMTT(30), <1>3 DEF Content, TypeOK, RxTypes
<1>5. /\ [part EXCEPT ![infp[n]] = Content(n)] \in [Files -> Seq(Files \X Nat)]
      /\ [tempin EXCEPT ![infp[n]] = Content(n)] \in [Files -> Seq(Files \X Nat)]
  BY <1>4 DEF TypeOK, RxTypes
<1>6. [part EXCEPT ![infp[n]] = <<>>] \in [Files -> Seq(Files \X Nat)]
  <2>1. <<>> \in Seq(Files \X Nat)
    OBVIOUS
  <2> QED
    BY <2>1 DEF TypeOK, RxTypes
<1>7. rname[n] \in Files
  BY DEF WriteBlock, TypeOK, RxTypes
<1>8. rxpos' \in [Nodes -> Nat] /\ rname' = rname /\ rxbytes' = rxbytes
  BY DEF WriteBlock, TypeOK, RxTypes
<1> QED
  BY <1>1, <1>4, <1>5, <1>6, <1>7, <1>8

\* The receiver keeps the types.
LEMMA ReceiveTyped ==
  ASSUME TypeOK, NEW n \in Nodes, Receive(n)
  PROVE  TypeOK'
<1> USE DEF TypeOK
<1>1. CASE ReceiveIgnored(n)
  <2>1. LineTypes' /\ messages' \in [Nodes -> 0..3]
    BY <1>1, NoFrames, AnswerTyped DEF ReceiveIgnored, Polled
  <2>2. ProcessTypes'
    BY <1>1 DEF ReceiveIgnored, Answer, ReceiverOk, Goto, ProcessTypes
  <2>3. BatchTypes'
    BY <1>1, <2>1 DEF ReceiveIgnored, BatchTypes
  <2>4. TxTypes'
    BY <1>1 DEF ReceiveIgnored, txVars, TxTypes
  <2>5. RxTypes'
    BY <1>1 DEF ReceiveIgnored, rxVars, RxTypes
  <2> QED
    BY <2>1, <2>2, <2>3, <2>4, <2>5
<1>2. CASE ReceiveMessage(n)
  <2>1. LineTypes' /\ messages' \in [Nodes -> 0..3]
    BY <1>2, NoFrames, AnswerTyped DEF ReceiveMessage, Polled
  <2>2. In(n) \in Frame
    BY <1>2, QueueTyped DEF ReceiveMessage, Polled, In, LineTypes
  <2>3. Append(tql[n], In(n)) \in Seq(Frame)
    BY <2>2 DEF TxTypes
  <2>4. tql' \in [Nodes -> Seq(Frame)]
    BY <1>2, <2>3 DEF ReceiveMessage, TxTypes
  <2>5. ProcessTypes'
    BY <1>2
    DEF ReceiveMessage, Answer, ReceiverOk, Goto, ProcessTypes
  <2>6. BatchTypes'
    BY <1>2, <2>1, <2>4
    DEF ReceiveMessage, BatchTypes
  <2>7. TxTypes'
    BY <1>2, <2>1, <2>4
    DEF ReceiveMessage, TxTypes
  <2>8. RxTypes'
    BY <1>2
    DEF ReceiveMessage, rxVars, RxTypes
  <2> QED
    BY <2>1, <2>2, <2>3, <2>4, <2>5, <2>6, <2>7, <2>8
<1>3. CASE ReceiveError(n)
  <2>1. LineTypes' /\ messages' \in [Nodes -> 0..3]
    BY <1>3, NoFrames, AnswerTyped DEF ReceiveError, Polled
  <2>2. ProcessTypes'
    BY <1>3
    DEF ReceiveError, Answer, Failure, Goto, ProcessTypes
  <2>3. BatchTypes'
    BY <1>3, <2>1
    DEF ReceiveError, BatchTypes
  <2>4. TxTypes'
    BY <1>3, <2>1
    DEF ReceiveError, txVars, TxTypes
  <2>5. RxTypes'
    BY <1>3
    DEF ReceiveError, RxTypes
  <2> QED
    BY <2>1, <2>2, <2>3, <2>4, <2>5
<1>4. CASE ReceiveEOB(n)
  <2>1. chan' \in [Nodes -> Seq(Frame)] /\ LineTypes'
    BY <1>4, QueueTyped DEF ReceiveEOB, Polled, LineTypes
  <2>2. Count(messages[n], 1) \in 0..3
    <3>1. messages[n] \in 0..3
      BY DEF BatchTypes
    <3> QED
      BY <3>1 DEF Count
  <2>3. RxTypes'
    BY ZenonT(30), <1>4 DEF ReceiveEOB, NewBatch, RxTypes
  <2>4. ProcessTypes'
    BY <1>4 DEF ReceiveEOB, ReceiverOk, Goto, boundVars, ProcessTypes
  <2>5. CASE NewBatch(n) /\ messages' = [messages EXCEPT ![n] = 0]
    <3>1. BatchTypes'
      BY <2>5, FilesAssumption, OptionsAssumption DEF NewBatch, BatchTypes
    <3>2. TxTypes'
      BY <1>4, <2>5 DEF ReceiveEOB, NewBatch, ClearFilelist, TxTypes, FileState
    <3> QED
      BY <2>1, <2>3, <2>4, <3>1, <3>2
  <2>6. CASE ~ (NewBatch(n) /\ messages' = [messages EXCEPT ![n] = 0])
    <3>1. /\ remote_EOB' = [remote_EOB EXCEPT ![n] = TRUE]
          /\ messages' = [messages EXCEPT ![n] = Count(messages[n], 1)]
          /\ UNCHANGED <<local_EOB, batchnr, TxState, listed, state, offset>>
      BY <1>4, <2>6 DEF ReceiveEOB, BatchTypes
    <3>2. BatchTypes'
      BY <2>2, <3>1 DEF BatchTypes
    <3>3. TxTypes'
      BY <1>4, <3>1 DEF ReceiveEOB, TxTypes
    <3> QED
      BY <2>1, <2>3, <2>4, <3>2, <3>3
  <2> QED
    BY <1>4, <2>5, <2>6 DEF ReceiveEOB
<1>5. CASE ReceiveKnownFile(n)
  <2>1. AcceptFile(n) /\ <<About("GOT", In(n).file, 0)>> \in Seq(Frame)
    BY <1>5, AcceptTyped, AnswersTyped DEF ReceiveKnownFile
  <2>2. LineTypes' /\ messages' \in [Nodes -> 0..3]
    BY <1>5, <2>1, AcceptTyped, AnswerTyped DEF ReceiveKnownFile
  <2>3. RxTypes'
    BY <1>5, <2>1, AcceptTyped DEF ReceiveKnownFile, RxTypes
  <2>4. ProcessTypes'
    BY <1>5
    DEF ReceiveKnownFile, AcceptFile, Answer, ReceiverOk, Goto, ProcessTypes
  <2>5. BatchTypes'
    BY <1>5, <2>1, <2>2, <2>3
    DEF ReceiveKnownFile, AcceptFile, BatchTypes
  <2>6. TxTypes'
    BY <1>5, <2>1, <2>2, <2>3
    DEF ReceiveKnownFile, AcceptFile, TxTypes
  <2> QED
    BY <2>1, <2>2, <2>3, <2>4, <2>5, <2>6
<1>6. CASE ReceivePartial(n)
  <2>1. AcceptFile(n) /\ <<About("GET", In(n).file, TmpSize(n))>> \in Seq(Frame)
    BY <1>6, AcceptTyped, AnswersTyped DEF ReceivePartial
  <2>2. LineTypes' /\ messages' \in [Nodes -> 0..3]
    BY <1>6, <2>1, AcceptTyped, AnswerTyped DEF ReceivePartial
  <2>3. RxTypes'
    <3>1. CASE CanStore(n)
      BY <1>6, <2>1, <3>1, AcceptTyped DEF ReceivePartial, CanStore, RxTypes
    <3>2. CASE CannotStore(n)
      BY <1>6, <2>1, <3>2, AcceptTyped DEF ReceivePartial, CannotStore, RxTypes
    <3> QED
      BY <1>6, <3>1, <3>2 DEF ReceivePartial
  <2>4. ProcessTypes'
    BY <1>6, FilesAssumption, OptionsAssumption
    DEF ReceivePartial, AcceptFile, Answer, ReceiverOk, Goto, CanStore, CannotStore, Fault, ProcessTypes
  <2>5. BatchTypes'
    BY <1>6, <2>1, <2>2, <2>3
    DEF ReceivePartial, AcceptFile, CanStore, CannotStore, BatchTypes
  <2>6. TxTypes'
    BY <1>6, <2>1, <2>2, <2>3
    DEF ReceivePartial, AcceptFile, CanStore, CannotStore, TxTypes
  <2> QED
    BY <2>1, <2>2, <2>3, <2>4, <2>5, <2>6
<1>7. CASE ReceiveRefused(n)
  <2>1. AcceptFile(n) /\ <<About("SKIP", In(n).file, 0)>> \in Seq(Frame)
    BY <1>7, AcceptTyped, AnswersTyped DEF ReceiveRefused
  <2>2. LineTypes' /\ messages' \in [Nodes -> 0..3]
    BY <1>7, <2>1, AcceptTyped, AnswerTyped DEF ReceiveRefused
  <2>3. RxTypes'
    BY <1>7, <2>1, AcceptTyped DEF ReceiveRefused, CannotStore, RxTypes
  <2>4. ProcessTypes'
    BY <1>7, FilesAssumption, OptionsAssumption
    DEF ReceiveRefused, AcceptFile, Answer, ReceiverOk, Goto, CannotStore, Fault, ProcessTypes
  <2>5. BatchTypes'
    BY <1>7, <2>1, <2>2, <2>3
    DEF ReceiveRefused, AcceptFile, CannotStore, BatchTypes
  <2>6. TxTypes'
    BY <1>7, <2>1, <2>2, <2>3
    DEF ReceiveRefused, AcceptFile, CannotStore, TxTypes
  <2> QED
    BY <2>1, <2>2, <2>3, <2>4, <2>5, <2>6
<1>8. CASE ReceiveFile(n)
  <2>1. AcceptFile(n)
    BY <1>8 DEF ReceiveFile
  <2>2. LineTypes' /\ messages' \in [Nodes -> 0..3]
    BY <1>8, <2>1, AcceptTyped, NoFrames, AnswerTyped DEF ReceiveFile
  <2>3. RxTypes'
    BY <1>8, <2>1, AcceptTyped DEF ReceiveFile, CanStore, RxTypes
  <2>4. ProcessTypes'
    BY <1>8
    DEF ReceiveFile, AcceptFile, Answer, ReceiverOk, Goto, CanStore, ProcessTypes
  <2>5. BatchTypes'
    BY <1>8, <2>1, <2>2, <2>3
    DEF ReceiveFile, AcceptFile, CanStore, BatchTypes
  <2>6. TxTypes'
    BY <1>8, <2>1, <2>2, <2>3
    DEF ReceiveFile, AcceptFile, CanStore, TxTypes
  <2> QED
    BY <2>1, <2>2, <2>3, <2>4, <2>5, <2>6
<1>9. CASE ReceiveLowDisk(n)
  <2>1. AcceptFile(n) /\ <<Command("BSY")>> \in Seq(Frame)
    BY <1>9, CommandTyped DEF ReceiveLowDisk
  <2>2. LineTypes' /\ messages' \in [Nodes -> 0..3]
    BY <1>9, <2>1, AcceptTyped, AnswerTyped DEF ReceiveLowDisk
  <2>3. RxTypes'
    BY <1>9, <2>1, AcceptTyped DEF ReceiveLowDisk, RxTypes
  <2>4. ProcessTypes'
    BY <1>9, FilesAssumption, OptionsAssumption
    DEF ReceiveLowDisk, AcceptFile, Answer, Failure, Goto, Fault, ProcessTypes
  <2>5. BatchTypes'
    BY <1>9, <2>1, <2>2, <2>3
    DEF ReceiveLowDisk, AcceptFile, BatchTypes
  <2>6. TxTypes'
    BY <1>9, <2>1, <2>2, <2>3
    DEF ReceiveLowDisk, AcceptFile, TxTypes
  <2> QED
    BY <2>1, <2>2, <2>3, <2>4, <2>5, <2>6
<1>10. CASE ReceiveOnStaleStream(n)
  <2>1. chan[n] # <<>> /\ In(n).cmd = "FILE"
    BY <1>10 DEF ReceiveOnStaleStream, StaleStream, Polled
  <2>2. In(n).file \in Files
    BY <2>1, QueueTyped, FrameFile DEF In, LineTypes
  <2>3. LineTypes' /\ messages' \in [Nodes -> 0..3]
    BY <1>10, <2>1, NoFrames, AnswerTyped DEF ReceiveOnStaleStream
  <2>4. RxTypes'
    BY <1>10, <2>2 DEF ReceiveOnStaleStream, Opened, RxTypes
  <2>5. ProcessTypes'
    BY <1>10
    DEF ReceiveOnStaleStream, Answer, Goto, ProcessTypes
  <2>6. BatchTypes'
    BY <1>10, <2>3, <2>4
    DEF ReceiveOnStaleStream, BatchTypes
  <2>7. TxTypes'
    BY <1>10, <2>3, <2>4
    DEF ReceiveOnStaleStream, txVars, TxTypes
  <2> QED
    BY <2>1, <2>2, <2>3, <2>4, <2>5, <2>6, <2>7
<1>11. CASE ReceiveBlock(n)
  <2>1. WriteBlock(n)
    BY <1>11 DEF ReceiveBlock
  <2>2. LineTypes' /\ messages' \in [Nodes -> 0..3]
    BY <1>11, <2>1, WriteTyped, NoFrames, AnswerTyped DEF ReceiveBlock
  <2>3. RxTypes'
    <3>1. part' \in [Files -> Seq(Files \X Nat)] /\ tempin' \in [Files -> Seq(Files \X Nat)]
      BY <1>11, <2>1, WriteTyped DEF ReceiveBlock, RxTypes
    <3>2. rxpos' \in [Nodes -> Nat] /\ rname' = rname /\ rxbytes' = rxbytes
      BY <2>1, WriteTyped
    <3> QED
      BY <1>11, <3>1, <3>2 DEF ReceiveBlock, RxTypes
  <2>4. ProcessTypes'
    BY <1>11
    DEF ReceiveBlock, WriteBlock, Answer, ReceiverOk, Goto, ProcessTypes
  <2>5. BatchTypes'
    BY <1>11, <2>1, <2>2, <2>3
    DEF ReceiveBlock, WriteBlock, BatchTypes
  <2>6. TxTypes'
    BY <1>11, <2>1, <2>2, <2>3
    DEF ReceiveBlock, WriteBlock, txVars, TxTypes
  <2> QED
    BY <2>1, <2>2, <2>3, <2>4, <2>5, <2>6
<1>12. CASE ReceiveLastBlock(n)
  <2>1. WriteBlock(n)
    BY <1>12 DEF ReceiveLastBlock, CloseFile
  <2>2. <<About("GOT", rname[n], 0)>> \in Seq(Frame)
    BY <2>1, WriteTyped, AnswersTyped
  <2>3. LineTypes' /\ messages' \in [Nodes -> 0..3]
    BY <1>12, <2>1, <2>2, WriteTyped, AnswerTyped DEF ReceiveLastBlock
  <2>4. RxTypes'
    <3>1. part' \in [Files -> Seq(Files \X Nat)] /\ tempin' \in [Files -> Seq(Files \X Nat)]
      <4>1. part' = [part EXCEPT ![infp[n]] = <<>>] \/ part' = [part EXCEPT ![infp[n]] = Content(n)]
        BY <1>12 DEF ReceiveLastBlock
      <4>2. tempin' = tempin \/ tempin' = [tempin EXCEPT ![infp[n]] = Content(n)]
        BY <1>12 DEF ReceiveLastBlock
      <4>3. /\ [part EXCEPT ![infp[n]] = Content(n)] \in [Files -> Seq(Files \X Nat)]
            /\ [part EXCEPT ![infp[n]] = <<>>] \in [Files -> Seq(Files \X Nat)]
            /\ [tempin EXCEPT ![infp[n]] = Content(n)] \in [Files -> Seq(Files \X Nat)]
        BY <2>1, WriteTyped
      <4>4. part' \in [Files -> Seq(Files \X Nat)]
        BY <4>1, <4>3
      <4>5. tempin' \in [Files -> Seq(Files \X Nat)]
        BY <4>2, <4>3 DEF RxTypes
      <4> QED
        BY <4>4, <4>5
    <3>2. rxpos' \in [Nodes -> Nat] /\ rname' = rname /\ rxbytes' = rxbytes
      BY <2>1, WriteTyped
    <3> QED
      BY <1>12, <3>1, <3>2 DEF ReceiveLastBlock, CloseFile, RxTypes
  <2>5. ProcessTypes'
    BY <1>12, FilesAssumption, OptionsAssumption
    DEF ReceiveLastBlock, CloseFile, WriteBlock, Answer, ReceiverOk, Goto, Fault, ProcessTypes
  <2>6. BatchTypes'
    BY <1>12, <2>1, <2>3, <2>4
    DEF ReceiveLastBlock, CloseFile, WriteBlock, BatchTypes
  <2>7. TxTypes'
    BY <1>12, <2>1, <2>3, <2>4
    DEF ReceiveLastBlock, CloseFile, WriteBlock, txVars, TxTypes
  <2> QED
    BY <2>1, <2>2, <2>3, <2>4, <2>5, <2>6, <2>7
<1>13. CASE ReceiveCrcError(n)
  <2>1. WriteBlock(n)
    BY <1>13 DEF ReceiveCrcError, RejectFile, CloseFile
  <2>2. <<About("SKIP", rname[n], 0)>> \in Seq(Frame)
    BY <2>1, WriteTyped, AnswersTyped
  <2>3. LineTypes' /\ messages' \in [Nodes -> 0..3]
    BY <1>13, <2>1, <2>2, WriteTyped, AnswerTyped DEF ReceiveCrcError
  <2>4. RxTypes'
    <3>1. part' \in [Files -> Seq(Files \X Nat)] /\ tempin' \in [Files -> Seq(Files \X Nat)]
      BY <1>13, <2>1, WriteTyped DEF ReceiveCrcError, RejectFile, RxTypes
    <3>2. rxpos' \in [Nodes -> Nat] /\ rname' = rname /\ rxbytes' = rxbytes
      BY <2>1, WriteTyped
    <3>3. rcrcerr' \in [Nodes -> 0..1]
      BY <1>13 DEF ReceiveCrcError, RxTypes
    <3> QED
      BY <1>13, <3>1, <3>2, <3>3 DEF ReceiveCrcError, RejectFile, CloseFile, RxTypes
  <2>5. ProcessTypes'
    BY <1>13
    DEF ReceiveCrcError, RejectFile, CloseFile, WriteBlock, Answer, ReceiverOk, Goto, ProcessTypes
  <2>6. BatchTypes'
    BY <1>13, <2>1, <2>3, <2>4
    DEF ReceiveCrcError, RejectFile, CloseFile, WriteBlock, BatchTypes
  <2>7. TxTypes'
    BY <1>13, <2>1, <2>3, <2>4
    DEF ReceiveCrcError, RejectFile, CloseFile, WriteBlock, txVars, TxTypes
  <2> QED
    BY <2>1, <2>2, <2>3, <2>4, <2>5, <2>6, <2>7
<1>14. CASE ReceiveCrcAbort(n)
  <2>1. WriteBlock(n)
    BY <1>14 DEF ReceiveCrcAbort, RejectFile, CloseFile
  <2>2. <<Command("ERR")>> \in Seq(Frame)
    BY CommandTyped
  <2>3. LineTypes' /\ messages' \in [Nodes -> 0..3]
    BY <1>14, <2>1, <2>2, WriteTyped, AnswerTyped DEF ReceiveCrcAbort
  <2>4. RxTypes'
    <3>1. part' \in [Files -> Seq(Files \X Nat)] /\ tempin' \in [Files -> Seq(Files \X Nat)]
      BY <1>14, <2>1, WriteTyped DEF ReceiveCrcAbort, RejectFile, RxTypes
    <3>2. rxpos' \in [Nodes -> Nat] /\ rname' = rname /\ rxbytes' = rxbytes
      BY <2>1, WriteTyped
    <3> QED
      BY <1>14, <3>1, <3>2 DEF ReceiveCrcAbort, RejectFile, CloseFile, RxTypes
  <2>5. ProcessTypes'
    BY <1>14
    DEF ReceiveCrcAbort, RejectFile, CloseFile, WriteBlock, Answer, Failure, Goto, ProcessTypes
  <2>6. BatchTypes'
    BY <1>14, <2>1, <2>3, <2>4
    DEF ReceiveCrcAbort, RejectFile, CloseFile, WriteBlock, BatchTypes
  <2>7. TxTypes'
    BY <1>14, <2>1, <2>3, <2>4
    DEF ReceiveCrcAbort, RejectFile, CloseFile, WriteBlock, txVars, TxTypes
  <2> QED
    BY <2>1, <2>2, <2>3, <2>4, <2>5, <2>6, <2>7
<1>15. CASE KilledInClose(n)
  <2>1. WriteBlock(n)
    BY <1>15 DEF KilledInClose, CloseFile
  <2>2. LineTypes' /\ messages' \in [Nodes -> 0..3]
    BY <1>15, <2>1, WriteTyped, NoFrames, AnswerTyped DEF KilledInClose
  <2>3. RxTypes'
    <3>1. part' \in [Files -> Seq(Files \X Nat)] /\ tempin' \in [Files -> Seq(Files \X Nat)]
      BY <1>15, <2>1, WriteTyped DEF KilledInClose, RxTypes
    <3>2. rxpos' \in [Nodes -> Nat] /\ rname' = rname /\ rxbytes' = rxbytes
      BY <2>1, WriteTyped
    <3> QED
      BY <1>15, <3>1, <3>2 DEF KilledInClose, CloseFile, RxTypes
  <2>4. ProcessTypes'
    BY <1>15, FilesAssumption, OptionsAssumption
    DEF KilledInClose, CloseFile, WriteBlock, Answer, Goto, Fault, ProcessTypes
  <2>5. BatchTypes'
    BY <1>15, <2>1, <2>2, <2>3
    DEF KilledInClose, CloseFile, WriteBlock, BatchTypes
  <2>6. TxTypes'
    BY <1>15, <2>1, <2>2, <2>3
    DEF KilledInClose, CloseFile, WriteBlock, txVars, TxTypes
  <2> QED
    BY <2>1, <2>2, <2>3, <2>4, <2>5, <2>6
<1> QED
  BY <1>1, <1>2, <1>3, <1>4, <1>5, <1>6, <1>7, <1>8, <1>9, <1>10, <1>11, <1>12,
     <1>13, <1>14, <1>15 DEF Receive

\* The transmitter keeps the types.
LEMMA TransmitTyped ==
  ASSUME TypeOK, NEW n \in Nodes, Transmit(n)
  PROVE  TypeOK'
<1> USE DEF TypeOK
<1>1. ASSUME NEW s, Transmits(n, s) PROVE RxState' = RxState => RxTypes'
  BY <1>1 DEF Transmits, RxTypes
<1>2. ASSUME NEW k \in 0..3, NEW m \in Nat PROVE Count(k, m) \in 0..3
  BY <1>2 DEF Count
<1>3. ASSUME NEW out \in Seq(Frame), SendCommand(n, out)
      PROVE  chan' \in [Nodes -> Seq(Frame)] /\ messages' \in [Nodes -> 0..3]
  <2>1. Len(out) \in Nat
    OBVIOUS
  <2>2. Count(messages[n], Len(out)) \in 0..3
    BY <2>1, <1>2 DEF BatchTypes
  <2> QED
    BY <1>3, <2>2, SendTyped DEF SendCommand, BatchTypes
<1>4. Filelist(n) \in [Files -> FileState]
  BY DEF Filelist, TxTypes, FileState
<1>5. /\ Traffic(n) \in Seq(Frame)
      /\ Append(Traffic(n), Command("EOB")) \in Seq(Frame)
      /\ \A f \in Files : Append(Traffic(n), About("FILE", f, offset[f])) \in Seq(Frame)
  <2>1. Traffic(n) \in Seq(Frame)
    BY CommandTyped DEF Traffic
  <2>2. Command("EOB") \in Frame
    BY CommandTyped
  <2>3. \A f \in Files : About("FILE", f, offset[f]) \in Frame
    BY AboutTyped DEF TxTypes
  <2> QED
    BY <2>1, <2>2, <2>3
<1>6. ASSUME NEW f \in Own(n), TransmitFile(n, f) PROVE TypeOK'
  <2>1. f \in Files
    BY DEF Own
  <2>2. chan' \in [Nodes -> Seq(Frame)] /\ messages' \in [Nodes -> 0..3]
    BY <1>3, <1>5, <1>6, <2>1 DEF TransmitFile
  <2>3. ProcessTypes'
    BY <1>6 DEF TransmitFile, GetNextFile, Transmits, Goto, ProcessTypes
  <2>4. LineTypes' /\ BatchTypes'
    BY <1>6, <2>2 DEF TransmitFile, GetNextFile, Transmits, LineTypes, BatchTypes
  <2>5. TxTypes'
    BY <1>4, <1>6, <2>1 DEF TransmitFile, GetNextFile, StartAt, FileState, TxTypes
  <2>6. RxTypes'
    BY <1>1, <1>6 DEF TransmitFile, GetNextFile
  <2> QED
    BY <2>3, <2>4, <2>5, <2>6
<1>7. ASSUME NEW f \in Own(n), SkipFile(n, f) PROVE TypeOK'
  <2>1. f \in Files
    BY DEF Own
  <2>2. chan' \in [Nodes -> Seq(Frame)] /\ messages' \in [Nodes -> 0..3]
    BY <1>3, <1>5, <1>7 DEF SkipFile
  <2>3. ProcessTypes'
    BY <1>7, FilesAssumption, OptionsAssumption
    DEF SkipFile, CannotSend, GetNextFile, Transmits, Goto, Fault, ProcessTypes
  <2>4. LineTypes' /\ BatchTypes'
    BY <1>7, <2>2 DEF SkipFile, GetNextFile, Transmits, LineTypes, BatchTypes
  <2>5. TxTypes'
    BY <1>4, <1>7, <2>1 DEF SkipFile, GetNextFile, FileState, TxTypes
  <2>6. RxTypes'
    BY <1>1, <1>7 DEF SkipFile, GetNextFile
  <2> QED
    BY <2>3, <2>4, <2>5, <2>6
<1>8. CASE TransmitEOB(n)
  <2>2. chan' \in [Nodes -> Seq(Frame)] /\ messages' \in [Nodes -> 0..3]
    BY <1>3, <1>5, <1>8 DEF TransmitEOB
  <2>3. ProcessTypes'
    BY <1>8 DEF TransmitEOB, GetNextFile, Transmits, Goto, ProcessTypes
  <2>4. LineTypes' /\ BatchTypes'
    BY <1>8, <2>2 DEF TransmitEOB, GetNextFile, Transmits, LineTypes, BatchTypes
  <2>5. TxTypes'
    BY <1>4, <1>8 DEF TransmitEOB, GetNextFile, TxTypes
  <2>6. RxTypes'
    BY <1>1, <1>8 DEF TransmitEOB, GetNextFile
  <2> QED
    BY <2>3, <2>4, <2>5, <2>6
<1>9. ASSUME ReadBlock(n)
      PROVE  /\ ProcessTypes' /\ BatchTypes' /\ RxTypes'
             /\ cursend[n] \in Files /\ txpos[n] + 1 \in Nat
             /\ <<About("DATA", cursend[n], txpos[n] + 1)>> \in Seq(Frame)
  <2>1. cursend[n] \in Files /\ txpos[n] + 1 \in Nat
    BY <1>9 DEF ReadBlock, Transmits, TxTypes
  <2>2. About("DATA", cursend[n], txpos[n] + 1) \in Frame
    BY <2>1, AboutTyped
  <2>3. ProcessTypes'
    BY <1>9 DEF ReadBlock, Transmits, Goto, ProcessTypes
  <2>4. BatchTypes'
    BY <1>9 DEF ReadBlock, batchVars, BatchTypes
  <2>5. RxTypes'
    BY <1>1, <1>9 DEF ReadBlock
  <2> QED
    BY <2>1, <2>2, <2>3, <2>4, <2>5
<1>10. CASE TransmitBlock(n)
  <2>1. ReadBlock(n) /\ txpos'[n] = txpos[n] + 1
    BY <1>10 DEF TransmitBlock, TxTypes
  <2>2. LineTypes'
    BY <1>9, <1>10, <2>1, SendTyped
    DEF TransmitBlock, ReadBlock, Transmits, LineTypes
  <2>3. TxTypes'
    BY <1>9, <1>10, <2>1 DEF TransmitBlock, ReadBlock, TxTypes
  <2> QED
    BY <1>9, <2>1, <2>2, <2>3
<1>11. CASE TransmitEndOfFile(n)
  <2>1. ReadBlock(n)
    BY <1>11 DEF TransmitEndOfFile
  <2>2. chan' \in [Nodes -> Seq(Frame)] /\ txpos' \in [Nodes -> Nat]
    <3>1. CASE UNCHANGED <<chan, txpos>>
      BY <3>1 DEF LineTypes, TxTypes
    <3>2. CASE /\ txpos' = [txpos EXCEPT ![n] = @ + 1]
               /\ Send(n, <<About("DATA", cursend[n], txpos'[n])>>)
      <4>1. txpos'[n] = txpos[n] + 1 /\ txpos' \in [Nodes -> Nat]
        BY <3>2 DEF TxTypes
      <4> QED
        BY <1>9, <2>1, <3>2, <4>1, SendTyped
    <3> QED
      BY <1>11, <3>1, <3>2 DEF TransmitEndOfFile
  <2>3. TxTypes'
    BY <1>9, <1>11, <2>1, <2>2 DEF TransmitEndOfFile, ReadBlock, FileState, TxTypes
  <2>4. LineTypes'
    BY <2>1, <2>2 DEF ReadBlock, Transmits, LineTypes
  <2> QED
    BY <1>9, <2>1, <2>3, <2>4
<1>12. ASSUME ProcessQueue(n)
       PROVE  /\ ProcessTypes' /\ LineTypes' /\ BatchTypes' /\ RxTypes'
              /\ Message(n) \in Frame
              /\ tql' \in [Nodes -> Seq(Frame)]
              /\ listed' = listed /\ txpos' = txpos
  <2>1. tql[n] \in Seq(Frame) /\ tql[n] # <<>>
    BY <1>12 DEF ProcessQueue, TxTypes
  <2>2. Message(n) \in Frame /\ Tail(tql[n]) \in Seq(Frame)
    BY <2>1, QueueTyped DEF Message
  <2>3. tql' \in [Nodes -> Seq(Frame)]
    BY <1>12, <2>2 DEF ProcessQueue, TxTypes
  <2>4. ProcessTypes'
    BY <1>12 DEF ProcessQueue, Goto, boundVars, ProcessTypes
  <2>5. LineTypes' /\ BatchTypes'
    BY <1>12 DEF ProcessQueue, lineVars, batchVars, LineTypes, BatchTypes
  <2>6. RxTypes'
    BY <1>12 DEF ProcessQueue, rxVars, RxTypes
  <2> QED
    BY <1>12, <2>2, <2>3, <2>4, <2>5, <2>6 DEF ProcessQueue
<1>13. ASSUME NEW s \in FileState, Mark(n, s) PROVE state' \in [Files -> FileState]
  BY <1>13 DEF Mark, TxTypes
<1>14. CASE ProcessGet(n)
  <2>1. ProcessQueue(n) /\ Message(n).cmd = "GET" /\ Mark(n, "NoState")
    BY <1>14 DEF ProcessGet
  <2>2. Message(n).num \in Nat
    BY <1>12, <2>1, FrameFile
  <2>3. state' \in [Files -> FileState]
    BY <1>13, <2>1 DEF FileState
  <2>4. TxTypes'
    BY <1>12, <1>14, <2>1, <2>2, <2>3 DEF ProcessGet, TxTypes
  <2> QED
    BY <1>12, <2>1, <2>4
<1>15. CASE ProcessGot(n)
  <2>1. ProcessQueue(n) /\ Mark(n, "Got")
    BY <1>15 DEF ProcessGot
  <2>2. state' \in [Files -> FileState]
    BY <1>13, <2>1 DEF FileState
  <2>3. TxTypes'
    BY ZenonT(30), <1>12, <1>15, <2>1, <2>2 DEF ProcessGot, StopSending, TxTypes
  <2> QED
    BY <1>12, <2>1, <2>3
<1>16. CASE ProcessSkip(n)
  <2>1. ProcessQueue(n) /\ Mark(n, "Skipped")
    BY <1>16 DEF ProcessSkip
  <2>2. state' \in [Files -> FileState]
    BY <1>13, <2>1 DEF FileState
  <2>3. TxTypes'
    BY ZenonT(30), <1>12, <1>16, <2>1, <2>2 DEF ProcessSkip, StopSending, TxTypes
  <2> QED
    BY <1>12, <2>1, <2>3
<1>17. ASSUME WaitLastAck(n)
       PROVE  /\ ProcessTypes' /\ LineTypes'
              /\ UNCHANGED <<tql, cursend, txpos, outbound>>
  BY <1>17 DEF WaitLastAck, Transmits, Goto, ProcessTypes, LineTypes
<1>18. CASE EndSession(n)
  <2>1. WaitLastAck(n)
    BY <1>18 DEF EndSession
  <2>2. BatchTypes'
    BY <1>18 DEF EndSession, batchVars, BatchTypes
  <2>3. TxTypes'
    BY <1>17, <1>18, <2>1 DEF EndSession, ClearFilelist, FileState, TxTypes
  <2>4. RxTypes'
    BY <1>18, <2>1 DEF EndSession, WaitLastAck, Transmits, RxTypes
  <2> QED
    BY <1>17, <2>1, <2>2, <2>3, <2>4
<1>19. CASE TransmitNewBatch(n)
  <2>1. WaitLastAck(n)
    BY <1>19 DEF TransmitNewBatch
  <2>2. BatchTypes'
    BY <1>19, FilesAssumption, OptionsAssumption DEF TransmitNewBatch, NewBatch, BatchTypes
  <2>3. TxTypes'
    BY <1>17, <1>19, <2>1 DEF TransmitNewBatch, NewBatch, ClearFilelist, FileState, TxTypes
  <2>4. RxTypes'
    BY <1>19, <2>1 DEF TransmitNewBatch, NewBatch, WaitLastAck, Transmits, RxTypes
  <2> QED
    BY <1>17, <2>1, <2>2, <2>3, <2>4
<1>20. CASE ClearSentList(n)
  <2>1. WaitLastAck(n)
    BY <1>20 DEF ClearSentList
  <2>2. BatchTypes'
    BY <1>20 DEF ClearSentList, batchVars, BatchTypes
  <2>3. TxTypes'
    BY <1>17, <1>20, <2>1 DEF ClearSentList, ClearFilelist, FileState, TxTypes
  <2>4. RxTypes'
    BY <1>1, <1>20, <2>1 DEF ClearSentList, WaitLastAck
  <2> QED
    BY <1>17, <2>1, <2>2, <2>3, <2>4
<1>21. CASE WaitForRemote(n)
  <2>1. WaitLastAck(n)
    BY <1>21 DEF WaitForRemote
  <2>2. BatchTypes'
    BY <1>21 DEF WaitForRemote, batchVars, BatchTypes
  <2>3. TxTypes'
    BY <1>17, <1>21, <2>1 DEF WaitForRemote, TxTypes
  <2>4. RxTypes'
    BY <1>1, <1>21, <2>1 DEF WaitForRemote, WaitLastAck
  <2> QED
    BY <1>17, <2>1, <2>2, <2>3, <2>4
<1> QED
  BY <1>6, <1>7, <1>8, <1>10, <1>11, <1>14, <1>15, <1>16, <1>18, <1>19, <1>20, <1>21
  DEF Transmit

\* The end of a session, and the faults.
LEMMA EndTyped ==
  ASSUME TypeOK, NEW n \in Nodes, End(n)
  PROVE  TypeOK'
<1> USE DEF TypeOK
<1>1. CASE Hangup(n) \/ Timeout(n)
  <2>1. ProcessTypes'
    <3>1. Failure(n) /\ UNCHANGED <<session, faults>>
      BY <1>1 DEF Hangup, Timeout, Idle
    <3> QED
      BY <3>1 DEF Failure, Goto, ProcessTypes
  <2>2. LineTypes' /\ BatchTypes'
    BY <1>1 DEF Hangup, Timeout, Idle, lineVars, batchVars, LineTypes, BatchTypes
  <2>3. TxTypes' /\ RxTypes'
    BY SMTT(30), <1>1 DEF Hangup, Timeout, Idle, rxVars, TxTypes, RxTypes
  <2> QED
    BY <2>1, <2>2, <2>3
<1>2. CASE Deinit(n)
  <2>1. ProcessTypes'
    BY <1>2 DEF Deinit, Goto, Idle, ProcessTypes
  <2>2. LineTypes' /\ BatchTypes'
    BY <1>2 DEF Deinit, Idle, lineVars, batchVars, LineTypes, BatchTypes
  <2>3. TxTypes' /\ RxTypes'
    BY <1>2 DEF Deinit, ClearFilelist, Idle, rxVars, FileState, TxTypes, RxTypes
  <2> QED
    BY <2>1, <2>2, <2>3
<1> QED
  BY <1>1, <1>2 DEF End

LEMMA LoseLineTyped == TypeOK /\ LoseLine => TypeOK'
<1> SUFFICES ASSUME TypeOK, LoseLine PROVE TypeOK'
  OBVIOUS
<1> USE DEF TypeOK
<1>1. ProcessTypes'
  BY FilesAssumption, OptionsAssumption DEF LoseLine, Fault, ProcessTypes
<1>2. LineTypes'
  BY NoFrames DEF LoseLine, Fault, LineTypes
<1>3. BatchTypes' /\ TxTypes' /\ RxTypes'
  BY DEF LoseLine, batchVars, txVars, rxVars, BatchTypes, TxTypes, RxTypes
<1> QED
  BY <1>1, <1>2, <1>3

LEMMA KillTyped ==
  ASSUME TypeOK, NEW n \in Nodes, Kill(n)
  PROVE  TypeOK'
<1> USE DEF TypeOK
<1>1. ProcessTypes'
  BY FilesAssumption, OptionsAssumption DEF Kill, Fault, Goto, ProcessTypes
<1>2. LineTypes' /\ BatchTypes' /\ TxTypes'
  BY DEF Kill, lineVars, batchVars, txVars, LineTypes, BatchTypes, TxTypes
<1>3. part' \in [Files -> Seq(Files \X Nat)]
  <2>1. CASE infp[n] = NoFile
    BY <2>1 DEF Kill, RxTypes
  <2>2. CASE infp[n] # NoFile
    <3>1. part[infp[n]] \in Seq(Files \X Nat)
      BY <2>2 DEF RxTypes
    <3>2. PICK k \in rxbytes[n]..Len(part[infp[n]]) :
            part' = [part EXCEPT ![infp[n]] = SubSeq(part[infp[n]], 1, k)]
      BY <2>2 DEF Kill, RxTypes
    <3>3. k \in 0..Len(part[infp[n]])
      BY <3>1 DEF RxTypes
    <3>4. SubSeq(part[infp[n]], 1, k) \in Seq(Files \X Nat)
      BY <3>1, <3>3, SubSeqProperties
    <3> QED
      BY <3>2, <3>4 DEF RxTypes
  <2> QED
    BY <2>1, <2>2
<1>4. RxTypes'
  BY <1>3 DEF Kill, RxTypes
<1> QED
  BY <1>1, <1>2, <1>4

LEMMA RedialTyped == TypeOK /\ Redial => TypeOK'
<1> SUFFICES ASSUME TypeOK, Redial PROVE TypeOK'
  OBVIOUS
<1> USE DEF TypeOK
<1>1. ProcessTypes'
  BY FilesAssumption, OptionsAssumption DEF Redial, ProcessTypes
<1>2. LineTypes' /\ BatchTypes'
  BY NoFrames, FilesAssumption, OptionsAssumption DEF Redial, LineTypes, BatchTypes
<1>3. TxTypes'
  BY NoFrames DEF Redial, FileState, TxTypes
<1>4. RxTypes'
  BY DEF Redial, RxTypes
<1> QED
  BY <1>1, <1>2, <1>3, <1>4

LEMMA InitTyped == Init => TypeOK
<1> SUFFICES ASSUME Init PROVE TypeOK
  OBVIOUS
<1>1. ProcessTypes
  BY FilesAssumption, OptionsAssumption DEF Init, ProcessTypes
<1>2. LineTypes /\ BatchTypes
  BY NoFrames, FilesAssumption, OptionsAssumption DEF Init, LineTypes, BatchTypes
<1>3. TxTypes
  BY NoFrames DEF Init, FileState, TxTypes
<1>4. part \in [Files -> Seq(Files \X Nat)]
  <2>1. \A f \in Files : part[f] \in Seq({f} \X Nat)
    BY FilesAssumption, OptionsAssumption DEF Init
  <2>2. \A f \in Files : \A s \in Seq({f} \X Nat) : s \in Seq(Files \X Nat)
    OBVIOUS
  <2> QED
    BY <2>1, <2>2 DEF Init
<1>5. RxTypes
  BY <1>4 DEF Init, RxTypes
<1> QED
  BY <1>1, <1>2, <1>3, <1>5 DEF TypeOK

LEMMA NextTyped == TypeOK /\ [Next]_vars => TypeOK'
<1> SUFFICES ASSUME TypeOK, [Next]_vars PROVE TypeOK'
  OBVIOUS
<1>1. CASE UNCHANGED vars
  BY <1>1 DEF vars, lineVars, batchVars, txVars, rxVars, boundVars, TypeOK,
     ProcessTypes, LineTypes, BatchTypes, TxTypes, RxTypes
<1> QED
  BY <1>1, ReceiveTyped, TransmitTyped, EndTyped, KillTyped, LoseLineTyped,
     RedialTyped DEF Next

\* Every variable keeps its type: no step of a mailer, and no fault, takes the
\* state machines of file_transfer(), binkp_receiver() and binkp_transmitter()
\* outside their states.
THEOREM TypeCorrect == Spec => []TypeOK
BY InitTyped, NextTyped, PTL DEF Spec

--------------------------------------------------------------------------------
(***************************************************************************)
(* A file is in one place at a time: to be offered by its owner, offered   *)
(* in an M_FILE under way, being received, answered for in a frame under   *)
(* way, or answered for in the owner's queue.  From this follows that an   *)
(* answer always finds its file on the owner's list.                       *)
(***************************************************************************)
Reply == {"GET", "GOT", "SKIP"}

\* A frame of these commands about f is in the queue q, or at most one is.
Has(q, C, f) == \E i \in DOMAIN q : q[i].cmd \in C /\ q[i].file = f

Once(q, C, f) ==
  \A i, j \in DOMAIN q :
    (q[i].cmd \in C /\ q[i].file = f /\ q[j].cmd \in C /\ q[j].file = f) => i = j

Sender(f) == Owner[f]

Receiver(f) == Peer[Owner[f]]

\* The five places.
RestStates == {"NotListed", "NoState", "Got", "Skipped"}

AtRest(f) ==
  /\ FtState[Sender(f)] \notin {"DeinitTransfer", "Exit"}
  /\ state[f] \in RestStates

Offered(f) == Has(chan[Receiver(f)], {"FILE"}, f)

InReceipt(f) == RxState[Receiver(f)] = "RxReceD" /\ rname[Receiver(f)] = f

Answered(f) == Has(chan[Sender(f)], Reply, f)

Noted(f) == Has(tql[Sender(f)], Reply, f)

OnePlace(f) ==
  /\ AtRest(f) => ~ Offered(f) /\ ~ InReceipt(f) /\ ~ Answered(f) /\ ~ Noted(f)
  /\ Offered(f) => ~ InReceipt(f) /\ ~ Answered(f) /\ ~ Noted(f)
  /\ InReceipt(f) => ~ Answered(f) /\ ~ Noted(f)
  /\ Answered(f) => ~ Noted(f)
  /\ Once(chan[Receiver(f)], {"FILE"}, f)
  /\ Once(chan[Sender(f)], Reply, f)
  /\ Once(tql[Sender(f)], Reply, f)

\* Files go from their owner to its peer, answers the other way.
Owned(q, p) ==
  \A i \in DOMAIN q :
    /\ q[i].cmd \in {"FILE", "DATA"} => Owner[q[i].file] = Peer[p]
    /\ q[i].cmd \in Reply => Owner[q[i].file] = p

LineOwned == \A p \in Nodes : Owned(chan[p], p)

QueueOwned ==
  \A p \in Nodes : \A i \in DOMAIN tql[p] :
    tql[p][i].cmd \in Reply /\ Owner[tql[p][i].file] = p

NodeOwned ==
  \A p \in Nodes :
    /\ RxState[p] = "RxReceD" => Owner[rname[p]] = Peer[p]
    /\ TxState[p] = "TxTryR" => Owner[cursend[p]] = p

\* A dropped list is empty, and there is a list while a file is sent from it.
DroppedEmpty ==
  \A f \in Files : ~ listed[Owner[f]] => state[f] = "NotListed"

ListKept ==
  \A p \in Nodes :
    TxState[p] = "TxTryR" /\ FtState[p] \notin {"DeinitTransfer", "Exit"} => listed[p]

Places ==
  /\ TypeOK /\ DroppedEmpty /\ ListKept
  /\ LineOwned /\ QueueOwned /\ NodeOwned
  /\ \A f \in Files : OnePlace(f)
------------------------------------------------------------------------------
\* Queues.

LEMMA HasTail ==
  ASSUME NEW q \in Seq(Frame), q # <<>>, NEW C, NEW f
  PROVE  /\ Has(Tail(q), C, f) => Has(q, C, f)
         /\ Once(q, C, f) => Once(Tail(q), C, f)
         /\ Once(q, C, f) /\ Head(q).cmd \in C /\ Head(q).file = f
              => ~ Has(Tail(q), C, f)
         /\ Head(q).cmd \in C /\ Head(q).file = f => Has(q, C, f)
<1>1. /\ Len(q) \in Nat /\ Len(q) > 0 /\ Head(q) = q[1]
      /\ DOMAIN q = 1..Len(q) /\ DOMAIN Tail(q) = 1..(Len(q) - 1)
      /\ \A i \in DOMAIN Tail(q) : Tail(q)[i] = q[i + 1]
  BY HeadTailProperties
<1>2. \A i \in DOMAIN Tail(q) : i + 1 \in DOMAIN q /\ i + 1 # 1
  BY <1>1
<1>3. 1 \in DOMAIN q
  BY <1>1
<1>4. Has(Tail(q), C, f) => Has(q, C, f)
  BY <1>1, <1>2 DEF Has
<1>5. Once(q, C, f) => Once(Tail(q), C, f)
  <2> SUFFICES ASSUME Once(q, C, f), NEW i \in DOMAIN Tail(q), NEW j \in DOMAIN Tail(q),
                      Tail(q)[i].cmd \in C, Tail(q)[i].file = f,
                      Tail(q)[j].cmd \in C, Tail(q)[j].file = f
               PROVE  i = j
    BY DEF Once
  <2>1. i + 1 = j + 1
    BY <1>1, <1>2 DEF Once
  <2> QED
    BY <1>1, <2>1
<1>6. ASSUME Once(q, C, f), Head(q).cmd \in C, Head(q).file = f
      PROVE  ~ Has(Tail(q), C, f)
  BY <1>1, <1>2, <1>3, <1>6 DEF Once, Has
<1>7. Head(q).cmd \in C /\ Head(q).file = f => Has(q, C, f)
  BY <1>1, <1>3 DEF Has
<1> QED
  BY <1>4, <1>5, <1>6, <1>7

LEMMA HasConcat ==
  ASSUME NEW q \in Seq(Frame), NEW r \in Seq(Frame), NEW C, NEW f
  PROVE  /\ Has(q \o r, C, f) => Has(q, C, f) \/ Has(r, C, f)
         /\ Once(q, C, f) /\ Once(r, C, f) /\ ~ (Has(q, C, f) /\ Has(r, C, f))
              => Once(q \o r, C, f)
<1>1. /\ Len(q) \in Nat /\ Len(r) \in Nat
      /\ DOMAIN q = 1..Len(q) /\ DOMAIN r = 1..Len(r)
      /\ DOMAIN (q \o r) = 1..(Len(q) + Len(r))
      /\ \A i \in 1..(Len(q) + Len(r)) :
           (q \o r)[i] = IF i <= Len(q) THEN q[i] ELSE r[i - Len(q)]
  BY ConcatProperties
<1>2. \A i \in DOMAIN (q \o r) :
        \/ i \in DOMAIN q /\ (q \o r)[i] = q[i]
        \/ i - Len(q) \in DOMAIN r /\ (q \o r)[i] = r[i - Len(q)]
  BY <1>1
<1>3. Has(q \o r, C, f) => Has(q, C, f) \/ Has(r, C, f)
  BY <1>2 DEF Has
<1>4. ASSUME Once(q, C, f), Once(r, C, f), ~ (Has(q, C, f) /\ Has(r, C, f)),
             NEW i \in DOMAIN (q \o r), NEW j \in DOMAIN (q \o r),
             (q \o r)[i].cmd \in C, (q \o r)[i].file = f,
             (q \o r)[j].cmd \in C, (q \o r)[j].file = f
      PROVE  i = j
  <2>1. CASE i \in DOMAIN q /\ (q \o r)[i] = q[i]
    <3>1. Has(q, C, f)
      BY <1>4, <2>1 DEF Has
    <3>2. j \in DOMAIN q /\ (q \o r)[j] = q[j]
      BY <1>2, <1>4, <3>1 DEF Has
    <3> QED
      BY <1>4, <2>1, <3>2 DEF Once
  <2>2. CASE i - Len(q) \in DOMAIN r /\ (q \o r)[i] = r[i - Len(q)]
    <3>1. Has(r, C, f)
      BY <1>4, <2>2 DEF Has
    <3>2. j - Len(q) \in DOMAIN r /\ (q \o r)[j] = r[j - Len(q)]
      BY <1>2, <1>4, <3>1 DEF Has
    <3>3. i - Len(q) = j - Len(q)
      BY <1>4, <2>2, <3>2 DEF Once
    <3> QED
      BY <1>1, <3>3
  <2> QED
    BY <1>2, <1>4, <2>1, <2>2
<1> QED
  BY <1>3, <1>4 DEF Once

\* A queue of one frame, or none.
LEMMA HasOne ==
  ASSUME NEW x \in Frame, NEW C, NEW f
  PROVE  /\ Has(<<x>>, C, f) <=> x.cmd \in C /\ x.file = f
         /\ Once(<<x>>, C, f)
<1>1. DOMAIN <<x>> = {1} /\ <<x>>[1] = x
  OBVIOUS
<1> QED
  BY <1>1 DEF Has, Once

LEMMA HasNone ==
  ASSUME NEW C, NEW f
  PROVE  ~ Has(<<>>, C, f) /\ Once(<<>>, C, f)
<1>1. DOMAIN <<>> = {}
  OBVIOUS
<1> QED
  BY <1>1 DEF Has, Once

LEMMA AppendConcat ==
  ASSUME NEW q \in Seq(Frame), NEW x \in Frame
  PROVE  Append(q, x) = q \o <<x>> /\ q \o <<>> = q
OBVIOUS
------------------------------------------------------------------------------
\* What a step of p does to the place of a file.

\* p receives a frame from the owner of f, and answers out.
LEMMA FromOwner ==
  ASSUME Places, NEW p \in Nodes, chan[p] # <<>>, NEW out \in Seq(Frame),
         NEW f \in Files, Receiver(f) = p,
         chan'[p] = Tail(chan[p]),
         chan'[Peer[p]] = chan[Peer[p]] \o out,
         tql'[Peer[p]] = tql[Peer[p]],
         AtRest(f)' => AtRest(f),
         Once(out, Reply, f),
         InReceipt(f)' \/ Has(out, Reply, f) =>
           InReceipt(f) \/ (In(p).cmd = "FILE" /\ In(p).file = f),
         ~ (InReceipt(f)' /\ Has(out, Reply, f))
  PROVE  OnePlace(f)'
<1>1. Sender(f) = Peer[p] /\ Peer[p] \in Nodes
  BY DEF Sender, Receiver
<1>2. chan[p] \in Seq(Frame) /\ chan[Peer[p]] \in Seq(Frame)
  BY <1>1 DEF Places, TypeOK, LineTypes
<1>3. OnePlace(f)
  BY DEF Places
<1>4. /\ Offered(f)' => Offered(f)
      /\ Once(chan'[p], {"FILE"}, f)
      /\ In(p).cmd = "FILE" /\ In(p).file = f => Offered(f) /\ ~ Offered(f)'
  BY SMTT(30), <1>2, <1>3, HasTail DEF OnePlace, Offered, Receiver, In
<1>5. Answered(f)' => Answered(f) \/ Has(out, Reply, f)
  <2>1. Has(chan'[Peer[p]], Reply, f) => Has(chan[Peer[p]], Reply, f) \/ Has(out, Reply, f)
    BY <1>2, HasConcat
  <2> QED
    BY <1>1, <2>1 DEF Answered, Sender
<1>6. ~ (Answered(f) /\ Has(out, Reply, f))
  BY <1>3, <1>4 DEF OnePlace
<1>7. Once(chan'[Peer[p]], Reply, f)
  BY <1>1, <1>2, <1>3, <1>6, HasConcat DEF OnePlace, Answered, Sender
<1>8. Noted(f)' = Noted(f) /\ Once(tql'[Peer[p]], Reply, f)
  BY <1>1, <1>3 DEF OnePlace, Noted, Sender
<1>9. /\ Once(chan'[Receiver(f)], {"FILE"}, f)
      /\ Once(chan'[Sender(f)], Reply, f)
      /\ Once(tql'[Sender(f)], Reply, f)
  BY <1>1, <1>4, <1>7, <1>8
<1>10. /\ AtRest(f)' => ~ Offered(f)' /\ ~ InReceipt(f)' /\ ~ Answered(f)' /\ ~ Noted(f)'
       /\ Offered(f)' => ~ InReceipt(f)' /\ ~ Answered(f)' /\ ~ Noted(f)'
       /\ InReceipt(f)' => ~ Answered(f)' /\ ~ Noted(f)'
       /\ Answered(f)' => ~ Noted(f)'
  BY <1>3, <1>4, <1>5, <1>8 DEF OnePlace
<1> QED
  BY <1>9, <1>10 DEF OnePlace, Sender, Receiver

\* The owner p of f receives a frame, which it may put in its queue, and
\* answers out, in which it offers nothing.
LEMMA ToOwner ==
  ASSUME Places, NEW p \in Nodes, chan[p] # <<>>, NEW out \in Seq(Frame),
         NEW f \in Files, Sender(f) = p,
         chan'[p] = Tail(chan[p]),
         chan'[Peer[p]] = chan[Peer[p]] \o out,
         ~ Has(out, {"FILE"}, f), Once(out, {"FILE"}, f),
         RxState'[Peer[p]] = RxState[Peer[p]], rname'[Peer[p]] = rname[Peer[p]],
         AtRest(f)' => AtRest(f),
         \/ tql'[p] = tql[p]
         \/ tql'[p] = Append(tql[p], In(p)) /\ In(p).cmd \in Reply
  PROVE  OnePlace(f)'
<1>1. Receiver(f) = Peer[p] /\ Peer[p] \in Nodes
  BY DEF Sender, Receiver
<1>2. chan[p] \in Seq(Frame) /\ chan[Peer[p]] \in Seq(Frame) /\ tql[p] \in Seq(Frame)
  BY <1>1 DEF Places, TypeOK, LineTypes, TxTypes
<1>3. OnePlace(f)
  BY DEF Places
<1>4. (Offered(f)' => Offered(f)) /\ Once(chan'[Peer[p]], {"FILE"}, f)
  <2>1. Once(chan[Peer[p]], {"FILE"}, f)
    BY <1>1, <1>3 DEF OnePlace
  <2>2. /\ Has(chan'[Peer[p]], {"FILE"}, f) => Has(chan[Peer[p]], {"FILE"}, f)
        /\ Once(chan'[Peer[p]], {"FILE"}, f)
    BY <1>2, <2>1, HasConcat
  <2> QED
    BY <1>1, <2>2 DEF Offered, Receiver
<1>5. InReceipt(f)' = InReceipt(f)
  BY <1>1 DEF InReceipt, Receiver
<1>6. /\ Answered(f)' => Answered(f)
      /\ Once(chan'[p], Reply, f)
      /\ In(p).cmd \in Reply /\ In(p).file = f => Answered(f) /\ ~ Answered(f)'
  <2>1. Once(chan[p], Reply, f)
    BY <1>3 DEF OnePlace, Sender
  <2>2. /\ Has(chan'[p], Reply, f) => Has(chan[p], Reply, f)
        /\ Once(chan'[p], Reply, f)
        /\ In(p).cmd \in Reply /\ In(p).file = f
             => Has(chan[p], Reply, f) /\ ~ Has(chan'[p], Reply, f)
    BY SMTT(30), <1>2, <2>1, HasTail DEF In
  <2> QED
    BY <2>2 DEF Answered, Sender
<1>7. /\ Noted(f)' => Noted(f) \/ (In(p).cmd \in Reply /\ In(p).file = f)
      /\ Once(tql'[p], Reply, f)
  <2>1. CASE tql'[p] = tql[p]
    BY <1>3, <2>1 DEF OnePlace, Noted, Sender
  <2>2. CASE tql'[p] = Append(tql[p], In(p)) /\ In(p).cmd \in Reply
    <3>1. In(p) \in Frame /\ <<In(p)>> \in Seq(Frame)
      BY <1>2, QueueTyped DEF In
    <3>2. tql'[p] = tql[p] \o <<In(p)>>
      BY <1>2, <2>2, <3>1, AppendConcat
    <3>3. /\ Has(<<In(p)>>, Reply, f) <=> In(p).cmd \in Reply /\ In(p).file = f
          /\ Once(<<In(p)>>, Reply, f)
      BY <3>1, HasOne
    <3>4. Noted(f) = Has(tql[p], Reply, f) /\ Noted(f)' = Has(tql'[p], Reply, f)
      BY DEF Noted, Sender
    <3>5. ~ (Noted(f) /\ Has(<<In(p)>>, Reply, f)) /\ Once(tql[p], Reply, f)
      BY <1>3, <1>6, <3>3 DEF OnePlace, Sender
    <3>6. /\ Has(tql[p] \o <<In(p)>>, Reply, f)
               => Has(tql[p], Reply, f) \/ Has(<<In(p)>>, Reply, f)
          /\ Once(tql[p] \o <<In(p)>>, Reply, f)
      BY <1>2, <3>1, <3>3, <3>4, <3>5, HasConcat
    <3> QED
      BY <3>2, <3>3, <3>4, <3>6
  <2> QED
    BY <2>1, <2>2
<1>8. /\ Once(chan'[Receiver(f)], {"FILE"}, f)
      /\ Once(chan'[Sender(f)], Reply, f)
      /\ Once(tql'[Sender(f)], Reply, f)
  BY <1>1, <1>4, <1>6, <1>7
<1>9. /\ AtRest(f)' => ~ Offered(f)' /\ ~ InReceipt(f)' /\ ~ Answered(f)' /\ ~ Noted(f)'
      /\ Offered(f)' => ~ InReceipt(f)' /\ ~ Answered(f)' /\ ~ Noted(f)'
      /\ InReceipt(f)' => ~ Answered(f)' /\ ~ Noted(f)'
      /\ Answered(f)' => ~ Noted(f)'
  BY <1>3, <1>4, <1>5, <1>6, <1>7 DEF OnePlace
<1> QED
  BY <1>8, <1>9 DEF OnePlace, Sender, Receiver

\* The owner p of f sends out, or works on its queue.
LEMMA ByOwner ==
  ASSUME Places, NEW p \in Nodes, NEW out \in Seq(Frame),
         NEW f \in Files, Sender(f) = p,
         chan'[p] = chan[p],
         chan'[Peer[p]] \in {chan[Peer[p]], chan[Peer[p]] \o out},
         Once(out, {"FILE"}, f),
         Has(out, {"FILE"}, f) => AtRest(f) /\ ~ AtRest(f)',
         RxState'[Peer[p]] = RxState[Peer[p]], rname'[Peer[p]] = rname[Peer[p]],
         \/ tql'[p] = tql[p] /\ (AtRest(f)' => AtRest(f))
         \/ /\ tql[p] # <<>> /\ tql'[p] = Tail(tql[p])
            /\ AtRest(f)' => AtRest(f) \/ Head(tql[p]).file = f
  PROVE  OnePlace(f)'
<1>1. Receiver(f) = Peer[p] /\ Peer[p] \in Nodes
  BY DEF Sender, Receiver
<1>2. chan[p] \in Seq(Frame) /\ chan[Peer[p]] \in Seq(Frame) /\ tql[p] \in Seq(Frame)
  BY <1>1 DEF Places, TypeOK, LineTypes, TxTypes
<1>3. OnePlace(f)
  BY DEF Places
<1>4. /\ Offered(f)' => Offered(f) \/ Has(out, {"FILE"}, f)
      /\ Once(chan'[Peer[p]], {"FILE"}, f)
  <2>1. /\ Once(chan[Peer[p]], {"FILE"}, f)
        /\ ~ (Has(chan[Peer[p]], {"FILE"}, f) /\ Has(out, {"FILE"}, f))
    BY <1>1, <1>3 DEF OnePlace, Offered
  <2>2. /\ Has(chan'[Peer[p]], {"FILE"}, f)
             => Has(chan[Peer[p]], {"FILE"}, f) \/ Has(out, {"FILE"}, f)
        /\ Once(chan'[Peer[p]], {"FILE"}, f)
    <3>1. /\ Has(chan[Peer[p]] \o out, {"FILE"}, f)
               => Has(chan[Peer[p]], {"FILE"}, f) \/ Has(out, {"FILE"}, f)
          /\ Once(chan[Peer[p]] \o out, {"FILE"}, f)
      BY <1>2, <2>1, HasConcat
    <3> QED
      BY <2>1, <3>1
  <2> QED
    BY <1>1, <2>2 DEF Offered, Receiver
<1>6. InReceipt(f)' = InReceipt(f)
  BY <1>1 DEF InReceipt, Receiver
<1>7. Answered(f)' = Answered(f) /\ Once(chan'[p], Reply, f)
  BY <1>3 DEF OnePlace, Answered, Sender
<1>8. /\ Noted(f)' => Noted(f)
      /\ Once(tql'[p], Reply, f)
      /\ AtRest(f)' => AtRest(f) \/ (Noted(f) /\ ~ Noted(f)')
  <2>1. CASE tql'[p] = tql[p] /\ (AtRest(f)' => AtRest(f))
    BY <1>3, <2>1 DEF OnePlace, Noted, Sender
  <2>2. CASE /\ tql[p] # <<>> /\ tql'[p] = Tail(tql[p])
             /\ AtRest(f)' => AtRest(f) \/ Head(tql[p]).file = f
    <3>1. Head(tql[p]).cmd \in Reply
      <4>1. 1 \in DOMAIN tql[p] /\ Head(tql[p]) = tql[p][1]
        BY <1>2, <2>2, HeadTailProperties
      <4> QED
        BY <4>1 DEF Places, QueueOwned
    <3> QED
      BY <1>2, <1>3, <2>2, <3>1, HasTail DEF OnePlace, Noted, Sender
  <2> QED
    BY <2>1, <2>2
<1>9. /\ Once(chan'[Receiver(f)], {"FILE"}, f)
      /\ Once(chan'[Sender(f)], Reply, f)
      /\ Once(tql'[Sender(f)], Reply, f)
  BY <1>1, <1>4, <1>7, <1>8
<1>10. /\ AtRest(f)' => ~ Offered(f)' /\ ~ InReceipt(f)' /\ ~ Answered(f)' /\ ~ Noted(f)'
       /\ Offered(f)' => ~ InReceipt(f)' /\ ~ Answered(f)' /\ ~ Noted(f)'
       /\ InReceipt(f)' => ~ Answered(f)' /\ ~ Noted(f)'
       /\ Answered(f)' => ~ Noted(f)'
  BY <1>3, <1>4, <1>6, <1>7, <1>8 DEF OnePlace
<1> QED
  BY <1>9, <1>10 DEF OnePlace, Sender, Receiver

\* Nothing new happens to f: its frames stay, or are lost, or out, which has
\* no answer about f, is sent to its owner.
LEMMA Bystander ==
  ASSUME Places, NEW f \in Files, NEW out \in Seq(Frame),
         \/ chan'[Receiver(f)] = chan[Receiver(f)]
         \/ chan'[Receiver(f)] = <<>>,
         \/ chan'[Sender(f)] = chan[Sender(f)]
         \/ chan'[Sender(f)] = <<>>
         \/ /\ chan'[Sender(f)] = chan[Sender(f)] \o out
            /\ ~ Has(out, Reply, f) /\ Once(out, Reply, f),
         tql'[Sender(f)] = tql[Sender(f)] \/ tql'[Sender(f)] = <<>>,
         InReceipt(f)' => InReceipt(f),
         \/ AtRest(f)' => AtRest(f)
         \/ /\ chan'[Receiver(f)] = <<>> /\ chan'[Sender(f)] = <<>>
            /\ tql'[Sender(f)] = <<>> /\ ~ InReceipt(f)'
  PROVE  OnePlace(f)'
<1>1. Receiver(f) \in Nodes /\ Sender(f) \in Nodes
  BY DEF Receiver, Sender
<1>2. /\ chan[Receiver(f)] \in Seq(Frame) /\ chan[Sender(f)] \in Seq(Frame)
      /\ tql[Sender(f)] \in Seq(Frame)
  BY <1>1 DEF Places, TypeOK, LineTypes, TxTypes
<1>3. OnePlace(f)
  BY DEF Places
<1>4. /\ Offered(f)' => Offered(f) /\ chan'[Receiver(f)] # <<>>
      /\ Once(chan'[Receiver(f)], {"FILE"}, f)
  BY <1>3, HasNone DEF OnePlace, Offered, Receiver
<1>5. /\ Answered(f)' => Answered(f) /\ chan'[Sender(f)] # <<>>
      /\ Once(chan'[Sender(f)], Reply, f)
  <2>1. Once(chan[Sender(f)], Reply, f)
    BY <1>3 DEF OnePlace
  <2>2. /\ Has(chan'[Sender(f)], Reply, f) => Has(chan[Sender(f)], Reply, f)
        /\ Once(chan'[Sender(f)], Reply, f)
        /\ chan'[Sender(f)] = <<>> => ~ Has(chan'[Sender(f)], Reply, f)
    <3>1. ~ Has(<<>>, Reply, f) /\ Once(<<>>, Reply, f)
      BY HasNone
    <3>2. ASSUME ~ Has(out, Reply, f), Once(out, Reply, f)
          PROVE  /\ Has(chan[Sender(f)] \o out, Reply, f) => Has(chan[Sender(f)], Reply, f)
                 /\ Once(chan[Sender(f)] \o out, Reply, f)
      BY <1>2, <2>1, <3>2, HasConcat
    <3> QED
      BY <2>1, <3>1, <3>2
  <2> QED
    BY <2>2 DEF Answered, Sender
<1>6. /\ Noted(f)' => Noted(f) /\ tql'[Sender(f)] # <<>>
      /\ Once(tql'[Sender(f)], Reply, f)
  BY <1>3, HasNone DEF OnePlace, Noted, Sender
<1> QED
  BY <1>3, <1>4, <1>5, <1>6 DEF OnePlace, Sender, Receiver
------------------------------------------------------------------------------
\* The receiver.

LEMMA OwnedTail ==
  ASSUME NEW q \in Seq(Frame), q # <<>>, NEW p, Owned(q, p)
  PROVE  /\ Owned(Tail(q), p)
         /\ Head(q).cmd \in {"FILE", "DATA"} => Owner[Head(q).file] = Peer[p]
         /\ Head(q).cmd \in Reply => Owner[Head(q).file] = p
<1>1. /\ 1 \in DOMAIN q /\ Head(q) = q[1]
      /\ \A i \in DOMAIN Tail(q) : i + 1 \in DOMAIN q /\ Tail(q)[i] = q[i + 1]
  BY HeadTailProperties
<1> QED
  BY <1>1 DEF Owned

LEMMA OwnedConcat ==
  ASSUME NEW q \in Seq(Frame), NEW r \in Seq(Frame), NEW p, Owned(q, p), Owned(r, p)
  PROVE  Owned(q \o r, p)
<1>1. \A i \in DOMAIN (q \o r) :
        \/ i \in DOMAIN q /\ (q \o r)[i] = q[i]
        \/ i - Len(q) \in DOMAIN r /\ (q \o r)[i] = r[i - Len(q)]
  BY ConcatProperties
<1> QED
  BY <1>1 DEF Owned

LEMMA OwnedOne ==
  ASSUME NEW x \in Frame, NEW p,
         x.cmd \in {"FILE", "DATA"} => Owner[x.file] = Peer[p],
         x.cmd \in Reply => Owner[x.file] = p
  PROVE  Owned(<<x>>, p)
<1>1. DOMAIN <<x>> = {1} /\ <<x>>[1] = x
  OBVIOUS
<1> QED
  BY <1>1 DEF Owned

LEMMA OwnedNone == ASSUME NEW p PROVE Owned(<<>>, p)
<1>1. DOMAIN <<>> = {}
  OBVIOUS
<1> QED
  BY <1>1 DEF Owned

\* The file g has just been offered to n, or n is receiving it.
Heard(n, g) ==
  \/ In(n).cmd = "FILE" /\ In(n).file = g
  \/ RxState[n] = "RxReceD" /\ rname[n] = g

\* What every step of the receiver does: it answers out, either nothing or one
\* frame that offers nothing.
ReceiveShape(n, out) ==
  /\ chan[n] # <<>> /\ FtState[n] = "Switch"
  /\ chan' = [chan EXCEPT ![n] = Tail(chan[n]), ![Peer[n]] = chan[Peer[n]] \o out]
  /\ \/ out = <<>>
     \/ \E x \in Frame : out = <<x>> /\ x.cmd \in Reply \cup {"ERR", "BSY"}
  /\ \A g \in Files : Has(out, Reply, g) => Heard(n, g) /\ RxState'[n] # "RxReceD"
  /\ RxState'[n] = "RxReceD" => Heard(n, rname'[n])
  /\ \/ tql' = tql
     \/ In(n).cmd \in Reply /\ tql' = [tql EXCEPT ![n] = Append(tql[n], In(n))]
  /\ \A f \in Files :
       \/ state'[f] = state[f]
       \/ /\ Owner[f] = n /\ state[f] \in {"NotListed", "Got", "Skipped"}
          /\ state'[f] = "NotListed"
  /\ TxState'[n] = "TxTryR" => TxState[n] = "TxTryR"
  /\ cursend' = cursend
  /\ \A p \in Nodes \ {n} :
       /\ FtState'[p] = FtState[p]
       /\ RxState'[p] = RxState[p]
       /\ TxState'[p] = TxState[p]
       /\ rname'[p] = rname[p]

\* A file is on the list, with nothing pending, when the list is dropped.
LEMMA Cleared ==
  ASSUME TypeOK, NEW n \in Nodes, Pending(n) = {}, ClearFilelist(n), NEW f \in Files
  PROVE  \/ state'[f] = state[f]
         \/ /\ Owner[f] = n /\ state[f] \in {"NotListed", "Got", "Skipped"}
            /\ state'[f] = "NotListed"
BY DEF TypeOK, TxTypes, Pending, Own, ClearFilelist, FileState

LEMMA ReceiveHasShape ==
  ASSUME TypeOK, NEW n \in Nodes, Receive(n)
  PROVE  \E out \in Seq(Frame) : ReceiveShape(n, out)
<1> USE DEF TypeOK
<1>1. chan[n] # <<>> /\ FtState[n] = "Switch"
  BY DEF Receive, ReceiveIgnored, ReceiveMessage, ReceiveError, ReceiveEOB,
     ReceiveKnownFile, ReceivePartial, ReceiveRefused, ReceiveFile, ReceiveLowDisk,
     ReceiveOnStaleStream, ReceiveBlock, ReceiveLastBlock, ReceiveCrcError,
     ReceiveCrcAbort, KilledInClose, AcceptFile, StaleStream, RejectFile, CloseFile,
     WriteBlock, Polled
<1>2. In(n) \in Frame
  BY <1>1, QueueTyped DEF In, LineTypes
<1>3. ASSUME NEW out, Answer(n, out)
      PROVE  chan' = [chan EXCEPT ![n] = Tail(chan[n]), ![Peer[n]] = chan[Peer[n]] \o out]
  BY <1>3 DEF Answer, LineTypes
<1>4. \A g \in Files : ~ Has(<<>>, Reply, g)
  BY HasNone
<1>5. CASE ReceiveIgnored(n)
  <2>1. ReceiveShape(n, <<>>)
    BY <1>1, <1>3, <1>4, <1>5 DEF ReceiveIgnored, ReceiveShape, Heard, ReceiverOk, Goto,
       ProcessTypes, txVars, rxVars
  <2> QED
    BY <2>1, NoFrames
<1>6. CASE ReceiveMessage(n)
  <2>1. ReceiveShape(n, <<>>)
    BY <1>1, <1>3, <1>4, <1>6 DEF ReceiveMessage, ReceiveShape, Heard, ReceiverOk, Goto,
       ProcessTypes, TxTypes, rxVars, Reply
  <2> QED
    BY <2>1, NoFrames
<1>7. CASE ReceiveError(n)
  <2>1. ReceiveShape(n, <<>>)
    BY <1>1, <1>3, <1>4, <1>7 DEF ReceiveError, ReceiveShape, Heard, Failure, Goto,
       ProcessTypes, RxTypes, txVars
  <2> QED
    BY <2>1, NoFrames
<1>8. CASE ReceiveEOB(n)
  <2>1. chan' = [chan EXCEPT ![n] = Tail(chan[n]), ![Peer[n]] = chan[Peer[n]] \o <<>>]
    <3>1. chan[Peer[n]] \o <<>> = chan[Peer[n]]
      BY DEF LineTypes
    <3>2. chan' = [chan EXCEPT ![n] = Tail(chan[n])]
      BY <1>8 DEF ReceiveEOB, LineTypes
    <3> QED
      BY <3>1, <3>2 DEF LineTypes
  <2>2. \A f \in Files :
          \/ state'[f] = state[f]
          \/ /\ Owner[f] = n /\ state[f] \in {"NotListed", "Got", "Skipped"}
             /\ state'[f] = "NotListed"
    BY <1>8, Cleared DEF ReceiveEOB, NewBatch
  <2>3. /\ \A p \in Nodes \ {n} : /\ FtState'[p] = FtState[p]
                                  /\ RxState'[p] = RxState[p]
                                  /\ TxState'[p] = TxState[p]
        /\ RxState'[n] # "RxReceD"
        /\ TxState'[n] = "TxTryR" => TxState[n] = "TxTryR"
    BY <1>8 DEF ReceiveEOB, NewBatch, ReceiverOk, Goto, ProcessTypes, RxTypes, TxTypes
  <2>4. ReceiveShape(n, <<>>)
    BY <1>1, <1>4, <1>8, <2>1, <2>2, <2>3 DEF ReceiveEOB, ReceiveShape
  <2> QED
    BY <2>4, NoFrames
<1>9. ASSUME AcceptFile(n)
      PROVE  /\ In(n).cmd = "FILE" /\ In(n).file \in Files
             /\ rname' = [rname EXCEPT ![n] = In(n).file] /\ rname'[n] = In(n).file
             /\ Heard(n, In(n).file)
             /\ UNCHANGED <<tql, state, cursend>>
  BY ZenonT(30), <1>9, AcceptTyped DEF AcceptFile, Heard, RxTypes
<1>10. ASSUME NEW c \in Reply, NEW h \in Files, NEW k \in Nat
       PROVE  /\ About(c, h, k) \in Frame /\ About(c, h, k).cmd \in Reply
              /\ <<About(c, h, k)>> \in Seq(Frame)
              /\ \A g \in Files : Has(<<About(c, h, k)>>, Reply, g) => g = h
  <2>1. About(c, h, k) \in Frame /\ About(c, h, k).cmd \in Reply /\ About(c, h, k).file = h
    BY <1>10, AboutTyped DEF About, Reply
  <2> QED
    BY <2>1, HasOne
<1>11. ASSUME NEW c \in {"ERR", "BSY"}
       PROVE  /\ Command(c) \in Frame /\ Command(c).cmd \in {"ERR", "BSY"}
              /\ <<Command(c)>> \in Seq(Frame)
              /\ \A g \in Files : ~ Has(<<Command(c)>>, Reply, g)
  <2>1. Command(c) \in Frame /\ Command(c).cmd \in {"ERR", "BSY"}
    BY <1>11, CommandTyped DEF Command
  <2>2. Command(c).cmd \notin Reply
    BY <2>1 DEF Reply
  <2> QED
    BY <2>1, <2>2, HasOne
<1>12. CASE ReceiveKnownFile(n)
  <2>1. ReceiveShape(n, <<About("GOT", In(n).file, 0)>>)
    BY ZenonT(30), <1>1, <1>3, <1>9, <1>10, <1>12
    DEF ReceiveKnownFile, ReceiveShape, ReceiverOk, Goto, ProcessTypes, RxTypes, Reply
  <2> QED
    BY <1>9, <1>10, <1>12, <2>1 DEF ReceiveKnownFile, Reply
<1>13. CASE ReceivePartial(n)
  <2>1. TmpSize(n) \in Nat
    BY <1>13, AcceptTyped DEF ReceivePartial
  <2>2. ReceiveShape(n, <<About("GET", In(n).file, TmpSize(n))>>)
    BY ZenonT(30), <1>1, <1>3, <1>9, <1>10, <1>13, <2>1
    DEF ReceivePartial, ReceiveShape, ReceiverOk, Goto, ProcessTypes, RxTypes, Reply
  <2> QED
    BY <1>9, <1>10, <1>13, <2>1, <2>2 DEF ReceivePartial, Reply
<1>14. CASE ReceiveRefused(n)
  <2>1. ReceiveShape(n, <<About("SKIP", In(n).file, 0)>>)
    BY ZenonT(30), <1>1, <1>3, <1>9, <1>10, <1>14
    DEF ReceiveRefused, ReceiveShape, ReceiverOk, Goto, ProcessTypes, RxTypes, Reply
  <2> QED
    BY <1>9, <1>10, <1>14, <2>1 DEF ReceiveRefused, Reply
<1>15. CASE ReceiveFile(n)
  <2>1. ReceiveShape(n, <<>>)
    BY <1>1, <1>3, <1>4, <1>9, <1>15
    DEF ReceiveFile, ReceiveShape, ReceiverOk, Goto, ProcessTypes, RxTypes
  <2> QED
    BY <2>1, NoFrames
<1>16. CASE ReceiveLowDisk(n)
  <2>1. chan' = [chan EXCEPT ![n] = Tail(chan[n]),
                             ![Peer[n]] = chan[Peer[n]] \o <<Command("BSY")>>]
    BY <1>3, <1>16 DEF ReceiveLowDisk
  <2>2. /\ RxState'[n] = "RxDone" /\ TxState'[n] = "TxDone"
        /\ \A p \in Nodes \ {n} : /\ FtState'[p] = FtState[p]
                                  /\ RxState'[p] = RxState[p]
                                  /\ TxState'[p] = TxState[p]
    BY <1>16 DEF ReceiveLowDisk, Failure, Goto, ProcessTypes, RxTypes, TxTypes
  <2>3. AcceptFile(n)
    BY <1>16 DEF ReceiveLowDisk
  <2>4. ReceiveShape(n, <<Command("BSY")>>)
    BY <1>1, <1>9, <1>11, <2>1, <2>2, <2>3 DEF ReceiveShape, RxTypes
  <2> QED
    BY <1>11, <2>4
<1>17. CASE ReceiveOnStaleStream(n)
  <2>1. Heard(n, rname[n]) \/ RxState[n] # "RxReceD"
    BY DEF Heard
  <2>2. ReceiveShape(n, <<>>)
    BY <1>1, <1>3, <1>4, <1>17, <2>1
    DEF ReceiveOnStaleStream, ReceiveShape, Goto, ProcessTypes, txVars
  <2> QED
    BY <2>2, NoFrames
<1>18. ASSUME WriteBlock(n)
       PROVE  /\ rname[n] \in Files /\ Heard(n, rname[n])
              /\ UNCHANGED <<tql, state, cursend, TxState, rname>>
  BY <1>18, WriteTyped DEF WriteBlock, Heard, txVars
<1>19. CASE ReceiveBlock(n)
  <2>1. ReceiveShape(n, <<>>)
    BY <1>1, <1>3, <1>4, <1>18, <1>19
    DEF ReceiveBlock, ReceiveShape, ReceiverOk, Goto, ProcessTypes
  <2> QED
    BY <2>1, NoFrames
<1>20. CASE ReceiveLastBlock(n)
  <2>1. ReceiveShape(n, <<About("GOT", rname[n], 0)>>)
    BY ZenonT(30), <1>1, <1>3, <1>10, <1>18, <1>20
    DEF ReceiveLastBlock, CloseFile, ReceiveShape, ReceiverOk, Goto, ProcessTypes,
        RxTypes, Reply
  <2> QED
    BY <1>10, <1>18, <1>20, <2>1 DEF ReceiveLastBlock, CloseFile, Reply
<1>21. CASE ReceiveCrcError(n)
  <2>1. WriteBlock(n) /\ Answer(n, <<About("SKIP", rname[n], 0)>>)
    BY <1>21 DEF ReceiveCrcError, RejectFile, CloseFile
  <2>2. /\ About("SKIP", rname[n], 0) \in Frame
        /\ About("SKIP", rname[n], 0).cmd \in Reply
        /\ <<About("SKIP", rname[n], 0)>> \in Seq(Frame)
        /\ \A g \in Files : Has(<<About("SKIP", rname[n], 0)>>, Reply, g) => g = rname[n]
    BY <1>10, <1>18, <2>1 DEF Reply
  <2>3. ReceiveShape(n, <<About("SKIP", rname[n], 0)>>)
    BY <1>1, <1>3, <1>18, <1>21, <2>1, <2>2
    DEF ReceiveCrcError, ReceiveShape, ReceiverOk, Goto, ProcessTypes, RxTypes
  <2> QED
    BY <2>2, <2>3
<1>22. CASE ReceiveCrcAbort(n)
  <2>1. ReceiveShape(n, <<Command("ERR")>>)
    BY <1>1, <1>3, <1>11, <1>18, <1>22
    DEF ReceiveCrcAbort, RejectFile, CloseFile, ReceiveShape, Failure, Goto,
        ProcessTypes, RxTypes
  <2> QED
    BY <1>11, <2>1
<1>23. CASE KilledInClose(n)
  <2>1. ReceiveShape(n, <<>>)
    BY <1>1, <1>3, <1>4, <1>18, <1>23
    DEF KilledInClose, CloseFile, ReceiveShape, Goto, ProcessTypes
  <2> QED
    BY <2>1, NoFrames
<1> QED
  BY <1>5, <1>6, <1>7, <1>8, <1>12, <1>13, <1>14, <1>15, <1>16, <1>17, <1>19, <1>20,
     <1>21, <1>22, <1>23 DEF Receive

\* The lists are dropped as a whole, made as a whole, or marked.
LEMMA DroppedStep ==
  ASSUME TypeOK, DroppedEmpty, ListKept, NodeOwned, [Next]_vars
  PROVE  DroppedEmpty'
<1> USE DEF DroppedEmpty
<1>1. CASE UNCHANGED <<listed, state>>
  BY <1>1
<1>2. ASSUME NEW n \in Nodes, ClearFilelist(n) PROVE DroppedEmpty'
  BY <1>2 DEF ClearFilelist, TypeOK, TxTypes
<1>3. ASSUME NEW n \in Nodes, listed' = [listed EXCEPT ![n] = TRUE],
             \A f \in Files : Owner[f] # n => state'[f] = state[f]
      PROVE  DroppedEmpty'
  BY <1>3 DEF TypeOK, TxTypes
<1>4. ASSUME NEW n \in Nodes, NEW f \in Own(n), TransmitFile(n, f) PROVE DroppedEmpty'
  BY <1>3, <1>4 DEF TransmitFile, GetNextFile, Own, Filelist
<1>5. ASSUME NEW n \in Nodes, NEW f \in Own(n), SkipFile(n, f) PROVE DroppedEmpty'
  BY <1>3, <1>5 DEF SkipFile, GetNextFile, Own, Filelist
<1>6. ASSUME NEW n \in Nodes, TransmitEOB(n) PROVE DroppedEmpty'
  BY <1>3, <1>6 DEF TransmitEOB, GetNextFile, Filelist
<1>7. ASSUME listed' = listed, NEW g, NEW s,
             state' = [state EXCEPT ![g] = IF state[g] = "NotListed" THEN state[g] ELSE s]
      PROVE  DroppedEmpty'
  BY <1>7 DEF TypeOK, TxTypes
<1>8. ASSUME NEW n \in Nodes, NEW s, Mark(n, s), listed' = listed PROVE DroppedEmpty'
  BY <1>7, <1>8 DEF Mark, OnList, TypeOK, TxTypes
<1>9. ASSUME NEW n \in Nodes, ProcessGet(n) \/ ProcessGot(n) \/ ProcessSkip(n)
      PROVE  DroppedEmpty'
  BY <1>8, <1>9 DEF ProcessGet, ProcessGot, ProcessSkip, ProcessQueue
<1>10. ASSUME NEW n \in Nodes, TransmitEndOfFile(n) PROVE DroppedEmpty'
  <2>1. cursend[n] \in Files /\ Owner[cursend[n]] = n /\ listed[n] /\ listed' = listed
    BY <1>10 DEF TransmitEndOfFile, ReadBlock, Transmits, TypeOK, TxTypes, ListKept,
       NodeOwned
  <2>2. state' = [state EXCEPT ![cursend[n]] = "IsSent"]
    BY <1>10 DEF TransmitEndOfFile
  <2> QED
    BY <1>10, <2>1, <2>2 DEF TypeOK, TxTypes
<1>11. ASSUME NEW n \in Nodes, Receive(n) PROVE DroppedEmpty'
  <2>1. UNCHANGED <<listed, state>> \/ ClearFilelist(n)
    BY <1>11
    DEF Receive, ReceiveIgnored, ReceiveMessage, ReceiveError, ReceiveEOB, NewBatch,
        ReceiveKnownFile, ReceivePartial, ReceiveRefused, ReceiveFile, ReceiveLowDisk,
        ReceiveOnStaleStream, ReceiveBlock, ReceiveLastBlock, ReceiveCrcError,
        ReceiveCrcAbort, KilledInClose, AcceptFile, RejectFile, CloseFile, WriteBlock,
        txVars
  <2> QED
    BY <1>1, <1>2, <2>1
<1>12. ASSUME NEW n \in Nodes, TransmitBlock(n) \/ WaitForRemote(n) PROVE DroppedEmpty'
  BY <1>1, <1>12 DEF TransmitBlock, ReadBlock, WaitForRemote
<1>13. ASSUME NEW n \in Nodes, EndSession(n) \/ TransmitNewBatch(n) \/ ClearSentList(n)
       PROVE  DroppedEmpty'
  BY <1>2, <1>13 DEF EndSession, TransmitNewBatch, ClearSentList, NewBatch
<1>14. ASSUME NEW n \in Nodes, Transmit(n) PROVE DroppedEmpty'
  BY <1>4, <1>5, <1>6, <1>9, <1>10, <1>12, <1>13, <1>14 DEF Transmit
<1>15. ASSUME NEW n \in Nodes, End(n) \/ Kill(n) PROVE DroppedEmpty'
  BY <1>1, <1>2, <1>15 DEF End, Hangup, Timeout, Deinit, Kill, txVars
<1>16. CASE LoseLine
  BY <1>1, <1>16 DEF LoseLine, txVars
<1>17. CASE Redial
  BY <1>17 DEF Redial
<1>18. CASE UNCHANGED vars
  BY <1>1, <1>18 DEF vars, txVars
<1> QED
  BY <1>11, <1>14, <1>15, <1>16, <1>17, <1>18 DEF Next

LEMMA KeptStep ==
  ASSUME TypeOK, ListKept, [Next]_vars
  PROVE  ListKept'
<1> USE DEF ListKept
<1> DEFINE Active(p) == FtState[p] \notin {"DeinitTransfer", "Exit"}
\* Nothing that matters changes.
<1>1. ASSUME listed' = listed,
             \A p \in Nodes : /\ TxState'[p] = "TxTryR" => TxState[p] = "TxTryR"
                              /\ Active(p)' => Active(p)
      PROVE  ListKept'
  BY <1>1
\* n makes a list, or drops one it is not sending from.
<1>2. ASSUME NEW n \in Nodes,
             TxState'[n] # "TxTryR" \/ ~ Active(n)' \/ listed'[n],
             \A p \in Nodes \ {n} : /\ listed'[p] = listed[p]
                                    /\ TxState'[p] = TxState[p]
                                    /\ FtState'[p] = FtState[p]
      PROVE  ListKept'
  BY <1>2
<1> USE DEF TypeOK, ProcessTypes, TxTypes
<1>3. ASSUME NEW n \in Nodes, ReceiveEOB(n) PROVE ListKept'
  <2>1. Active(n)
    BY <1>3 DEF ReceiveEOB, Polled
  <2>2. CASE NewBatch(n)
    BY <1>2, <1>3, <2>2 DEF ReceiveEOB, NewBatch, ClearFilelist, ReceiverOk, Goto
  <2>3. CASE UNCHANGED <<TxState, listed>>
    BY <1>1, <1>3, <2>1, <2>3 DEF ReceiveEOB, ReceiverOk, Goto
  <2> QED
    BY <1>3, <2>2, <2>3 DEF ReceiveEOB
<1>4. ASSUME NEW n \in Nodes, Receive(n) PROVE ListKept'
  <2>1. CASE ReceiveEOB(n)
    BY <1>3, <2>1
  <2>2. CASE ~ ReceiveEOB(n)
    <3>1. /\ listed' = listed /\ FtState[n] = "Switch"
          /\ TxState' = TxState \/ TxState' = [TxState EXCEPT ![n] = "TxDone"]
      BY <1>4, <2>2
      DEF Receive, ReceiveIgnored, ReceiveMessage, ReceiveError, ReceiveKnownFile,
          ReceivePartial, ReceiveRefused, ReceiveFile, ReceiveLowDisk,
          ReceiveOnStaleStream, ReceiveBlock, ReceiveLastBlock, ReceiveCrcError,
          ReceiveCrcAbort, KilledInClose, AcceptFile, RejectFile, CloseFile, WriteBlock,
          Polled, StaleStream, txVars
    <3>2. \E s : Goto(n, s)
      BY <1>4, <2>2
      DEF Receive, ReceiveIgnored, ReceiveMessage, ReceiveError, ReceiveKnownFile,
          ReceivePartial, ReceiveRefused, ReceiveFile, ReceiveLowDisk,
          ReceiveOnStaleStream, ReceiveBlock, ReceiveLastBlock, ReceiveCrcError,
          ReceiveCrcAbort, KilledInClose, ReceiverOk, Failure
    <3> QED
      BY <1>1, <3>1, <3>2 DEF Goto
  <2> QED
    BY <2>1, <2>2
<1>5. ASSUME NEW n \in Nodes, GetNextFile(n), NEW s, Goto(n, s),
             TxState' = TxState \/ \E t : TxState' = [TxState EXCEPT ![n] = t]
      PROVE  ListKept'
  BY <1>2, <1>5 DEF GetNextFile, Goto
<1>6. ASSUME NEW n \in Nodes,
             TransmitEOB(n) \/ \E f \in Own(n) : TransmitFile(n, f) \/ SkipFile(n, f)
      PROVE  ListKept'
  BY <1>5, <1>6 DEF TransmitEOB, TransmitFile, SkipFile
<1>7. ASSUME NEW n \in Nodes, TransmitBlock(n) \/ TransmitEndOfFile(n) PROVE ListKept'
  BY SMTT(30), <1>1, <1>7 DEF TransmitBlock, TransmitEndOfFile, ReadBlock, Transmits, Goto
<1>8. ASSUME NEW n \in Nodes, ProcessGet(n) \/ ProcessGot(n) \/ ProcessSkip(n)
      PROVE  ListKept'
  <2>1. FtState[n] \in {"Switch", "Transmit", "Messages"} /\ listed' = listed
    BY <1>8 DEF ProcessGet, ProcessGot, ProcessSkip, ProcessQueue
  <2>2. \E s : Goto(n, s)
    BY <1>8 DEF ProcessGet, ProcessGot, ProcessSkip, ProcessQueue
  <2>3. TxState' = TxState \/ TxState' = [TxState EXCEPT ![n] = "TxGNF"]
    BY <1>8 DEF ProcessGet, ProcessGot, ProcessSkip, StopSending
  <2> QED
    BY <1>1, <2>1, <2>2, <2>3 DEF Goto
<1>9. ASSUME NEW n \in Nodes, WaitLastAck(n),
             \/ TxState' = [TxState EXCEPT ![n] = "TxDone"] /\ ClearFilelist(n)
             \/ TxState' = [TxState EXCEPT ![n] = "TxGNF"] /\ ClearFilelist(n)
             \/ TxState' = TxState /\ ClearFilelist(n)
             \/ UNCHANGED <<TxState, listed>>
      PROVE  ListKept'
  <2>1. TxState'[n] # "TxTryR"
    BY <1>9 DEF WaitLastAck, Transmits
  <2> QED
    BY <1>2, <1>9, <2>1 DEF WaitLastAck, ClearFilelist, Goto
<1>10. ASSUME NEW n \in Nodes,
              EndSession(n) \/ TransmitNewBatch(n) \/ ClearSentList(n) \/ WaitForRemote(n)
       PROVE  ListKept'
  BY <1>9, <1>10 DEF EndSession, TransmitNewBatch, ClearSentList, WaitForRemote, NewBatch
<1>11. ASSUME NEW n \in Nodes, Transmit(n) PROVE ListKept'
  BY <1>6, <1>7, <1>8, <1>10, <1>11 DEF Transmit
<1>12. ASSUME NEW n \in Nodes, Hangup(n) \/ Timeout(n) \/ Kill(n) PROVE ListKept'
  BY SMTT(30), <1>1, <1>12 DEF Hangup, Timeout, Kill, Failure, Goto, Idle, txVars
<1>13. ASSUME NEW n \in Nodes, Deinit(n) PROVE ListKept'
  BY <1>2, <1>13 DEF Deinit, Goto, ClearFilelist, Idle
<1>14. CASE LoseLine
  BY <1>1, <1>14 DEF LoseLine, txVars
<1>15. CASE Redial
  BY <1>15 DEF Redial
<1>16. CASE UNCHANGED vars
  BY <1>1, <1>16 DEF vars, txVars
<1> QED
  BY <1>4, <1>11, <1>12, <1>13, <1>14, <1>15, <1>16 DEF Next, End

\* The receiver keeps every file in one place.
LEMMA ReceivePlaces ==
  ASSUME Places, NEW n \in Nodes, Receive(n)
  PROVE  Places'
<1>1. PICK out \in Seq(Frame) : ReceiveShape(n, out)
  BY ReceiveHasShape DEF Places
<1>2. TypeOK /\ TypeOK'
  BY ReceiveTyped DEF Places
<1>3. /\ chan[n] # <<>> /\ chan \in [Nodes -> Seq(Frame)]
      /\ Peer[n] \in Nodes /\ Peer[n] # n /\ Peer[Peer[n]] = n
      /\ chan'[n] = Tail(chan[n]) /\ chan'[Peer[n]] = chan[Peer[n]] \o out
      /\ \A p \in Nodes \ {n, Peer[n]} : chan'[p] = chan[p]
  BY <1>1, <1>2 DEF ReceiveShape, TypeOK, LineTypes
<1>4. In(n) \in Frame /\ Owned(chan[n], n) /\ Owned(chan[Peer[n]], Peer[n])
  BY <1>3, QueueTyped DEF In, Places, LineOwned
<1>5. \A g : Heard(n, g) => Owner[g] = Peer[n]
  <2>1. In(n).cmd = "FILE" => Owner[In(n).file] = Peer[n]
    BY <1>3, <1>4, OwnedTail DEF In
  <2>2. RxState[n] = "RxReceD" => Owner[rname[n]] = Peer[n]
    BY DEF Places, NodeOwned
  <2> QED
    BY <2>1, <2>2 DEF Heard
<1>6. \A g \in Files : ~ Has(out, {"FILE"}, g) /\ Once(out, {"FILE"}, g) /\ Once(out, Reply, g)
  BY <1>1, HasOne, HasNone DEF ReceiveShape, Reply
<1>7. Owned(out, Peer[n])
  <2>1. CASE out = <<>>
    BY <2>1, OwnedNone
  <2>2. ASSUME NEW x \in Frame, out = <<x>>, x.cmd \in Reply \cup {"ERR", "BSY"}
        PROVE  Owned(out, Peer[n])
    <3>1. x.cmd \in Reply => x.file \in Files
      BY FrameFile DEF Reply
    <3>2. x.cmd \in Reply => Has(out, Reply, x.file)
      BY <2>2, HasOne
    <3>3. x.cmd \in Reply => Owner[x.file] = Peer[n]
      BY <1>1, <1>5, <3>1, <3>2 DEF ReceiveShape
    <3>4. x.cmd \notin {"FILE", "DATA"}
      BY <2>2 DEF Reply
    <3> QED
      BY <2>2, <3>3, <3>4, OwnedOne
  <2> QED
    BY <1>1, <2>1, <2>2 DEF ReceiveShape
<1>8. LineOwned'
  <2>1. Owned(chan'[n], n)
    BY <1>3, <1>4, OwnedTail
  <2>2. Owned(chan'[Peer[n]], Peer[n])
    BY <1>3, <1>4, <1>7, OwnedConcat
  <2>3. \A p \in Nodes \ {n, Peer[n]} : Owned(chan'[p], p)
    BY <1>3 DEF Places, LineOwned
  <2> QED
    BY <2>1, <2>2, <2>3 DEF LineOwned
<1>9. QueueOwned'
  <2>1. CASE tql' = tql
    BY <2>1 DEF Places, QueueOwned
  <2>2. CASE In(n).cmd \in Reply /\ tql' = [tql EXCEPT ![n] = Append(tql[n], In(n))]
    <3>1. Owner[In(n).file] = n
      BY <1>3, <1>4, <2>2, OwnedTail DEF In
    <3>2. tql[n] \in Seq(Frame)
      BY <1>2 DEF TypeOK, TxTypes
    <3>3. \A i \in DOMAIN Append(tql[n], In(n)) :
            \/ Append(tql[n], In(n))[i] = In(n)
            \/ i \in DOMAIN tql[n] /\ Append(tql[n], In(n))[i] = tql[n][i]
      BY <1>4, <3>2
    <3>4. tql'[n] = Append(tql[n], In(n)) /\ \A p \in Nodes \ {n} : tql'[p] = tql[p]
      BY <1>2, <2>2 DEF TypeOK, TxTypes
    <3> QED
      BY <2>2, <3>1, <3>3, <3>4 DEF Places, QueueOwned
  <2> QED
    BY <1>1, <2>1, <2>2 DEF ReceiveShape
<1>10. NodeOwned'
  BY <1>1, <1>5 DEF ReceiveShape, Places, NodeOwned
<1>11. ASSUME NEW f \in Files PROVE OnePlace(f)'
  <2>1. /\ Sender(f) \in Nodes /\ Receiver(f) = Peer[Sender(f)] /\ Receiver(f) \in Nodes
        /\ Sender(f) = Peer[Receiver(f)] /\ Sender(f) # Receiver(f)
    BY DEF Sender, Receiver
  <2>2. AtRest(f)' => AtRest(f)
    BY <1>1, <2>1 DEF ReceiveShape, AtRest, RestStates, Sender
  <2>3. CASE Sender(f) = n
    <3>1. RxState'[Peer[n]] = RxState[Peer[n]] /\ rname'[Peer[n]] = rname[Peer[n]]
      BY <1>1, <1>3 DEF ReceiveShape
    <3>2. \/ tql'[n] = tql[n]
          \/ tql'[n] = Append(tql[n], In(n)) /\ In(n).cmd \in Reply
      BY SMTT(30), <1>1, <1>2 DEF ReceiveShape, TypeOK, TxTypes
    <3> QED
      BY <1>3, <1>6, <2>2, <2>3, <3>1, <3>2, ToOwner
  <2>4. CASE Receiver(f) = n
    <3>1. tql'[Peer[n]] = tql[Peer[n]]
      <4>1. tql' = tql \/ tql' = [tql EXCEPT ![n] = Append(tql[n], In(n))]
        BY <1>1 DEF ReceiveShape
      <4> QED
        BY <1>2, <1>3, <4>1 DEF TypeOK, TxTypes
    <3>2. InReceipt(f)' => Heard(n, f) /\ RxState'[n] = "RxReceD"
      BY <1>1, <2>4 DEF ReceiveShape, InReceipt, Receiver
    <3>3. Has(out, Reply, f) => Heard(n, f) /\ RxState'[n] # "RxReceD"
      BY <1>1 DEF ReceiveShape
    <3>4. Heard(n, f) => InReceipt(f) \/ (In(n).cmd = "FILE" /\ In(n).file = f)
      BY <2>4 DEF Heard, InReceipt
    <3> QED
      BY <1>3, <1>6, <2>2, <2>4, <3>1, <3>2, <3>3, <3>4, FromOwner
  <2>5. CASE Sender(f) # n /\ Receiver(f) # n
    <3>1. chan'[Receiver(f)] = chan[Receiver(f)] /\ chan'[Sender(f)] = chan[Sender(f)]
      BY <1>3, <2>1, <2>5
    <3>2. tql'[Sender(f)] = tql[Sender(f)] /\ (InReceipt(f)' => InReceipt(f))
      BY ZenonT(30), <1>1, <1>2, <2>1, <2>5 DEF ReceiveShape, TypeOK, TxTypes, InReceipt
    <3> QED
      BY <2>2, <3>1, <3>2, NoFrames, Bystander
  <2> QED
    BY <2>3, <2>4, <2>5
<1>12. DroppedEmpty' /\ ListKept'
  BY <1>2, DroppedStep, KeptStep DEF Places, Next
<1> QED
  BY <1>2, <1>8, <1>9, <1>10, <1>11, <1>12 DEF Places
------------------------------------------------------------------------------
\* The transmitter.

\* What every step of the transmitter does: it offers a file that was at rest,
\* sends something else, or works on its queue.
TransmitShape(n, out) ==
  /\ FtState[n] \in {"Switch", "Transmit", "Messages"}
  /\ \/ chan' = chan
     \/ chan' = [chan EXCEPT ![Peer[n]] = chan[Peer[n]] \o out]
  /\ Owned(out, Peer[n])
  /\ \A g \in Files :
       /\ ~ Has(out, Reply, g) /\ Once(out, Reply, g) /\ Once(out, {"FILE"}, g)
       /\ Has(out, {"FILE"}, g) =>
            Owner[g] = n /\ state[g] \in RestStates /\ state'[g] = "Sending"
       /\ Owner[g] # n => state'[g] = state[g]
       /\ state'[g] \in RestStates =>
            \/ state[g] \in RestStates
            \/ tql[n] # <<>> /\ tql' # tql /\ Head(tql[n]).file = g
  /\ \/ tql' = tql
     \/ tql[n] # <<>> /\ tql' = [tql EXCEPT ![n] = Tail(tql[n])]
  /\ TxState'[n] = "TxTryR" => Owner[cursend'[n]] = n
  /\ RxState'[n] = "RxReceD" => RxState[n] = "RxReceD"
  /\ rname' = rname
  /\ \A p \in Nodes \ {n} :
       /\ FtState'[p] = FtState[p]
       /\ RxState'[p] = RxState[p]
       /\ TxState'[p] = TxState[p]
       /\ cursend'[p] = cursend[p]

\* Out answers nothing, and offers nothing but what x offers.
Offers(out, n, x) ==
  /\ out \in Seq(Frame)
  /\ Owned(out, Peer[n])
  /\ \A g : /\ ~ Has(out, Reply, g) /\ Once(out, Reply, g)
            /\ Once(out, {"FILE"}, g)
            /\ Has(out, {"FILE"}, g) => x.cmd = "FILE" /\ x.file = g

\* A frame that answers nothing, alone or after M_NUL TRF.
LEMMA Plain ==
  ASSUME TypeOK, NEW n \in Nodes, NEW x \in Frame, x.cmd \notin Reply,
         x.cmd \in {"FILE", "DATA"} => Owner[x.file] = n
  PROVE  /\ Offers(<<x>>, n, x)
         /\ Offers(Traffic(n), n, x)
         /\ Offers(Append(Traffic(n), x), n, x)
<1>1. Peer[n] \in Nodes /\ Peer[Peer[n]] = n
  OBVIOUS
<1>2. Offers(<<x>>, n, x)
  BY <1>1, HasOne, OwnedOne DEF Offers
<1>3. Command("NUL") \in Frame /\ Command("NUL").cmd = "NUL"
  BY CommandTyped DEF Command
<1>4. Offers(Traffic(n), n, x) /\ \A g : ~ Has(Traffic(n), {"FILE"}, g)
  <2>1. CASE Traffic(n) = <<>>
    BY <2>1, HasNone, OwnedNone DEF Offers
  <2>2. CASE Traffic(n) = <<Command("NUL")>>
    <3>1. Owned(<<Command("NUL")>>, Peer[n])
      BY <1>3, OwnedOne DEF Reply
    <3>2. \A g : /\ ~ Has(<<Command("NUL")>>, Reply, g) /\ Once(<<Command("NUL")>>, Reply, g)
                 /\ Once(<<Command("NUL")>>, {"FILE"}, g)
                 /\ ~ Has(<<Command("NUL")>>, {"FILE"}, g)
      BY <1>3, HasOne DEF Reply
    <3> QED
      BY <1>3, <2>2, <3>1, <3>2 DEF Offers
  <2> QED
    BY <2>1, <2>2 DEF Traffic
<1>5. Append(Traffic(n), x) = Traffic(n) \o <<x>>
  BY <1>4, AppendConcat DEF Offers
<1>6. Traffic(n) \o <<x>> \in Seq(Frame) /\ Owned(Traffic(n) \o <<x>>, Peer[n])
  <2>1. Traffic(n) \in Seq(Frame) /\ <<x>> \in Seq(Frame)
    BY <1>4 DEF Offers
  <2>2. Owned(Traffic(n), Peer[n]) /\ Owned(<<x>>, Peer[n])
    BY <1>2, <1>4 DEF Offers
  <2>3. Traffic(n) \o <<x>> \in Seq(Frame)
    BY <2>1, ConcatProperties
  <2> QED
    BY <2>1, <2>2, <2>3, OwnedConcat
<1>7. ASSUME NEW g
      PROVE  /\ ~ Has(Traffic(n) \o <<x>>, Reply, g)
             /\ Once(Traffic(n) \o <<x>>, Reply, g)
             /\ Once(Traffic(n) \o <<x>>, {"FILE"}, g)
             /\ Has(Traffic(n) \o <<x>>, {"FILE"}, g) => x.cmd = "FILE" /\ x.file = g
  BY <1>2, <1>4, HasConcat DEF Offers
<1> QED
  BY <1>2, <1>4, <1>5, <1>6, <1>7 DEF Offers

\* A list is made of files at rest.
LEMMA FilelistTyped ==
  ASSUME TypeOK, DroppedEmpty, NEW n \in Nodes, NEW g \in Files
  PROVE  /\ Owner[g] # n => Filelist(n)[g] = state[g]
         /\ Filelist(n)[g] \in RestStates => state[g] \in RestStates
         /\ Filelist(n) \in [Files -> FileState]
BY DEF Filelist, DroppedEmpty, RestStates, TypeOK, TxTypes, FileState

\* The steps that process no command.
LEMMA NextFileHasShape ==
  ASSUME Places, NEW n \in Nodes, GetNextFile(n), NEW x \in Frame, x.cmd \notin Reply,
         NEW out, SendCommand(n, out), Offers(out, n, x), NEW s, Goto(n, s),
         \A g \in Files :
           /\ Owner[g] # n => state'[g] = Filelist(n)[g]
           /\ state'[g] \in RestStates => Filelist(n)[g] \in RestStates
           /\ x.cmd = "FILE" /\ x.file = g =>
                Owner[g] = n /\ Filelist(n)[g] = "NoState" /\ state'[g] = "Sending",
         TxState'[n] = "TxTryR" => Owner[cursend'[n]] = n,
         \A p \in Nodes \ {n} : TxState'[p] = TxState[p] /\ cursend'[p] = cursend[p]
  PROVE  TransmitShape(n, out)
<1>1. /\ FtState[n] \in {"Switch", "Transmit", "Messages"}
      /\ \A p \in Nodes \ {n} : FtState'[p] = FtState[p]
      /\ UNCHANGED <<RxState, rname, tql>>
  BY DEF GetNextFile, Transmits, Goto, Places, TypeOK, ProcessTypes
<1>2. \/ chan' = chan
      \/ chan' = [chan EXCEPT ![Peer[n]] = chan[Peer[n]] \o out]
  BY DEF SendCommand, Send, Places, TypeOK, LineTypes
<1>3. \A g \in Files : /\ Owner[g] # n => state'[g] = state[g]
                       /\ state'[g] \in RestStates => state[g] \in RestStates
  BY FilelistTyped DEF Places
<1>4. \A g \in Files :
        /\ ~ Has(out, Reply, g) /\ Once(out, Reply, g) /\ Once(out, {"FILE"}, g)
        /\ Has(out, {"FILE"}, g) =>
             Owner[g] = n /\ state[g] \in RestStates /\ state'[g] = "Sending"
  <2> SUFFICES ASSUME NEW g \in Files, Has(out, {"FILE"}, g)
               PROVE  Owner[g] = n /\ state[g] \in RestStates /\ state'[g] = "Sending"
    BY DEF Offers
  <2>1. x.cmd = "FILE" /\ x.file = g
    BY DEF Offers
  <2>2. Filelist(n)[g] \in RestStates
    BY <2>1 DEF RestStates
  <2> QED
    BY <2>1, <2>2, FilelistTyped DEF Places
<1> QED
  BY <1>1, <1>2, <1>3, <1>4 DEF TransmitShape, Offers

LEMMA ReadHasShape ==
  ASSUME Places, NEW n \in Nodes, TransmitBlock(n) \/ TransmitEndOfFile(n)
  PROVE  \E out \in Seq(Frame) : TransmitShape(n, out)
<1> DEFINE x == About("DATA", cursend[n], txpos[n] + 1)
<1>1. /\ FtState[n] \in {"Switch", "Transmit"} /\ TxState[n] = "TxTryR"
      /\ Goto(n, "Switch") /\ UNCHANGED <<RxState, rname, tql>>
  BY DEF TransmitBlock, TransmitEndOfFile, ReadBlock, Transmits
<1>2. cursend[n] \in Files /\ Owner[cursend[n]] = n
  BY <1>1 DEF Places, TypeOK, TxTypes, NodeOwned
<1>3. x \in Frame /\ x.cmd = "DATA" /\ x.file = cursend[n]
  BY <1>2, AboutTyped DEF About, Places, TypeOK, TxTypes
<1>4. Offers(<<x>>, n, x)
  BY <1>2, <1>3, Plain DEF Places, Reply
<1>5. txpos' = [txpos EXCEPT ![n] = txpos[n] + 1] => txpos'[n] = txpos[n] + 1
  BY DEF Places, TypeOK, TxTypes
<1>6. \/ chan' = chan
      \/ chan' = [chan EXCEPT ![Peer[n]] = chan[Peer[n]] \o <<x>>]
  <2>1. chan' = chan \/ Send(n, <<x>>)
    BY <1>5 DEF TransmitBlock, TransmitEndOfFile
  <2> QED
    BY <2>1 DEF Send, Places, TypeOK, LineTypes
<1>7. /\ \A g \in Files : /\ Owner[g] # n => state'[g] = state[g]
                          /\ state'[g] \in RestStates => state[g] \in RestStates
      /\ TxState'[n] = "TxTryR" => Owner[cursend'[n]] = n
      /\ \A p \in Nodes \ {n} : TxState'[p] = TxState[p] /\ cursend'[p] = cursend[p]
  BY <1>1, <1>2
  DEF TransmitBlock, TransmitEndOfFile, RestStates, Places, TypeOK, TxTypes
<1>8. \A p \in Nodes \ {n} : FtState'[p] = FtState[p]
  BY <1>1 DEF Goto, Places, TypeOK, ProcessTypes
<1>9. \A g \in Files : ~ Has(<<x>>, {"FILE"}, g)
  BY <1>3, <1>4 DEF Offers
<1>10. TransmitShape(n, <<x>>)
  BY <1>1, <1>4, <1>6, <1>7, <1>8, <1>9 DEF TransmitShape, Offers
<1> QED
  BY <1>4, <1>10 DEF Offers

\* A command from the queue.
LEMMA ProcessHasShape ==
  ASSUME Places, NEW n \in Nodes, ProcessGet(n) \/ ProcessGot(n) \/ ProcessSkip(n)
  PROVE  TransmitShape(n, <<>>)
<1>1. /\ FtState[n] \in {"Switch", "Transmit", "Messages"}
      /\ tql[n] # <<>> /\ tql' = [tql EXCEPT ![n] = Tail(tql[n])]
      /\ UNCHANGED <<chan, RxState, rname>>
      /\ \E s : Goto(n, s)
      /\ \E s : Mark(n, s)
  BY DEF ProcessGet, ProcessGot, ProcessSkip, ProcessQueue, lineVars, rxVars
<1>2. tql[n] \in Seq(Frame) /\ 1 \in DOMAIN tql[n] /\ Message(n) = tql[n][1]
  BY <1>1, HeadTailProperties DEF Message, Places, TypeOK, TxTypes
<1>3. Message(n).file \in Files /\ Owner[Message(n).file] = n
  <2>1. Message(n) \in Frame /\ Message(n).cmd \in Reply
    BY <1>1, <1>2, QueueTyped DEF Message, Places, QueueOwned
  <2> QED
    BY <1>2, <2>1, FrameFile DEF Reply, Places, QueueOwned
<1>4. tql' # tql
  <2>1. Len(Tail(tql[n])) # Len(tql[n])
    BY <1>1, <1>2, HeadTailProperties
  <2> QED
    BY <1>1, <2>1 DEF Places, TypeOK, TxTypes
<1>5. \A g \in Files : /\ Owner[g] # n => state'[g] = state[g]
                       /\ state'[g] # state[g] => g = Message(n).file
  BY <1>1, <1>3 DEF Mark, Places, TypeOK, TxTypes
<1>6. /\ TxState'[n] = "TxTryR" => Owner[cursend'[n]] = n
      /\ \A p \in Nodes \ {n} : TxState'[p] = TxState[p] /\ cursend'[p] = cursend[p]
  BY DEF ProcessGet, ProcessGot, ProcessSkip, StopSending, Places, TypeOK, TxTypes,
     NodeOwned
<1>7. \A p \in Nodes \ {n} : FtState'[p] = FtState[p]
  BY <1>1 DEF Goto, Places, TypeOK, ProcessTypes
<1>8. \A g \in Files : /\ ~ Has(<<>>, Reply, g) /\ Once(<<>>, Reply, g)
                       /\ ~ Has(<<>>, {"FILE"}, g) /\ Once(<<>>, {"FILE"}, g)
  BY HasNone
<1>9. Owned(<<>>, Peer[n])
  BY OwnedNone
<1> QED
  BY <1>1, <1>4, <1>5, <1>6, <1>7, <1>8, <1>9 DEF TransmitShape, Message

\* The end of a batch.
LEMMA LastAckHasShape ==
  ASSUME Places, NEW n \in Nodes,
         EndSession(n) \/ TransmitNewBatch(n) \/ ClearSentList(n) \/ WaitForRemote(n)
  PROVE  TransmitShape(n, <<>>)
<1>1. /\ FtState[n] \in {"Switch", "Transmit", "Messages"}
      /\ UNCHANGED <<chan, rname, tql, cursend>> /\ Goto(n, "Switch")
      /\ TxState[n] = "TxWLA"
  BY DEF EndSession, TransmitNewBatch, ClearSentList, WaitForRemote, WaitLastAck,
     Transmits
<1>2. \A g \in Files : \/ state'[g] = state[g]
                       \/ /\ Owner[g] = n
                          /\ state[g] \in {"NotListed", "Got", "Skipped"}
  <2>1. CASE WaitForRemote(n)
    BY <2>1 DEF WaitForRemote
  <2>2. CASE ~ WaitForRemote(n)
    <3>1. Pending(n) = {} /\ ClearFilelist(n)
      BY <2>2 DEF EndSession, TransmitNewBatch, ClearSentList, NewBatch
    <3> QED
      BY <3>1, Cleared DEF Places
  <2> QED
    BY <2>1, <2>2
<1>3. /\ RxState'[n] = "RxReceD" => RxState[n] = "RxReceD"
      /\ TxState'[n] # "TxTryR"
      /\ \A p \in Nodes \ {n} : /\ TxState'[p] = TxState[p]
                                /\ RxState'[p] = RxState[p]
                                /\ FtState'[p] = FtState[p]
  BY SMTT(30), <1>1 DEF EndSession, TransmitNewBatch, ClearSentList, WaitForRemote, NewBatch, Goto,
     Places, TypeOK, ProcessTypes, TxTypes, RxTypes
<1>4. \A g \in Files : /\ ~ Has(<<>>, Reply, g) /\ Once(<<>>, Reply, g)
                       /\ ~ Has(<<>>, {"FILE"}, g) /\ Once(<<>>, {"FILE"}, g)
  BY HasNone
<1>5. Owned(<<>>, Peer[n])
  BY OwnedNone
<1> QED
  BY <1>1, <1>2, <1>3, <1>4, <1>5 DEF TransmitShape, RestStates

LEMMA TransmitHasShape ==
  ASSUME Places, NEW n \in Nodes, Transmit(n)
  PROVE  \E out \in Seq(Frame) : TransmitShape(n, out)
<1> USE DEF Places
<1>1. Command("NUL") \in Frame /\ Command("NUL").cmd = "NUL"
  BY CommandTyped DEF Command
<1>2. ASSUME NEW f \in Own(n), TransmitFile(n, f)
      PROVE  TransmitShape(n, Append(Traffic(n), About("FILE", f, offset[f])))
  <2> DEFINE x == About("FILE", f, offset[f])
  <2>1. f \in Files /\ Owner[f] = n
    BY DEF Own
  <2>2. x \in Frame /\ x.cmd = "FILE" /\ x.file = f
    BY <2>1, AboutTyped DEF About, TypeOK, TxTypes
  <2>3. Offers(Append(Traffic(n), x), n, x)
    BY <2>1, <2>2, Plain DEF Reply
  <2>4. /\ GetNextFile(n) /\ SendCommand(n, Append(Traffic(n), x)) /\ Goto(n, "Transmit")
        /\ Filelist(n)[f] = "NoState"
    BY <1>2 DEF TransmitFile, Sendable
  <2>5. /\ state'[f] = "Sending"
        /\ \A g \in Files \ {f} : state'[g] = Filelist(n)[g]
    BY <1>2, <2>1 DEF TransmitFile, Filelist
  <2>6. /\ cursend'[n] = f
        /\ \A p \in Nodes \ {n} : TxState'[p] = TxState[p] /\ cursend'[p] = cursend[p]
    BY <1>2 DEF TransmitFile, TypeOK, TxTypes
  <2> HIDE DEF x
  <2>7. TransmitShape(n, Append(Traffic(n), x))
    BY <2>1, <2>2, <2>3, <2>4, <2>5, <2>6, NextFileHasShape DEF Reply, RestStates
  <2> QED
    BY <2>7 DEF x
<1>3. ASSUME NEW f \in Own(n), SkipFile(n, f)
      PROVE  TransmitShape(n, Traffic(n))
  <2>1. Offers(Traffic(n), n, Command("NUL"))
    BY <1>1, Plain DEF Reply
  <2>2. \A g \in Files : /\ Owner[g] # n => state'[g] = Filelist(n)[g]
                         /\ state'[g] \in RestStates => Filelist(n)[g] \in RestStates
    BY <1>3 DEF SkipFile, Sendable, Own, Filelist, RestStates
  <2>3. /\ TxState'[n] # "TxTryR"
        /\ \A p \in Nodes \ {n} : TxState'[p] = TxState[p] /\ cursend'[p] = cursend[p]
    BY <1>3 DEF SkipFile, GetNextFile, Transmits
  <2>4. GetNextFile(n) /\ SendCommand(n, Traffic(n)) /\ Goto(n, "Switch")
    BY <1>3 DEF SkipFile
  <2> QED
    BY <1>1, <2>1, <2>2, <2>3, <2>4, NextFileHasShape DEF Reply
<1>4. ASSUME TransmitEOB(n)
      PROVE  /\ TransmitShape(n, Append(Traffic(n), Command("EOB")))
             /\ Append(Traffic(n), Command("EOB")) \in Seq(Frame)
  <2>1. Command("EOB") \in Frame /\ Command("EOB").cmd = "EOB"
    BY CommandTyped DEF Command
  <2>2. Offers(Append(Traffic(n), Command("EOB")), n, Command("EOB"))
    BY <2>1, Plain DEF Reply
  <2>3. /\ TxState'[n] # "TxTryR"
        /\ \A p \in Nodes \ {n} : TxState'[p] = TxState[p] /\ cursend'[p] = cursend[p]
    BY <1>4 DEF TransmitEOB, TypeOK, TxTypes
  <2>4. /\ GetNextFile(n) /\ SendCommand(n, Append(Traffic(n), Command("EOB")))
        /\ Goto(n, "Transmit") /\ state' = Filelist(n)
    BY <1>4 DEF TransmitEOB
  <2> QED
    BY <2>1, <2>2, <2>3, <2>4, NextFileHasShape DEF Reply, Offers
<1>5. \A f \in Own(n) : Append(Traffic(n), About("FILE", f, offset[f])) \in Seq(Frame)
  <2> SUFFICES ASSUME NEW f \in Own(n)
               PROVE  Append(Traffic(n), About("FILE", f, offset[f])) \in Seq(Frame)
    OBVIOUS
  <2>1. /\ About("FILE", f, offset[f]) \in Frame
        /\ About("FILE", f, offset[f]).cmd = "FILE"
        /\ About("FILE", f, offset[f]).file = f /\ Owner[f] = n
    BY AboutTyped DEF About, Own, TypeOK, TxTypes
  <2>2. Offers(Append(Traffic(n), About("FILE", f, offset[f])), n,
               About("FILE", f, offset[f]))
    BY <2>1, Plain DEF Reply
  <2> QED
    BY <2>2 DEF Offers
<1>6. Traffic(n) \in Seq(Frame)
  BY <1>1, Plain DEF Reply, Offers
<1> QED
  BY <1>2, <1>3, <1>4, <1>5, <1>6, ReadHasShape, ProcessHasShape, LastAckHasShape,
     NoFrames DEF Transmit

\* The transmitter keeps every file in one place.
LEMMA TransmitPlaces ==
  ASSUME Places, NEW n \in Nodes, Transmit(n)
  PROVE  Places'
<1>1. PICK out \in Seq(Frame) : TransmitShape(n, out)
  BY TransmitHasShape
<1>2. TypeOK /\ TypeOK'
  BY TransmitTyped DEF Places
<1>3. /\ Peer[n] \in Nodes /\ Peer[n] # n /\ Peer[Peer[n]] = n
      /\ chan'[Peer[n]] \in {chan[Peer[n]], chan[Peer[n]] \o out}
      /\ \A p \in Nodes \ {Peer[n]} : chan'[p] = chan[p]
  BY <1>1, <1>2 DEF TransmitShape, TypeOK, LineTypes
<1>4. \/ tql' = tql
      \/ /\ tql[n] # <<>> /\ tql'[n] = Tail(tql[n])
         /\ \A p \in Nodes \ {n} : tql'[p] = tql[p]
  BY <1>1, <1>2 DEF TransmitShape, TypeOK, TxTypes
<1>5. LineOwned'
  <2>1. Owned(chan[Peer[n]], Peer[n]) /\ Owned(out, Peer[n])
    BY <1>1, <1>3 DEF TransmitShape, Places, LineOwned
  <2>2. Owned(chan[Peer[n]] \o out, Peer[n])
    BY <1>2, <1>3, <2>1, OwnedConcat DEF TypeOK, LineTypes
  <2>3. Owned(chan'[Peer[n]], Peer[n])
    BY <1>3, <2>1, <2>2
  <2> QED
    BY <1>3, <2>3 DEF Places, LineOwned
<1>6. QueueOwned'
  <2>1. CASE tql' = tql
    BY <2>1 DEF Places, QueueOwned
  <2>2. CASE /\ tql[n] # <<>> /\ tql'[n] = Tail(tql[n])
             /\ \A p \in Nodes \ {n} : tql'[p] = tql[p]
    <3>1. \A i \in DOMAIN Tail(tql[n]) : /\ i + 1 \in DOMAIN tql[n]
                                         /\ Tail(tql[n])[i] = tql[n][i + 1]
      BY <1>2, <2>2, HeadTailProperties DEF TypeOK, TxTypes
    <3>2. \A i \in DOMAIN tql'[n] : tql'[n][i].cmd \in Reply /\ Owner[tql'[n][i].file] = n
      BY <2>2, <3>1 DEF Places, QueueOwned
    <3>3. \A p \in Nodes \ {n} : \A i \in DOMAIN tql'[p] :
            tql'[p][i].cmd \in Reply /\ Owner[tql'[p][i].file] = p
      BY <2>2 DEF Places, QueueOwned
    <3> QED
      BY <3>2, <3>3 DEF QueueOwned
  <2> QED
    BY <1>4, <2>1, <2>2
<1>7. NodeOwned'
  BY <1>1 DEF TransmitShape, Places, NodeOwned
<1>8. DroppedEmpty' /\ ListKept'
  BY <1>2, DroppedStep, KeptStep DEF Places, Next
<1>9. ASSUME NEW f \in Files PROVE OnePlace(f)'
  <2>1. /\ Sender(f) \in Nodes /\ Receiver(f) = Peer[Sender(f)] /\ Receiver(f) \in Nodes
        /\ Sender(f) = Peer[Receiver(f)] /\ Sender(f) # Receiver(f)
    BY DEF Sender, Receiver
  <2>2. /\ FtState[n] \notin {"DeinitTransfer", "Exit"}
        /\ ~ Has(out, Reply, f) /\ Once(out, Reply, f) /\ Once(out, {"FILE"}, f)
    BY <1>1 DEF TransmitShape
  <2>3. CASE Sender(f) = n
    <3>1. RxState'[Peer[n]] = RxState[Peer[n]] /\ rname'[Peer[n]] = rname[Peer[n]]
      BY <1>1, <1>3 DEF TransmitShape
    <3>2. Has(out, {"FILE"}, f) => AtRest(f) /\ ~ AtRest(f)'
      BY <1>1, <2>2, <2>3 DEF TransmitShape, AtRest, RestStates
    <3>3. AtRest(f)' => \/ AtRest(f)
                        \/ tql[n] # <<>> /\ tql' # tql /\ Head(tql[n]).file = f
      BY <1>1, <2>2, <2>3 DEF TransmitShape, AtRest
    <3>4. \/ tql'[n] = tql[n] /\ (AtRest(f)' => AtRest(f))
          \/ /\ tql[n] # <<>> /\ tql'[n] = Tail(tql[n])
             /\ AtRest(f)' => AtRest(f) \/ Head(tql[n]).file = f
      BY <1>4, <3>3
    <3> QED
      BY <1>3, <2>2, <2>3, <3>1, <3>2, <3>4, ByOwner
  <2>4. CASE Sender(f) # n
    <3>1. AtRest(f)' => AtRest(f)
      BY <1>1, <2>1, <2>4 DEF TransmitShape, AtRest, Sender
    <3>2. InReceipt(f)' => InReceipt(f)
      BY <1>1, <2>1 DEF TransmitShape, InReceipt
    <3>3. tql'[Sender(f)] = tql[Sender(f)]
      BY <1>4, <2>1, <2>4
    <3>4. Receiver(f) # Peer[n]
      BY <2>1, <2>4
    <3>5. /\ chan'[Receiver(f)] = chan[Receiver(f)]
          /\ chan'[Sender(f)] \in {chan[Sender(f)], chan[Sender(f)] \o out}
      BY <1>3, <2>1, <3>4
    <3> QED
      BY <2>2, <3>1, <3>2, <3>3, <3>5, Bystander
  <2> QED
    BY <2>3, <2>4
<1> QED
  BY <1>2, <1>5, <1>6, <1>7, <1>8, <1>9 DEF Places
------------------------------------------------------------------------------
\* The other steps lose frames, at most.
LEMMA QuietPlaces ==
  ASSUME Places, [Next]_vars,
         \A p \in Nodes : chan'[p] = chan[p] \/ chan'[p] = <<>>,
         UNCHANGED <<tql, RxState, rname, TxState, cursend>>,
         \A f \in Files : AtRest(f)' => AtRest(f)
  PROVE  Places'
<1>1. TypeOK' /\ DroppedEmpty' /\ ListKept'
  BY NextTyped, DroppedStep, KeptStep DEF Places
<1>2. LineOwned'
  BY OwnedNone DEF Places, LineOwned
<1>3. QueueOwned' /\ NodeOwned'
  BY DEF Places, QueueOwned, NodeOwned
<1>4. ASSUME NEW f \in Files PROVE OnePlace(f)'
  <2>1. Sender(f) \in Nodes /\ Receiver(f) \in Nodes
    BY DEF Sender, Receiver
  <2>2. InReceipt(f)' => InReceipt(f)
    BY DEF InReceipt
  <2> QED
    BY <2>1, <2>2, NoFrames, Bystander
<1> QED
  BY <1>1, <1>2, <1>3, <1>4 DEF Places

LEMMA QuietSteps ==
  ASSUME Places, LoseLine \/ UNCHANGED vars \/ \E n \in Nodes : End(n) \/ Kill(n)
  PROVE  Places'
<1>1. CASE LoseLine
  <2>1. /\ \A p \in Nodes : chan'[p] = chan[p] \/ chan'[p] = <<>>
        /\ UNCHANGED <<tql, RxState, rname, TxState, cursend, FtState, state>>
    BY <1>1 DEF LoseLine, txVars, rxVars
  <2>2. \A f \in Files : AtRest(f)' => AtRest(f)
    BY <2>1 DEF AtRest
  <2> QED
    BY <1>1, <2>1, <2>2, QuietPlaces DEF Next
<1>2. CASE UNCHANGED vars
  <2>1. UNCHANGED <<chan, tql, RxState, rname, TxState, cursend, FtState, state>>
    BY <1>2 DEF vars, lineVars, txVars, rxVars
  <2>2. \A f \in Files : AtRest(f)' => AtRest(f)
    BY <2>1 DEF AtRest
  <2> QED
    BY <1>2, <2>1, <2>2, QuietPlaces
<1>3. ASSUME NEW n \in Nodes, End(n) \/ Kill(n) PROVE Places'
  <2>1. UNCHANGED <<chan, tql, RxState, rname, TxState, cursend>>
    BY <1>3 DEF End, Hangup, Timeout, Deinit, Kill, Idle, lineVars, txVars, rxVars
  <2>2. /\ FtState'[n] \in {"DeinitTransfer", "Exit"}
        /\ \A p \in Nodes \ {n} : FtState'[p] = FtState[p]
    BY <1>3
    DEF End, Hangup, Timeout, Deinit, Kill, Failure, Goto, Places, TypeOK, ProcessTypes
  <2>3. \A f \in Files : Owner[f] # n => state'[f] = state[f]
    BY <1>3 DEF End, Hangup, Timeout, Deinit, Kill, ClearFilelist, txVars
  <2>4. \A f \in Files : AtRest(f)' => AtRest(f)
    BY <2>2, <2>3 DEF AtRest, Sender
  <2> QED
    BY <1>3, <2>1, <2>4, QuietPlaces DEF Next
<1> QED
  BY <1>1, <1>2, <1>3

\* A session starts with every file at rest.
LEMMA RedialPlaces ==
  ASSUME Places, Redial
  PROVE  Places'
<1>1. TypeOK' /\ DroppedEmpty' /\ ListKept'
  BY NextTyped, DroppedStep, KeptStep DEF Places, Next
<1>2. \A p \in Nodes : /\ chan'[p] = <<>> /\ tql'[p] = <<>>
                       /\ RxState'[p] = "RxWaitF" /\ TxState'[p] = "TxGNF"
  BY DEF Redial
<1>3. LineOwned' /\ QueueOwned' /\ NodeOwned'
  <2>1. DOMAIN <<>> = {}
    OBVIOUS
  <2> QED
    BY <1>2, <2>1, OwnedNone DEF LineOwned, QueueOwned, NodeOwned
<1>4. ASSUME NEW f \in Files PROVE OnePlace(f)'
  <2>1. Sender(f) \in Nodes /\ Receiver(f) \in Nodes
    BY DEF Sender, Receiver
  <2>2. ~ InReceipt(f)'
    BY <1>2, <2>1 DEF InReceipt, Receiver
  <2> QED
    BY <1>2, <2>1, <2>2, NoFrames, Bystander
<1> QED
  BY <1>1, <1>3, <1>4 DEF Places

LEMMA InitPlaces == Init => Places
<1> SUFFICES ASSUME Init PROVE Places
  OBVIOUS
<1>1. TypeOK
  BY InitTyped
<1>2. \A p \in Nodes : /\ chan[p] = <<>> /\ tql[p] = <<>>
                       /\ RxState[p] = "RxWaitF" /\ TxState[p] = "TxGNF"
  BY DEF Init
<1>3. LineOwned /\ QueueOwned /\ NodeOwned
  <2>1. DOMAIN <<>> = {}
    OBVIOUS
  <2> QED
    BY <1>2, <2>1, OwnedNone DEF LineOwned, QueueOwned, NodeOwned
<1>4. DroppedEmpty /\ ListKept
  BY <1>2 DEF Init, DroppedEmpty, ListKept
<1>5. ASSUME NEW f \in Files PROVE OnePlace(f)
  <2>1. Sender(f) \in Nodes /\ Receiver(f) \in Nodes
    BY DEF Sender, Receiver
  <2>2. /\ \A C : ~ Has(chan[Receiver(f)], C, f) /\ Once(chan[Receiver(f)], C, f)
        /\ \A C : ~ Has(chan[Sender(f)], C, f) /\ Once(chan[Sender(f)], C, f)
        /\ \A C : ~ Has(tql[Sender(f)], C, f) /\ Once(tql[Sender(f)], C, f)
    BY <1>2, <2>1, HasNone
  <2>3. ~ InReceipt(f)
    BY <1>2, <2>1 DEF InReceipt
  <2> QED
    BY <2>2, <2>3 DEF OnePlace, Offered, Answered, Noted
<1> QED
  BY <1>1, <1>3, <1>4, <1>5 DEF Places

LEMMA NextPlaces == Places /\ [Next]_vars => Places'
<1> SUFFICES ASSUME Places, [Next]_vars PROVE Places'
  OBVIOUS
<1> QED
  BY ReceivePlaces, TransmitPlaces, QuietSteps, RedialPlaces DEF Next

\* In every session, with whatever faults, each file is in one place at a
\* time: no answer is repeated, and no file is offered again before its answer
\* has been processed.
THEOREM OneAtATime == Spec => []Places
<1>1. Init => Places
  BY InitPlaces
<1>2. Places /\ [Next]_vars => Places'
  BY NextPlaces
<1> QED
  BY <1>1, <1>2, PTL DEF Spec

\* An answer is of a file that is on its owner's list.
LEMMA PlacesExpected == Places => RepliesExpected
<1> SUFFICES ASSUME Places,
                    NEW n \in Nodes, FtState[n] \notin {"DeinitTransfer", "Exit"},
                    NEW m \in Replies(chan[n]) \cup Replies(tql[n])
             PROVE  state[m.file] # "NotListed"
  BY DEF RepliesExpected
<1>1. chan[n] \in Seq(Frame) /\ tql[n] \in Seq(Frame)
  BY DEF Places, TypeOK, LineTypes, TxTypes
<1>2. CASE m \in Replies(chan[n])
  <2>1. PICK i \in DOMAIN chan[n] : m = chan[n][i] /\ m.cmd \in Reply
    BY <1>2 DEF Replies, Range, Reply
  <2>2. m \in Frame
    BY <1>1, <2>1
  <2>3. m.file \in Files /\ Sender(m.file) = n
    BY <2>1, <2>2, FrameFile DEF Places, LineOwned, Owned, Sender, Reply
  <2>4. Answered(m.file)
    BY <2>1, <2>3 DEF Answered, Has
  <2> QED
    BY <2>3, <2>4 DEF Places, OnePlace, AtRest, RestStates
<1>3. CASE m \in Replies(tql[n])
  <2>1. PICK i \in DOMAIN tql[n] : m = tql[n][i] /\ m.cmd \in Reply
    BY <1>3 DEF Replies, Range, Reply
  <2>2. m \in Frame
    BY <1>1, <2>1
  <2>3. m.file \in Files /\ Sender(m.file) = n
    BY <2>1, <2>2, FrameFile DEF Places, QueueOwned, Sender, Reply
  <2>4. Noted(m.file)
    BY <2>1, <2>3 DEF Noted, Has
  <2> QED
    BY <2>3, <2>4 DEF Places, OnePlace, AtRest, RestStates
<1> QED
  BY <1>2, <1>3

\* While a mailer is in its session, every M_GET, M_GOT and M_SKIP that is
\* under way to it, or waits to be processed, is about a file on its list:
\* binkp_clear_filelist() never drops a list that is still needed.
THEOREM AnswersFindTheirFile == Spec => []RepliesExpected
BY OneAtATime, PlacesExpected, PTL

--------------------------------------------------------------------------------
(***************************************************************************)
(* A file that has left the outbound is in none of the places, and its     *)
(* state on the list is final.                                             *)
(***************************************************************************)
Active(p) == FtState[p] \notin {"DeinitTransfer", "Exit"}

FinalStates == {"Got", "NotListed"}

Settled(f) ==
  f \notin outbound =>
    /\ ~ Offered(f) /\ ~ InReceipt(f) /\ ~ Answered(f) /\ ~ Noted(f)
    /\ state[f] \in FinalStates

\* The file whose blocks are sent is the one that is marked so.
CurrentSending ==
  \A p \in Nodes : Active(p) /\ TxState[p] = "TxTryR" => state[cursend[p]] = "Sending"

Gone ==
  /\ Places
  /\ CurrentSending
  /\ \A f \in Files : Settled(f)

LEMMA InitGone == Init => Gone
<1> SUFFICES ASSUME Init PROVE Gone
  OBVIOUS
<1>1. Places
  BY InitPlaces
<1>2. CurrentSending
  BY DEF Init, CurrentSending
<1>3. \A f \in Files : Settled(f)
  BY DEF Init, Settled
<1> QED
  BY <1>1, <1>2, <1>3 DEF Gone

\* An event of the receiver takes a file from one place to the next, and
\* leaves what is on the list.
LEMMA ReceiveGone ==
  ASSUME Gone, NEW n \in Nodes, Receive(n), outbound' = outbound
  PROVE  \A f \in Files : Settled(f)'
<1> SUFFICES ASSUME NEW f \in Files, f \notin outbound PROVE Settled(f)'
  BY DEF Settled
<1>1. PICK out \in Seq(Frame) : ReceiveShape(n, out)
  BY ReceiveHasShape DEF Gone, Places
<1>2. /\ ~ Offered(f) /\ ~ InReceipt(f) /\ ~ Answered(f) /\ ~ Noted(f)
      /\ state[f] \in FinalStates
  BY DEF Gone, Settled
<1>3. TypeOK /\ chan[n] # <<>> /\ chan[n] \in Seq(Frame) /\ chan[Peer[n]] \in Seq(Frame)
      /\ Peer[n] \in Nodes /\ Peer[n] # n
      /\ chan'[n] = Tail(chan[n]) /\ chan'[Peer[n]] = chan[Peer[n]] \o out
      /\ \A p \in Nodes \ {n, Peer[n]} : chan'[p] = chan[p]
  BY <1>1 DEF ReceiveShape, Gone, Places, TypeOK, LineTypes
<1>4. Sender(f) \in Nodes /\ Receiver(f) = Peer[Sender(f)] /\ Peer[Receiver(f)] = Sender(f)
      /\ Receiver(f) \in Nodes
  BY DEF Sender, Receiver
<1>5. Owned(chan[n], n)
  BY DEF Gone, Places, LineOwned
<1>6. Heard(n, f) => Offered(f) \/ InReceipt(f)
  <2>1. In(n).cmd = "FILE" /\ In(n).file = f => Receiver(f) = n
    BY SMTT(30), <1>3, <1>5, OwnedTail DEF In, Receiver
  <2>2. In(n).cmd = "FILE" /\ In(n).file = f => Has(chan[n], {"FILE"}, f)
    BY <1>3, HasTail DEF In
  <2>3. RxState[n] = "RxReceD" /\ rname[n] = f => Receiver(f) = n
    BY DEF Gone, Places, NodeOwned, Receiver
  <2> QED
    BY <2>1, <2>2, <2>3 DEF Heard, Offered, InReceipt
<1>7. ~ Heard(n, f) /\ ~ Has(out, Reply, f) /\ ~ Has(out, {"FILE"}, f)
  BY <1>1, <1>2, <1>6, HasOne, HasNone DEF ReceiveShape, Reply
<1>8. ASSUME NEW C, ~ Has(out, C, f), NEW p \in Nodes, Has(chan'[p], C, f)
      PROVE  Has(chan[p], C, f)
  <2>1. CASE p = n
    BY <1>3, <1>8, <2>1, HasTail
  <2>2. CASE p = Peer[n]
    <3>1. Has(chan[Peer[n]] \o out, C, f) => Has(chan[Peer[n]], C, f) \/ Has(out, C, f)
      BY <1>3, HasConcat
    <3> QED
      BY <1>3, <1>8, <2>2, <3>1
  <2>3. CASE p \notin {n, Peer[n]}
    BY <1>3, <1>8, <2>3
  <2> QED
    BY <2>1, <2>2, <2>3
<1>9. \A p \in Nodes : /\ Has(chan'[p], {"FILE"}, f) => Has(chan[p], {"FILE"}, f)
                       /\ Has(chan'[p], Reply, f) => Has(chan[p], Reply, f)
  BY <1>7, <1>8
<1>10. ~ Noted(f)'
  <2>1. CASE tql' = tql
    BY <1>2, <2>1 DEF Noted
  <2>2. CASE In(n).cmd \in Reply /\ tql' = [tql EXCEPT ![n] = Append(tql[n], In(n))]
    <3>1. tql[n] \in Seq(Frame) /\ In(n) \in Frame
      BY <1>3, QueueTyped DEF In, TypeOK, TxTypes
    <3>2. tql'[n] = tql[n] \o <<In(n)>> /\ \A p \in Nodes \ {n} : tql'[p] = tql[p]
      BY <1>3, <2>2, <3>1, AppendConcat DEF TypeOK, TxTypes
    <3>3. CASE Sender(f) = n
      <4>1. In(n).file # f
        <5>1. In(n).cmd \in Reply /\ In(n).file = f => Has(chan[n], Reply, f)
          BY <1>3, HasTail DEF In
        <5> QED
          BY <1>2, <2>2, <3>3, <5>1 DEF Answered
      <4>2. ~ Has(<<In(n)>>, Reply, f) /\ <<In(n)>> \in Seq(Frame)
        BY <3>1, <4>1, HasOne
      <4>3. ~ Has(tql[n] \o <<In(n)>>, Reply, f)
        BY <1>2, <3>1, <3>3, <4>2, HasConcat DEF Noted
      <4> QED
        BY <3>2, <3>3, <4>3 DEF Noted, Sender
    <3>4. CASE Sender(f) # n
      BY <1>2, <1>4, <3>2, <3>4 DEF Noted, Sender
    <3> QED
      BY <3>3, <3>4
  <2> QED
    BY <1>1, <2>1, <2>2 DEF ReceiveShape
<1>11. ~ InReceipt(f)'
  BY <1>1, <1>2, <1>4, <1>7 DEF ReceiveShape, InReceipt, Receiver
<1>12. ~ Offered(f)' /\ ~ Answered(f)'
  BY <1>2, <1>4, <1>9 DEF Offered, Answered, Sender, Receiver
<1>13. state'[f] \in FinalStates
  BY <1>1, <1>2 DEF ReceiveShape, FinalStates
<1> QED
  BY <1>10, <1>11, <1>12, <1>13 DEF Settled

\* The head of the queue is an answer about a file of the owner.
LEMMA QueueHead ==
  ASSUME Places, NEW n \in Nodes, tql[n] # <<>>
  PROVE  /\ Message(n) \in Frame /\ Message(n).cmd \in Reply
         /\ Message(n).file \in Files /\ Owner[Message(n).file] = n
         /\ Message(n).num \in Nat
         /\ Noted(Message(n).file)
<1>1. tql[n] \in Seq(Frame) /\ 1 \in DOMAIN tql[n] /\ Message(n) = tql[n][1]
  BY HeadTailProperties DEF Message, Places, TypeOK, TxTypes
<1>2. Message(n) \in Frame /\ Message(n).cmd \in Reply /\ Owner[Message(n).file] = n
  BY <1>1, QueueTyped DEF Message, Places, QueueOwned
<1>3. Message(n).file \in Files /\ Message(n).num \in Nat
  BY <1>2, FrameFile DEF Reply
<1>4. Noted(Message(n).file)
  BY <1>1, <1>2 DEF Noted, Has, Sender
<1> QED
  BY <1>2, <1>3, <1>4

\* The transmitter does not touch the state of a file that has gone.
LEMMA FinalState ==
  ASSUME Gone, NEW n \in Nodes, Transmit(n), NEW f \in Files, f \notin outbound
  PROVE  state'[f] \in FinalStates
<1>1. /\ ~ Noted(f) /\ state[f] \in FinalStates
      /\ Filelist(n)[f] \in FinalStates /\ f \notin Sendable(n)
  BY DEF Gone, Settled, Filelist, FinalStates, Sendable
<1>2. state \in [Files -> FileState]
  BY DEF Gone, Places, TypeOK, TxTypes
<1>3. ASSUME NEW g \in Own(n), TransmitFile(n, g) \/ SkipFile(n, g)
      PROVE  state'[f] \in FinalStates
  BY <1>1, <1>3 DEF TransmitFile, SkipFile, Filelist
<1>4. CASE TransmitEOB(n)
  BY <1>1, <1>4 DEF TransmitEOB
<1>5. CASE TransmitBlock(n) \/ WaitForRemote(n)
  BY <1>1, <1>5 DEF TransmitBlock, WaitForRemote
<1>6. CASE TransmitEndOfFile(n)
  <2>1. state[cursend[n]] = "Sending"
    BY <1>6 DEF TransmitEndOfFile, ReadBlock, Transmits, Gone, CurrentSending, Active
  <2>2. state' = [state EXCEPT ![cursend[n]] = "IsSent"] /\ cursend[n] # f
    BY <1>1, <1>6, <2>1 DEF TransmitEndOfFile, FinalStates
  <2> QED
    BY <1>1, <1>2, <2>2
<1>7. CASE ProcessGet(n) \/ ProcessGot(n) \/ ProcessSkip(n)
  <2>1. tql[n] # <<>> /\ \E s : Mark(n, s)
    BY <1>7 DEF ProcessGet, ProcessGot, ProcessSkip, ProcessQueue
  <2>2. Message(n).file # f
    BY <1>1, <2>1, QueueHead DEF Gone
  <2> QED
    BY <1>1, <1>2, <2>1, <2>2 DEF Mark
<1>8. CASE EndSession(n) \/ TransmitNewBatch(n) \/ ClearSentList(n)
  BY <1>1, <1>8
  DEF EndSession, TransmitNewBatch, ClearSentList, NewBatch, ClearFilelist, FinalStates
<1> QED
  BY <1>3, <1>4, <1>5, <1>6, <1>7, <1>8 DEF Transmit

LEMMA TransmitGone ==
  ASSUME Gone, NEW n \in Nodes, Transmit(n)
  PROVE  \A f \in Files : Settled(f)'
<1> SUFFICES ASSUME NEW f \in Files, f \notin outbound' PROVE Settled(f)'
  BY DEF Settled
<1>1. Places /\ TypeOK /\ OnePlace(f)
  BY DEF Gone, Places
<1>2. Sender(f) \in Nodes /\ Receiver(f) = Peer[Sender(f)] /\ Receiver(f) \in Nodes
      /\ Peer[Receiver(f)] = Sender(f)
  BY DEF Sender, Receiver
<1>3. CASE f \in outbound
  <2>1. ProcessGot(n) /\ Message(n).file = f
    BY <1>3 DEF Transmit, TransmitFile, SkipFile, TransmitEOB, GetNextFile, TransmitBlock,
       TransmitEndOfFile, ReadBlock, ProcessGet, ProcessGot, ProcessSkip, EndSession,
       TransmitNewBatch, ClearSentList, WaitForRemote, WaitLastAck
  <2>2. /\ tql[n] # <<>> /\ tql' = [tql EXCEPT ![n] = Tail(tql[n])] /\ OnList(n)
        /\ state' = [state EXCEPT ![f] = "Got"]
        /\ UNCHANGED <<chan, RxState, rname>>
    BY <1>3, <2>1 DEF ProcessGot, ProcessQueue, Mark, lineVars, rxVars
  <2>3. Noted(f) /\ Sender(f) = n /\ Message(n).cmd \in Reply
    BY <1>1, <2>1, <2>2, QueueHead DEF Sender
  <2>4. tql'[n] = Tail(tql[n]) /\ tql[n] \in Seq(Frame) /\ Once(tql[n], Reply, f)
    BY <1>1, <2>2, <2>3 DEF TypeOK, TxTypes, OnePlace
  <2>5. ~ Noted(f)'
    BY <2>1, <2>2, <2>3, <2>4, HasTail DEF Message, Noted, Sender
  <2>6. ~ Offered(f)' /\ ~ InReceipt(f)' /\ ~ Answered(f)'
    BY <1>1, <2>2, <2>3 DEF OnePlace, Offered, InReceipt, Answered
  <2>7. state'[f] = "Got"
    BY <1>1, <2>2 DEF TypeOK, TxTypes
  <2> QED
    BY <2>5, <2>6, <2>7 DEF Settled, FinalStates
<1>4. CASE f \notin outbound
  <2>1. PICK out \in Seq(Frame) : TransmitShape(n, out)
    BY <1>1, TransmitHasShape
  <2>2. state'[f] \in FinalStates
    BY <1>4, FinalState
  <2>3. ~ Offered(f) /\ ~ InReceipt(f) /\ ~ Answered(f) /\ ~ Noted(f)
    BY <1>4 DEF Gone, Settled
  <2>4. ~ Has(out, {"FILE"}, f) /\ ~ Has(out, Reply, f)
    BY <2>1, <2>2 DEF TransmitShape, FinalStates
  <2>5. \A p \in Nodes : /\ chan[p] \in Seq(Frame)
                         /\ chan'[p] = chan[p] \/ chan'[p] = chan[p] \o out
    <3>1. \/ chan' = chan
          \/ chan' = [chan EXCEPT ![Peer[n]] = chan[Peer[n]] \o out]
      BY <2>1 DEF TransmitShape
    <3>2. chan \in [Nodes -> Seq(Frame)] /\ Peer[n] \in Nodes
      BY <1>1 DEF TypeOK, LineTypes
    <3> QED
      BY <3>1, <3>2
  <2>6. ASSUME NEW C, ~ Has(out, C, f), NEW p \in Nodes, Has(chan'[p], C, f)
        PROVE  Has(chan[p], C, f)
    <3>1. Has(chan[p] \o out, C, f) => Has(chan[p], C, f) \/ Has(out, C, f)
      BY <2>5, HasConcat
    <3> QED
      BY <2>5, <2>6, <3>1
  <2>7. ~ Offered(f)' /\ ~ Answered(f)'
    BY <1>2, <2>3, <2>4, <2>6 DEF Offered, Answered, Sender, Receiver
  <2>8. ~ Noted(f)'
    <3>1. \A p \in Nodes : \/ tql'[p] = tql[p]
                           \/ tql[p] # <<>> /\ tql'[p] = Tail(tql[p])
      BY <1>1, <2>1 DEF TransmitShape, TypeOK, TxTypes
    <3>2. tql[Sender(f)] \in Seq(Frame)
      BY <1>1, <1>2 DEF TypeOK, TxTypes
    <3> QED
      BY <1>2, <2>3, <3>1, <3>2, HasTail DEF Noted, Sender
  <2>9. ~ InReceipt(f)'
    BY <1>2, <2>1, <2>3 DEF TransmitShape, InReceipt, Receiver
  <2> QED
    BY <2>2, <2>7, <2>8, <2>9 DEF Settled
<1> QED
  BY <1>3, <1>4

LEMMA SendingStep ==
  ASSUME Gone, [Next]_vars
  PROVE  CurrentSending'
<1> USE DEF CurrentSending, Active
<1>1. TypeOK
  BY DEF Gone, Places
<1> USE DEF TypeOK, ProcessTypes, TxTypes
\* Another file is marked, if any, and nobody begins to send.
<1>2. ASSUME NEW n \in Nodes,
             \A p \in Nodes \ {n} : /\ TxState'[p] = TxState[p] /\ FtState'[p] = FtState[p]
                                    /\ cursend'[p] = cursend[p],
             \A f \in Files : Owner[f] # n => state'[f] = state[f],
             \/ TxState'[n] # "TxTryR" \/ ~ Active(n)'
             \/ state'[cursend'[n]] = "Sending"
      PROVE  CurrentSending'
  <2> SUFFICES ASSUME NEW p \in Nodes \ {n}, Active(p), TxState[p] = "TxTryR"
               PROVE  state'[cursend[p]] = "Sending"
    BY <1>2
  <2>1. cursend[p] \in Files /\ Owner[cursend[p]] # n
    BY <1>1 DEF Gone, Places, NodeOwned
  <2>2. state[cursend[p]] = "Sending"
    BY DEF Gone
  <2> QED
    BY <1>2, <2>1, <2>2
<1>3. ASSUME UNCHANGED <<TxState, cursend, state>>,
             \A p \in Nodes : Active(p)' => Active(p)
      PROVE  CurrentSending'
  BY <1>3 DEF Gone
<1>4. ASSUME NEW n \in Nodes, Receive(n) PROVE CurrentSending'
  <2>1. PICK out \in Seq(Frame) : ReceiveShape(n, out)
    BY <1>1, <1>4, ReceiveHasShape
  <2>2. \A f \in Files : state[f] = "Sending" => state'[f] = "Sending"
    BY <2>1 DEF ReceiveShape
  <2>3. \A p \in Nodes : TxState'[p] = "TxTryR" => TxState[p] = "TxTryR"
    BY <2>1 DEF ReceiveShape
  <2>4. \A p \in Nodes : Active(p)' => Active(p)
    BY <2>1 DEF ReceiveShape
  <2>5. \A p \in Nodes : TxState[p] = "TxTryR" => cursend[p] \in Files
    BY <1>1
  <2>6. cursend' = cursend
    BY <2>1 DEF ReceiveShape
  <2> QED
    BY <2>2, <2>3, <2>4, <2>5, <2>6 DEF Gone
<1>5. ASSUME NEW n \in Nodes, Transmit(n) PROVE CurrentSending'
  <2>1. PICK out \in Seq(Frame) : TransmitShape(n, out)
    BY <1>5, TransmitHasShape DEF Gone
  <2>2. \/ TxState'[n] # "TxTryR" \/ ~ Active(n)'
        \/ state'[cursend'[n]] = "Sending"
    <3>1. ASSUME NEW f \in Own(n), TransmitFile(n, f)
          PROVE  state'[cursend'[n]] = "Sending"
      <4>1. f \in Files /\ Filelist(n) \in [Files -> FileState]
        BY <1>1, FilelistTyped DEF Own, Gone, Places
      <4> QED
        BY <1>1, <3>1, <4>1 DEF TransmitFile
    <3>2. ASSUME NEW f \in Own(n), SkipFile(n, f)
          PROVE  TxState'[n] # "TxTryR"
      BY <3>2 DEF SkipFile, GetNextFile, Transmits
    <3>3. CASE TransmitEOB(n)
      BY <1>1, <3>3 DEF TransmitEOB
    <3>4. CASE TransmitBlock(n)
      BY <3>4 DEF TransmitBlock, ReadBlock, Transmits, Gone
    <3>5. CASE TransmitEndOfFile(n)
      BY <1>1, <3>5 DEF TransmitEndOfFile
    <3>6. CASE ProcessGet(n) \/ ProcessGot(n) \/ ProcessSkip(n)
      <4>1. FtState[n] \in {"Switch", "Transmit", "Messages"} /\ tql[n] # <<>>
            /\ \E s : Mark(n, s)
        BY <3>6 DEF ProcessGet, ProcessGot, ProcessSkip, ProcessQueue
      <4>2. Message(n).file \in Files
        BY <4>1, QueueHead DEF Gone
      <4>3. SUFFICES ASSUME TxState'[n] = "TxTryR"
                     PROVE  state'[cursend'[n]] = "Sending"
        OBVIOUS
      <4>4. /\ TxState[n] = "TxTryR" /\ cursend' = cursend
            /\ state[Message(n).file] # "Sending" \/ state' = state
        BY SMTT(30), <1>1, <3>6, <4>2, <4>3 DEF ProcessGet, ProcessGot, ProcessSkip, StopSending, OnList, Mark
      <4>5. state[cursend[n]] = "Sending" /\ cursend[n] \in Files
        BY <1>1, <4>1, <4>4 DEF Gone
      <4> QED
        BY <4>1, <4>2, <4>4, <4>5 DEF Mark
    <3>7. CASE EndSession(n) \/ TransmitNewBatch(n) \/ ClearSentList(n) \/ WaitForRemote(n)
      BY <1>1, <3>7 DEF EndSession, TransmitNewBatch, ClearSentList, WaitForRemote, WaitLastAck,
         Transmits, NewBatch
    <3> QED
      BY <1>5, <3>1, <3>2, <3>3, <3>4, <3>5, <3>6, <3>7 DEF Transmit
  <2> QED
    BY <1>2, <2>1, <2>2 DEF TransmitShape
<1>6. ASSUME NEW n \in Nodes, Hangup(n) \/ Timeout(n) \/ Kill(n) PROVE CurrentSending'
  BY SMTT(30), <1>1, <1>3, <1>6 DEF Hangup, Timeout, Kill, Failure, Goto, Idle, txVars
<1>7. ASSUME NEW n \in Nodes, Deinit(n) PROVE CurrentSending'
  BY <1>1, <1>2, <1>7 DEF Deinit, Goto, ClearFilelist, Idle
<1>8. CASE LoseLine
  BY <1>3, <1>8 DEF LoseLine, txVars
<1>9. CASE Redial
  BY <1>9 DEF Redial
<1>10. CASE UNCHANGED vars
  BY <1>3, <1>10 DEF vars, txVars
<1> QED
  BY <1>4, <1>5, <1>6, <1>7, <1>8, <1>9, <1>10 DEF Next, End

LEMMA QuietGone ==
  ASSUME Gone, LoseLine \/ Redial \/ UNCHANGED vars \/ \E n \in Nodes : End(n) \/ Kill(n)
  PROVE  \A f \in Files : Settled(f)'
<1> SUFFICES ASSUME NEW f \in Files, f \notin outbound' PROVE Settled(f)'
  BY DEF Settled
<1>1. outbound' = outbound
  BY DEF LoseLine, Redial, vars, txVars, End, Hangup, Timeout, Deinit, Kill, Idle
<1>2. /\ ~ Offered(f) /\ ~ InReceipt(f) /\ ~ Answered(f) /\ ~ Noted(f)
      /\ state[f] \in FinalStates
  BY <1>1 DEF Gone, Settled
<1>3. Sender(f) \in Nodes /\ Receiver(f) \in Nodes
  BY DEF Sender, Receiver
<1>4. \A p \in Nodes : /\ chan'[p] = chan[p] \/ chan'[p] = <<>>
                       /\ tql'[p] = tql[p] \/ tql'[p] = <<>>
                       /\ RxState'[p] = "RxReceD" => RxState[p] = "RxReceD" /\ rname'[p] = rname[p]
  BY DEF LoseLine, Redial, vars, lineVars, txVars, rxVars, End, Hangup, Timeout, Deinit,
     Kill, Idle
<1>5. state'[f] \in FinalStates
  BY <1>2 DEF LoseLine, Redial, vars, txVars, End, Hangup, Timeout, Deinit, Kill,
     ClearFilelist, FinalStates
<1>6. ~ Offered(f)' /\ ~ Answered(f)' /\ ~ Noted(f)'
  BY <1>2, <1>3, <1>4, HasNone DEF Offered, Answered, Noted, Sender, Receiver
<1>7. ~ InReceipt(f)'
  BY <1>2, <1>3, <1>4 DEF InReceipt, Receiver
<1> QED
  BY <1>5, <1>6, <1>7 DEF Settled

LEMMA NextGone == Gone /\ [Next]_vars => Gone'
<1> SUFFICES ASSUME Gone, [Next]_vars PROVE Gone'
  OBVIOUS
<1>1. Places' /\ CurrentSending'
  BY NextPlaces, SendingStep DEF Gone
<1>2. \A f \in Files : Settled(f)'
  <2>1. ASSUME NEW n \in Nodes, Receive(n) PROVE outbound' = outbound
    BY <2>1
    DEF Receive, ReceiveIgnored, ReceiveMessage, ReceiveError, ReceiveEOB,
        ReceiveKnownFile, ReceivePartial, ReceiveRefused, ReceiveFile, ReceiveLowDisk,
        ReceiveOnStaleStream, ReceiveBlock, ReceiveLastBlock, ReceiveCrcError,
        ReceiveCrcAbort, KilledInClose, AcceptFile, RejectFile, CloseFile, WriteBlock,
        txVars
  <2> QED
    BY <2>1, ReceiveGone, TransmitGone, QuietGone DEF Next
<1> QED
  BY <1>1, <1>2 DEF Gone

LEMMA GoneNoResend == Gone => NoResend
<1> SUFFICES ASSUME Gone, NEW n \in Nodes, NEW i \in DOMAIN chan[n],
                    chan[n][i].cmd = "FILE"
             PROVE  chan[n][i].file \in outbound
  BY DEF NoResend
<1>1. chan[n] \in Seq(Frame)
  BY DEF Gone, Places, TypeOK, LineTypes
<1>2. chan[n][i] \in Frame
  BY <1>1
<1>3. chan[n][i].file \in Files /\ Owner[chan[n][i].file] = Peer[n]
  BY <1>2, FrameFile DEF Gone, Places, LineOwned, Owned
<1>4. Offered(chan[n][i].file)
  BY <1>3 DEF Offered, Has, Receiver
<1> QED
  BY <1>3, <1>4 DEF Gone, Settled

\* A file that the remote has acknowledged is never offered to it again, in no
\* later batch and in no later session, whatever was lost or went wrong.
THEOREM NeverResent == Spec => []NoResend
<1>1. Init => Gone
  BY InitGone
<1>2. Gone /\ [Next]_vars => Gone'
  BY NextGone
<1> QED
  BY <1>1, <1>2, GoneNoResend, PTL DEF Spec

--------------------------------------------------------------------------------
(***************************************************************************)
(* The frames under way continue a transfer: after block k of f, the       *)
(* frames of q lead to block m of g.  Data is always of the file offered   *)
(* last, and its blocks come in order.                                     *)
(***************************************************************************)
Moves == {"FILE", "DATA"}

\* fl[i] and nb[i] are the file and the block after i frames.
Explains(fl, nb, q) ==
  /\ fl \in [0..Len(q) -> Files \cup {NoFile}]
  /\ nb \in [0..Len(q) -> Nat]
  /\ \A i \in 1..Len(q) :
       /\ q[i].cmd \in Moves => fl[i] = q[i].file /\ nb[i] = q[i].num
       /\ q[i].cmd \notin Moves => fl[i] = fl[i - 1] /\ nb[i] = nb[i - 1]
       /\ q[i].cmd = "DATA" => q[i].file = fl[i - 1] /\ q[i].num = nb[i - 1] + 1

Flow(q, f, k, g, m) ==
  \E fl, nb : /\ Explains(fl, nb, q)
              /\ fl[0] = f /\ nb[0] = k
              /\ fl[Len(q)] = g /\ nb[Len(q)] = m

LEMMA FlowNone ==
  ASSUME NEW f \in Files \cup {NoFile}, NEW k \in Nat
  PROVE  Flow(<<>>, f, k, f, k)
<1> DEFINE fl == [i \in 0..0 |-> f]
           nb == [i \in 0..0 |-> k]
<1>1. Len(<<>>) = 0 /\ 1..0 = {}
  OBVIOUS
<1>2. Explains(fl, nb, <<>>) /\ fl[0] = f /\ nb[0] = k
  BY <1>1 DEF Explains
<1> HIDE DEF fl, nb
<1> QED
  BY <1>1, <1>2 DEF Flow

\* One frame is received.
LEMMA FlowTail ==
  ASSUME NEW q \in Seq(Frame), q # <<>>,
         NEW f, NEW k, NEW g, NEW m, Flow(q, f, k, g, m)
  PROVE  /\ Head(q).cmd = "DATA" => /\ Head(q).file = f /\ Head(q).num = k + 1
                                    /\ Flow(Tail(q), f, k + 1, g, m)
         /\ Head(q).cmd = "FILE" => Flow(Tail(q), Head(q).file, Head(q).num, g, m)
         /\ Head(q).cmd \notin Moves => Flow(Tail(q), f, k, g, m)
<1>1. PICK fl, nb : /\ Explains(fl, nb, q)
                    /\ fl[0] = f /\ nb[0] = k
                    /\ fl[Len(q)] = g /\ nb[Len(q)] = m
  BY DEF Flow
<1>2. /\ Len(q) \in Nat \ {0} /\ Head(q) = q[1] /\ Len(Tail(q)) = Len(q) - 1
      /\ \A i \in 1..(Len(q) - 1) : Tail(q)[i] = q[i + 1]
  BY HeadTailProperties
<1> DEFINE fs == [i \in 0..(Len(q) - 1) |-> fl[i + 1]]
           ns == [i \in 0..(Len(q) - 1) |-> nb[i + 1]]
<1>3. \A i \in 0..(Len(q) - 1) : i + 1 \in 0..Len(q) /\ i + 1 \in 1..Len(q)
  BY <1>2
<1>4. \A i \in 1..(Len(q) - 1) : i - 1 \in 0..(Len(q) - 1) /\ (i - 1) + 1 = i /\ (i + 1) - 1 = i
                                 /\ i + 1 \in 1..Len(q) /\ i \in 0..(Len(q) - 1)
  BY <1>2
<1>5. fs \in [0..(Len(q) - 1) -> Files \cup {NoFile}] /\ ns \in [0..(Len(q) - 1) -> Nat]
  BY <1>1, <1>3 DEF Explains
<1>6. ASSUME NEW i \in 1..(Len(q) - 1)
      PROVE  /\ fs[i] = fl[i + 1] /\ fs[i - 1] = fl[(i + 1) - 1]
             /\ ns[i] = nb[i + 1] /\ ns[i - 1] = nb[(i + 1) - 1]
             /\ Tail(q)[i] = q[i + 1] /\ i + 1 \in 1..Len(q)
  BY <1>2, <1>4
<1>7. fs[0] = fl[1] /\ ns[0] = nb[1] /\ fs[Len(q) - 1] = g /\ ns[Len(q) - 1] = m
  BY <1>1, <1>2
<1> HIDE DEF fs, ns
<1>8. Explains(fs, ns, Tail(q))
  <2> SUFFICES ASSUME NEW i \in 1..(Len(q) - 1)
               PROVE  /\ Tail(q)[i].cmd \in Moves => fs[i] = Tail(q)[i].file /\ ns[i] = Tail(q)[i].num
                      /\ Tail(q)[i].cmd \notin Moves => fs[i] = fs[i - 1] /\ ns[i] = ns[i - 1]
                      /\ Tail(q)[i].cmd = "DATA" => Tail(q)[i].file = fs[i - 1]
                                                    /\ Tail(q)[i].num = ns[i - 1] + 1
    BY <1>2, <1>5 DEF Explains
  <2> QED
    BY <1>1, <1>6 DEF Explains
<1>9. Flow(Tail(q), fl[1], nb[1], g, m)
  BY <1>2, <1>7, <1>8 DEF Flow
<1>10. /\ q[1].cmd \in Moves => fl[1] = q[1].file /\ nb[1] = q[1].num
       /\ q[1].cmd \notin Moves => fl[1] = f /\ nb[1] = k
       /\ q[1].cmd = "DATA" => q[1].file = f /\ q[1].num = k + 1
  <2>1. 1 \in 1..Len(q) /\ 1 - 1 = 0
    BY <1>2
  <2> QED
    BY <1>1, <2>1 DEF Explains
<1> QED
  BY <1>2, <1>9, <1>10 DEF Moves

\* One frame is sent.
LEMMA FlowAppend ==
  ASSUME NEW q \in Seq(Frame), NEW x \in Frame,
         NEW f, NEW k, NEW g, NEW m, Flow(q, f, k, g, m)
  PROVE  /\ x.cmd = "DATA" /\ x.file = g /\ x.num = m + 1 => Flow(Append(q, x), f, k, g, m + 1)
         /\ x.cmd = "FILE" => Flow(Append(q, x), f, k, x.file, x.num)
         /\ x.cmd \notin Moves => Flow(Append(q, x), f, k, g, m)
<1>1. PICK fl, nb : /\ Explains(fl, nb, q)
                    /\ fl[0] = f /\ nb[0] = k
                    /\ fl[Len(q)] = g /\ nb[Len(q)] = m
  BY DEF Flow
<1>2. /\ Len(q) \in Nat /\ Len(Append(q, x)) = Len(q) + 1 /\ Append(q, x)[Len(q) + 1] = x
      /\ \A i \in 1..Len(q) : Append(q, x)[i] = q[i]
  OBVIOUS
<1> DEFINE last == Len(q) + 1
           h == IF x.cmd \in Moves THEN x.file ELSE g
           j == IF x.cmd \in Moves THEN x.num ELSE m
           fs == [i \in 0..last |-> IF i = last THEN h ELSE fl[i]]
           ns == [i \in 0..last |-> IF i = last THEN j ELSE nb[i]]
<1>3. g \in Files \cup {NoFile} /\ m \in Nat
  BY <1>1, <1>2 DEF Explains
<1>4. h \in Files \cup {NoFile} /\ j \in Nat
  BY <1>3, FrameFile DEF Moves
<1> HIDE DEF h, j
<1>5. fs \in [0..last -> Files \cup {NoFile}] /\ ns \in [0..last -> Nat]
  <2>1. \A i \in 0..last : i = last \/ i \in 0..Len(q)
    BY <1>2
  <2> QED
    BY <1>1, <1>4, <2>1 DEF Explains
<1>6. /\ fs[last] = h /\ ns[last] = j
      /\ \A i \in 0..Len(q) : fs[i] = fl[i] /\ ns[i] = nb[i]
  BY <1>2
<1> HIDE DEF fs, ns
<1>7. ASSUME x.cmd = "DATA" => x.file = g /\ x.num = m + 1
      PROVE  Explains(fs, ns, Append(q, x))
  <2> SUFFICES ASSUME NEW i \in 1..last
               PROVE  LET y == Append(q, x)[i] IN
                      /\ y.cmd \in Moves => fs[i] = y.file /\ ns[i] = y.num
                      /\ y.cmd \notin Moves => fs[i] = fs[i - 1] /\ ns[i] = ns[i - 1]
                      /\ y.cmd = "DATA" => y.file = fs[i - 1] /\ y.num = ns[i - 1] + 1
    BY <1>2, <1>5 DEF Explains
  <2>1. CASE i = last
    <3>1. fs[i - 1] = g /\ ns[i - 1] = m
      BY <1>1, <1>2, <1>6, <2>1
    <3> QED
      BY <1>2, <1>6, <1>7, <2>1, <3>1 DEF h, j
  <2>2. CASE i # last
    <3>1. i \in 1..Len(q) /\ i - 1 \in 0..Len(q) /\ i \in 0..Len(q)
      BY <1>2, <2>2
    <3>2. fs[i] = fl[i] /\ ns[i] = nb[i] /\ fs[i - 1] = fl[i - 1] /\ ns[i - 1] = nb[i - 1]
          /\ Append(q, x)[i] = q[i]
      BY <1>2, <1>6, <3>1
    <3> QED
      BY <1>1, <3>1, <3>2 DEF Explains
  <2> QED
    BY <2>1, <2>2
<1>8. ASSUME x.cmd = "DATA" => x.file = g /\ x.num = m + 1
      PROVE  Flow(Append(q, x), f, k, h, j)
  <2>1. fs[0] = f /\ ns[0] = k
    BY <1>1, <1>2, <1>6
  <2> QED
    BY <1>2, <1>6, <1>7, <1>8, <2>1 DEF Flow
<1> QED
  BY <1>8 DEF h, j, Moves

\* Frames that move nothing.
LEMMA FlowQuiet ==
  ASSUME NEW q \in Seq(Frame), NEW out \in Seq(Frame),
         out = <<>> \/ \E x \in Frame : out = <<x>> /\ x.cmd \notin Moves,
         NEW f, NEW k, NEW g, NEW m, Flow(q, f, k, g, m)
  PROVE  Flow(q \o out, f, k, g, m)
<1>1. CASE out = <<>>
  BY <1>1, ConcatProperties, AppendConcat
<1>2. ASSUME NEW x \in Frame, out = <<x>>, x.cmd \notin Moves
      PROVE  Flow(q \o out, f, k, g, m)
  <2>1. Append(q, x) = q \o <<x>>
    BY AppendConcat
  <2>2. Flow(Append(q, x), f, k, g, m)
    BY <1>2, FlowAppend
  <2> QED
    BY <1>2, <2>1, <2>2
<1> QED
  BY <1>1, <1>2

\* The frames under way to n lead from what it is receiving to what its peer
\* is sending.
Straight(n) ==
  \E f \in Files \cup {NoFile}, k \in Nat, g \in Files \cup {NoFile}, m \in Nat :
    /\ Flow(chan[n], f, k, g, m)
    /\ Active(n) /\ RxState[n] = "RxReceD" => f = rname[n] /\ k = rxpos[n]
    /\ Active(Peer[n]) /\ TxState[Peer[n]] = "TxTryR" /\ link # "reset"
         => g = cursend[Peer[n]] /\ m = txpos[Peer[n]]

LineStraight == \A n \in Nodes : Straight(n)

\* What the receiver does with the frame it gets.
LEMMA ReceiveMoves ==
  ASSUME TypeOK, NEW n \in Nodes, Receive(n), Active(n)', RxState'[n] = "RxReceD"
  PROVE  \/ In(n).cmd = "FILE" /\ rname'[n] = In(n).file /\ rxpos'[n] = In(n).num
         \/ /\ In(n).cmd = "DATA" /\ RxState[n] = "RxReceD"
            /\ rname'[n] = rname[n] /\ rxpos'[n] = rxpos[n] + 1
         \/ /\ In(n).cmd \notin Moves /\ RxState[n] = "RxReceD"
            /\ rname'[n] = rname[n] /\ rxpos'[n] = rxpos[n]
<1> USE DEF Moves, Active, TypeOK, ProcessTypes, RxTypes
<1>1. CASE ReceiveIgnored(n) \/ ReceiveMessage(n)
  BY <1>1 DEF ReceiveIgnored, ReceiveMessage, rxVars
<1>2. CASE ReceiveError(n) \/ ReceiveEOB(n)
  BY <1>2 DEF ReceiveError, ReceiveEOB, NewBatch
<1>3. CASE \/ ReceiveKnownFile(n) \/ ReceivePartial(n) \/ ReceiveRefused(n)
           \/ ReceiveFile(n) \/ ReceiveLowDisk(n)
  BY <1>3
  DEF ReceiveKnownFile, ReceivePartial, ReceiveRefused, ReceiveFile, ReceiveLowDisk, AcceptFile
<1>4. CASE ReceiveOnStaleStream(n)
  BY <1>4 DEF ReceiveOnStaleStream, Goto
<1>5. CASE ReceiveBlock(n)
  BY <1>5 DEF ReceiveBlock, WriteBlock
<1>6. CASE ReceiveLastBlock(n) \/ ReceiveCrcError(n) \/ ReceiveCrcAbort(n)
  BY <1>6 DEF ReceiveLastBlock, ReceiveCrcError, ReceiveCrcAbort
<1>7. CASE KilledInClose(n)
  BY <1>7 DEF KilledInClose, Goto
<1> QED
  BY <1>1, <1>2, <1>3, <1>4, <1>5, <1>6, <1>7 DEF Receive

\* And what it leaves alone.
LEMMA ReceiveKeeps ==
  ASSUME TypeOK, NEW n \in Nodes, Receive(n)
  PROVE  /\ UNCHANGED <<link, outbound, txpos>>
         /\ \A p \in Nodes \ {n} : rxpos'[p] = rxpos[p] /\ rxbytes'[p] = rxbytes[p]
                                   /\ infp'[p] = infp[p] /\ rxfp'[p] = rxfp[p]
         /\ UNCHANGED <<state, offset>> \/ ClearFilelist(n)
<1> USE DEF TypeOK, RxTypes
<1>1. CASE \/ ReceiveIgnored(n) \/ ReceiveMessage(n) \/ ReceiveError(n)
           \/ ReceiveOnStaleStream(n)
  BY <1>1
  DEF ReceiveIgnored, ReceiveMessage, ReceiveError, ReceiveOnStaleStream, Answer,
      txVars, rxVars
<1>2. CASE ReceiveEOB(n)
  BY <1>2 DEF ReceiveEOB, NewBatch
<1>3. CASE \/ ReceiveKnownFile(n) \/ ReceivePartial(n) \/ ReceiveRefused(n)
           \/ ReceiveFile(n) \/ ReceiveLowDisk(n)
  <2>1. UNCHANGED link
    BY <1>3
    DEF ReceiveKnownFile, ReceivePartial, ReceiveRefused, ReceiveFile, ReceiveLowDisk, Answer
  <2>2. /\ UNCHANGED <<outbound, txpos, state, offset>>
        /\ \E k : rxpos' = [rxpos EXCEPT ![n] = k]
        /\ \E k : rxbytes' = [rxbytes EXCEPT ![n] = k]
    BY <1>3
    DEF ReceiveKnownFile, ReceivePartial, ReceiveRefused, ReceiveFile, ReceiveLowDisk,
        AcceptFile
  <2>3. /\ \E s : infp' = [infp EXCEPT ![n] = s]
        /\ \E s : rxfp' = [rxfp EXCEPT ![n] = s]
    BY <1>3
    DEF ReceiveKnownFile, ReceivePartial, ReceiveRefused, ReceiveFile, ReceiveLowDisk,
        CanStore, CannotStore
  <2> QED
    BY <2>1, <2>2, <2>3
<1>4. CASE \/ ReceiveBlock(n) \/ ReceiveLastBlock(n) \/ ReceiveCrcError(n)
           \/ ReceiveCrcAbort(n) \/ KilledInClose(n)
  BY <1>4
  DEF ReceiveBlock, ReceiveLastBlock, ReceiveCrcError, ReceiveCrcAbort, KilledInClose,
      RejectFile, CloseFile, WriteBlock, Answer, txVars
<1> QED
  BY <1>1, <1>2, <1>3, <1>4 DEF Receive

LEMMA ReceiveStraight ==
  ASSUME Places, LineStraight, NEW n \in Nodes, Receive(n)
  PROVE  LineStraight'
<1>1. PICK out \in Seq(Frame) : ReceiveShape(n, out)
  BY ReceiveHasShape DEF Places
<1>2. /\ TypeOK /\ chan[n] # <<>> /\ chan \in [Nodes -> Seq(Frame)]
      /\ Peer[n] \in Nodes /\ Peer[n] # n /\ Peer[Peer[n]] = n
      /\ chan'[n] = Tail(chan[n]) /\ chan'[Peer[n]] = chan[Peer[n]] \o out
      /\ \A p \in Nodes \ {n, Peer[n]} : chan'[p] = chan[p]
  BY <1>1 DEF ReceiveShape, Places, TypeOK, LineTypes
<1>3. /\ UNCHANGED <<link, txpos, cursend>>
      /\ \A p \in Nodes : /\ Active(p)' => Active(p)
                          /\ TxState'[p] = "TxTryR" => TxState[p] = "TxTryR"
      /\ \A p \in Nodes \ {n} : /\ RxState'[p] = RxState[p] /\ rname'[p] = rname[p]
                                /\ rxpos'[p] = rxpos[p]
  <2>1. UNCHANGED <<link, txpos>> /\ \A p \in Nodes \ {n} : rxpos'[p] = rxpos[p]
    BY <1>2, ReceiveKeeps
  <2>2. /\ UNCHANGED cursend
        /\ Active(n)' => Active(n)
        /\ TxState'[n] = "TxTryR" => TxState[n] = "TxTryR"
    BY <1>1 DEF ReceiveShape, Active
  <2>3. \A p \in Nodes \ {n} : /\ FtState'[p] = FtState[p] /\ RxState'[p] = RxState[p]
                                /\ TxState'[p] = TxState[p] /\ rname'[p] = rname[p]
    BY <1>1 DEF ReceiveShape
  <2> QED
    BY <2>1, <2>2, <2>3 DEF Active
<1>4. \A p \in Nodes : Peer[p] \in Nodes
  OBVIOUS
<1>5. Straight(n)'
  <2>1. PICK f \in Files \cup {NoFile}, k \in Nat, g \in Files \cup {NoFile}, m \in Nat :
          /\ Flow(chan[n], f, k, g, m)
          /\ Active(n) /\ RxState[n] = "RxReceD" => f = rname[n] /\ k = rxpos[n]
          /\ Active(Peer[n]) /\ TxState[Peer[n]] = "TxTryR" /\ link # "reset"
               => g = cursend[Peer[n]] /\ m = txpos[Peer[n]]
    BY DEF LineStraight, Straight
  <2>2. Active(Peer[n])' /\ TxState'[Peer[n]] = "TxTryR" /\ link' # "reset"
          => g = cursend'[Peer[n]] /\ m = txpos'[Peer[n]]
    BY <1>2, <1>3, <2>1
  <2>3. In(n) \in Frame /\ In(n) = Head(chan[n]) /\ chan[n] \in Seq(Frame)
    BY <1>2, QueueTyped DEF In
  <2>4. Active(n)' /\ RxState'[n] = "RxReceD" =>
         \/ In(n).cmd = "FILE" /\ rname'[n] = In(n).file /\ rxpos'[n] = In(n).num
         \/ /\ In(n).cmd = "DATA" /\ RxState[n] = "RxReceD" /\ Active(n)
            /\ rname'[n] = rname[n] /\ rxpos'[n] = rxpos[n] + 1
         \/ /\ In(n).cmd \notin Moves /\ RxState[n] = "RxReceD" /\ Active(n)
            /\ rname'[n] = rname[n] /\ rxpos'[n] = rxpos[n]
    BY <1>2, <1>3, ReceiveMoves
  <2>8. /\ In(n).cmd = "DATA" => Flow(chan'[n], f, k + 1, g, m)
        /\ In(n).cmd = "FILE" => Flow(chan'[n], In(n).file, In(n).num, g, m)
        /\ In(n).cmd \notin Moves => Flow(chan'[n], f, k, g, m)
    <3> DEFINE q == chan[n]
    <3>1. q \in Seq(Frame) /\ q # <<>> /\ Flow(q, f, k, g, m)
      BY <1>2, <2>1, <2>3
    <3>2. chan'[n] = Tail(q) /\ In(n) = Head(q)
      BY <1>2 DEF In
    <3> HIDE DEF q
    <3>3. /\ Head(q).cmd = "DATA" => Flow(Tail(q), f, k + 1, g, m)
          /\ Head(q).cmd = "FILE" => Flow(Tail(q), Head(q).file, Head(q).num, g, m)
          /\ Head(q).cmd \notin Moves => Flow(Tail(q), f, k, g, m)
      BY <3>1, FlowTail
    <3> QED
      BY <3>2, <3>3
  <2>5. CASE In(n).cmd = "DATA"
    <3>1. Flow(chan'[n], f, k + 1, g, m)
      BY <2>5, <2>8
    <3>2. Active(n)' /\ RxState'[n] = "RxReceD" => f = rname'[n] /\ k + 1 = rxpos'[n]
      BY <2>1, <2>4, <2>5 DEF Moves
    <3> QED
      BY <2>2, <3>1, <3>2 DEF Straight
  <2>6. CASE In(n).cmd = "FILE"
    <3>1. Flow(chan'[n], In(n).file, In(n).num, g, m)
      BY <2>6, <2>8
    <3>2. Active(n)' /\ RxState'[n] = "RxReceD" => In(n).file = rname'[n] /\ In(n).num = rxpos'[n]
      BY <2>4, <2>6 DEF Moves
    <3>3. In(n).file \in Files /\ In(n).num \in Nat
      BY <2>3, <2>6, FrameFile
    <3> QED
      BY <2>2, <3>1, <3>2, <3>3 DEF Straight
  <2>7. CASE In(n).cmd \notin Moves
    <3>1. Flow(chan'[n], f, k, g, m)
      BY <2>7, <2>8
    <3>2. Active(n)' /\ RxState'[n] = "RxReceD" => f = rname'[n] /\ k = rxpos'[n]
      BY <2>1, <2>4, <2>7 DEF Moves
    <3> QED
      BY <2>2, <3>1, <3>2 DEF Straight
  <2> QED
    BY <2>5, <2>6, <2>7 DEF Moves
<1>6. ASSUME NEW p \in Nodes \ {n} PROVE Straight(p)'
  <2>1. PICK f \in Files \cup {NoFile}, k \in Nat, g \in Files \cup {NoFile}, m \in Nat :
          /\ Flow(chan[p], f, k, g, m)
          /\ Active(p) /\ RxState[p] = "RxReceD" => f = rname[p] /\ k = rxpos[p]
          /\ Active(Peer[p]) /\ TxState[Peer[p]] = "TxTryR" /\ link # "reset"
               => g = cursend[Peer[p]] /\ m = txpos[Peer[p]]
    BY DEF LineStraight, Straight
  <2>2. Flow(chan'[p], f, k, g, m)
    <3>1. CASE p = Peer[n]
      <4>1. out = <<>> \/ \E x \in Frame : out = <<x>> /\ x.cmd \notin Moves
        BY <1>1 DEF ReceiveShape, Reply, Moves
      <4> QED
        <5> DEFINE q == chan[p]
        <5>1. q \in Seq(Frame) /\ chan'[p] = q \o out /\ Flow(q, f, k, g, m)
          BY <1>2, <2>1, <3>1
        <5> HIDE DEF q
        <5>2. Flow(q \o out, f, k, g, m)
          BY <4>1, <5>1, FlowQuiet
        <5> QED
          BY <5>1, <5>2
    <3>2. CASE p # Peer[n]
      BY <1>2, <2>1, <3>2
    <3> QED
      BY <3>1, <3>2
  <2>3. /\ Active(p)' /\ RxState'[p] = "RxReceD" => f = rname'[p] /\ k = rxpos'[p]
        /\ Active(Peer[p])' /\ TxState'[Peer[p]] = "TxTryR" /\ link' # "reset"
             => g = cursend'[Peer[p]] /\ m = txpos'[Peer[p]]
    BY <1>3, <1>4, <2>1
  <2> QED
    BY <2>2, <2>3 DEF Straight
<1> QED
  BY <1>5, <1>6 DEF LineStraight

LEMMA TransmitKeeps ==
  ASSUME TypeOK, NEW n \in Nodes, Transmit(n)
  PROVE  /\ UNCHANGED <<link, rname, rxpos, rxbytes, rxfp, infp, part, tempin, rcrcerr>>
         /\ \A p \in Nodes \ {n} : txpos'[p] = txpos[p]
<1> USE DEF TypeOK, TxTypes
<1>1. CASE \E f \in Own(n) : TransmitFile(n, f) \/ SkipFile(n, f)
  BY <1>1 DEF TransmitFile, SkipFile, GetNextFile, Transmits
<1>2. CASE TransmitEOB(n) \/ TransmitBlock(n) \/ TransmitEndOfFile(n)
  BY <1>2 DEF TransmitEOB, TransmitBlock, TransmitEndOfFile, GetNextFile, ReadBlock, Transmits
<1>3. CASE ProcessGet(n) \/ ProcessGot(n) \/ ProcessSkip(n)
  BY <1>3 DEF ProcessGet, ProcessGot, ProcessSkip, ProcessQueue, lineVars, rxVars
<1>4. CASE EndSession(n) \/ TransmitNewBatch(n) \/ ClearSentList(n) \/ WaitForRemote(n)
  BY <1>4 DEF EndSession, TransmitNewBatch, ClearSentList, WaitForRemote, WaitLastAck, Transmits
<1> QED
  BY <1>1, <1>2, <1>3, <1>4 DEF Transmit

\* What is sent leads on to what is being sent then.
LEMMA FlowSent ==
  ASSUME Places, NEW n \in Nodes, Transmit(n),
         NEW f \in Files \cup {NoFile}, NEW k \in Nat,
         NEW g \in Files \cup {NoFile}, NEW m \in Nat,
         Flow(chan[Peer[n]], f, k, g, m),
         TxState[n] = "TxTryR" /\ link # "reset" => g = cursend[n] /\ m = txpos[n]
  PROVE  \E h \in Files \cup {NoFile}, j \in Nat :
           /\ Flow(chan'[Peer[n]], f, k, h, j)
           /\ TxState'[n] = "TxTryR" /\ link # "reset" => h = cursend'[n] /\ j = txpos'[n]
<1> DEFINE q == chan[Peer[n]]
<1>1. TypeOK /\ q \in Seq(Frame) /\ Peer[n] \in Nodes /\ Flow(q, f, k, g, m)
  BY DEF Places, TypeOK, LineTypes
<1>2. ASSUME NEW out, Send(n, out)
      PROVE  chan'[Peer[n]] = IF link = "reset" THEN q ELSE q \o out
  BY <1>1, <1>2 DEF Send, TypeOK, LineTypes
<1>3. ASSUME chan' = chan,
             TxState'[n] = "TxTryR" => /\ TxState[n] = "TxTryR"
                                       /\ cursend'[n] = cursend[n] /\ txpos'[n] = txpos[n]
      PROVE  \E h \in Files \cup {NoFile}, j \in Nat :
               /\ Flow(chan'[Peer[n]], f, k, h, j)
               /\ TxState'[n] = "TxTryR" /\ link # "reset" => h = cursend'[n] /\ j = txpos'[n]
  BY <1>1, <1>3
<1> HIDE DEF q
\* M_NUL TRF before a command.
<1>4. Traffic(n) = <<>> \/ \E x \in Frame : Traffic(n) = <<x>> /\ x.cmd \notin Moves
  <2>1. Command("NUL") \in Frame /\ Command("NUL").cmd \notin Moves
    BY CommandTyped DEF Command, Moves
  <2> QED
    BY <2>1 DEF Traffic
<1>5. Traffic(n) \in Seq(Frame)
  <2>1. CASE Traffic(n) = <<>>
    BY <2>1
  <2>2. ASSUME NEW x \in Frame, Traffic(n) = <<x>>
        PROVE  Traffic(n) \in Seq(Frame)
    BY <2>2
  <2> QED
    BY <1>4, <2>1, <2>2
<1>6. Flow(q \o Traffic(n), f, k, g, m)
  BY <1>1, <1>4, <1>5, FlowQuiet
<1>7. ASSUME NEW x \in Frame
      PROVE  /\ q \o Append(Traffic(n), x) = Append(q \o Traffic(n), x)
             /\ q \o <<x>> = Append(q, x)
  BY <1>1, <1>5
<1>8. q \o Traffic(n) \in Seq(Frame)
  BY <1>1, <1>5
<1>9. ASSUME NEW e \in Own(n), TransmitFile(n, e)
      PROVE  \E h \in Files \cup {NoFile}, j \in Nat :
               /\ Flow(chan'[Peer[n]], f, k, h, j)
               /\ TxState'[n] = "TxTryR" /\ link # "reset" => h = cursend'[n] /\ j = txpos'[n]
  <2>1. e \in Files /\ offset[e] \in Nat
    BY <1>1 DEF Own, TypeOK, TxTypes
  <2> DEFINE x == About("FILE", e, offset[e])
  <2>2. x \in Frame /\ x.cmd = "FILE" /\ x.file = e /\ x.num = offset[e]
    BY <2>1, AboutTyped DEF About
  <2>3. Send(n, Append(Traffic(n), x)) /\ cursend'[n] = e /\ txpos'[n] = offset[e]
    BY <1>1, <1>9 DEF TransmitFile, SendCommand, StartAt, TypeOK, TxTypes
  <2> HIDE DEF x
  <2>4. Flow(q \o Append(Traffic(n), x), f, k, e, offset[e])
    <3>1. Flow(Append(q \o Traffic(n), x), f, k, e, offset[e])
      BY <1>6, <1>8, <2>2, FlowAppend
    <3> QED
      BY <1>7, <2>2, <3>1
  <2>5. CASE link = "reset"
    BY <1>1, <1>2, <2>3, <2>5 DEF q
  <2>6. CASE link # "reset"
    BY <1>2, <2>1, <2>3, <2>4, <2>6
  <2> QED
    BY <2>5, <2>6
<1>10. ASSUME NEW e \in Own(n), SkipFile(n, e)
       PROVE  \E h \in Files \cup {NoFile}, j \in Nat :
                /\ Flow(chan'[Peer[n]], f, k, h, j)
                /\ TxState'[n] = "TxTryR" /\ link # "reset" => h = cursend'[n] /\ j = txpos'[n]
  <2>1. Send(n, Traffic(n)) /\ TxState'[n] # "TxTryR"
    BY <1>10 DEF SkipFile, SendCommand, GetNextFile, Transmits
  <2> QED
    BY <1>1, <1>2, <1>6, <2>1
<1>11. CASE TransmitEOB(n)
  <2> DEFINE x == Command("EOB")
  <2>1. x \in Frame /\ x.cmd \notin Moves
    BY CommandTyped DEF Command, Moves
  <2>2. Send(n, Append(Traffic(n), x)) /\ TxState'[n] # "TxTryR"
    BY <1>1, <1>11 DEF TransmitEOB, SendCommand, TypeOK, TxTypes
  <2> HIDE DEF x
  <2>3. Flow(q \o Append(Traffic(n), x), f, k, g, m)
    <3>1. Flow(Append(q \o Traffic(n), x), f, k, g, m)
      BY <1>6, <1>8, <2>1, FlowAppend
    <3> QED
      BY <1>7, <2>1, <3>1
  <2> QED
    BY <1>1, <1>2, <2>2, <2>3
<1>12. CASE TransmitBlock(n) \/ TransmitEndOfFile(n)
  <2>1. /\ TxState[n] = "TxTryR" /\ cursend[n] \in Files /\ txpos[n] \in Nat
    BY <1>1, <1>12
    DEF TransmitBlock, TransmitEndOfFile, ReadBlock, Transmits, TypeOK, TxTypes
  <2> DEFINE x == About("DATA", cursend[n], txpos[n] + 1)
  <2>2. x \in Frame /\ x.cmd = "DATA" /\ x.file = cursend[n] /\ x.num = txpos[n] + 1
    BY <2>1, AboutTyped DEF About
  <2> HIDE DEF x
  <2>3. link # "reset" => Flow(q \o <<x>>, f, k, g, m + 1)
    <3>1. link # "reset" => Flow(Append(q, x), f, k, g, m + 1)
      BY <1>1, <2>1, <2>2, FlowAppend
    <3> QED
      BY <1>7, <2>2, <3>1
  <2>4. CASE TransmitBlock(n)
    <3>1. /\ txpos'[n] = txpos[n] + 1 /\ Send(n, <<x>>) /\ cursend'[n] = cursend[n]
      BY <1>1, <2>4 DEF TransmitBlock, TypeOK, TxTypes, x
    <3>2. CASE link = "reset"
      BY <1>1, <1>2, <3>1, <3>2
    <3>3. CASE link # "reset"
      <4>1. /\ Flow(chan'[Peer[n]], f, k, g, m + 1) /\ m + 1 \in Nat
            /\ g = cursend'[n] /\ m + 1 = txpos'[n]
        <5>1. g = cursend[n] /\ m = txpos[n]
          BY <2>1, <3>3
        <5>2. chan'[Peer[n]] = q \o <<x>>
          BY <1>2, <3>1, <3>3
        <5> QED
          BY <2>3, <3>1, <3>3, <5>1, <5>2
      <4> QED
        BY <4>1
    <3> QED
      BY <3>2, <3>3
  <2>5. CASE TransmitEndOfFile(n)
    <3>1. TxState'[n] # "TxTryR"
      BY <1>1, <2>5 DEF TransmitEndOfFile, TypeOK, TxTypes
    <3>2. chan' = chan \/ Send(n, <<x>>)
      BY <1>1, <2>5 DEF TransmitEndOfFile, TypeOK, TxTypes, x
    <3>3. CASE chan' = chan
      BY <1>3, <3>1, <3>3
    <3>4. CASE Send(n, <<x>>)
      BY <1>1, <1>2, <2>3, <3>1, <3>4
    <3> QED
      BY <3>2, <3>3, <3>4
  <2> QED
    BY <1>12, <2>4, <2>5
<1>13. CASE ProcessGet(n) \/ ProcessGot(n) \/ ProcessSkip(n)
  <2>1. chan' = chan /\ txpos' = txpos
    BY <1>13 DEF ProcessGet, ProcessGot, ProcessSkip, ProcessQueue, lineVars
  <2>2. TxState'[n] = "TxTryR" => TxState[n] = "TxTryR" /\ cursend'[n] = cursend[n]
    BY <1>1, <1>13 DEF ProcessGet, ProcessGot, ProcessSkip, StopSending, TypeOK, TxTypes
  <2> QED
    BY <1>3, <2>1, <2>2
<1>14. CASE EndSession(n) \/ TransmitNewBatch(n) \/ ClearSentList(n) \/ WaitForRemote(n)
  <2>1. chan' = chan /\ TxState'[n] # "TxTryR"
    BY <1>1, <1>14 DEF EndSession, TransmitNewBatch, ClearSentList, WaitForRemote,
       WaitLastAck, Transmits, NewBatch, TypeOK, TxTypes
  <2> QED
    BY <1>3, <2>1
<1> QED
  BY <1>9, <1>10, <1>11, <1>12, <1>13, <1>14 DEF Transmit

LEMMA TransmitStraight ==
  ASSUME Places, LineStraight, NEW n \in Nodes, Transmit(n)
  PROVE  LineStraight'
<1>1. PICK out \in Seq(Frame) : TransmitShape(n, out)
  BY TransmitHasShape
<1>2. /\ TypeOK /\ Peer[n] \in Nodes /\ Peer[n] # n /\ Peer[Peer[n]] = n
      /\ Active(n)
      /\ \A p \in Nodes \ {Peer[n]} : chan'[p] = chan[p] /\ Peer[p] # n
  BY <1>1 DEF TransmitShape, Active, Places, TypeOK, LineTypes
<1>3. /\ UNCHANGED <<link, rname, rxpos>>
      /\ \A p \in Nodes \ {n} :
           /\ RxState'[p] = RxState[p] /\ TxState'[p] = TxState[p] /\ Active(p)' = Active(p)
           /\ cursend'[p] = cursend[p] /\ txpos'[p] = txpos[p]
      /\ RxState'[n] = "RxReceD" => RxState[n] = "RxReceD"
  BY <1>1, <1>2, TransmitKeeps DEF TransmitShape, Active
<1>4. Straight(Peer[n])'
  <2>1. PICK f \in Files \cup {NoFile}, k \in Nat, g \in Files \cup {NoFile}, m \in Nat :
          /\ Flow(chan[Peer[n]], f, k, g, m)
          /\ Active(Peer[n]) /\ RxState[Peer[n]] = "RxReceD" => f = rname[Peer[n]] /\ k = rxpos[Peer[n]]
          /\ Active(n) /\ TxState[n] = "TxTryR" /\ link # "reset"
               => g = cursend[n] /\ m = txpos[n]
    <3>1. Straight(Peer[n]) /\ Peer[Peer[n]] = n
      BY <1>2 DEF LineStraight
    <3> QED
      BY <3>1 DEF Straight
  <2>2. PICK h \in Files \cup {NoFile}, j \in Nat :
          /\ Flow(chan'[Peer[n]], f, k, h, j)
          /\ TxState'[n] = "TxTryR" /\ link # "reset" => h = cursend'[n] /\ j = txpos'[n]
    BY <1>2, <2>1, FlowSent
  <2>3. Active(Peer[n])' /\ RxState'[Peer[n]] = "RxReceD" => f = rname'[Peer[n]] /\ k = rxpos'[Peer[n]]
    BY <1>2, <1>3, <2>1
  <2>4. TxState'[n] = "TxTryR" /\ link' # "reset" => h = cursend'[n] /\ j = txpos'[n]
    BY <1>3, <2>2
  <2>5. Active(Peer[Peer[n]])' /\ TxState'[Peer[Peer[n]]] = "TxTryR" /\ link' # "reset"
             => h = cursend'[Peer[Peer[n]]] /\ j = txpos'[Peer[Peer[n]]]
    BY <1>2, <2>4
  <2> QED
    BY <2>2, <2>3, <2>5 DEF Straight
<1>5. ASSUME NEW p \in Nodes \ {Peer[n]} PROVE Straight(p)'
  <2>1. PICK f \in Files \cup {NoFile}, k \in Nat, g \in Files \cup {NoFile}, m \in Nat :
          /\ Flow(chan[p], f, k, g, m)
          /\ Active(p) /\ RxState[p] = "RxReceD" => f = rname[p] /\ k = rxpos[p]
          /\ Active(Peer[p]) /\ TxState[Peer[p]] = "TxTryR" /\ link # "reset"
               => g = cursend[Peer[p]] /\ m = txpos[Peer[p]]
    BY DEF LineStraight, Straight
  <2>2. Peer[p] \in Nodes /\ Peer[p] # n /\ chan'[p] = chan[p]
    BY <1>2
  <2>3. Active(p)' /\ RxState'[p] = "RxReceD" => f = rname'[p] /\ k = rxpos'[p]
    BY <1>2, <1>3, <2>1
  <2>4. Active(Peer[p])' /\ TxState'[Peer[p]] = "TxTryR" /\ link' # "reset"
          => g = cursend'[Peer[p]] /\ m = txpos'[Peer[p]]
    BY <1>3, <2>1, <2>2
  <2> QED
    BY <2>1, <2>2, <2>3, <2>4 DEF Straight
<1> QED
  BY <1>4, <1>5 DEF LineStraight

LEMMA QuietStraight ==
  ASSUME Places, LineStraight,
         LoseLine \/ Redial \/ UNCHANGED vars \/ \E n \in Nodes : End(n) \/ Kill(n)
  PROVE  LineStraight'
<1> SUFFICES ASSUME NEW p \in Nodes PROVE Straight(p)'
  BY DEF LineStraight
<1>1. PICK f \in Files \cup {NoFile}, k \in Nat, g \in Files \cup {NoFile}, m \in Nat :
        /\ Flow(chan[p], f, k, g, m)
        /\ Active(p) /\ RxState[p] = "RxReceD" => f = rname[p] /\ k = rxpos[p]
        /\ Active(Peer[p]) /\ TxState[Peer[p]] = "TxTryR" /\ link # "reset"
             => g = cursend[Peer[p]] /\ m = txpos[Peer[p]]
  BY DEF LineStraight, Straight
<1>2. Peer[p] \in Nodes /\ TypeOK
  BY DEF Places
<1>3. CASE LoseLine \/ UNCHANGED vars \/ \E n \in Nodes : End(n) \/ Kill(n)
  <2>1. /\ UNCHANGED <<RxState, rname, rxpos, TxState, cursend, txpos>>
        /\ \/ UNCHANGED <<chan, link>>
           \/ chan' = chan /\ link' = "silent" /\ link = "up"
           \/ chan'[p] = <<>> /\ link' = "reset"
    BY <1>3 DEF LoseLine, vars, lineVars, txVars, rxVars, End, Hangup, Timeout, Deinit,
       Kill, Idle
  <2>2. \A n \in Nodes : Active(n)' => Active(n)
    <3>1. CASE LoseLine \/ UNCHANGED vars
      BY <3>1 DEF LoseLine, vars, Active
    <3>2. ASSUME NEW n \in Nodes, End(n) \/ Kill(n)
          PROVE  \A o \in Nodes : Active(o)' => Active(o)
      BY <1>2, <3>2 DEF End, Hangup, Timeout, Deinit, Kill, Failure, Goto, Active, TypeOK,
         ProcessTypes
    <3> QED
      BY <1>3, <3>1, <3>2
  <2>3. CASE chan' = chan /\ (link' # "reset" => link # "reset")
    <3>1. /\ Active(p)' /\ RxState'[p] = "RxReceD" => f = rname'[p] /\ k = rxpos'[p]
          /\ Active(Peer[p])' /\ TxState'[Peer[p]] = "TxTryR" /\ link' # "reset"
               => g = cursend'[Peer[p]] /\ m = txpos'[Peer[p]]
      BY <1>1, <1>2, <2>1, <2>2, <2>3
    <3> QED
      BY <1>1, <2>3, <3>1 DEF Straight
  <2>4. CASE chan'[p] = <<>> /\ link' = "reset"
    <3>1. Flow(chan'[p], f, k, f, k)
      BY <2>4, FlowNone
    <3>2. Active(p)' /\ RxState'[p] = "RxReceD" => f = rname'[p] /\ k = rxpos'[p]
      BY <1>1, <2>1, <2>2
    <3> QED
      BY <2>4, <3>1, <3>2 DEF Straight
  <2> QED
    BY <2>1, <2>3, <2>4
<1>4. CASE Redial
  <2>1. /\ chan'[p] = <<>> /\ RxState'[p] = "RxWaitF" /\ TxState'[Peer[p]] = "TxGNF"
    BY <1>2, <1>4 DEF Redial
  <2>2. Flow(chan'[p], f, k, f, k)
    BY <2>1, FlowNone
  <2> QED
    BY <2>1, <2>2 DEF Straight
<1> QED
  BY <1>3, <1>4

LEMMA InitStraight == Init => LineStraight
<1> SUFFICES ASSUME Init, NEW p \in Nodes PROVE Straight(p)
  BY DEF LineStraight
<1>1. chan[p] = <<>> /\ RxState[p] = "RxWaitF" /\ TxState[Peer[p]] = "TxGNF"
  BY DEF Init
<1>2. Flow(chan[p], NoFile, 0, NoFile, 0)
  BY <1>1, FlowNone
<1> QED
  BY <1>1, <1>2 DEF Straight

LEMMA NextStraight == Places /\ LineStraight /\ [Next]_vars => LineStraight'
<1> SUFFICES ASSUME Places, LineStraight, [Next]_vars PROVE LineStraight'
  OBVIOUS
<1> QED
  BY ReceiveStraight, TransmitStraight, QuietStraight DEF Next

\* However files are refused, asked for again from another block, or given up,
\* the data that is under way is of the file offered last, and its blocks come
\* in order from where it was offered.
THEOREM DataInOrder == Spec => []LineStraight
<1>1. Init => LineStraight
  BY InitStraight
<1>2. Places /\ LineStraight /\ [Next]_vars => LineStraight'
  BY NextStraight
<1> QED
  BY <1>1, <1>2, OneAtATime, PTL DEF Spec

--------------------------------------------------------------------------------
(***************************************************************************)
(* The offset a file is offered from, or asked for from, is 0 or the size  *)
(* of what the receiver has of it in tmp; and the receiver writes behind   *)
(* what it has.                                                            *)
(***************************************************************************)

\* A file f starts at block k, when there are l blocks in tmp.
Begins(f, k, l) == k = 0 \/ (k = l /\ l < Size[f])

AskedBy(q, f, l) ==
  \A i \in DOMAIN q :
    q[i].cmd \in {"FILE", "GET"} /\ q[i].file = f => Begins(f, q[i].num, l)

\* Wherever f is, it starts so.
Numbers(f, l) ==
  /\ Active(Sender(f)) /\ state[f] = "NoState" => Begins(f, offset[f], l)
  /\ \A p \in Nodes : AskedBy(chan[p], f, l) /\ AskedBy(tql[p], f, l)

\* It has been asked for from where its part ends.
Resumes(f) == ~ Numbers(f, 0)

Offsets(f) ==
  /\ state[f] = "NotListed" => offset[f] = 0
  /\ Running(Receiver(f)) => Numbers(f, Len(part[f]))
  /\ Len(part[f]) <= Size[f]

\* The receiver writes behind what it has of the file; an open stream is that
\* of the last file; and its size is not that of another file to be resumed.
Receives(n) ==
  /\ RxState[n] = "RxReceD" =>
       /\ rxfp[n] = "open"
       /\ rxpos[n] = Len(part[rname[n]])
       /\ rxpos[n] < Size[rname[n]]
  /\ rxfp[n] = "open" => rname[n] \in Files /\ infp[n] = rname[n]
  /\ \A f \in Own(Peer[n]) \ {rname[n]} : Resumes(f) => rxbytes[n] # Len(part[f])
  /\ /\ "refuse" \notin Faults
     /\ rname[n] \in Files
     /\ rxbytes[n] # 0
     /\ rxbytes[n] = Len(part[rname[n]])
     /\ rxbytes[n] < Size[rname[n]]
     => rxfp[n] = "open"

FromPeer ==
  \A n \in Nodes : /\ rname[n] \in Files => Owner[rname[n]] = Peer[n]
                   /\ infp[n] \in Files => Owner[infp[n]] = Peer[n]

Layout ==
  /\ FromPeer
  /\ \A f \in Files : Offsets(f)
  /\ \A n \in Nodes : Running(n) => Receives(n)

\* No file is offered while another of as many blocks, from the same mailer,
\* is about to be resumed.
ResumesApart ==
  \A n \in Nodes : chan[n] # <<>> /\ Head(chan[n]).cmd = "FILE" =>
    \A f \in Own(Peer[n]) \ {Head(chan[n]).file} :
      Resumes(f) => Len(part[f]) # Len(part[Head(chan[n]).file])

\* Nothing in tmp is longer than the file is now.
NoneLonger == \A f \in Files : \A p \in Leftover[f] : Len(p) <= Size[f]
------------------------------------------------------------------------------
\* Queues.

LEMMA AskedTail ==
  ASSUME NEW q \in Seq(Frame), q # <<>>, NEW f, NEW l, AskedBy(q, f, l)
  PROVE  /\ AskedBy(Tail(q), f, l)
         /\ Head(q).cmd \in {"FILE", "GET"} /\ Head(q).file = f => Begins(f, Head(q).num, l)
<1>1. /\ 1 \in DOMAIN q /\ Head(q) = q[1]
      /\ \A i \in DOMAIN Tail(q) : i + 1 \in DOMAIN q /\ Tail(q)[i] = q[i + 1]
  BY HeadTailProperties
<1> QED
  BY <1>1 DEF AskedBy

LEMMA AskedConcat ==
  ASSUME NEW q \in Seq(Frame), NEW r \in Seq(Frame), NEW f, NEW l,
         AskedBy(q, f, l), AskedBy(r, f, l)
  PROVE  AskedBy(q \o r, f, l)
<1>1. \A i \in DOMAIN (q \o r) :
        \/ i \in DOMAIN q /\ (q \o r)[i] = q[i]
        \/ i - Len(q) \in DOMAIN r /\ (q \o r)[i] = r[i - Len(q)]
  BY ConcatProperties
<1> QED
  BY <1>1 DEF AskedBy

LEMMA AskedOne ==
  ASSUME NEW x \in Frame, NEW f, NEW l,
         x.cmd \in {"FILE", "GET"} /\ x.file = f => Begins(f, x.num, l)
  PROVE  AskedBy(<<x>>, f, l)
<1>1. DOMAIN <<x>> = {1} /\ <<x>>[1] = x
  OBVIOUS
<1> QED
  BY <1>1 DEF AskedBy

LEMMA AskedNone == ASSUME NEW f, NEW l PROVE AskedBy(<<>>, f, l)
<1>1. DOMAIN <<>> = {}
  OBVIOUS
<1> QED
  BY <1>1 DEF AskedBy

\* A file that is in no queue.
LEMMA AskedNowhere ==
  ASSUME Places, NEW f \in Files, ~ Offered(f), ~ Answered(f), ~ Noted(f),
         NEW p \in Nodes, NEW l
  PROVE  AskedBy(chan[p], f, l) /\ AskedBy(tql[p], f, l)
<1>1. ASSUME NEW i \in DOMAIN chan[p], chan[p][i].cmd \in {"FILE", "GET"}, chan[p][i].file = f
      PROVE  FALSE
  <2>1. CASE chan[p][i].cmd = "FILE"
    <3>1. Receiver(f) = p
      BY <1>1, <2>1 DEF Places, LineOwned, Owned, Receiver
    <3> QED
      BY <1>1, <2>1, <3>1 DEF Offered, Has
  <2>2. CASE chan[p][i].cmd = "GET"
    <3>1. Sender(f) = p
      BY <1>1, <2>2 DEF Places, LineOwned, Owned, Sender, Reply
    <3> QED
      BY <1>1, <2>2, <3>1 DEF Answered, Has, Reply
  <2> QED
    BY <1>1, <2>1, <2>2
<1>2. ASSUME NEW i \in DOMAIN tql[p], tql[p][i].cmd \in {"FILE", "GET"}, tql[p][i].file = f
      PROVE  FALSE
  BY <1>2 DEF Places, QueueOwned, Sender, Noted, Has
<1> QED
  BY <1>1, <1>2 DEF AskedBy

\* In a step that sends out, frames go from queue to queue, or are lost.
Queues(out) ==
  \A p \in Nodes :
    /\ \/ chan'[p] \in {chan[p], <<>>, chan[p] \o out}
       \/ chan[p] # <<>> /\ chan'[p] = Tail(chan[p])
    /\ \/ tql'[p] \in {tql[p], <<>>}
       \/ tql[p] # <<>> /\ tql'[p] = Tail(tql[p])
       \/ chan[p] # <<>> /\ tql'[p] = Append(tql[p], Head(chan[p]))

LEMMA AskedStep ==
  ASSUME TypeOK, NEW out \in Seq(Frame), Queues(out), NEW f, NEW l,
         AskedBy(out, f, l), NEW p \in Nodes,
         AskedBy(chan[p], f, l), AskedBy(tql[p], f, l)
  PROVE  AskedBy(chan'[p], f, l) /\ AskedBy(tql'[p], f, l)
<1>1. chan[p] \in Seq(Frame) /\ tql[p] \in Seq(Frame)
  BY DEF TypeOK, LineTypes, TxTypes
<1>2. AskedBy(chan'[p], f, l)
  <2>1. AskedBy(<<>>, f, l) /\ AskedBy(chan[p] \o out, f, l)
    BY <1>1, AskedNone, AskedConcat
  <2>2. chan[p] # <<>> => AskedBy(Tail(chan[p]), f, l)
    BY <1>1, AskedTail
  <2> QED
    BY <2>1, <2>2 DEF Queues
<1>3. AskedBy(tql'[p], f, l)
  <2>1. AskedBy(<<>>, f, l)
    BY AskedNone
  <2>2. tql[p] # <<>> => AskedBy(Tail(tql[p]), f, l)
    BY <1>1, AskedTail
  <2>3. ASSUME chan[p] # <<>> PROVE AskedBy(Append(tql[p], Head(chan[p])), f, l)
    <3>1. Head(chan[p]) \in Frame
      BY <1>1, <2>3, QueueTyped
    <3>2. AskedBy(<<Head(chan[p])>>, f, l)
      BY <1>1, <2>3, <3>1, AskedTail, AskedOne
    <3>3. <<Head(chan[p])>> \in Seq(Frame)
      BY <3>1
    <3>4. AskedBy(tql[p] \o <<Head(chan[p])>>, f, l)
      BY <1>1, <3>2, <3>3, AskedConcat
    <3> QED
      BY <1>1, <3>1, <3>4, AppendConcat
  <2> QED
    BY <2>1, <2>2, <2>3 DEF Queues
<1> QED
  BY <1>2, <1>3
------------------------------------------------------------------------------
\* The receiver.

\* n receives a frame and answers out.
Answers(n, out) ==
  chan' = [chan EXCEPT ![n] = Tail(chan[n]), ![Peer[n]] = chan[Peer[n]] \o out]

LEMMA AnswerSent ==
  ASSUME TypeOK, NEW n \in Nodes, NEW out, Answer(n, out)
  PROVE  Answers(n, out)
BY DEF Answer, Answers, TypeOK, LineTypes

LEMMA ReceiveQueues ==
  ASSUME TypeOK, NEW n \in Nodes, Receive(n), NEW out \in Seq(Frame), Answers(n, out)
  PROVE  Queues(out)
<1>1. PICK o \in Seq(Frame) : ReceiveShape(n, o)
  BY ReceiveHasShape
<1>2. Peer[n] \in Nodes /\ Peer[n] # n /\ chan \in [Nodes -> Seq(Frame)]
      /\ tql \in [Nodes -> Seq(Frame)] /\ chan[n] # <<>>
  BY <1>1 DEF TypeOK, LineTypes, TxTypes, ReceiveShape
<1>3. /\ chan'[n] = Tail(chan[n]) /\ chan'[Peer[n]] = chan[Peer[n]] \o out
      /\ \A p \in Nodes \ {n, Peer[n]} : chan'[p] = chan[p]
  BY <1>2 DEF Answers
<1>4. \A p \in Nodes : \/ tql'[p] = tql[p]
                       \/ p = n /\ tql'[p] = Append(tql[p], Head(chan[p]))
  BY <1>1, <1>2 DEF ReceiveShape, In
<1> QED
  BY <1>2, <1>3, <1>4 DEF Queues

\* The list of n is dropped, or kept.
LEMMA ReceiveNumbers ==
  ASSUME Places, NEW n \in Nodes, Receive(n), NEW out \in Seq(Frame), Answers(n, out),
         NEW f \in Files, NEW l, AskedBy(out, f, l), Numbers(f, l)
  PROVE  Numbers(f, l)'
<1>1. TypeOK /\ Queues(out)
  BY ReceiveQueues DEF Places
<1>2. \A p \in Nodes : AskedBy(chan'[p], f, l) /\ AskedBy(tql'[p], f, l)
  BY <1>1, AskedStep DEF Numbers
<1>3. Active(Sender(f))' => Active(Sender(f))
  <2>1. PICK o \in Seq(Frame) : ReceiveShape(n, o)
    BY <1>1, ReceiveHasShape
  <2>2. Sender(f) \in Nodes
    BY DEF Sender
  <2> QED
    BY <2>1, <2>2 DEF ReceiveShape, Active, Sender
<1>4. UNCHANGED <<state, offset>> \/ ClearFilelist(n)
  BY <1>1, ReceiveKeeps
<1>5. Active(Sender(f))' /\ state'[f] = "NoState" => Begins(f, offset'[f], l)
  BY <1>3, <1>4 DEF ClearFilelist, Numbers
<1> QED
  BY <1>2, <1>5 DEF Numbers, Sender

\* The other mailers, and the other files.
LEMMA ReceiveOthers ==
  ASSUME Places, Layout, NEW n \in Nodes, Receive(n),
         NEW out \in Seq(Frame), Answers(n, out), NEW e \in Files \cup {NoFile},
         e \in Files => Owner[e] = Peer[n],
         \A f \in Files \ {e} : part'[f] = part[f] /\ \A l : AskedBy(out, f, l),
         e \in Files => Len(part'[e]) <= Size[e],
         \/ e = NoFile \/ ~ Running(n)'
         \/ part'[e] = part[e] /\ AskedBy(out, e, Len(part[e]))
         \/ InReceipt(e) /\ \A l : AskedBy(out, e, l)
  PROVE  /\ \A f \in Files : Offsets(f)'
         /\ \A f \in Files \ {e} : Resumes(f)' => Resumes(f)
         /\ \A p \in Nodes \ {n} : Running(p)' => Receives(p)'
<1>1. PICK o \in Seq(Frame) : ReceiveShape(n, o)
  BY ReceiveHasShape DEF Places
<1>2. TypeOK /\ Peer[n] \in Nodes /\ Peer[n] # n /\ Peer[Peer[n]] = n
      /\ NoFile \notin Files /\ part \in [Files -> Seq(Files \X Nat)]
  BY DEF Places, TypeOK, RxTypes
<1>3. \A p \in Nodes \ {n} :
        /\ FtState'[p] = FtState[p] /\ RxState'[p] = RxState[p] /\ rname'[p] = rname[p]
        /\ rxpos'[p] = rxpos[p] /\ rxbytes'[p] = rxbytes[p]
        /\ infp'[p] = infp[p] /\ rxfp'[p] = rxfp[p]
  BY <1>1, <1>2, ReceiveKeeps DEF ReceiveShape
<1>4. \A p \in Nodes : Running(p)' => Running(p)
  BY <1>1, <1>3 DEF ReceiveShape, Running
<1>5. ASSUME NEW f \in Files PROVE Offsets(f)'
  <2>1. Offsets(f) /\ Receiver(f) \in Nodes /\ Sender(f) \in Nodes
    BY DEF Layout, Receiver, Sender
  <2>2. state'[f] = "NotListed" => offset'[f] = 0
    <3>1. UNCHANGED <<state, offset>> \/ ClearFilelist(n)
      BY <1>2, ReceiveKeeps
    <3> QED
      BY <2>1, <3>1 DEF ClearFilelist, Offsets
  <2>3. Len(part'[f]) <= Size[f]
    <3>1. CASE f = e
      BY <3>1
    <3>2. CASE f # e
      BY <2>1, <3>2 DEF Offsets
    <3> QED
      BY <3>1, <3>2
  <2>4. ASSUME Running(Receiver(f))' PROVE Numbers(f, Len(part[f]))'
    <3>1. Running(Receiver(f))
      BY <1>4, <2>1, <2>4 DEF Receiver, Running
    <3>2. PICK l : l = Len(part[f])
      OBVIOUS
    <3>3. Numbers(f, l)
      BY <2>1, <3>1, <3>2 DEF Offsets
    <3>4. CASE part'[f] = part[f] /\ AskedBy(out, f, l)
      <4>1. Numbers(f, l)'
        BY <3>3, <3>4, ReceiveNumbers
      <4>2. l = Len(part'[f])
        BY <3>2, <3>4
      <4> QED
        BY <4>1, <4>2 DEF Numbers
    <3>5. CASE f = e /\ Running(n)' /\ InReceipt(e) /\ \A k : AskedBy(out, e, k)
      <4>1. ~ Offered(f) /\ ~ Answered(f) /\ ~ Noted(f) /\ ~ AtRest(f)
        BY <3>5 DEF Places, OnePlace
      <4>2. ASSUME NEW k PROVE Numbers(f, k)
        <5>1. \A p \in Nodes : AskedBy(chan[p], f, k) /\ AskedBy(tql[p], f, k)
          BY <4>1, AskedNowhere
        <5> QED
          BY <4>1, <5>1 DEF Numbers, AtRest, Active, RestStates
      <4>3. PICK k : k = Len(part'[f])
        OBVIOUS
      <4>4. Numbers(f, k)'
        BY <3>5, <4>2, ReceiveNumbers
      <4> QED
        BY <4>3, <4>4 DEF Numbers
    <3>6. f = e => Running(n)'
      BY <1>2, <2>4 DEF Receiver, Running
    <3> QED
      BY <1>2, <3>2, <3>4, <3>5, <3>6
  <2> QED
    BY <2>2, <2>3, <2>4 DEF Offsets
<1>6. ASSUME NEW f \in Files \ {e}, Resumes(f)' PROVE Resumes(f)
  <2>1. SUFFICES ASSUME Numbers(f, 0) PROVE FALSE
    BY DEF Resumes
  <2>2. Numbers(f, 0)'
    BY <2>1, ReceiveNumbers
  <2> QED
    BY <1>6, <2>2 DEF Resumes
<1>7. ASSUME NEW p \in Nodes \ {n}, Running(p)' PROVE Receives(p)'
  <2>1. Receives(p)
    BY <1>4, <1>7, <1>3 DEF Layout, Running
  <2>2. ASSUME NEW f \in Files, Owner[f] = Peer[p]
        PROVE  part'[f] = part[f] /\ f # e /\ (Resumes(f)' => Resumes(f))
    <3>1. f # e
      BY <1>2, <2>2
    <3> QED
      BY <1>6, <3>1
  <2>3. rname[p] \in Files => part'[rname[p]] = part[rname[p]]
    BY <2>2 DEF Layout, FromPeer
  <2>4. RxState[p] = "RxReceD" => rname[p] \in Files
    BY <1>2 DEF TypeOK, RxTypes
  <2>5. \A f \in Own(Peer[p]) \ {rname[p]} : Resumes(f)' => rxbytes[p] # Len(part'[f])
    BY <2>1, <2>2 DEF Receives, Own
  <2> QED
    BY <1>3, <2>1, <2>3, <2>4, <2>5 DEF Receives, Own
<1> QED
  BY <1>5, <1>6, <1>7

LEMMA AnswerAsks ==
  ASSUME NEW f \in Files, NEW c \in {"GET", "GOT", "SKIP"}, NEW k \in Nat,
         NEW g, NEW l, c = "GET" /\ f = g => Begins(g, k, l)
  PROVE  AskedBy(<<About(c, f, k)>>, g, l)
<1>1. About(c, f, k) \in Frame
  BY AboutTyped
<1>2. About(c, f, k).cmd = c /\ About(c, f, k).file = f /\ About(c, f, k).num = k
  BY DEF About
<1> QED
  BY <1>1, <1>2, AskedOne

\* A step that leaves the files alone.
LEMMA ReceiveQuietly ==
  ASSUME Places, Layout, NEW n \in Nodes, Receive(n), Answers(n, <<>>),
         UNCHANGED <<part, rname, rxpos, rxbytes, rxfp>>,
         \A p \in Nodes : infp'[p] \in {infp[p], NoFile},
         \/ ~ Running(n)'
         \/ infp' = infp /\ (RxState'[n] = "RxReceD" => RxState[n] = "RxReceD")
  PROVE  Layout'
<1>1. /\ \A f \in Files : Offsets(f)'
      /\ \A f \in Files : Resumes(f)' => Resumes(f)
      /\ \A p \in Nodes \ {n} : Running(p)' => Receives(p)'
  <2>1. \A f \in Files : \A l : AskedBy(<<>>, f, l)
    BY AskedNone
  <2>2. \A f \in Files \ {NoFile} : part'[f] = part[f] /\ \A l : AskedBy(<<>>, f, l)
    BY <2>1
  <2>3. NoFile \in Files \cup {NoFile} /\ NoFile \notin Files
    OBVIOUS
  <2>4. /\ \A f \in Files : Offsets(f)'
        /\ \A f \in Files \ {NoFile} : Resumes(f)' => Resumes(f)
        /\ \A p \in Nodes \ {n} : Running(p)' => Receives(p)'
    BY <2>2, <2>3, NoFrames, ReceiveOthers
  <2> QED
    BY <2>3, <2>4
<1>2. FromPeer'
  BY DEF Layout, FromPeer
<1>3. ASSUME Running(n)' PROVE Receives(n)'
  <2>1. PICK o \in Seq(Frame) : ReceiveShape(n, o)
    BY ReceiveHasShape DEF Places
  <2>2. Receives(n)
    BY <2>1 DEF ReceiveShape, Layout, Running
  <2> QED
    BY <1>1, <1>3, <2>2 DEF Receives, Own
<1> QED
  BY <1>1, <1>2, <1>3 DEF Layout

LEMMA QuietFrames ==
  ASSUME Places, Layout, NEW n \in Nodes,
         ReceiveIgnored(n) \/ ReceiveMessage(n) \/ ReceiveError(n) \/ ReceiveEOB(n)
  PROVE  Layout'
<1>1. TypeOK /\ Receive(n)
  BY DEF Places, Receive
<1> USE DEF TypeOK, RxTypes, LineTypes
<1>2. Answers(n, <<>>)
  <2>1. CASE ReceiveEOB(n)
    <3>1. chan' = [chan EXCEPT ![n] = Tail(chan[n])]
      BY <2>1 DEF ReceiveEOB
    <3>2. chan[Peer[n]] \o <<>> = chan[Peer[n]] /\ Peer[n] # n /\ Peer[n] \in Nodes
      BY <1>1
    <3> QED
      BY <1>1, <3>1, <3>2 DEF Answers
  <2>2. CASE ReceiveIgnored(n) \/ ReceiveMessage(n) \/ ReceiveError(n)
    BY <1>1, <2>2, AnswerSent DEF ReceiveIgnored, ReceiveMessage, ReceiveError
  <2> QED
    BY <2>1, <2>2
<1>3. UNCHANGED <<part, rname, rxpos, rxbytes, rxfp, infp>>
  BY DEF ReceiveIgnored, ReceiveMessage, ReceiveError, ReceiveEOB, rxVars
<1>4. RxState'[n] = "RxReceD" => RxState[n] = "RxReceD"
  BY <1>1 DEF ReceiveIgnored, ReceiveMessage, ReceiveError, ReceiveEOB, NewBatch, rxVars
<1> QED
  BY <1>1, <1>2, <1>3, <1>4, ReceiveQuietly

\* The stream that is missing was not used.
LEMMA StaleFrame ==
  ASSUME Places, Layout, NEW n \in Nodes, ReceiveOnStaleStream(n)
  PROVE  Layout'
<1>1. TypeOK /\ Receive(n) /\ Answers(n, <<>>)
  BY AnswerSent DEF Places, Receive, ReceiveOnStaleStream
<1> USE DEF TypeOK, RxTypes, ProcessTypes
<1>2. UNCHANGED <<part, rname, rxpos, rxbytes, rxfp, RxState>>
  BY DEF ReceiveOnStaleStream
<1>3. infp'[n] \in {infp[n], NoFile} /\ \A p \in Nodes \ {n} : infp'[p] = infp[p]
  BY <1>1 DEF ReceiveOnStaleStream, StaleStream, Opened
<1>4. CASE Goto(n, "Exit")
  <2>1. ~ Running(n)'
    BY <1>1, <1>4 DEF Goto, Running
  <2> QED
    BY <1>1, <1>2, <1>3, <2>1, ReceiveQuietly
<1>5. CASE Stream(n) = "closed"
  <2>1. RxState[n] # "RxReceD"
    BY <1>5 DEF Stream
  <2>2. infp' = infp
    BY <1>1, <2>1 DEF ReceiveOnStaleStream, StaleStream, Opened
  <2> QED
    BY <1>1, <1>2, <1>3, <2>2, ReceiveQuietly
<1> QED
  BY <1>4, <1>5 DEF ReceiveOnStaleStream

\* M_FILE comes for a file of which tmp has what the offset says, and it is
\* that file which is opened.
LEMMA AcceptFacts ==
  ASSUME Places, Layout, NEW n \in Nodes, AcceptFile(n)
  PROVE  LET e == In(n).file IN
         /\ e \in Files /\ Owner[e] = Peer[n] /\ In(n).num \in Nat
         /\ Begins(e, In(n).num, Len(part[e]))
         /\ TmpSize(n) = Len(part[e]) /\ Opened(n) = e
<1> DEFINE e == In(n).file
<1>1. /\ FtState[n] = "Switch" /\ chan[n] # <<>> /\ In(n).cmd = "FILE"
      /\ Reused(n) => Stream(n) = "open"
  BY DEF AcceptFile, Polled
<1>2. chan[n] \in Seq(Frame) /\ Peer[n] \in Nodes /\ Peer[Peer[n]] = n
  BY DEF Places, TypeOK, LineTypes
<1>3. In(n) \in Frame /\ In(n) = Head(chan[n])
  BY <1>1, <1>2, QueueTyped DEF In
<1>4. e \in Files /\ In(n).num \in Nat
  BY <1>1, <1>3, FrameFile
<1>5. Owner[e] = Peer[n] /\ Receiver(e) = n /\ Len(part[e]) \in Nat
  <2>1. Owned(chan[n], n)
    BY DEF Places, LineOwned
  <2>2. Owner[e] = Peer[n]
    BY <1>1, <1>2, <1>3, <2>1, OwnedTail
  <2>3. part[e] \in Seq(Files \X Nat)
    BY <1>4 DEF Places, TypeOK, RxTypes
  <2> QED
    BY <1>2, <2>2, <2>3 DEF Receiver
<1>6. Running(n) /\ Receives(n) /\ Numbers(e, Len(part[e]))
  BY <1>1, <1>4, <1>5 DEF Running, Layout, Offsets
<1>7. \A l : AskedBy(chan[n], e, l) => Begins(e, In(n).num, l)
  BY <1>1, <1>2, <1>3, AskedTail
<1>8. Begins(e, In(n).num, Len(part[e]))
  BY <1>6, <1>7 DEF Numbers
<1>9. CASE Reused(n)
  <2>1. In(n).num # 0 /\ In(n).num = rxbytes[n] /\ In(n).num = Len(part[e])
    BY <1>8, <1>9 DEF Reused, Begins
  <2>2. Resumes(e)
    BY <1>7, <2>1 DEF Resumes, Numbers, Begins
  <2>3. e = rname[n]
    BY <1>4, <1>5, <1>6, <2>1, <2>2 DEF Receives, Own
  <2>4. RxState[n] # "RxReceD" /\ rxfp[n] = "open"
    BY <1>1, <1>9 DEF Stream
  <2>5. infp[n] = e
    BY <1>6, <2>3, <2>4 DEF Receives
  <2> QED
    BY <1>4, <1>5, <1>8, <1>9, <2>1, <2>4, <2>5 DEF TmpSize, Opened
<1>10. CASE ~ Reused(n)
  BY <1>4, <1>5, <1>8, <1>10 DEF TmpSize, Opened
<1> QED
  BY <1>9, <1>10

\* What all answers to M_FILE have in common.
LEMMA AcceptLayout ==
  ASSUME Places, Layout, ResumesApart, NEW n \in Nodes, Receive(n), AcceptFile(n),
         NEW out \in Seq(Frame), Answers(n, out),
         \A f \in Files \ {In(n).file} : \A l : AskedBy(out, f, l),
         AskedBy(out, In(n).file, Len(part[In(n).file])),
         CanStore(n) \/ CannotStore(n)
           \/ (rxfp'[n] \in {"null", "open"} /\ infp' = [infp EXCEPT ![n] = Opened(n)]),
         RxState'[n] = "RxReceD" =>
           /\ rxfp'[n] = "open" /\ In(n).num = Len(part[In(n).file])
           /\ In(n).num < Size[In(n).file],
         Len(part[In(n).file]) < Size[In(n).file] /\ "refuse" \notin Faults
           => rxfp'[n] = "open"
  PROVE  Layout'
<1> DEFINE e == In(n).file
<1>1. /\ e \in Files /\ Owner[e] = Peer[n] /\ In(n).num \in Nat
      /\ TmpSize(n) = Len(part[e]) /\ Opened(n) = e
  BY AcceptFacts
<1>2. TypeOK /\ TypeOK' /\ chan[n] # <<>> /\ In(n) = Head(chan[n]) /\ In(n).cmd = "FILE"
  BY ReceiveTyped DEF Places, AcceptFile, Polled, In
<1>3. /\ part' = part /\ rname'[n] = e /\ rxpos'[n] = In(n).num
      /\ rxbytes'[n] = Len(part[e])
      /\ \A p \in Nodes \ {n} : rname'[p] = rname[p]
  BY <1>1, <1>2 DEF AcceptFile, TypeOK, RxTypes
<1>4. /\ \A p \in Nodes \ {n} : infp'[p] = infp[p]
      /\ infp'[n] \in {e, NoFile}
      /\ rxfp'[n] = "open" => infp'[n] = e
  BY <1>1, <1>2 DEF CanStore, CannotStore, TypeOK, RxTypes
<1>5. /\ \A f \in Files : Offsets(f)'
      /\ \A f \in Files \ {e} : Resumes(f)' => Resumes(f)
      /\ \A p \in Nodes \ {n} : Running(p)' => Receives(p)'
  <2>1. \A f \in Files \ {e} : part'[f] = part[f] /\ \A l : AskedBy(out, f, l)
    BY <1>3
  <2>2. Len(part'[e]) <= Size[e] /\ part'[e] = part[e]
    BY <1>1, <1>3 DEF Layout, Offsets
  <2> QED
    BY <1>1, <2>1, <2>2, ReceiveOthers
<1>6. FromPeer'
  BY <1>1, <1>3, <1>4 DEF Layout, FromPeer
<1>7. Receives(n)'
  <2>1. RxState'[n] = "RxReceD" =>
          /\ rxfp'[n] = "open"
          /\ rxpos'[n] = Len(part'[rname'[n]])
          /\ rxpos'[n] < Size[rname'[n]]
    BY <1>3
  <2>2. rxfp'[n] = "open" => rname'[n] \in Files /\ infp'[n] = rname'[n]
    BY <1>1, <1>3, <1>4
  <2>3. \A f \in Own(Peer[n]) \ {rname'[n]} : Resumes(f)' => rxbytes'[n] # Len(part'[f])
    BY <1>2, <1>3, <1>5 DEF ResumesApart, Own
  <2>4. "refuse" \notin Faults /\ rxbytes'[n] < Size[rname'[n]] => rxfp'[n] = "open"
    BY <1>3
  <2> QED
    BY <2>1, <2>2, <2>3, <2>4 DEF Receives, Own
<1> QED
  BY <1>5, <1>6, <1>7 DEF Layout

LEMMA FileFrame ==
  ASSUME Places, Layout, ResumesApart, NEW n \in Nodes,
         \/ ReceiveKnownFile(n) \/ ReceivePartial(n) \/ ReceiveRefused(n)
         \/ ReceiveFile(n) \/ ReceiveLowDisk(n)
  PROVE  Layout'
<1> DEFINE e == In(n).file
           num == In(n).num
<1>1. TypeOK /\ Receive(n) /\ AcceptFile(n)
  BY DEF Places, Receive, ReceiveKnownFile, ReceivePartial, ReceiveRefused, ReceiveFile,
     ReceiveLowDisk
<1>2. /\ e \in Files /\ num \in Nat
      /\ Begins(e, num, Len(part[e]))
      /\ TmpSize(n) = Len(part[e])
  BY <1>1, AcceptFacts
<1>3. Len(part[e]) \in Nat /\ Len(part[e]) <= Size[e] /\ Size[e] \in Nat
  <2>1. part[e] \in Seq(Files \X Nat)
    BY <1>1, <1>2 DEF TypeOK, RxTypes
  <2> QED
    BY <1>2, <2>1, FilesAssumption DEF Layout, Offsets
<1>4. CannotStore(n) => "refuse" \in Faults
  BY DEF CannotStore, Fault
<1>5. CanStore(n) => rxfp'[n] = "open"
  BY <1>1 DEF CanStore, TypeOK, RxTypes
<1>6. \A f, l : AskedBy(<<>>, f, l)
  BY AskedNone
<1>7. CASE ReceiveKnownFile(n)
  <2> DEFINE out == <<About("GOT", e, 0)>>
  <2>1. out \in Seq(Frame) /\ \A f, l : AskedBy(out, f, l)
    BY <1>2, AnswersTyped, AnswerAsks
  <2>2. Answers(n, out) /\ RxState'[n] = "RxWaitF" /\ rxfp'[n] = "null"
        /\ infp' = [infp EXCEPT ![n] = Opened(n)]
    BY <1>1, <1>7, AnswerSent DEF ReceiveKnownFile, TypeOK, RxTypes
  <2>3. Len(part[e]) = Size[e]
    BY <1>2, <1>7 DEF ReceiveKnownFile, AlreadyGot
  <2>4. ~ (Len(part[e]) < Size[e])
    BY <1>3, <2>3
  <2>5. /\ \A f \in Files \ {e} : \A l : AskedBy(out, f, l)
        /\ AskedBy(out, e, Len(part[e]))
    BY <2>1
  <2> HIDE DEF out
  <2> QED
    BY <1>1, <2>1, <2>2, <2>4, <2>5, AcceptLayout
<1>8. CASE ReceivePartial(n)
  <2> DEFINE out == <<About("GET", e, Len(part[e]))>>
  <2>1. Len(part[e]) < Size[e]
    BY <1>2, <1>8 DEF ReceivePartial, IsPartial
  <2>2. out \in Seq(Frame) /\ \A f \in Files \ {e} : \A l : AskedBy(out, f, l)
    BY <1>2, <1>3, AnswersTyped, AnswerAsks
  <2>3. AskedBy(out, e, Len(part[e]))
    BY <1>2, <1>3, <2>1, AnswerAsks DEF Begins
  <2>4. Answers(n, out) /\ RxState'[n] = "RxWaitF" /\ (CanStore(n) \/ CannotStore(n))
    BY <1>1, <1>2, <1>8, AnswerSent DEF ReceivePartial, TypeOK, RxTypes
  <2> QED
    BY <1>1, <1>4, <1>5, <2>2, <2>3, <2>4, AcceptLayout
<1>9. CASE ReceiveRefused(n)
  <2> DEFINE out == <<About("SKIP", e, 0)>>
  <2>1. out \in Seq(Frame) /\ \A f, l : AskedBy(out, f, l)
    BY <1>2, AnswersTyped, AnswerAsks
  <2>2. Answers(n, out) /\ RxState'[n] = "RxWaitF" /\ CannotStore(n)
    BY <1>1, <1>9, AnswerSent DEF ReceiveRefused, TypeOK, RxTypes
  <2> QED
    BY <1>1, <1>4, <2>1, <2>2, AcceptLayout
<1>10. CASE ReceiveFile(n)
  <2>1. Answers(n, <<>>) /\ CanStore(n)
    BY <1>1, <1>10, AnswerSent DEF ReceiveFile
  <2>2. num = Len(part[e]) /\ num < Size[e]
    BY <1>2, <1>3, <1>10, FilesAssumption DEF ReceiveFile, AlreadyGot, IsPartial, Begins
  <2> QED
    BY <1>1, <1>5, <1>6, <2>1, <2>2, NoFrames, AcceptLayout
<1>11. CASE ReceiveLowDisk(n)
  <2> DEFINE out == <<Command("BSY")>>
  <2>1. Command("BSY") \in Frame /\ Command("BSY").cmd = "BSY"
    BY CommandTyped DEF Command
  <2>2. out \in Seq(Frame) /\ \A f, l : AskedBy(out, f, l)
    BY <2>1, AskedOne
  <2>3. Answers(n, out) /\ RxState'[n] = "RxDone" /\ rxfp'[n] = "open"
        /\ infp' = [infp EXCEPT ![n] = Opened(n)]
    BY <1>1, <1>11, AnswerSent DEF ReceiveLowDisk, TypeOK, RxTypes
  <2> QED
    BY <1>1, <2>2, <2>3, AcceptLayout
<1> QED
  BY <1>7, <1>8, <1>9, <1>10, <1>11

\* A block is written to the stream of the file in receipt, behind what tmp has.
LEMMA WriteFacts ==
  ASSUME Places, Layout, NEW n \in Nodes, WriteBlock(n)
  PROVE  LET e == rname[n] IN
         /\ e \in Files /\ Owner[e] = Peer[n] /\ infp[n] = e /\ InReceipt(e)
         /\ rxpos[n] = Len(part[e]) /\ rxpos[n] < Size[e]
         /\ part[e] \in Seq(Files \X Nat)
         /\ Content(n) \in Seq(Files \X Nat) /\ Len(Content(n)) = Len(part[e]) + 1
         /\ Content(n) = Append(part[e], <<In(n).file, In(n).num>>)
         /\ rxfp[n] = "open"
<1> DEFINE e == rname[n]
<1>1. /\ FtState[n] = "Switch" /\ chan[n] # <<>> /\ In(n).cmd = "DATA"
      /\ RxState[n] = "RxReceD" /\ rxfp[n] = "open"
  BY DEF WriteBlock, Polled
<1>2. e \in Files /\ Owner[e] = Peer[n] /\ Receiver(e) = n
  BY <1>1 DEF Places, TypeOK, RxTypes, NodeOwned, Receiver
<1>3. infp[n] = e /\ rxpos[n] = Len(part[e]) /\ rxpos[n] < Size[e]
  BY <1>1 DEF Layout, Running, Receives
<1>4. InReceipt(e)
  BY <1>1, <1>2 DEF InReceipt
<1>5. In(n) \in Frame /\ part[e] \in Seq(Files \X Nat)
  BY <1>1, <1>2, QueueTyped DEF In, Places, TypeOK, LineTypes, RxTypes
<1>6. <<In(n).file, In(n).num>> \in Files \X Nat
  BY <1>1, <1>5, FrameFile
<1> QED
  BY <1>1, <1>2, <1>3, <1>4, <1>5, <1>6 DEF Content

LEMMA WriteLayout ==
  ASSUME Places, Layout, NEW n \in Nodes, Receive(n), WriteBlock(n),
         NEW out \in Seq(Frame), Answers(n, out),
         \A f, l : AskedBy(out, f, l),
         NEW s \in Seq(Files \X Nat), part' = [part EXCEPT ![rname[n]] = s],
         Len(s) <= Size[rname[n]],
         \A p \in Nodes : infp'[p] \in {infp[p], NoFile},
         RxState'[n] = "RxReceD" /\ Running(n)' =>
           /\ rxfp' = rxfp
           /\ Len(s) = rxpos[n] + 1 /\ Len(s) < Size[rname[n]],
         rxfp'[n] = "open" /\ Running(n)' => RxState'[n] = "RxReceD" /\ infp' = infp,
         Len(s) \in {0, Size[rname[n]]} \/ RxState'[n] = "RxReceD"
  PROVE  Layout'
<1> DEFINE e == rname[n]
<1>1. /\ e \in Files /\ Owner[e] = Peer[n] /\ infp[n] = e /\ InReceipt(e)
      /\ rxfp[n] = "open"
  BY WriteFacts
<1>2. TypeOK /\ rxpos'[n] = rxpos[n] + 1 /\ rname' = rname /\ rxbytes' = rxbytes
      /\ part'[e] = s /\ \A f \in Files \ {e} : part'[f] = part[f]
  BY <1>1 DEF Places, WriteBlock, TypeOK, RxTypes
<1>3. /\ \A f \in Files : Offsets(f)'
      /\ \A f \in Files \ {e} : Resumes(f)' => Resumes(f)
      /\ \A p \in Nodes \ {n} : Running(p)' => Receives(p)'
  BY SMTT(30), <1>1, <1>2, ReceiveOthers
<1>4. FromPeer'
  BY <1>2 DEF Layout, FromPeer
<1>5. ASSUME Running(n)' PROVE Receives(n)'
  <2>1. Running(n)
    BY DEF WriteBlock, Polled, Running
  <2>2. RxState'[n] = "RxReceD" =>
          /\ rxfp'[n] = "open"
          /\ rxpos'[n] = Len(part'[e])
          /\ rxpos'[n] < Size[e]
    BY <1>1, <1>2, <1>5
  <2>3. rxfp'[n] = "open" => e \in Files /\ infp'[n] = e
    BY <1>1, <1>5
  <2>4. \A f \in Own(Peer[n]) \ {e} : Resumes(f)' => rxbytes'[n] # Len(part'[f])
    BY <1>2, <1>3, <2>1 DEF Layout, Receives, Own
  <2>5. rxbytes'[n] # 0 /\ rxbytes'[n] = Len(part'[e]) /\ rxbytes'[n] < Size[e]
          => rxfp'[n] = "open"
    <3>1. Size[e] \in Nat
      BY <1>1, FilesAssumption
    <3> QED
      BY <1>2, <2>2, <3>1
  <2> QED
    BY <1>2, <2>2, <2>3, <2>4, <2>5 DEF Receives, Own
<1> QED
  BY <1>3, <1>4, <1>5 DEF Layout

LEMMA DataFrame ==
  ASSUME Places, Layout, NEW n \in Nodes,
         \/ ReceiveBlock(n) \/ ReceiveLastBlock(n) \/ ReceiveCrcError(n)
         \/ ReceiveCrcAbort(n) \/ KilledInClose(n)
  PROVE  Layout'
<1> DEFINE e == rname[n]
<1>1. TypeOK /\ Receive(n) /\ WriteBlock(n)
  BY DEF Places, Receive, ReceiveBlock, ReceiveLastBlock, ReceiveCrcError, ReceiveCrcAbort,
     KilledInClose, RejectFile, CloseFile
<1>2. /\ e \in Files /\ infp[n] = e
      /\ rxpos[n] = Len(part[e]) /\ rxpos[n] < Size[e]
      /\ Content(n) \in Seq(Files \X Nat) /\ Len(Content(n)) = Len(part[e]) + 1
      /\ rxfp[n] = "open"
  BY <1>1, WriteFacts
<1>3. Len(Content(n)) = rxpos[n] + 1 /\ rxpos[n] \in Nat /\ Size[e] \in Nat
  BY <1>1, <1>2, FilesAssumption DEF TypeOK, RxTypes
<1>4. <<>> \in Seq(Files \X Nat) /\ Len(<<>>) = 0
  OBVIOUS
<1>5. CASE ReceiveBlock(n)
  <2>1. Answers(n, <<>>) /\ \A f, l : AskedBy(<<>>, f, l)
    BY <1>1, <1>5, AnswerSent, AskedNone DEF ReceiveBlock
  <2>2. part' = [part EXCEPT ![e] = Content(n)] /\ UNCHANGED <<RxState, rxfp, infp>>
        /\ RxState[n] = "RxReceD"
    BY <1>2, <1>5 DEF ReceiveBlock, WriteBlock
  <2>3. Len(Content(n)) < Size[e]
    BY <1>2, <1>3, <1>5 DEF ReceiveBlock, IsLast
  <2>4. PICK s \in Seq(Files \X Nat) : s = Content(n)
    BY <1>2
  <2>5. /\ part' = [part EXCEPT ![e] = s] /\ Len(s) <= Size[e] /\ Len(s) < Size[e]
        /\ Len(s) = rxpos[n] + 1
        /\ \A p \in Nodes : infp'[p] \in {infp[p], NoFile}
        /\ rxfp' = rxfp /\ infp' = infp /\ RxState'[n] = "RxReceD"
    BY <1>3, <2>2, <2>3, <2>4
  <2> QED
    BY <1>1, <2>1, <2>5, NoFrames, WriteLayout
\* The others close the file.
<1>6. ASSUME CloseFile(n), NEW out \in Seq(Frame), Answer(n, out),
             \A f, l : AskedBy(out, f, l),
             NEW s \in {<<>>, Content(n)}, part' = [part EXCEPT ![e] = s],
             ~ Running(n)' \/ (RxState'[n] # "RxReceD" /\ rxfp'[n] # "open"),
             RxState'[n] # "RxReceD" \/ ~ Running(n)'
      PROVE  Layout'
  <2>1. Len(Content(n)) = Size[e]
    BY <1>3, <1>6 DEF CloseFile, IsLast
  <2>2. \A p \in Nodes : infp'[p] \in {infp[p], NoFile}
    BY <1>1, <1>6 DEF CloseFile, TypeOK, RxTypes
  <2>3. s \in Seq(Files \X Nat) /\ Len(s) \in {0, Size[e]} /\ Len(s) <= Size[e]
    <3>1. s = <<>> \/ s = Content(n)
      OBVIOUS
    <3>2. CASE s = <<>>
      BY <1>3, <1>4, <3>2
    <3>3. CASE s = Content(n)
      BY <1>2, <1>3, <2>1, <3>3
    <3> QED
      BY <3>1, <3>2, <3>3
  <2>4. Answers(n, out)
    BY <1>1, <1>6, AnswerSent
  <2> QED
    BY <1>1, <1>6, <2>2, <2>3, <2>4, WriteLayout
<1>7. ASSUME NEW c \in {"GOT", "SKIP"}
      PROVE  /\ <<About(c, e, 0)>> \in Seq(Frame)
             /\ \A f, l : AskedBy(<<About(c, e, 0)>>, f, l)
  BY <1>2, AnswersTyped, AnswerAsks
<1>8. CASE ReceiveLastBlock(n)
  <2>1. /\ CloseFile(n) /\ Answer(n, <<About("GOT", e, 0)>>)
        /\ \E s \in {<<>>, Content(n)} : part' = [part EXCEPT ![e] = s]
        /\ RxState'[n] = "RxWaitF" /\ rxfp'[n] = "closed"
    BY <1>1, <1>2, <1>8 DEF ReceiveLastBlock, TypeOK, RxTypes
  <2> QED
    BY <1>6, <1>7, <2>1
<1>9. CASE ReceiveCrcError(n)
  <2>1. /\ CloseFile(n) /\ Answer(n, <<About("SKIP", e, 0)>>)
        /\ part' = [part EXCEPT ![e] = <<>>]
        /\ RxState'[n] = "RxWaitF" /\ rxfp'[n] = "closed"
    BY <1>1, <1>2, <1>9 DEF ReceiveCrcError, RejectFile, TypeOK, RxTypes
  <2> QED
    BY <1>6, <1>7, <2>1
<1>10. CASE ReceiveCrcAbort(n)
  <2>1. /\ CloseFile(n) /\ Answer(n, <<Command("ERR")>>)
        /\ part' = [part EXCEPT ![e] = <<>>]
        /\ RxState'[n] = "RxDone" /\ rxfp'[n] = "null"
    BY <1>1, <1>2, <1>10 DEF ReceiveCrcAbort, RejectFile, TypeOK, RxTypes
  <2>2. Command("ERR") \in Frame /\ Command("ERR").cmd = "ERR"
    BY CommandTyped DEF Command
  <2>3. <<Command("ERR")>> \in Seq(Frame) /\ \A f, l : AskedBy(<<Command("ERR")>>, f, l)
    BY <2>2, AskedOne
  <2> QED
    BY <1>6, <2>1, <2>3
<1>11. CASE KilledInClose(n)
  <2>1. /\ CloseFile(n) /\ Answer(n, <<>>)
        /\ part' = [part EXCEPT ![e] = Content(n)]
        /\ ~ Running(n)'
    BY <1>1, <1>2, <1>11 DEF KilledInClose, Goto, Running, TypeOK, ProcessTypes
  <2> QED
    BY <1>6, <2>1, NoFrames, AskedNone
<1> QED
  BY <1>5, <1>8, <1>9, <1>10, <1>11
------------------------------------------------------------------------------
\* The transmitter.

LEMMA TransmitQueues ==
  ASSUME Places, NEW n \in Nodes, Transmit(n), NEW out \in Seq(Frame),
         chan' = chan \/ Send(n, out)
  PROVE  Queues(out)
<1>1. PICK o \in Seq(Frame) : TransmitShape(n, o)
  BY TransmitHasShape
<1>2. Peer[n] \in Nodes /\ chan \in [Nodes -> Seq(Frame)] /\ tql \in [Nodes -> Seq(Frame)]
  BY DEF Places, TypeOK, LineTypes, TxTypes
<1>3. \A p \in Nodes : chan'[p] \in {chan[p], chan[p] \o out}
  <2>1. CASE chan' = chan
    BY <2>1
  <2>2. CASE Send(n, out)
    <3> DEFINE q == IF link = "reset" THEN chan[Peer[n]] ELSE chan[Peer[n]] \o out
    <3>1. chan' = [chan EXCEPT ![Peer[n]] = q] /\ q \in {chan[Peer[n]], chan[Peer[n]] \o out}
      BY <2>2 DEF Send
    <3> HIDE DEF q
    <3>2. ASSUME NEW p \in Nodes PROVE [chan EXCEPT ![Peer[n]] = q][p] \in {chan[p], chan[p] \o out}
      <4>1. CASE p = Peer[n]
        BY <1>2, <3>1, <4>1, Zenon
      <4>2. CASE p # Peer[n]
        BY <1>2, <4>2, Zenon
      <4> QED
        BY <4>1, <4>2
    <3> QED
      BY <3>1, <3>2, Zenon
  <2> QED
    BY <2>1, <2>2
<1>4. \A p \in Nodes : tql'[p] = tql[p] \/ (tql[p] # <<>> /\ tql'[p] = Tail(tql[p]))
  BY <1>1, <1>2 DEF TransmitShape
<1> QED
  BY <1>3, <1>4 DEF Queues

\* What is sent: the offset of an M_FILE is what the list has.
LEMMA TransmitAsks ==
  ASSUME Places, NEW n \in Nodes, Transmit(n), NEW f \in Files, NEW l, Numbers(f, l),
         state[f] = "NotListed" => offset[f] = 0
  PROVE  \E out \in Seq(Frame) : (chan' = chan \/ Send(n, out)) /\ AskedBy(out, f, l)
<1>1. TypeOK /\ NoFile \notin Files
  BY DEF Places
<1> USE DEF TypeOK, TxTypes
\* M_NUL TRF before a command.
<1>2. /\ Traffic(n) \in Seq(Frame) /\ AskedBy(Traffic(n), f, l)
      /\ \A x \in Frame : Append(Traffic(n), x) = Traffic(n) \o <<x>>
  <2>1. Command("NUL") \in Frame /\ Command("NUL").cmd = "NUL"
    BY CommandTyped DEF Command
  <2>2. <<Command("NUL")>> \in Seq(Frame) /\ AskedBy(<<Command("NUL")>>, f, l)
    BY <2>1, AskedOne
  <2>3. AskedBy(<<>>, f, l)
    BY AskedNone
  <2>4. Traffic(n) \in Seq(Frame)
    BY <2>2, NoFrames DEF Traffic
  <2>5. AskedBy(Traffic(n), f, l)
    BY <2>2, <2>3 DEF Traffic
  <2> QED
    BY <2>4, <2>5, AppendConcat
<1>3. ASSUME NEW x \in Frame, x.cmd \in {"FILE", "GET"} /\ x.file = f => Begins(f, x.num, l)
      PROVE  /\ <<x>> \in Seq(Frame) /\ AskedBy(<<x>>, f, l)
             /\ Append(Traffic(n), x) \in Seq(Frame) /\ AskedBy(Append(Traffic(n), x), f, l)
  <2>1. <<x>> \in Seq(Frame) /\ AskedBy(<<x>>, f, l)
    BY <1>3, AskedOne
  <2>2. AskedBy(Traffic(n) \o <<x>>, f, l)
    BY <1>2, <2>1, AskedConcat
  <2>3. Append(Traffic(n), x) = Traffic(n) \o <<x>>
    BY <1>2
  <2>4. Append(Traffic(n), x) \in Seq(Frame)
    BY <1>2
  <2> QED
    BY <2>1, <2>2, <2>3, <2>4
<1>4. CASE chan' = chan
  BY <1>4, NoFrames, AskedNone
<1>5. ASSUME NEW e \in Own(n), TransmitFile(n, e)
      PROVE  \E out \in Seq(Frame) : Send(n, out) /\ AskedBy(out, f, l)
  <2>1. e \in Files /\ Owner[e] = n /\ offset[e] \in Nat
    BY <1>1 DEF Own
  <2> DEFINE x == About("FILE", e, offset[e])
  <2>2. x \in Frame /\ x.cmd = "FILE" /\ x.file = e /\ x.num = offset[e]
    BY <2>1, AboutTyped DEF About
  <2>3. f = e => Begins(f, offset[e], l)
    <3>1. Active(n) /\ Filelist(n)[e] = "NoState"
      BY <1>5 DEF TransmitFile, GetNextFile, Transmits, Sendable, Active
    <3>2. state[e] \in {"NoState", "NotListed"}
      BY <2>1, <3>1 DEF Filelist, Places, DroppedEmpty
    <3> QED
      BY <2>1, <3>1, <3>2 DEF Numbers, Begins, Sender
  <2>4. Send(n, Append(Traffic(n), x))
    BY <1>5 DEF TransmitFile, SendCommand
  <2> HIDE DEF x
  <2> QED
    BY <1>3, <2>2, <2>3, <2>4
<1>6. ASSUME NEW e \in Own(n), SkipFile(n, e)
      PROVE  \E out \in Seq(Frame) : Send(n, out) /\ AskedBy(out, f, l)
  BY <1>2, <1>6 DEF SkipFile, SendCommand
<1>7. CASE TransmitEOB(n)
  <2>1. Command("EOB") \in Frame /\ Command("EOB").cmd = "EOB"
    BY CommandTyped DEF Command
  <2>2. Send(n, Append(Traffic(n), Command("EOB")))
    BY <1>7 DEF TransmitEOB, SendCommand
  <2> QED
    BY <1>3, <2>1, <2>2
<1>8. CASE TransmitBlock(n) \/ TransmitEndOfFile(n)
  <2>1. cursend[n] \in Files /\ txpos[n] \in Nat
    BY <1>1, <1>8 DEF TransmitBlock, TransmitEndOfFile, ReadBlock, Transmits
  <2> DEFINE x == About("DATA", cursend[n], txpos[n] + 1)
  <2>2. x \in Frame /\ x.cmd = "DATA"
    BY <2>1, AboutTyped DEF About
  <2>3. chan' = chan \/ Send(n, <<x>>)
    BY <1>1, <1>8 DEF TransmitBlock, TransmitEndOfFile
  <2> HIDE DEF x
  <2> QED
    BY <1>3, <1>4, <2>2, <2>3
<1>9. CASE \/ ProcessGet(n) \/ ProcessGot(n) \/ ProcessSkip(n)
           \/ EndSession(n) \/ TransmitNewBatch(n) \/ ClearSentList(n) \/ WaitForRemote(n)
  BY <1>4, <1>9 DEF ProcessGet, ProcessGot, ProcessSkip, ProcessQueue, lineVars, EndSession,
     TransmitNewBatch, ClearSentList, WaitForRemote, WaitLastAck
<1> QED
  BY <1>5, <1>6, <1>7, <1>8, <1>9 DEF Transmit

\* The offsets on the list: M_GET changes one, a new list starts with 0.
LEMMA TransmitList ==
  ASSUME Places, NEW n \in Nodes, Transmit(n), NEW f \in Files, NEW l,
         state[f] = "NotListed" => offset[f] = 0
  PROVE  /\ state'[f] = "NotListed" => offset'[f] = 0
         /\ Numbers(f, l) /\ Active(Sender(f))' /\ state'[f] = "NoState"
              => Begins(f, offset'[f], l)
<1>1. TypeOK
  BY DEF Places
<1> USE DEF TypeOK, TxTypes
<1>2. Active(Sender(f))' => Active(Sender(f))
  <2>1. PICK o \in Seq(Frame) : TransmitShape(n, o)
    BY TransmitHasShape
  <2>2. Sender(f) \in Nodes
    BY DEF Sender
  <2> QED
    BY <2>1, <2>2 DEF TransmitShape, Active, Sender
<1>3. ASSUME offset'[f] = offset[f],
             state'[f] \in {"NoState", "NotListed"} => offset[f] = 0 \/ state'[f] = state[f]
      PROVE  /\ state'[f] = "NotListed" => offset'[f] = 0
             /\ Numbers(f, l) /\ Active(Sender(f))' /\ state'[f] = "NoState"
                  => Begins(f, offset'[f], l)
  BY <1>2, <1>3 DEF Numbers, Begins, Sender
<1>4. Filelist(n)[f] = state[f] \/ offset[f] = 0
  BY DEF Filelist, Places, DroppedEmpty
<1>5. ASSUME NEW e \in Own(n), TransmitFile(n, e) \/ SkipFile(n, e)
      PROVE  /\ offset'[f] = offset[f]
             /\ state'[f] \in {"NoState", "NotListed"} => offset[f] = 0 \/ state'[f] = state[f]
  BY <1>4, <1>5 DEF TransmitFile, SkipFile, Filelist
<1>6. CASE TransmitEOB(n)
  BY <1>3, <1>4, <1>6 DEF TransmitEOB
<1>7. CASE TransmitBlock(n) \/ TransmitEndOfFile(n) \/ WaitForRemote(n)
  BY <1>1, <1>3, <1>7 DEF TransmitBlock, TransmitEndOfFile, ReadBlock, WaitForRemote
<1>8. CASE ProcessGet(n)
  <2>1. tql[n] # <<>> /\ Message(n).cmd = "GET" /\ tql[n] \in Seq(Frame)
    BY <1>1, <1>8 DEF ProcessGet, ProcessQueue
  <2>2. CASE Message(n).file = f /\ OnList(n)
    <3>1. offset'[f] = Message(n).num /\ state'[f] = "NoState"
      BY <1>1, <1>8, <2>2 DEF ProcessGet, Mark
    <3>2. Numbers(f, l) => Begins(f, Message(n).num, l)
      BY <2>1, <2>2, AskedTail DEF Numbers, Message
    <3> QED
      BY <3>1, <3>2
  <2>3. CASE ~ (Message(n).file = f /\ OnList(n))
    BY <1>1, <1>3, <1>8, <2>3 DEF ProcessGet, Mark
  <2> QED
    BY <2>2, <2>3
<1>9. CASE ProcessGot(n) \/ ProcessSkip(n)
  BY <1>1, <1>3, <1>9 DEF ProcessGot, ProcessSkip, Mark
<1>10. CASE EndSession(n) \/ TransmitNewBatch(n) \/ ClearSentList(n)
  <2>1. ClearFilelist(n)
    BY <1>10 DEF EndSession, TransmitNewBatch, ClearSentList, NewBatch
  <2>2. CASE Owner[f] = n
    BY <2>1, <2>2 DEF ClearFilelist
  <2>3. CASE Owner[f] # n
    BY <1>3, <2>1, <2>3 DEF ClearFilelist
  <2> QED
    BY <2>2, <2>3
<1> QED
  BY <1>3, <1>5, <1>6, <1>7, <1>8, <1>9, <1>10 DEF Transmit

LEMMA TransmitLayout ==
  ASSUME Places, Layout, NEW n \in Nodes, Transmit(n)
  PROVE  Layout'
<1>1. PICK o \in Seq(Frame) : TransmitShape(n, o)
  BY TransmitHasShape
<1>2. TypeOK /\ UNCHANGED <<rname, rxpos, rxbytes, rxfp, infp, part>>
  BY TransmitKeeps DEF Places
<1>3. \A p \in Nodes : /\ Running(p)' => Running(p)
                       /\ RxState'[p] = "RxReceD" => RxState[p] = "RxReceD"
  BY <1>1 DEF TransmitShape, Running
<1>4. ASSUME NEW f \in Files, NEW l, Numbers(f, l) PROVE Numbers(f, l)'
  <2>1. state[f] = "NotListed" => offset[f] = 0
    BY DEF Layout, Offsets
  <2>2. PICK out \in Seq(Frame) : (chan' = chan \/ Send(n, out)) /\ AskedBy(out, f, l)
    BY <1>4, <2>1, TransmitAsks
  <2>3. Queues(out)
    BY <1>2, <2>2, TransmitQueues
  <2>4. \A p \in Nodes : AskedBy(chan'[p], f, l) /\ AskedBy(tql'[p], f, l)
    BY <1>2, <1>4, <2>2, <2>3, AskedStep DEF Numbers
  <2>5. Active(Sender(f))' /\ state'[f] = "NoState" => Begins(f, offset'[f], l)
    BY <1>4, <2>1, TransmitList
  <2> QED
    BY <2>4, <2>5 DEF Numbers, Sender
<1>5. ASSUME NEW f \in Files PROVE Resumes(f)' => Resumes(f)
  <2>1. Numbers(f, 0) => Numbers(f, 0)'
    BY <1>4
  <2> QED
    BY <2>1 DEF Resumes
<1>6. ASSUME NEW f \in Files PROVE Offsets(f)'
  <2>1. Offsets(f) /\ Receiver(f) \in Nodes
    BY DEF Layout, Receiver
  <2>2. ASSUME Running(Receiver(f))' PROVE Numbers(f, Len(part[f]))'
    <3>1. PICK l : l = Len(part[f])
      OBVIOUS
    <3>2. Numbers(f, l)'
      BY <1>3, <1>4, <2>1, <2>2, <3>1 DEF Offsets, Receiver, Running
    <3> QED
      BY <1>2, <3>1, <3>2 DEF Numbers
  <2>3. state'[f] = "NotListed" => offset'[f] = 0
    BY <2>1, TransmitList DEF Offsets
  <2> QED
    BY <1>2, <2>1, <2>2, <2>3 DEF Offsets
<1>7. ASSUME NEW p \in Nodes, Running(p)' PROVE Receives(p)'
  BY <1>2, <1>3, <1>5, <1>7 DEF Layout, Receives, Own
<1> QED
  BY <1>2, <1>6, <1>7 DEF Layout, FromPeer
------------------------------------------------------------------------------
\* The other steps.

LEMMA QuietNumbers ==
  ASSUME Places, NEW f \in Files, NEW l, Numbers(f, l),
         LoseLine \/ UNCHANGED vars \/ \E n \in Nodes : End(n) \/ Kill(n)
  PROVE  Numbers(f, l)'
<1>1. TypeOK
  BY DEF Places
<1>2. /\ \A p \in Nodes : chan'[p] \in {chan[p], <<>>} /\ tql'[p] = tql[p]
      /\ UNCHANGED <<state, offset>> \/ \E n \in Nodes : ClearFilelist(n)
  BY DEF LoseLine, vars, lineVars, txVars, End, Hangup, Timeout, Deinit, Kill, Idle
<1>3. Active(Sender(f))' => Active(Sender(f))
  <2>1. Sender(f) \in Nodes
    BY DEF Sender
  <2> QED
    BY <1>1, <2>1 DEF LoseLine, vars, End, Hangup, Timeout, Deinit, Kill, Failure, Goto,
       Active, Sender, TypeOK, ProcessTypes
<1>4. \A p \in Nodes : AskedBy(chan'[p], f, l) /\ AskedBy(tql'[p], f, l)
  BY <1>2, AskedNone DEF Numbers
<1>5. Active(Sender(f))' /\ state'[f] = "NoState" => Begins(f, offset'[f], l)
  BY <1>2, <1>3 DEF ClearFilelist, Numbers
<1> QED
  BY <1>4, <1>5 DEF Numbers, Sender

LEMMA QuietLayout ==
  ASSUME Places, Layout,
         LoseLine \/ UNCHANGED vars \/ \E n \in Nodes : End(n) \/ Kill(n)
  PROVE  Layout'
<1>1. TypeOK
  BY DEF Places
<1>2. UNCHANGED <<RxState, rname, rxpos, rxbytes, rxfp, infp>>
  BY DEF LoseLine, vars, rxVars, End, Hangup, Timeout, Deinit, Kill, Idle
<1>3. \A p \in Nodes : Running(p)' => Running(p)
  BY <1>1 DEF LoseLine, vars, End, Hangup, Timeout, Deinit, Kill, Failure, Goto, Running,
     TypeOK, ProcessTypes
<1>4. \A f \in Files : state'[f] = "NotListed" => offset'[f] = 0
  <2>1. UNCHANGED <<state, offset>> \/ \E n \in Nodes : ClearFilelist(n)
    BY DEF LoseLine, vars, txVars, End, Hangup, Timeout, Deinit, Kill, Idle
  <2> QED
    BY <2>1 DEF Layout, Offsets, ClearFilelist
\* A kill cuts off a part that nobody receives any more.
<1>5. ASSUME NEW f \in Files
      PROVE  /\ Len(part'[f]) <= Size[f]
             /\ Running(Receiver(f))' => part'[f] = part[f]
  <2>1. Len(part[f]) <= Size[f] /\ part[f] \in Seq(Files \X Nat) /\ Size[f] \in Nat
    BY <1>1, FilesAssumption DEF Layout, Offsets, TypeOK, RxTypes
  <2>2. CASE part'[f] = part[f]
    BY <2>1, <2>2
  <2>3. CASE part'[f] # part[f]
    <3>1. PICK n \in Nodes : Kill(n)
      BY <2>3 DEF LoseLine, vars, rxVars, End, Hangup, Timeout, Deinit, Idle
    <3>2. PICK k \in rxbytes[n]..Len(part[infp[n]]) :
            /\ infp[n] # NoFile
            /\ part' = [part EXCEPT ![infp[n]] = SubSeq(part[infp[n]], 1, k)]
      BY <2>3, <3>1 DEF Kill
    <3>3. infp[n] = f /\ part'[f] = SubSeq(part[f], 1, k) /\ rxbytes[n] \in Nat
      BY <1>1, <2>3, <3>2 DEF TypeOK, RxTypes
    <3>4. k \in Nat /\ k <= Len(part[f])
      BY <2>1, <3>2, <3>3
    <3>5. Len(SubSeq(part[f], 1, k)) = k
      BY <2>1, <3>4
    <3>6. ~ Running(Receiver(f))'
      <4>1. Owner[f] = Peer[n]
        BY <3>3 DEF Layout, FromPeer
      <4> QED
        BY <1>1, <3>1, <4>1 DEF Kill, Goto, Running, Receiver, TypeOK, ProcessTypes
    <3> QED
      BY <2>1, <3>3, <3>4, <3>5, <3>6
  <2> QED
    BY <2>2, <2>3
<1>6. ASSUME NEW f \in Files PROVE Offsets(f)'
  <2>1. ASSUME Running(Receiver(f))' PROVE Numbers(f, Len(part[f]))'
    <3>1. PICK l : l = Len(part[f])
      OBVIOUS
    <3>2. Receiver(f) \in Nodes
      BY DEF Receiver
    <3>3. Numbers(f, l)'
      BY <1>3, <2>1, <3>1, <3>2, QuietNumbers DEF Layout, Offsets, Receiver, Running
    <3>4. part'[f] = part[f]
      BY <1>5, <2>1
    <3> QED
      BY <3>1, <3>3, <3>4 DEF Numbers
  <2> QED
    BY <1>4, <1>5, <2>1 DEF Offsets
<1>7. ASSUME NEW p \in Nodes, Running(p)' PROVE Receives(p)'
  <2>1. \A f \in Files : Resumes(f)' => Resumes(f)
    BY QuietNumbers DEF Resumes
  <2>2. \A f \in Files : Owner[f] = Peer[p] => part'[f] = part[f]
    BY <1>5, <1>7 DEF Receiver, Running
  <2>3. Running(p) /\ Receives(p)
    BY <1>3, <1>7 DEF Layout
  <2>4. rname[p] \in Files => part'[rname[p]] = part[rname[p]]
    BY <2>2 DEF Layout, FromPeer
  <2>5. RxState[p] = "RxReceD" => rname[p] \in Files
    BY <1>1 DEF TypeOK, RxTypes
  <2>6. \A f \in Own(Peer[p]) \ {rname[p]} : Resumes(f)' => rxbytes[p] # Len(part'[f])
    BY <2>1, <2>2, <2>3 DEF Receives, Own
  <2> QED
    BY <1>2, <2>3, <2>4, <2>5, <2>6 DEF Receives, Own
<1> QED
  BY <1>2, <1>6, <1>7 DEF Layout, FromPeer

LEMMA RedialLayout ==
  ASSUME Places, Layout, Redial
  PROVE  Layout'
<1>1. \A p \in Nodes : /\ chan'[p] = <<>> /\ tql'[p] = <<>>
                       /\ RxState'[p] = "RxWaitF" /\ rname'[p] = NoFile
                       /\ rxfp'[p] = "null" /\ infp'[p] = NoFile
  BY DEF Redial
<1>2. /\ \A f \in Files : offset'[f] = 0
      /\ part' = part
  BY DEF Redial
<1>3. ASSUME NEW f \in Files, NEW l PROVE Numbers(f, l)'
  BY <1>1, <1>2, AskedNone DEF Numbers, Begins
<1>4. \A f \in Files : Offsets(f)'
  <2> SUFFICES ASSUME NEW f \in Files PROVE Offsets(f)'
    OBVIOUS
  <2>1. PICK l : l = Len(part[f])
    OBVIOUS
  <2>2. Numbers(f, l)'
    BY <1>3
  <2>3. Numbers(f, Len(part[f]))'
    BY <1>2, <2>1, <2>2 DEF Numbers
  <2> QED
    BY <1>2, <2>3 DEF Layout, Offsets
<1>5. \A p \in Nodes : Receives(p)'
  BY <1>1, <1>3 DEF Receives, Resumes, Own
<1> QED
  BY <1>1, <1>4, <1>5 DEF Layout, FromPeer

LEMMA InitLayout == NoneLonger /\ Init => Layout
<1> SUFFICES ASSUME NoneLonger, Init PROVE Layout
  OBVIOUS
<1>1. /\ \A p \in Nodes : /\ chan[p] = <<>> /\ tql[p] = <<>>
                          /\ RxState[p] = "RxWaitF" /\ rname[p] = NoFile
                          /\ rxfp[p] = "null" /\ infp[p] = NoFile
      /\ \A f \in Files : offset[f] = 0 /\ part[f] \in Leftover[f]
  BY DEF Init
<1>2. ASSUME NEW f \in Files, NEW l PROVE Numbers(f, l)
  BY <1>1, AskedNone DEF Numbers, Begins
<1>3. \A f \in Files : Offsets(f)
  BY <1>1, <1>2 DEF Offsets, NoneLonger
<1>4. \A p \in Nodes : Receives(p)
  BY <1>1, <1>2 DEF Receives, Resumes, Own
<1> QED
  BY <1>1, <1>3, <1>4 DEF Layout, FromPeer

LEMMA NextLayout == Places /\ Layout /\ ResumesApart /\ [Next]_vars => Layout'
<1> SUFFICES ASSUME Places, Layout, ResumesApart, [Next]_vars PROVE Layout'
  OBVIOUS
<1>1. ASSUME NEW n \in Nodes, Receive(n) PROVE Layout'
  BY <1>1, QuietFrames, StaleFrame, FileFrame, DataFrame DEF Receive
<1> QED
  BY <1>1, TransmitLayout, QuietLayout, RedialLayout DEF Next

LEMMA LayoutRight == Places /\ Layout => RightStream
BY DEF Layout, Receives, RightStream

\* M_FILE with an offset finds the stream still open.
LEMMA LayoutNotStale == Places /\ Layout /\ "refuse" \notin Faults => NoStaleStream
<1> SUFFICES ASSUME Places, Layout, "refuse" \notin Faults, NEW n \in Nodes, StaleStream(n)
             PROVE  FALSE
  BY DEF NoStaleStream
<1> DEFINE e == In(n).file
           num == In(n).num
<1>1. /\ FtState[n] = "Switch" /\ chan[n] # <<>> /\ In(n).cmd = "FILE"
      /\ num # 0 /\ num = rxbytes[n] /\ Stream(n) # "open"
  BY DEF StaleStream, Polled, Reused
<1>2. chan[n] \in Seq(Frame) /\ Peer[n] \in Nodes /\ Peer[Peer[n]] = n
  BY DEF Places, TypeOK, LineTypes
<1>3. In(n) \in Frame /\ In(n) = Head(chan[n])
  BY <1>1, <1>2, QueueTyped DEF In
<1>4. e \in Files /\ num \in Nat
  BY <1>1, <1>3, FrameFile
<1>5. Owner[e] = Peer[n] /\ Receiver(e) = n /\ Offered(e)
  <2>1. Owned(chan[n], n)
    BY DEF Places, LineOwned
  <2>2. Owner[e] = Peer[n]
    BY <1>1, <1>2, <1>3, <2>1, OwnedTail
  <2>3. Has(chan[n], {"FILE"}, e)
    BY <1>1, <1>2, <1>3, HasTail
  <2> QED
    BY <1>2, <2>2, <2>3 DEF Receiver, Offered
<1>6. Receives(n) /\ Numbers(e, Len(part[e]))
  BY <1>1, <1>4, <1>5 DEF Running, Layout, Offsets
<1>7. \A l : AskedBy(chan[n], e, l) => Begins(e, num, l)
  BY <1>1, <1>2, <1>3, AskedTail
<1>8. num = Len(part[e]) /\ num < Size[e] /\ Resumes(e)
  BY <1>1, <1>6, <1>7 DEF Numbers, Begins, Resumes
<1>9. e = rname[n]
  BY <1>1, <1>4, <1>5, <1>6, <1>8 DEF Receives, Own
<1>10. rxfp[n] = "open"
  BY <1>1, <1>4, <1>6, <1>8, <1>9 DEF Receives
<1>11. RxState[n] # "RxReceD"
  BY <1>4, <1>5, <1>9 DEF Places, OnePlace, InReceipt
<1> QED
  BY <1>1, <1>10, <1>11 DEF Stream

\* Which holds when each mailer has one file to send.
OneEach == \A f, g \in Files : Owner[f] = Owner[g] => f = g

THEOREM AloneApart ==
  ASSUME OneEach
  PROVE  Spec => []ResumesApart
<1>1. Places => ResumesApart
  <2> SUFFICES ASSUME Places, NEW n \in Nodes, chan[n] # <<>>, Head(chan[n]).cmd = "FILE",
                      NEW f \in Own(Peer[n]) \ {Head(chan[n]).file}
               PROVE  FALSE
    BY DEF ResumesApart
  <2>1. chan[n] \in Seq(Frame) /\ Owned(chan[n], n)
    BY DEF Places, TypeOK, LineTypes, LineOwned
  <2>2. Head(chan[n]).file \in Files /\ Owner[Head(chan[n]).file] = Peer[n]
    BY <2>1, QueueTyped, FrameFile, OwnedTail
  <2> QED
    BY <2>2 DEF OneEach, Own
<1> QED
  BY <1>1, OneAtATime, PTL

\* The receiver never writes to the stream of another file, as long as no file
\* is offered while another of as many blocks is about to be resumed: the
\* offset that bopenfile() takes for the stream's is then that of the file.
THEOREM OwnStream ==
  ASSUME NoneLonger
  PROVE  Spec /\ []ResumesApart => []RightStream
<1>1. Init => Layout
  BY InitLayout
<1>2. Places /\ Layout /\ ResumesApart /\ [Next]_vars => Layout'
  BY NextLayout
<1> QED
  BY <1>1, <1>2, OneAtATime, LayoutRight, PTL DEF Spec

\* And the stream exists, unless a file could not be opened or stored.
THEOREM StreamExists ==
  ASSUME NoneLonger, "refuse" \notin Faults
  PROVE  Spec /\ []ResumesApart => []NoStaleStream
<1>1. Init => Layout
  BY InitLayout
<1>2. Places /\ Layout /\ ResumesApart /\ [Next]_vars => Layout'
  BY NextLayout
<1>3. Places /\ Layout => NoStaleStream
  BY LayoutNotStale
<1> QED
  BY <1>1, <1>2, <1>3, OneAtATime, PTL DEF Spec

--------------------------------------------------------------------------------
(***************************************************************************)
(* What is in tmp and in tempinbound.                                      *)
(***************************************************************************)

\* The blocks of s are the first ones of f.
PrefixOf(s, f) == \A i \in 1..Len(s) : s[i] = <<f, i>>

Prefixes == \A f \in Files : PrefixOf(part[f], f)

\* No older version of the file is in tmp.
NoneOlder == \A f \in Files : \A p \in Leftover[f] : Len(p) <= Size[f] /\ PrefixOf(p, f)

LEMMA WholePrefix ==
  ASSUME NEW f \in Files, NEW s \in Seq(Files \X Nat), PrefixOf(s, f), Len(s) = Size[f]
  PROVE  s = Whole(f)
<1>1. DOMAIN s = 1..Size[f] /\ \A i \in 1..Size[f] : s[i] = Whole(f)[i]
  BY FilesAssumption DEF PrefixOf, Whole
<1>2. Whole(f) = [i \in 1..Size[f] |-> <<f, i>>] /\ s = [i \in 1..Size[f] |-> s[i]]
  BY <1>1 DEF Whole
<1> QED
  BY <1>1, <1>2 DEF Whole

LEMMA PrefixBegins ==
  ASSUME NEW f \in Files, NEW s \in Seq(Files \X Nat), PrefixOf(s, f), Len(s) <= Size[f]
  PROVE  s = SubSeq(Whole(f), 1, Len(s))
<1>1. Size[f] \in Nat /\ Len(s) \in Nat
  BY FilesAssumption
<1>2. Whole(f) \in Seq({f} \X Nat) /\ Len(Whole(f)) = Size[f]
  <2>1. \A i \in 1..Size[f] : <<f, i>> \in {f} \X Nat
    BY <1>1
  <2> DEFINE k == Size[f]
  <2> HIDE DEF k
  <2>2. k \in Nat /\ \A i \in 1..k : <<f, i>> \in {f} \X Nat
    BY <1>1, <2>1 DEF k
  <2>3. [i \in 1..k |-> <<f, i>>] \in Seq({f} \X Nat) /\ Len([i \in 1..k |-> <<f, i>>]) = k
    BY <2>2
  <2> QED
    BY <2>3 DEF Whole, k
<1>3. \A i \in 1..Size[f] : Whole(f)[i] = <<f, i>>
  BY DEF Whole
<1> DEFINE w == Whole(f)
<1> HIDE DEF w
<1>4. w \in Seq({f} \X Nat) /\ Len(w) = Size[f] /\ \A i \in 1..Size[f] : w[i] = <<f, i>>
  BY <1>2, <1>3 DEF w
<1>5. SubSeq(w, 1, Len(s)) = [i \in 1..Len(s) |-> w[i]]
  BY <1>1, <1>4
<1>6. s = [i \in 1..Len(s) |-> s[i]]
  OBVIOUS
<1>7. ASSUME NEW i \in 1..Len(s) PROVE s[i] = w[i]
  <2>1. i \in 1..Size[f]
    BY <1>1
  <2> QED
    BY <1>4, <2>1 DEF PrefixOf
<1>8. s = SubSeq(w, 1, Len(s))
  BY <1>5, <1>6, <1>7
<1> QED
  BY <1>8 DEF w

LEMMA PrefixAppend ==
  ASSUME NEW f, NEW s \in Seq(Files \X Nat), PrefixOf(s, f), NEW x \in Files \X Nat,
         x = <<f, Len(s) + 1>>
  PROVE  PrefixOf(Append(s, x), f)
BY DEF PrefixOf

LEMMA PrefixCut ==
  ASSUME NEW f, NEW s \in Seq(Files \X Nat), PrefixOf(s, f), NEW k \in 0..Len(s)
  PROVE  PrefixOf(SubSeq(s, 1, k), f)
<1>1. Len(SubSeq(s, 1, k)) = k /\ \A i \in 1..k : SubSeq(s, 1, k)[i] = s[i]
  OBVIOUS
<1> QED
  BY <1>1 DEF PrefixOf

\* The block that is written is the next one of the file.
LEMMA NextBlock ==
  ASSUME Places, Layout, LineStraight, NEW n \in Nodes, WriteBlock(n)
  PROVE  In(n).file = rname[n] /\ In(n).num = Len(part[rname[n]]) + 1
<1>1. /\ FtState[n] = "Switch" /\ chan[n] # <<>> /\ In(n).cmd = "DATA"
      /\ RxState[n] = "RxReceD" /\ In(n) = Head(chan[n])
  BY DEF WriteBlock, Polled, In
<1>2. PICK f \in Files \cup {NoFile}, k \in Nat, g \in Files \cup {NoFile}, m \in Nat :
        /\ Flow(chan[n], f, k, g, m)
        /\ f = rname[n] /\ k = rxpos[n]
  BY <1>1 DEF LineStraight, Straight, Active
<1>3. chan[n] \in Seq(Frame)
  BY DEF Places, TypeOK, LineTypes
<1>4. In(n).file = f /\ In(n).num = k + 1
  <2> DEFINE q == chan[n]
  <2>1. q \in Seq(Frame) /\ q # <<>> /\ Flow(q, f, k, g, m)
    BY <1>1, <1>2, <1>3
  <2>2. Head(q).cmd = "DATA" /\ In(n) = Head(q)
    BY <1>1
  <2> HIDE DEF q
  <2> QED
    BY <2>1, <2>2, FlowTail
<1>5. rxpos[n] = Len(part[rname[n]])
  BY WriteFacts
<1> QED
  BY <1>2, <1>4, <1>5

\* What a step does to the part of a file.
LEMMA ReceivePart ==
  ASSUME Places, Layout, NEW n \in Nodes, Receive(n), NEW f \in Files
  PROVE  \/ part'[f] = part[f]
         \/ WriteBlock(n) /\ f = rname[n] /\ part'[f] \in {<<>>, Content(n)}
<1> DEFINE Written == /\ WriteBlock(n)
                      /\ \/ part' = [part EXCEPT ![infp[n]] = Content(n)]
                         \/ part' = [part EXCEPT ![infp[n]] = <<>>]
<1> SUFFICES part' = part \/ Written
  <2>1. WriteBlock(n) => infp[n] = rname[n]
    BY WriteFacts
  <2> QED
    BY <2>1 DEF Places, TypeOK, RxTypes
<1>1. CASE \/ ReceiveIgnored(n) \/ ReceiveMessage(n) \/ ReceiveError(n) \/ ReceiveEOB(n)
           \/ ReceiveOnStaleStream(n)
  BY <1>1 DEF ReceiveIgnored, ReceiveMessage, ReceiveError, ReceiveEOB,
     ReceiveOnStaleStream, rxVars
<1>2. CASE \/ ReceiveKnownFile(n) \/ ReceivePartial(n) \/ ReceiveRefused(n)
           \/ ReceiveFile(n) \/ ReceiveLowDisk(n)
  BY <1>2 DEF ReceiveKnownFile, ReceivePartial, ReceiveRefused, ReceiveFile,
     ReceiveLowDisk, AcceptFile
<1>3. CASE ReceiveBlock(n)
  BY <1>3 DEF ReceiveBlock
<1>4. CASE ReceiveLastBlock(n) \/ KilledInClose(n)
  BY <1>4 DEF ReceiveLastBlock, KilledInClose, CloseFile
<1>5. CASE ReceiveCrcError(n) \/ ReceiveCrcAbort(n)
  BY <1>5 DEF ReceiveCrcError, ReceiveCrcAbort, RejectFile, CloseFile
<1> QED
  BY <1>1, <1>2, <1>3, <1>4, <1>5 DEF Receive

LEMMA PartStep ==
  ASSUME Places, Layout, [Next]_vars, NEW f \in Files
  PROVE  \/ part'[f] = part[f]
         \/ \E n \in Nodes : /\ Receive(n) /\ WriteBlock(n) /\ f = rname[n]
                             /\ part'[f] \in {<<>>, Content(n)}
         \/ \E n \in Nodes : /\ Kill(n) /\ infp[n] = f
                             /\ \E k \in rxbytes[n]..Len(part[f]) : part'[f] = SubSeq(part[f], 1, k)
<1>1. TypeOK
  BY DEF Places
<1> USE DEF TypeOK, RxTypes
<1>2. ASSUME NEW n \in Nodes, Receive(n)
      PROVE  \/ part'[f] = part[f]
             \/ WriteBlock(n) /\ f = rname[n] /\ part'[f] \in {<<>>, Content(n)}
  BY <1>2, ReceivePart
<1>3. ASSUME NEW n \in Nodes, Transmit(n) PROVE part' = part
  BY <1>1, <1>3, TransmitKeeps
<1>4. CASE LoseLine \/ Redial \/ UNCHANGED vars \/ \E n \in Nodes : End(n)
  BY <1>4 DEF LoseLine, Redial, vars, rxVars, End, Hangup, Timeout, Deinit, Idle
<1>5. ASSUME NEW n \in Nodes, Kill(n)
      PROVE  \/ part'[f] = part[f]
             \/ /\ infp[n] = f
                /\ \E k \in rxbytes[n]..Len(part[f]) : part'[f] = SubSeq(part[f], 1, k)
  <2>1. CASE infp[n] = NoFile
    BY <1>5, <2>1 DEF Kill
  <2>2. CASE infp[n] # NoFile
    <3>1. PICK k \in rxbytes[n]..Len(part[infp[n]]) :
            part' = [part EXCEPT ![infp[n]] = SubSeq(@, 1, k)]
      BY <1>5, <2>2 DEF Kill
    <3>2. part'[f] = IF infp[n] = f THEN SubSeq(part[f], 1, k) ELSE part[f]
      BY <1>1, <3>1
    <3>3. infp[n] = f => k \in rxbytes[n]..Len(part[f])
      BY <3>1
    <3> QED
      BY <3>2, <3>3
  <2> QED
    BY <2>1, <2>2
<1> QED
  BY <1>2, <1>3, <1>4, <1>5 DEF Next

LEMMA PrefixStep ==
  ASSUME Places, Layout, LineStraight, Prefixes, [Next]_vars
  PROVE  Prefixes'
<1> SUFFICES ASSUME NEW f \in Files PROVE PrefixOf(part'[f], f)
  BY DEF Prefixes
<1>1. PrefixOf(part[f], f) /\ part[f] \in Seq(Files \X Nat)
  BY DEF Prefixes, Places, TypeOK, RxTypes
<1>2. PrefixOf(<<>>, f)
  BY DEF PrefixOf
<1>3. ASSUME NEW n \in Nodes, WriteBlock(n), f = rname[n], part'[f] = Content(n)
      PROVE  PrefixOf(part'[f], f)
  <2>1. Content(n) = Append(part[f], <<f, Len(part[f]) + 1>>)
    BY <1>3, NextBlock, WriteFacts
  <2>2. <<f, Len(part[f]) + 1>> \in Files \X Nat
    BY <1>1
  <2> QED
    BY SMTT(30), <1>1, <1>3, <2>1, <2>2, PrefixAppend
<1>4. ASSUME NEW n \in Nodes, NEW k \in rxbytes[n]..Len(part[f]), part'[f] = SubSeq(part[f], 1, k)
      PROVE  PrefixOf(part'[f], f)
  <2>1. k \in 0..Len(part[f])
    BY <1>1 DEF Places, TypeOK, RxTypes
  <2> QED
    BY <1>1, <1>4, <2>1, PrefixCut
<1> QED
  BY <1>1, <1>2, <1>3, <1>4, PartStep

LEMMA InitPrefixes == NoneOlder /\ Init => Prefixes
BY DEF NoneOlder, Init, Prefixes

LEMMA PrefixesThere == Places /\ Layout /\ Prefixes => PartIsPrefix
<1> SUFFICES ASSUME Places, Layout, Prefixes, NEW f \in Files
             PROVE  part[f] = SubSeq(Whole(f), 1, Len(part[f]))
  BY DEF PartIsPrefix
<1>1. part[f] \in Seq(Files \X Nat) /\ PrefixOf(part[f], f) /\ Len(part[f]) <= Size[f]
  BY DEF Places, TypeOK, RxTypes, Layout, Offsets, Prefixes
<1> QED
  BY <1>1, PrefixBegins

\* However often the transfer of a file is broken off, by whatever fault, and
\* resumed, what is in tmp is its beginning, without a gap or a repeat.
THEOREM PartsAreBeginnings ==
  ASSUME NoneOlder
  PROVE  Spec /\ []ResumesApart => []PartIsPrefix
<1>1. Init => Layout /\ Prefixes
  BY InitLayout, InitPrefixes DEF NoneLonger, NoneOlder
<1>2. Places /\ Layout /\ ResumesApart /\ [Next]_vars => Layout'
  BY NextLayout
<1>3. Places /\ Layout /\ LineStraight /\ Prefixes /\ [Next]_vars => Prefixes'
  BY PrefixStep
<1>4. Places /\ Layout /\ Prefixes => PartIsPrefix
  BY PrefixesThere
<1> QED
  BY <1>1, <1>2, <1>3, <1>4, OneAtATime, DataInOrder, PTL DEF Spec

--------------------------------------------------------------------------------
(***************************************************************************)
(* An M_GOT is sent only for a file that is on the receiver's disk, where  *)
(* it stays.                                                               *)
(***************************************************************************)

\* The remote has f: it has left the outbound, or M_GOT is under way to its
\* owner or waits there.
GotFor(f) ==
  \/ f \notin outbound
  \/ Has(chan[Sender(f)], {"GOT"}, f)
  \/ Has(tql[Sender(f)], {"GOT"}, f)

Stored(f) == tempin[f] = Whole(f) \/ part[f] = Whole(f)

GotStored == \A f \in Files : GotFor(f) => Stored(f)

\* The owner waits for an answer that nobody is going to give: nothing of f is
\* under way.
Stray(f) ==
  /\ f \in outbound
  /\ ~ AtRest(f) /\ ~ Offered(f) /\ ~ Answered(f) /\ ~ Noted(f)

\* What a kill may cut off an open file, it has received in this session.
FlushedOrStray ==
  \A n \in Nodes : \A f \in Files : Running(n) /\ infp[n] = f =>
    rxbytes[n] = Len(part[f]) \/ Stray(f)
------------------------------------------------------------------------------
\* Queues.

LEMMA HasStep ==
  ASSUME TypeOK, NEW out \in Seq(Frame), Queues(out), NEW C, NEW f, NEW p \in Nodes
  PROVE  /\ Has(chan'[p], C, f) => Has(chan[p], C, f) \/ Has(out, C, f)
         /\ Has(tql'[p], C, f) => Has(tql[p], C, f) \/ Has(chan[p], C, f)
<1>1. chan[p] \in Seq(Frame) /\ tql[p] \in Seq(Frame)
  BY DEF TypeOK, LineTypes, TxTypes
<1>2. ~ Has(<<>>, C, f)
  BY HasNone
<1>3. Has(chan'[p], C, f) => Has(chan[p], C, f) \/ Has(out, C, f)
  <2>1. Has(chan[p] \o out, C, f) => Has(chan[p], C, f) \/ Has(out, C, f)
    BY <1>1, HasConcat
  <2>2. chan[p] # <<>> => (Has(Tail(chan[p]), C, f) => Has(chan[p], C, f))
    BY <1>1, HasTail
  <2> QED
    BY <1>2, <2>1, <2>2 DEF Queues
<1>4. Has(tql'[p], C, f) => Has(tql[p], C, f) \/ Has(chan[p], C, f)
  <2>1. tql[p] # <<>> => (Has(Tail(tql[p]), C, f) => Has(tql[p], C, f))
    BY <1>1, HasTail
  <2>2. ASSUME chan[p] # <<>>, Has(Append(tql[p], Head(chan[p])), C, f)
        PROVE  Has(tql[p], C, f) \/ Has(chan[p], C, f)
    <3>1. Head(chan[p]) \in Frame
      BY <1>1, <2>2, QueueTyped
    <3>2. <<Head(chan[p])>> \in Seq(Frame)
      BY <3>1
    <3>3. Has(tql[p] \o <<Head(chan[p])>>, C, f)
      BY <1>1, <2>2, <3>1, AppendConcat
    <3>4. Has(tql[p], C, f) \/ Has(<<Head(chan[p])>>, C, f)
      BY <1>1, <3>2, <3>3, HasConcat
    <3>5. Has(<<Head(chan[p])>>, C, f) => Has(chan[p], C, f)
      BY <1>1, <2>2, <3>1, HasOne, HasTail
    <3> QED
      BY <3>4, <3>5
  <2> QED
    BY <1>2, <2>1, <2>2 DEF Queues
<1> QED
  BY <1>3, <1>4

\* The frames of a step of the transmitter.
LEMMA ShapeQueues ==
  ASSUME TypeOK, NEW n \in Nodes, NEW out \in Seq(Frame), TransmitShape(n, out)
  PROVE  Queues(out)
<1>1. Peer[n] \in Nodes /\ chan \in [Nodes -> Seq(Frame)] /\ tql \in [Nodes -> Seq(Frame)]
  BY DEF TypeOK, LineTypes, TxTypes
<1>2. \A p \in Nodes : chan'[p] \in {chan[p], chan[p] \o out}
  <2>1. \/ chan' = chan
        \/ chan' = [chan EXCEPT ![Peer[n]] = chan[Peer[n]] \o out]
    BY DEF TransmitShape
  <2>2. ASSUME NEW p \in Nodes
        PROVE  [chan EXCEPT ![Peer[n]] = chan[Peer[n]] \o out][p] \in {chan[p], chan[p] \o out}
    <3>1. CASE p = Peer[n]
      BY <1>1, <3>1, Zenon
    <3>2. CASE p # Peer[n]
      BY <1>1, <3>2, Zenon
    <3> QED
      BY <3>1, <3>2
  <2> QED
    BY <2>1, <2>2, Zenon
<1>3. \A p \in Nodes : tql'[p] = tql[p] \/ (tql[p] # <<>> /\ tql'[p] = Tail(tql[p]))
  <2>1. \/ tql' = tql
        \/ tql[n] # <<>> /\ tql' = [tql EXCEPT ![n] = Tail(tql[n])]
    BY DEF TransmitShape
  <2> QED
    BY SMTT(30), <1>1, <2>1
<1> QED
  BY <1>2, <1>3 DEF Queues

\* And of the steps that are neither the receiver's nor the transmitter's.
LEMMA OtherQueues ==
  ASSUME LoseLine \/ Redial \/ UNCHANGED vars \/ \E n \in Nodes : End(n) \/ Kill(n)
  PROVE  Queues(<<>>) /\ outbound' = outbound /\ tempin' = tempin
<1>1. \A p \in Nodes : chan'[p] \in {chan[p], <<>>} /\ tql'[p] \in {tql[p], <<>>}
  BY DEF LoseLine, Redial, vars, lineVars, txVars, End, Hangup, Timeout, Deinit, Kill, Idle
<1>2. outbound' = outbound /\ tempin' = tempin
  BY DEF LoseLine, Redial, vars, txVars, rxVars, End, Hangup, Timeout, Deinit, Kill, Idle
<1> QED
  BY <1>1, <1>2 DEF Queues
------------------------------------------------------------------------------
\* M_GOT.

\* A frame that is answered with out, which is M_GOT for these two only.
LEMMA ReceiveGots ==
  ASSUME Places, NEW n \in Nodes, Receive(n)
  PROVE  \E out \in Seq(Frame) :
           /\ Queues(out)
           /\ \A f \in Files : Has(out, {"GOT"}, f) =>
                \/ ReceiveKnownFile(n) /\ In(n).file = f
                \/ ReceiveLastBlock(n) /\ rname[n] = f
<1>1. TypeOK
  BY DEF Places
<1> DEFINE Fits(out) == \A f \in Files : Has(out, {"GOT"}, f) =>
                          \/ ReceiveKnownFile(n) /\ In(n).file = f
                          \/ ReceiveLastBlock(n) /\ rname[n] = f
<1>2. ASSUME NEW out \in Seq(Frame), Answers(n, out), Fits(out)
      PROVE  \E o \in Seq(Frame) : Queues(o) /\ Fits(o)
  BY <1>1, <1>2, ReceiveQueues
<1>3. \A f \in Files : ~ Has(<<>>, {"GOT"}, f)
  BY HasNone
<1>5. CASE Answer(n, <<>>)
  <2>1. Answers(n, <<>>) /\ Fits(<<>>)
    BY <1>1, <1>3, <1>5, AnswerSent
  <2> QED
    BY <1>2, <2>1, NoFrames
<1>6. CASE ReceiveEOB(n)
  <2>1. chan' = [chan EXCEPT ![n] = Tail(chan[n])]
    BY <1>6 DEF ReceiveEOB
  <2>2. chan[Peer[n]] \o <<>> = chan[Peer[n]] /\ Peer[n] # n /\ Peer[n] \in Nodes
    BY <1>1 DEF TypeOK, LineTypes
  <2>3. Answers(n, <<>>) /\ Fits(<<>>)
    BY <1>1, <1>3, <2>1, <2>2 DEF Answers, TypeOK, LineTypes
  <2> QED
    BY <1>2, <2>3, NoFrames
<1>7. ASSUME NEW x \in Frame, Answer(n, <<x>>),
             x.cmd = "GOT" => \/ ReceiveKnownFile(n) /\ In(n).file = x.file
                              \/ ReceiveLastBlock(n) /\ rname[n] = x.file
      PROVE  \E o \in Seq(Frame) : Queues(o) /\ Fits(o)
  <2>1. Answers(n, <<x>>)
    BY <1>1, <1>7, AnswerSent
  <2>2. <<x>> \in Seq(Frame)
    OBVIOUS
  <2>3. ASSUME NEW f \in Files, Has(<<x>>, {"GOT"}, f)
        PROVE  \/ ReceiveKnownFile(n) /\ In(n).file = f
               \/ ReceiveLastBlock(n) /\ rname[n] = f
    <3>1. x.cmd = "GOT" /\ x.file = f
      BY <2>3, HasOne
    <3> QED
      BY <1>7, <3>1
  <2> QED
    BY <1>2, <2>1, <2>2, <2>3
<1>8. CASE ReceiveKnownFile(n) \/ ReceivePartial(n) \/ ReceiveRefused(n)
  <2>1. chan[n] # <<>> /\ In(n).cmd = "FILE" /\ chan[n] \in Seq(Frame)
    BY <1>1, <1>8 DEF ReceiveKnownFile, ReceivePartial, ReceiveRefused, AcceptFile, Polled,
       TypeOK, LineTypes
  <2>2. In(n).file \in Files
    BY <2>1, QueueTyped, FrameFile DEF In
  <2>3. TmpSize(n) \in Nat
    BY <1>1, <2>2 DEF TmpSize, TypeOK, RxTypes
  <2>4. \A c \in {"GET", "GOT", "SKIP"} : \A k \in Nat :
          /\ About(c, In(n).file, k) \in Frame
          /\ About(c, In(n).file, k).cmd = c /\ About(c, In(n).file, k).file = In(n).file
    BY <2>2, AboutTyped DEF About
  <2>5. CASE ReceiveKnownFile(n)
    <3>1. Answer(n, <<About("GOT", In(n).file, 0)>>)
      BY <2>5 DEF ReceiveKnownFile
    <3> QED
      BY <1>7, <2>4, <2>5, <3>1
  <2>6. CASE ReceivePartial(n)
    <3>1. Answer(n, <<About("GET", In(n).file, TmpSize(n))>>)
      BY <2>6 DEF ReceivePartial
    <3> QED
      BY <1>7, <2>3, <2>4, <3>1
  <2>7. CASE ReceiveRefused(n)
    <3>1. Answer(n, <<About("SKIP", In(n).file, 0)>>)
      BY <2>7 DEF ReceiveRefused
    <3> QED
      BY <1>7, <2>4, <3>1
  <2> QED
    BY <1>8, <2>5, <2>6, <2>7
<1>9. CASE ReceiveLastBlock(n) \/ ReceiveCrcError(n)
  <2>1. rname[n] \in Files
    BY <1>1, <1>9 DEF ReceiveLastBlock, ReceiveCrcError, RejectFile, CloseFile, WriteBlock,
       TypeOK, RxTypes
  <2>2. \A c \in {"GET", "GOT", "SKIP"} :
          /\ About(c, rname[n], 0) \in Frame
          /\ About(c, rname[n], 0).cmd = c /\ About(c, rname[n], 0).file = rname[n]
    BY <2>1, AboutTyped DEF About
  <2>3. CASE ReceiveLastBlock(n)
    <3>1. Answer(n, <<About("GOT", rname[n], 0)>>)
      BY <2>3 DEF ReceiveLastBlock
    <3> QED
      BY <1>7, <2>2, <2>3, <3>1
  <2>4. CASE ReceiveCrcError(n)
    <3>1. Answer(n, <<About("SKIP", rname[n], 0)>>)
      BY <2>4 DEF ReceiveCrcError
    <3> QED
      BY <1>7, <2>2, <3>1
  <2> QED
    BY <1>9, <2>3, <2>4
<1>10. CASE ReceiveLowDisk(n) \/ ReceiveCrcAbort(n)
  <2>1. \E c \in {"BSY", "ERR"} : Answer(n, <<Command(c)>>)
    BY <1>10 DEF ReceiveLowDisk, ReceiveCrcAbort
  <2>2. \A c \in {"BSY", "ERR"} : Command(c) \in Frame /\ Command(c).cmd = c
    BY CommandTyped DEF Command
  <2> QED
    BY <1>7, <2>1, <2>2
<1>11. CASE \/ ReceiveIgnored(n) \/ ReceiveMessage(n) \/ ReceiveError(n)
            \/ ReceiveOnStaleStream(n) \/ ReceiveFile(n) \/ ReceiveBlock(n)
            \/ KilledInClose(n)
  <2>1. Answer(n, <<>>)
    BY <1>11 DEF ReceiveIgnored, ReceiveMessage, ReceiveError, ReceiveOnStaleStream,
       ReceiveFile, ReceiveBlock, KilledInClose
  <2> QED
    BY <1>5, <2>1
<1> QED
  BY <1>6, <1>8, <1>9, <1>10, <1>11 DEF Receive

\* A file leaves the outbound when M_GOT for it is at the head of the queue.
LEMMA GotLeaves ==
  ASSUME Places, NEW n \in Nodes, Transmit(n)
  PROVE  \/ outbound' = outbound
         \/ \E f \in Files : /\ outbound' = outbound \ {f}
                             /\ Has(tql[Sender(f)], {"GOT"}, f)
<1>1. CASE ProcessGot(n)
  <2>1. tql[n] # <<>> /\ Message(n).cmd = "GOT" /\ tql[n] \in Seq(Frame)
        /\ outbound' \in {outbound, outbound \ {Message(n).file}}
    BY <1>1 DEF ProcessGot, ProcessQueue, Places, TypeOK, TxTypes
  <2>2. Message(n).file \in Files /\ Owner[Message(n).file] = n
    BY <2>1, QueueHead
  <2>3. Has(tql[n], {"GOT"}, Message(n).file)
    BY <2>1, HasTail DEF Message
  <2> QED
    BY <2>1, <2>2, <2>3 DEF Sender
<1>2. CASE ~ ProcessGot(n)
  BY <1>2 DEF Transmit, TransmitFile, SkipFile, TransmitEOB, GetNextFile, TransmitBlock,
     TransmitEndOfFile, ReadBlock, ProcessGet, ProcessSkip, EndSession, TransmitNewBatch,
     ClearSentList, WaitForRemote, WaitLastAck
<1> QED
  BY <1>1, <1>2

LEMMA GotStep ==
  ASSUME Places, [Next]_vars, NEW f \in Files, GotFor(f)'
  PROVE  \/ GotFor(f)
         \/ \E n \in Nodes : ReceiveKnownFile(n) /\ In(n).file = f
         \/ \E n \in Nodes : ReceiveLastBlock(n) /\ rname[n] = f
<1>1. TypeOK /\ Sender(f) \in Nodes
  BY DEF Places, Sender
<1>2. ASSUME NEW out \in Seq(Frame), Queues(out)
      PROVE  GotFor(f) \/ f \notin outbound' \/ Has(out, {"GOT"}, f)
  <2>1. /\ Has(chan'[Sender(f)], {"GOT"}, f) =>
             Has(chan[Sender(f)], {"GOT"}, f) \/ Has(out, {"GOT"}, f)
        /\ Has(tql'[Sender(f)], {"GOT"}, f) =>
             Has(tql[Sender(f)], {"GOT"}, f) \/ Has(chan[Sender(f)], {"GOT"}, f)
    BY <1>1, <1>2, HasStep
  <2> QED
    BY <2>1 DEF GotFor, Sender
<1>3. ASSUME NEW n \in Nodes, Receive(n)
      PROVE  \/ GotFor(f)
             \/ ReceiveKnownFile(n) /\ In(n).file = f
             \/ ReceiveLastBlock(n) /\ rname[n] = f
  <2>1. PICK out \in Seq(Frame) :
          /\ Queues(out)
          /\ \A g \in Files : Has(out, {"GOT"}, g) =>
               \/ ReceiveKnownFile(n) /\ In(n).file = g
               \/ ReceiveLastBlock(n) /\ rname[n] = g
    BY <1>3, ReceiveGots
  <2>2. outbound' = outbound
    BY <1>1, <1>3, ReceiveKeeps
  <2> QED
    BY <1>2, <2>1, <2>2 DEF GotFor
<1>4. ASSUME NEW n \in Nodes, Transmit(n) PROVE GotFor(f)
  <2>1. PICK out \in Seq(Frame) : TransmitShape(n, out)
    BY <1>4, TransmitHasShape
  <2>2. Queues(out) /\ ~ Has(out, {"GOT"}, f)
    BY <1>1, <2>1, ShapeQueues DEF TransmitShape, Has, Reply
  <2>3. f \in outbound /\ f \notin outbound' => Has(tql[Sender(f)], {"GOT"}, f)
    BY <1>4, GotLeaves
  <2> QED
    BY <1>2, <2>2, <2>3 DEF GotFor
<1>5. CASE LoseLine \/ Redial \/ UNCHANGED vars \/ \E n \in Nodes : End(n) \/ Kill(n)
  <2>1. Queues(<<>>) /\ outbound' = outbound /\ ~ Has(<<>>, {"GOT"}, f)
    BY <1>5, OtherQueues, HasNone
  <2> QED
    BY <1>2, <2>1, NoFrames DEF GotFor
<1> QED
  BY <1>3, <1>4, <1>5 DEF Next

\* A file the remote has is neither offered nor received.
LEMMA GotPlace ==
  ASSUME Gone, NEW f \in Files, GotFor(f)
  PROVE  ~ Offered(f) /\ ~ InReceipt(f) /\ ~ Stray(f)
<1>1. OnePlace(f) /\ Settled(f)
  BY DEF Gone, Places
<1>2. CASE f \notin outbound
  BY <1>1, <1>2 DEF Settled, Stray
<1>3. CASE f \in outbound
  <2>1. Answered(f) \/ Noted(f)
    BY <1>3 DEF GotFor, Answered, Noted, Has, Reply
  <2> QED
    BY <1>1, <2>1 DEF OnePlace, Stray
<1> QED
  BY <1>2, <1>3
------------------------------------------------------------------------------
\* What is stored stays.

LEMMA TempinStep ==
  ASSUME Places, Layout, [Next]_vars, NEW f \in Files
  PROVE  \/ tempin'[f] = tempin[f]
         \/ \E n \in Nodes : ReceiveLastBlock(n) /\ f = rname[n]
<1>1. TypeOK
  BY DEF Places
<1>2. ASSUME NEW n \in Nodes, Receive(n), ~ ReceiveLastBlock(n) PROVE tempin' = tempin
  BY <1>2
  DEF Receive, ReceiveIgnored, ReceiveMessage, ReceiveError, ReceiveEOB, ReceiveKnownFile,
      ReceivePartial, ReceiveRefused, ReceiveFile, ReceiveLowDisk, ReceiveOnStaleStream,
      ReceiveBlock, ReceiveCrcError, ReceiveCrcAbort, KilledInClose, AcceptFile, RejectFile,
      rxVars
<1>3. ASSUME NEW n \in Nodes, ReceiveLastBlock(n), f # rname[n] PROVE tempin'[f] = tempin[f]
  <2>1. infp[n] = rname[n]
    BY <1>3, WriteFacts DEF ReceiveLastBlock, CloseFile
  <2> QED
    BY <1>1, <1>3, <2>1 DEF ReceiveLastBlock, TypeOK, RxTypes
<1>4. ASSUME NEW n \in Nodes, Transmit(n) PROVE tempin' = tempin
  BY <1>1, <1>4, TransmitKeeps
<1> QED
  BY <1>2, <1>3, <1>4, OtherQueues DEF Next

\* What is complete is the file.
LEMMA LastWhole ==
  ASSUME Places, Layout, LineStraight, CRC \/ Prefixes, NEW n \in Nodes, ReceiveLastBlock(n)
  PROVE  Content(n) = Whole(rname[n])
<1> DEFINE e == rname[n]
<1>1. WriteBlock(n) /\ rxpos[n] + 1 = Size[e] /\ ~ CrcFails(n)
  BY DEF ReceiveLastBlock, CloseFile, IsLast
<1>2. /\ e \in Files /\ part[e] \in Seq(Files \X Nat)
      /\ Content(n) \in Seq(Files \X Nat) /\ Len(Content(n)) = Size[e]
      /\ Content(n) = Append(part[e], <<In(n).file, In(n).num>>)
  BY <1>1, WriteFacts
<1>3. CASE CRC
  BY <1>1, <1>3 DEF CrcFails
<1>4. CASE Prefixes
  <2>1. Content(n) = Append(part[e], <<e, Len(part[e]) + 1>>)
    BY <1>1, <1>2, NextBlock
  <2>2. PrefixOf(part[e], e) /\ <<e, Len(part[e]) + 1>> \in Files \X Nat
    BY <1>2, <1>4 DEF Prefixes
  <2>3. PrefixOf(Append(part[e], <<e, Len(part[e]) + 1>>), e)
    BY <1>2, <2>2, PrefixAppend
  <2>4. PrefixOf(Content(n), e)
    BY <2>1, <2>3
  <2> QED
    BY <1>2, <2>4, WholePrefix
<1> QED
  BY <1>3, <1>4

\* What a step of the receiver leaves stray.
LEMMA StrayReceive ==
  ASSUME Places, NEW n \in Nodes, Receive(n), NEW f \in Files, Stray(f),
         Owner[f] # Peer[n] \/ Answers(n, <<>>)
  PROVE  Stray(f)'
<1>1. PICK out \in Seq(Frame) : ReceiveShape(n, out)
  BY ReceiveHasShape DEF Places
<1>2. TypeOK /\ Sender(f) \in Nodes /\ Receiver(f) \in Nodes /\ Peer[n] \in Nodes
      /\ Peer[Peer[n]] = n /\ Receiver(f) = Peer[Sender(f)] /\ Peer[Receiver(f)] = Sender(f)
  BY DEF Places, Sender, Receiver
<1>3. f \in outbound'
  BY <1>2, ReceiveKeeps DEF Stray
<1>4. ~ AtRest(f)'
  BY <1>1, <1>2 DEF ReceiveShape, AtRest, RestStates, Sender, Stray
<1>5. ASSUME NEW o \in Seq(Frame), Answers(n, o), ~ Has(o, {"FILE"}, f), ~ Has(o, Reply, f)
      PROVE  ~ Offered(f)' /\ ~ Answered(f)' /\ ~ Noted(f)'
  <2>1. Queues(o)
    BY <1>2, <1>5, ReceiveQueues
  <2>2. /\ Has(chan'[Receiver(f)], {"FILE"}, f) => Has(chan[Receiver(f)], {"FILE"}, f)
        /\ Has(chan'[Sender(f)], Reply, f) => Has(chan[Sender(f)], Reply, f)
        /\ Has(tql'[Sender(f)], Reply, f) => Has(tql[Sender(f)], Reply, f) \/ Has(chan[Sender(f)], Reply, f)
    BY <1>2, <1>5, <2>1, HasStep
  <2> QED
    BY <2>2 DEF Stray, Offered, Answered, Noted, Sender, Receiver
<1>6. CASE Answers(n, <<>>)
  BY <1>3, <1>4, <1>5, <1>6, HasNone, NoFrames DEF Stray
<1>7. CASE Owner[f] # Peer[n]
  <2>1. Answers(n, out) /\ ~ Has(out, {"FILE"}, f)
    BY <1>1, HasOne, HasNone DEF ReceiveShape, Answers, Reply
  <2>2. ~ Heard(n, f)
    <3>1. chan[n] \in Seq(Frame) /\ chan[n] # <<>> /\ Owned(chan[n], n)
      BY <1>1, <1>2 DEF ReceiveShape, TypeOK, LineTypes, Places, LineOwned
    <3>2. In(n).cmd = "FILE" => Owner[In(n).file] = Peer[n]
      BY <3>1, QueueTyped, OwnedTail DEF In
    <3>3. RxState[n] = "RxReceD" => Owner[rname[n]] = Peer[n]
      BY DEF Places, NodeOwned
    <3> QED
      BY <1>7, <3>2, <3>3 DEF Heard
  <2>3. ~ Has(out, Reply, f)
    BY <1>1, <2>2 DEF ReceiveShape
  <2> QED
    BY <1>3, <1>4, <1>5, <2>1, <2>3 DEF Stray
<1> QED
  BY <1>6, <1>7

LEMMA StrayTransmit ==
  ASSUME Places, NEW n \in Nodes, Transmit(n), NEW f \in Files, Stray(f)
  PROVE  Stray(f)'
<1>1. PICK out \in Seq(Frame) : TransmitShape(n, out)
  BY TransmitHasShape
<1>2. TypeOK /\ Sender(f) \in Nodes /\ Receiver(f) \in Nodes
  BY DEF Places, Sender, Receiver
<1>3. ~ AtRest(f) /\ ~ Offered(f) /\ ~ Answered(f) /\ ~ Noted(f) /\ f \in outbound
  BY DEF Stray
<1>4. f \in outbound'
  <2>1. ~ Has(tql[Sender(f)], {"GOT"}, f)
    BY <1>3 DEF Noted, Has, Reply
  <2> QED
    BY <1>3, <2>1, GotLeaves
<1>5. ~ Has(out, {"FILE"}, f) /\ ~ Has(out, Reply, f)
  <2>1. FtState[n] \notin {"DeinitTransfer", "Exit"}
    BY <1>1 DEF TransmitShape
  <2>2. Has(out, {"FILE"}, f) => Owner[f] = n /\ state[f] \in RestStates
    BY <1>1 DEF TransmitShape
  <2>3. ~ Has(out, Reply, f)
    BY <1>1 DEF TransmitShape
  <2> QED
    BY <1>3, <2>1, <2>2, <2>3 DEF AtRest, Sender
<1>6. ~ Offered(f)' /\ ~ Answered(f)' /\ ~ Noted(f)'
  <2>1. /\ Has(chan'[Receiver(f)], {"FILE"}, f) => Has(chan[Receiver(f)], {"FILE"}, f)
        /\ Has(chan'[Sender(f)], Reply, f) => Has(chan[Sender(f)], Reply, f)
        /\ Has(tql'[Sender(f)], Reply, f) => Has(tql[Sender(f)], Reply, f) \/ Has(chan[Sender(f)], Reply, f)
    BY <1>1, <1>2, <1>5, ShapeQueues, HasStep
  <2> QED
    BY <1>3, <2>1 DEF Offered, Answered, Noted, Sender, Receiver
<1>7. ~ AtRest(f)'
  <2>1. FtState'[Sender(f)] \notin {"DeinitTransfer", "Exit"} =>
          FtState[Sender(f)] \notin {"DeinitTransfer", "Exit"}
    BY <1>1, <1>2 DEF TransmitShape
  <2>2. tql[n] # <<>> => Head(tql[n]).file # f
    BY <1>3, QueueHead DEF Message
  <2>3. state'[f] \in RestStates => state[f] \in RestStates
    BY <1>1, <2>2 DEF TransmitShape
  <2> QED
    BY <1>3, <2>1, <2>3 DEF AtRest, Sender
<1> QED
  BY <1>4, <1>6, <1>7 DEF Stray

LEMMA StrayQuiet ==
  ASSUME Places, NEW f \in Files, Stray(f),
         LoseLine \/ UNCHANGED vars \/ \E n \in Nodes : End(n) \/ Kill(n)
  PROVE  Stray(f)'
<1>1. TypeOK /\ Sender(f) \in Nodes /\ Receiver(f) \in Nodes
  BY DEF Places, Sender, Receiver
<1>2. Queues(<<>>) /\ outbound' = outbound
  BY OtherQueues
<1>3. \A C : ~ Has(<<>>, C, f)
  BY HasNone
<1>4. ~ Offered(f)' /\ ~ Answered(f)' /\ ~ Noted(f)'
  <2>1. /\ Has(chan'[Receiver(f)], {"FILE"}, f) => Has(chan[Receiver(f)], {"FILE"}, f)
        /\ Has(chan'[Sender(f)], Reply, f) => Has(chan[Sender(f)], Reply, f)
        /\ Has(tql'[Sender(f)], Reply, f) => Has(tql[Sender(f)], Reply, f) \/ Has(chan[Sender(f)], Reply, f)
    BY <1>1, <1>2, <1>3, NoFrames, HasStep
  <2> QED
    BY <2>1 DEF Stray, Offered, Answered, Noted, Sender, Receiver
<1>5. AtRest(f)' => AtRest(f)
  <2>1. CASE LoseLine \/ UNCHANGED vars
    BY <2>1 DEF LoseLine, vars, txVars, AtRest
  <2>2. ASSUME NEW n \in Nodes, End(n) \/ Kill(n) PROVE AtRest(f)' => AtRest(f)
    <3>1. /\ FtState'[n] \in {"DeinitTransfer", "Exit"}
          /\ \A p \in Nodes \ {n} : FtState'[p] = FtState[p]
      BY <1>1, <2>2
      DEF End, Hangup, Timeout, Deinit, Kill, Failure, Goto, TypeOK, ProcessTypes
    <3>2. Owner[f] # n => state'[f] = state[f]
      BY <2>2 DEF End, Hangup, Timeout, Deinit, Kill, ClearFilelist, txVars
    <3> QED
      BY <1>1, <3>1, <3>2 DEF AtRest, Sender
  <2> QED
    BY <2>1, <2>2
<1> QED
  BY <1>2, <1>4, <1>5 DEF Stray
------------------------------------------------------------------------------
\* The open file.

LEMMA ReceiveOpen ==
  ASSUME Gone, Layout, FlushedOrStray, NEW n \in Nodes, Receive(n)
  PROVE  FlushedOrStray'
<1>1. Places /\ TypeOK /\ \A p \in Nodes : Peer[p] \in Nodes /\ Peer[Peer[p]] = p /\ Peer[p] # p
  BY DEF Gone, Places
<1> USE DEF TypeOK, RxTypes
<1> SUFFICES ASSUME NEW p \in Nodes, NEW f \in Files, Running(p)', infp'[p] = f
             PROVE  rxbytes'[p] = Len(part'[f]) \/ Stray(f)'
  BY DEF FlushedOrStray
<1>2. Running(p)
  <2>1. PICK out \in Seq(Frame) : ReceiveShape(n, out)
    BY <1>1, ReceiveHasShape
  <2> QED
    BY <2>1 DEF ReceiveShape, Running
<1>3. CASE p # n
  <2>1. infp[p] = f /\ rxbytes'[p] = rxbytes[p]
    BY SMTT(30), <1>1, <1>3, ReceiveKeeps
  <2>2. Owner[f] # Peer[n]
    BY <1>1, <1>3, <2>1 DEF Layout, FromPeer
  <2>3. part'[f] = part[f]
    BY <1>1, <2>2, WriteFacts, ReceivePart
  <2> QED
    BY <1>1, <1>2, <2>1, <2>2, <2>3, StrayReceive DEF FlushedOrStray
<1>4. CASE p = n
  <2>1. ASSUME Answers(n, <<>>), part' = part, infp'[n] \in {infp[n], NoFile},
               rxbytes'[n] = rxbytes[n]
        PROVE  rxbytes'[p] = Len(part'[f]) \/ Stray(f)'
    <3>1. infp[n] = f
      BY <1>4, <2>1
    <3>2. rxbytes[n] = Len(part[f]) \/ Stray(f)
      BY <1>2, <1>4, <3>1 DEF FlushedOrStray
    <3>3. Stray(f) => Stray(f)'
      BY <1>1, <2>1, StrayReceive
    <3> QED
      BY <1>4, <2>1, <3>2, <3>3
  <2>2. CASE ReceiveIgnored(n) \/ ReceiveMessage(n) \/ ReceiveError(n)
    <3>1. Answer(n, <<>>) /\ UNCHANGED <<part, infp, rxbytes>>
      BY <2>2 DEF ReceiveIgnored, ReceiveMessage, ReceiveError, rxVars
    <3> QED
      BY <1>1, <1>4, <2>1, <3>1, AnswerSent
  <2>3. CASE ReceiveEOB(n)
    <3>1. chan' = [chan EXCEPT ![n] = Tail(chan[n])] /\ UNCHANGED <<part, infp, rxbytes>>
      BY <2>3 DEF ReceiveEOB
    <3>2. chan[Peer[n]] \o <<>> = chan[Peer[n]]
      BY <1>1 DEF LineTypes
    <3>3. Answers(n, <<>>)
      BY <1>1, <3>1, <3>2 DEF Answers, LineTypes
    <3> QED
      BY <1>4, <2>1, <3>1, <3>3
  <2>4. CASE ReceiveOnStaleStream(n)
    <3>1. Answer(n, <<>>) /\ UNCHANGED <<part, rxbytes>> /\ infp'[n] \in {infp[n], NoFile}
      BY <1>1, <2>4 DEF ReceiveOnStaleStream, StaleStream, Opened
    <3> QED
      BY <1>1, <1>4, <2>1, <3>1, AnswerSent
  <2>5. CASE \/ ReceiveKnownFile(n) \/ ReceivePartial(n) \/ ReceiveRefused(n)
             \/ ReceiveFile(n) \/ ReceiveLowDisk(n)
    <3>1. AcceptFile(n)
      BY <2>5 DEF ReceiveKnownFile, ReceivePartial, ReceiveRefused, ReceiveFile, ReceiveLowDisk
    <3>2. \/ infp' = [infp EXCEPT ![n] = Opened(n)]
          \/ infp' = [infp EXCEPT ![n] = NoFile]
      BY <2>5 DEF ReceiveKnownFile, ReceivePartial, ReceiveRefused, ReceiveFile,
         ReceiveLowDisk, CanStore, CannotStore
    <3>3. part' = part /\ rxbytes' = [rxbytes EXCEPT ![n] = TmpSize(n)]
      BY <3>1 DEF AcceptFile
    <3>4. TmpSize(n) = Len(part[In(n).file]) /\ Opened(n) = In(n).file
      BY <1>1, <3>1, AcceptFacts
    <3> QED
      BY <1>1, <1>4, <3>2, <3>3, <3>4
  <2>6. CASE ReceiveBlock(n)
    <3>1. WriteBlock(n) /\ Answer(n, <<>>) /\ infp' = infp
      BY <2>6 DEF ReceiveBlock
    <3>2. InReceipt(f)
      BY <1>1, <1>4, <3>1, WriteFacts
    <3>3. Stray(f)
      BY <3>2 DEF Gone, Settled, Places, OnePlace, Stray
    <3>4. Stray(f)'
      BY <1>1, <3>1, <3>3, AnswerSent, StrayReceive
    <3> QED
      BY <3>4
  <2>7. CASE \/ ReceiveLastBlock(n) \/ ReceiveCrcError(n) \/ ReceiveCrcAbort(n)
             \/ KilledInClose(n)
    <3>1. infp' = [infp EXCEPT ![n] = NoFile]
      BY <2>7 DEF ReceiveLastBlock, ReceiveCrcError, ReceiveCrcAbort, KilledInClose,
         RejectFile, CloseFile
    <3> QED
      BY <1>1, <1>4, <3>1
  <2> QED
    BY <1>4, <2>2, <2>3, <2>4, <2>5, <2>6, <2>7 DEF Receive
<1> QED
  BY <1>3, <1>4

LEMMA OtherOpen ==
  ASSUME Gone, Layout, FlushedOrStray, [Next]_vars, ~ \E n \in Nodes : Receive(n)
  PROVE  FlushedOrStray'
<1>1. Places /\ TypeOK /\ \A p \in Nodes : Peer[p] \in Nodes /\ Peer[Peer[p]] = p
  BY DEF Gone, Places
<1> SUFFICES ASSUME NEW p \in Nodes, NEW f \in Files, Running(p)', infp'[p] = f
             PROVE  rxbytes'[p] = Len(part'[f]) \/ Stray(f)'
  BY DEF FlushedOrStray
<1>2. ~ Redial
  <2>1. Redial => infp'[p] = NoFile
    BY DEF Redial
  <2> QED
    BY <2>1
<1>3. \/ \E n \in Nodes : Transmit(n)
      \/ LoseLine \/ UNCHANGED vars \/ \E n \in Nodes : End(n) \/ Kill(n)
  BY <1>2 DEF Next
<1>4. UNCHANGED <<infp, rxbytes, rname>>
  <2>1. ASSUME NEW n \in Nodes, Transmit(n) PROVE UNCHANGED <<infp, rxbytes, rname>>
    BY <1>1, <2>1, TransmitKeeps
  <2> QED
    BY <1>3, <2>1 DEF LoseLine, vars, rxVars, End, Hangup, Timeout, Deinit, Kill, Idle
<1>5. Running(p)
  <2>1. ASSUME NEW n \in Nodes, Transmit(n) PROVE Running(p)' => Running(p)
    <3>1. PICK out \in Seq(Frame) : TransmitShape(n, out)
      BY <1>1, <2>1, TransmitHasShape
    <3> QED
      BY <3>1 DEF TransmitShape, Running
  <2>2. CASE LoseLine \/ UNCHANGED vars \/ \E n \in Nodes : End(n) \/ Kill(n)
    BY <1>1, <2>2 DEF LoseLine, vars, End, Hangup, Timeout, Deinit, Kill, Failure, Goto,
       Running, TypeOK, ProcessTypes
  <2> QED
    BY <1>3, <2>1, <2>2
<1>6. f = infp[p] /\ Owner[f] = Peer[p]
  BY <1>4 DEF Layout, FromPeer
<1>7. part'[f] = part[f]
  <2>1. SUFFICES ASSUME part'[f] # part[f] PROVE FALSE
    OBVIOUS
  <2>2. PICK m \in Nodes : Kill(m) /\ infp[m] = f
    BY <1>1, <2>1, PartStep
  <2>3. m = p
    BY <1>1, <1>6, <2>2 DEF Layout, FromPeer
  <2>4. ~ Running(p)'
    BY <1>1, <2>2, <2>3 DEF Kill, Goto, Running, TypeOK, ProcessTypes
  <2> QED
    BY <2>4
<1>8. Stray(f) => Stray(f)'
  BY <1>1, <1>3, StrayTransmit, StrayQuiet
<1>9. rxbytes[p] = Len(part[f]) \/ Stray(f)
  BY <1>5, <1>6 DEF FlushedOrStray
<1> QED
  BY <1>4, <1>7, <1>8, <1>9
------------------------------------------------------------------------------
\* What the remote has is on its disk.

LEMMA StoredStep ==
  ASSUME Gone, Layout, LineStraight, Prefixes, FlushedOrStray, GotStored, [Next]_vars
  PROVE  GotStored'
<1>1. Places /\ TypeOK
  BY DEF Gone, Places
<1> USE DEF TypeOK, RxTypes
<1> SUFFICES ASSUME NEW f \in Files, GotFor(f)' PROVE Stored(f)'
  BY DEF GotStored
<1>2. CASE GotFor(f)
  <2>1. Stored(f) /\ ~ InReceipt(f) /\ ~ Stray(f)
    BY <1>2, GotPlace DEF GotStored
  <2>2. \A n \in Nodes : ~ (WriteBlock(n) /\ f = rname[n])
    BY <1>1, <2>1, WriteFacts
  <2>3. tempin'[f] = tempin[f]
    <3>1. \A n \in Nodes : ReceiveLastBlock(n) => f # rname[n]
      BY <2>2 DEF ReceiveLastBlock, CloseFile
    <3> QED
      BY <1>1, <3>1, TempinStep
  <2>4. part'[f] = part[f]
    <3>1. ASSUME NEW n \in Nodes, Kill(n), infp[n] = f,
                 NEW k \in rxbytes[n]..Len(part[f]), part'[f] = SubSeq(part[f], 1, k)
          PROVE  part'[f] = part[f]
      <4>1. rxbytes[n] = Len(part[f])
        BY <2>1, <3>1 DEF FlushedOrStray, Kill, Running
      <4>2. part[f] \in Seq(Files \X Nat) /\ k = Len(part[f])
        BY <1>1, <4>1
      <4>3. SubSeq(part[f], 1, Len(part[f])) = part[f]
        BY <4>2
      <4> QED
        BY <3>1, <4>2, <4>3
    <3> QED
      BY <1>1, <2>2, <3>1, PartStep
  <2> QED
    BY <2>1, <2>3, <2>4 DEF Stored, Whole
<1>3. ASSUME NEW n \in Nodes, ReceiveKnownFile(n), In(n).file = f PROVE Stored(f)'
  <2>1. AcceptFile(n) /\ TmpSize(n) = Size[f] /\ part' = part
    BY <1>3 DEF ReceiveKnownFile, AlreadyGot, AcceptFile
  <2>2. Len(part[f]) = Size[f]
    BY <1>1, <1>3, <2>1, AcceptFacts
  <2>3. part[f] = Whole(f)
    BY <1>1, <2>2, WholePrefix DEF Prefixes
  <2> QED
    BY <2>1, <2>3 DEF Stored, Whole
<1>4. ASSUME NEW n \in Nodes, ReceiveLastBlock(n), rname[n] = f PROVE Stored(f)'
  <2>1. Content(n) = Whole(f)
    BY <1>1, <1>4, LastWhole
  <2>2. infp[n] = f
    BY <1>1, <1>4, WriteFacts DEF ReceiveLastBlock, CloseFile
  <2>3. tempin'[f] = Content(n) \/ part'[f] = Content(n)
    BY <1>1, <1>4, <2>2 DEF ReceiveLastBlock
  <2> QED
    BY <2>1, <2>3 DEF Stored, Whole
<1> QED
  BY <1>1, <1>2, <1>3, <1>4, GotStep

LEMMA InitKeep == Init => FlushedOrStray /\ GotStored
<1> SUFFICES ASSUME Init PROVE FlushedOrStray /\ GotStored
  OBVIOUS
<1>1. FlushedOrStray
  BY DEF Init, FlushedOrStray
<1>2. ASSUME NEW f \in Files PROVE ~ GotFor(f)
  <2>1. Sender(f) \in Nodes
    BY DEF Sender
  <2>2. chan[Sender(f)] = <<>> /\ tql[Sender(f)] = <<>> /\ f \in outbound
    BY <2>1 DEF Init
  <2> QED
    BY <2>2, HasNone DEF GotFor
<1> QED
  BY <1>1, <1>2 DEF GotStored

\* Whatever happens to a session, the move out of tmp and the receiver
\* included, a file that has left the outbound is whole on the remote's disk.
THEOREM FilesKept ==
  ASSUME NoneOlder
  PROVE  Spec /\ []ResumesApart => []NoFileVanishes
<1> DEFINE Kept == Gone /\ Layout /\ LineStraight /\ Prefixes /\ FlushedOrStray /\ GotStored
<1>1. Init => Kept
  BY InitGone, InitLayout, InitPrefixes, InitStraight, InitKeep DEF NoneLonger, NoneOlder
<1>2. Kept /\ ResumesApart /\ [Next]_vars => Kept'
  <2> SUFFICES ASSUME Kept, ResumesApart, [Next]_vars PROVE Kept'
    OBVIOUS
  <2>1. Places
    BY DEF Gone
  <2>2. Gone' /\ Layout' /\ LineStraight' /\ Prefixes'
    BY <2>1, NextGone, NextLayout, NextStraight, PrefixStep
  <2>3. FlushedOrStray'
    BY ReceiveOpen, OtherOpen
  <2>4. GotStored'
    BY StoredStep
  <2> QED
    BY <2>2, <2>3, <2>4
<1>3. Kept => NoFileVanishes
  BY DEF GotStored, GotFor, Stored, NoFileVanishes
<1> QED
  BY <1>1, <1>2, <1>3, PTL DEF Spec
------------------------------------------------------------------------------
(***************************************************************************)
(* The hand-off.  When no file is complete in tmp, and none is left there  *)
(* by a failing move or a kill, M_GOT is sent only for a file that has     *)
(* been moved to tempinbound.                                              *)
(***************************************************************************)
NoneComplete ==
  /\ \A f \in Files : \A p \in Leftover[f] : Len(p) < Size[f]
  /\ "move" \notin Faults /\ "kill" \notin Faults

PartsShort == \A f \in Files : Len(part[f]) < Size[f]

GotMoved == \A f \in Files : GotFor(f) => tempin[f] = Whole(f)

LEMMA ShortStep ==
  ASSUME NoneComplete, Places, Layout, PartsShort, [Next]_vars
  PROVE  PartsShort'
<1> SUFFICES ASSUME NEW f \in Files PROVE Len(part'[f]) < Size[f]
  BY DEF PartsShort
<1>1. Size[f] \in Nat /\ Size[f] > 0 /\ Len(<<>>) = 0 /\ Len(part[f]) < Size[f]
  BY FilesAssumption DEF PartsShort
<1>2. ASSUME NEW n \in Nodes, Receive(n), WriteBlock(n), f = rname[n],
             part'[f] \in {<<>>, Content(n)}
      PROVE  Len(part'[f]) < Size[f]
  <2>1. /\ part \in [Files -> Seq(Files \X Nat)] /\ infp[n] = f
        /\ Len(Content(n)) = rxpos[n] + 1 /\ rxpos[n] < Size[f] /\ rxpos[n] \in Nat
    BY <1>2, WriteFacts DEF Places, TypeOK, RxTypes
  <2>2. CASE ReceiveBlock(n)
    <3>1. rxpos[n] + 1 # Size[f]
      BY <1>2, <2>2 DEF ReceiveBlock, IsLast
    <3> QED
      BY <1>1, <1>2, <2>1, <3>1
  <2>3. CASE ReceiveLastBlock(n) \/ ReceiveCrcError(n) \/ ReceiveCrcAbort(n)
    <3>1. part' = [part EXCEPT ![infp[n]] = <<>>]
      BY <2>3 DEF NoneComplete, ReceiveLastBlock, ReceiveCrcError, ReceiveCrcAbort,
         RejectFile, Fault
    <3> QED
      BY <1>1, <2>1, <3>1
  <2>4. \/ ReceiveBlock(n) \/ ReceiveLastBlock(n) \/ ReceiveCrcError(n) \/ ReceiveCrcAbort(n)
        \/ part' = part
    BY <1>2
    DEF NoneComplete, Fault, Receive, ReceiveIgnored, ReceiveMessage, ReceiveError, ReceiveEOB,
        ReceiveKnownFile, ReceivePartial, ReceiveRefused, ReceiveFile, ReceiveLowDisk,
        ReceiveOnStaleStream, KilledInClose, AcceptFile, rxVars
  <2> QED
    BY <1>1, <2>2, <2>3, <2>4
<1>3. \A n \in Nodes : ~ Kill(n)
  BY DEF NoneComplete, Kill, Fault
<1> QED
  BY <1>1, <1>2, <1>3, PartStep

LEMMA MovedStep ==
  ASSUME NoneComplete, CRC \/ Prefixes, Gone, Layout, LineStraight, PartsShort, GotMoved,
         [Next]_vars
  PROVE  GotMoved'
<1>1. Places /\ TypeOK
  BY DEF Gone, Places
<1> USE DEF TypeOK, RxTypes
<1> SUFFICES ASSUME NEW f \in Files, GotFor(f)' PROVE tempin'[f] = Whole(f)
  BY DEF GotMoved, Whole
<1>2. CASE GotFor(f)
  <2>1. tempin[f] = Whole(f) /\ ~ InReceipt(f)
    BY <1>2, GotPlace DEF GotMoved
  <2>2. \A n \in Nodes : ReceiveLastBlock(n) => f # rname[n]
    BY <1>1, <2>1, WriteFacts DEF ReceiveLastBlock, CloseFile
  <2> QED
    BY <1>1, <2>1, <2>2, TempinStep
<1>3. ASSUME NEW n \in Nodes, ReceiveKnownFile(n), In(n).file = f PROVE FALSE
  <2>1. AcceptFile(n) /\ TmpSize(n) = Size[f]
    BY <1>3 DEF ReceiveKnownFile, AlreadyGot
  <2>2. Len(part[f]) = Size[f] /\ Len(part[f]) < Size[f]
    BY <1>1, <1>3, <2>1, AcceptFacts DEF PartsShort
  <2> QED
    BY <2>2, FilesAssumption
<1>4. ASSUME NEW n \in Nodes, ReceiveLastBlock(n), rname[n] = f PROVE tempin'[f] = Whole(f)
  <2>1. Content(n) = Whole(f)
    BY <1>1, <1>4, LastWhole
  <2>2. infp[n] = f
    BY <1>1, <1>4, WriteFacts DEF ReceiveLastBlock, CloseFile
  <2> QED
    BY <1>1, <1>4, <2>1, <2>2 DEF ReceiveLastBlock, NoneComplete, Fault
<1> QED
  BY <1>1, <1>2, <1>3, <1>4, GotStep

\* The files the other side has stored.
Arrived == {f \in Files : tempin[f] = Whole(f)}

LEMMA ArrivedStep ==
  ASSUME CRC \/ Prefixes, Places, Layout, LineStraight, [Next]_vars
  PROVE  \/ Arrived' = Arrived
         \/ \E f \in Files : Arrived' = Arrived \cup {f} /\ outbound' = outbound
<1>1. TypeOK
  BY DEF Places
<1>2. ASSUME NEW n \in Nodes, ReceiveLastBlock(n), tempin' # tempin
      PROVE  \E f \in Files : Arrived' = Arrived \cup {f} /\ outbound' = outbound
  <2> DEFINE e == rname[n]
  <2>1. e \in Files /\ infp[n] = e /\ Content(n) = Whole(e) /\ outbound' = outbound
    BY <1>2, WriteFacts, LastWhole
    DEF ReceiveLastBlock, CloseFile, WriteBlock, txVars
  <2>2. tempin' = [tempin EXCEPT ![e] = Whole(e)]
    BY <1>2, <2>1 DEF ReceiveLastBlock
  <2>3. \A f \in Files : tempin'[f] = IF f = e THEN Whole(e) ELSE tempin[f]
    BY <1>1, <2>2 DEF TypeOK, RxTypes
  <2>4. Arrived' = Arrived \cup {e}
    <3>1. Arrived' = {f \in Files : tempin'[f] = Whole(f)}
      BY DEF Arrived, Whole
    <3> QED
      BY <2>1, <2>3, <3>1 DEF Arrived
  <2> QED
    BY <2>1, <2>4
<1>3. CASE tempin' = tempin
  BY <1>3 DEF Arrived, Whole
<1>4. CASE tempin' # tempin
  <2>1. PICK f \in Files : tempin'[f] # tempin[f]
    <3>1. tempin \in [Files -> Seq(Files \X Nat)] /\ tempin' \in [Files -> Seq(Files \X Nat)]
      BY <1>1, NextTyped DEF TypeOK, RxTypes
    <3> QED
      BY <1>4, <3>1
  <2>2. PICK n \in Nodes : ReceiveLastBlock(n)
    BY <2>1, TempinStep
  <2> QED
    BY <1>2, <1>4, <2>2
<1> QED
  BY <1>3, <1>4

LEMMA DisposeStep ==
  ASSUME Places, GotMoved, [Next]_vars
  PROVE  \/ outbound' = outbound
         \/ \E f \in Arrived : outbound' = outbound \ {f} /\ Arrived' = Arrived
<1>1. TypeOK
  BY DEF Places
<1>2. ASSUME NEW n \in Nodes, Transmit(n)
      PROVE  \/ outbound' = outbound
             \/ \E f \in Arrived : outbound' = outbound \ {f} /\ Arrived' = Arrived
  <2>1. Arrived' = Arrived
    BY <1>1, <1>2, TransmitKeeps DEF Arrived, Whole
  <2>2. \A f \in Files : Has(tql[Sender(f)], {"GOT"}, f) => f \in Arrived
    BY DEF GotMoved, GotFor, Arrived
  <2> QED
    BY <1>2, <2>1, <2>2, GotLeaves
<1>3. ASSUME NEW n \in Nodes, Receive(n) PROVE outbound' = outbound
  BY <1>1, <1>3, ReceiveKeeps
<1> QED
  BY <1>2, <1>3, OtherQueues DEF Next

\* The mailers hand a file over: it leaves the outbound only after the other
\* side has moved the whole of it to its tempinbound, where it stays.
THEOREM FilesHandedOff ==
  ASSUME NoneComplete, CRC = TRUE \/ NoneOlder
  PROVE  Spec /\ []ResumesApart => ImplementsHandOff
<1> DEFINE Sound == CRC \/ Prefixes
           Handed == Gone /\ Layout /\ LineStraight /\ Sound /\ PartsShort /\ GotMoved
<1>1. Init => Handed /\ HandOffSpec!Init
  <2> SUFFICES ASSUME Init PROVE Handed /\ HandOffSpec!Init
    OBVIOUS
  <2>1. NoneLonger
    BY FilesAssumption DEF NoneLonger, NoneComplete
  <2>2. Gone /\ Layout /\ LineStraight /\ Sound
    BY <2>1, InitGone, InitLayout, InitPrefixes, InitStraight
  <2>3. PartsShort
    BY DEF Init, PartsShort, NoneComplete
  <2>4. GotMoved
    <3>1. ASSUME NEW f \in Files PROVE ~ GotFor(f)
      <4>1. Sender(f) \in Nodes
        BY DEF Sender
      <4>2. chan[Sender(f)] = <<>> /\ tql[Sender(f)] = <<>> /\ f \in outbound
        BY <4>1 DEF Init
      <4> QED
        BY <4>2, HasNone DEF GotFor
    <3> QED
      BY <3>1 DEF GotMoved
  <2>5. \A f \in Files : tempin[f] # Whole(f)
    <3> SUFFICES ASSUME NEW f \in Files PROVE tempin[f] # Whole(f)
      OBVIOUS
    <3>1. 1 \in DOMAIN Whole(f)
      BY FilesAssumption DEF Whole
    <3>2. tempin[f] = <<>> /\ DOMAIN <<>> = {}
      BY DEF Init
    <3> QED
      BY <3>1, <3>2
  <2>6. HandOffSpec!Init
    BY <2>5 DEF Init, HandOffSpec!Init
  <2> QED
    BY <2>2, <2>3, <2>4, <2>6
<1>2. Handed /\ ResumesApart /\ [Next]_vars => Handed' /\ [HandOffSpec!Next]_(HandOffSpec!vars)
  <2> SUFFICES ASSUME Handed, ResumesApart, [Next]_vars
               PROVE  Handed' /\ [HandOffSpec!Next]_(HandOffSpec!vars)
    OBVIOUS
  <2>1. Places
    BY DEF Gone
  <2>2. Gone' /\ Layout' /\ LineStraight' /\ Sound'
    BY <2>1, NextGone, NextLayout, NextStraight, PrefixStep
  <2>3. PartsShort' /\ GotMoved'
    BY <2>1, ShortStep, MovedStep
  <2>4. \/ Arrived' = Arrived
        \/ \E f \in Files : Arrived' = Arrived \cup {f} /\ outbound' = outbound
    BY <2>1, ArrivedStep
  <2>5. \/ outbound' = outbound
        \/ \E f \in Arrived : outbound' = outbound \ {f} /\ Arrived' = Arrived
    BY <2>1, DisposeStep
  <2>6. [HandOffSpec!Next]_(HandOffSpec!vars)
    BY <2>4, <2>5
    DEF Arrived, HandOffSpec!Next, HandOffSpec!vars, HandOffSpec!Arrive, HandOffSpec!Dispose
  <2> QED
    BY <2>2, <2>3, <2>6
<1> QED
  BY <1>1, <1>2, PTL DEF Spec, ImplementsHandOff, HandOffSpec!Spec
================================================================================
