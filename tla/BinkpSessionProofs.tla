------------------------ MODULE BinkpSessionProofs -------------------------
(***************************************************************************)
(* How a session of binkp ends, for any number of mailers, files and       *)
(* blocks: what a session that ends well has delivered, and that the two   *)
(* sides of one agree.  BinkpProofs is about the files, this module about  *)
(* the batches.                                                            *)
(***************************************************************************)
EXTENDS BinkpProofs

USE NodesAssumption

--------------------------------------------------------------------------------
(***************************************************************************)
(* What a session that ends well has delivered.                            *)
(***************************************************************************)

Bit(b) == IF b THEN 1 ELSE 0

\* The mailer has nothing it can read to offer in this batch.
Served(n) == Own(n) \cap outbound \subseteq Unreadable[batchnr[n]] \/ batchnr[n] = BatchLimit

\* The ends of the batch are counted, and before them the announcement of a list
\* with something on it.
Tallied(n) ==
  /\ messages[n] >= Bit(local_EOB[n]) + Bit(remote_EOB[n])
  /\ listed[n] \/ local_EOB[n] =>
       Served(n) \/ messages[n] >= 1 + Bit(local_EOB[n]) + Bit(remote_EOB[n])

TallyOf(n) ==
  /\ FtState[n] = "DeinitTransfer" => rc[n]
  /\ FtState[n] = "Exit" /\ ~ rc[n] => TxState[n] = "TxDone"
  /\ FtState[n] = "Messages" => TxState[n] # "TxDone"
  /\ ~ rc[n] /\ Minor[n] = 1 =>
       IF TxState[n] = "TxDone" THEN Served(n) ELSE Tallied(n)

Tally == \A n \in Nodes : TallyOf(n)

LEMMA CountGrows ==
  ASSUME NEW k \in 0..3, NEW m \in Nat
  PROVE  Count(k, m) \in 0..3 /\ Count(k, m) >= k /\ (Count(k, m) = 3 \/ Count(k, m) = k + m)
BY DEF Count

LEMMA BitRange == (\A b \in BOOLEAN : Bit(b) \in 0..1) /\ Bit(TRUE) = 1 /\ Bit(FALSE) = 0
BY DEF Bit

\* What a step must not change for a mailer's account to stay as it is.
Untouched(p) ==
  /\ FtState'[p] = FtState[p] /\ rc'[p] = rc[p] /\ TxState'[p] = TxState[p]
  /\ messages'[p] = messages[p] /\ batchnr'[p] = batchnr[p] /\ listed'[p] = listed[p]
  /\ local_EOB'[p] = local_EOB[p] /\ remote_EOB'[p] = remote_EOB[p]

LEMMA OutboundShrinks ==
  ASSUME TypeOK, [Next]_vars
  PROVE  outbound' \subseteq outbound
<1>1. ASSUME NEW n \in Nodes, Receive(n) PROVE outbound' = outbound
  BY <1>1, ReceiveKeeps
<1>2. ASSUME NEW n \in Nodes, Transmit(n) PROVE outbound' \subseteq outbound
  <2>1. CASE ProcessGot(n)
    BY <2>1 DEF ProcessGot
  <2>2. CASE ~ ProcessGot(n)
    BY <1>2, <2>2
    DEF Transmit, TransmitFile, SkipFile, TransmitEOB, GetNextFile, TransmitBlock,
        TransmitEndOfFile, ReadBlock, ProcessGet, ProcessSkip, EndSession,
        TransmitNewBatch, ClearSentList, WaitForRemote, WaitLastAck
  <2> QED
    BY <2>1, <2>2
<1>3. ASSUME NEW n \in Nodes, End(n) \/ Kill(n) PROVE outbound' = outbound
  BY <1>3 DEF End, Hangup, Timeout, Deinit, Idle, Kill, txVars
<1>4. CASE LoseLine \/ Redial \/ UNCHANGED vars
  BY <1>4 DEF LoseLine, Redial, vars, txVars
<1> QED
  BY <1>1, <1>2, <1>3, <1>4 DEF Next

LEMMA TallyStays ==
  ASSUME TypeOK, NEW n \in Nodes, TallyOf(n), outbound' \subseteq outbound,
         rc'[n] = rc[n],
         FtState'[n] = "DeinitTransfer" => rc[n],
         FtState'[n] = "Exit" => FtState[n] = "Exit" \/ TxState[n] = "TxDone",
         FtState'[n] = "Messages" => TxState[n] # "TxDone",
         TxState'[n] = "TxDone" <=> TxState[n] = "TxDone",
         messages'[n] \in 0..3, messages'[n] >= messages[n],
         local_EOB'[n] = local_EOB[n], remote_EOB'[n] = remote_EOB[n],
         batchnr'[n] = batchnr[n], listed'[n] => listed[n]
  PROVE  TallyOf(n)'
<1>1. Served(n) => Served(n)'
  BY DEF Served
<1>2. Tallied(n) => Tallied(n)'
  <2>1. /\ messages[n] \in 0..3 /\ Bit(local_EOB[n]) \in 0..1 /\ Bit(remote_EOB[n]) \in 0..1
        /\ Bit(local_EOB[n])' = Bit(local_EOB[n]) /\ Bit(remote_EOB[n])' = Bit(remote_EOB[n])
    BY BitRange DEF TypeOK, BatchTypes, Bit
  <2>2. Tallied(n) => messages'[n] >= Bit(local_EOB[n]) + Bit(remote_EOB[n])
    BY <2>1 DEF Tallied
  <2>3. Tallied(n) /\ (listed'[n] \/ local_EOB'[n]) =>
          Served(n)' \/ messages'[n] >= 1 + Bit(local_EOB[n]) + Bit(remote_EOB[n])
    BY <1>1, <2>1 DEF Tallied
  <2> QED
    BY <2>1, <2>2, <2>3 DEF Tallied
<1> QED
  BY <1>1, <1>2 DEF TallyOf

LEMMA TallyUntouched ==
  ASSUME TypeOK, NEW p \in Nodes, TallyOf(p), outbound' \subseteq outbound, Untouched(p)
  PROVE  TallyOf(p)'
<1>1. messages'[p] \in 0..3 /\ messages'[p] >= messages[p]
  BY DEF Untouched, TypeOK, BatchTypes
<1>2. /\ FtState'[p] = "DeinitTransfer" => rc[p]
      /\ FtState'[p] = "Messages" => TxState[p] # "TxDone"
  BY DEF Untouched, TallyOf
<1> QED
  BY <1>1, <1>2, TallyStays DEF Untouched

\* A session that has failed is of no account.
LEMMA TallyFailed ==
  ASSUME NEW n \in Nodes, rc'[n] = TRUE, FtState'[n] # "Messages"
  PROVE  TallyOf(n)'
BY DEF TallyOf

\* Nothing is counted yet in a new batch.
LEMMA TallyEmpty ==
  ASSUME NEW n \in Nodes, messages'[n] = 0, local_EOB'[n] = FALSE, remote_EOB'[n] = FALSE,
         listed'[n] = FALSE, TxState'[n] = "TxGNF", FtState'[n] \in {"Switch", "Transmit"}
  PROVE  TallyOf(n)'
<1>1. Tallied(n)'
  BY DEF Tallied, Bit
<1> QED
  BY <1>1 DEF TallyOf

LEMMA InitTally == Init => Tally
<1> SUFFICES ASSUME Init, NEW n \in Nodes PROVE TallyOf(n)
  BY DEF Tally
<1>1. /\ messages[n] = 0 /\ local_EOB[n] = FALSE /\ remote_EOB[n] = FALSE /\ listed[n] = FALSE
      /\ FtState[n] = "Switch" /\ TxState[n] = "TxGNF"
  BY DEF Init
<1>2. Tallied(n)
  BY <1>1 DEF Tallied, Bit
<1> QED
  BY <1>1, <1>2 DEF TallyOf

--------------------------------------------------------------------------------
\* The receiver.

LEMMA ReceiveTally ==
  ASSUME TypeOK, Tally, NEW n \in Nodes, Receive(n)
  PROVE  Tally'
<1> USE DEF TypeOK, ProcessTypes, BatchTypes, TxTypes
<1>1. outbound' \subseteq outbound /\ TallyOf(n)
  BY OutboundShrinks DEF Next, Tally
<1>2. ASSUME NEW out, Len(out) \in Nat, Answer(n, out)
      PROVE  /\ messages'[n] \in 0..3 /\ messages'[n] >= messages[n]
             /\ \A p \in Nodes \ {n} : messages'[p] = messages[p]
  <2>1. Len(out) + (IF In(n).cmd = "DATA" THEN 0 ELSE 1) \in Nat
    BY <1>2
  <2>2. messages'[n] = Count(messages[n], Len(out) + IF In(n).cmd = "DATA" THEN 0 ELSE 1)
    BY <1>2 DEF Answer
  <2> QED
    BY <1>2, <2>1, <2>2, CountGrows DEF Answer
<1>3. ASSUME ReceiveEOB(n) PROVE Tally'
  <2>1. \A p \in Nodes \ {n} : Untouched(p)
    BY <1>3 DEF ReceiveEOB, NewBatch, ReceiverOk, Goto, ClearFilelist, Untouched
  <2>2. CASE NewBatch(n) /\ messages' = [messages EXCEPT ![n] = 0]
    <3>1. FtState'[n] \in {"Switch", "Transmit"}
      BY <1>3 DEF ReceiveEOB, ReceiverOk, Goto
    <3>2. TallyOf(n)'
      BY <2>2, <3>1, TallyEmpty DEF NewBatch, ClearFilelist
    <3> QED
      BY <1>1, <2>1, <3>2, TallyUntouched DEF Tally
  <2>3. CASE /\ remote_EOB' = [remote_EOB EXCEPT ![n] = TRUE]
             /\ messages' = [messages EXCEPT ![n] = Count(@, 1)]
             /\ UNCHANGED <<local_EOB, batchnr, TxState, listed, state, offset>>
    <3>1. FtState'[n] \in {"Switch", "Transmit"} /\ rc' = rc
      BY <1>3 DEF ReceiveEOB, ReceiverOk, Goto
    <3>2. Served(n) => Served(n)'
      BY <1>1, <2>3 DEF Served
    <3>3. /\ messages[n] \in 0..3 /\ messages'[n] \in 0..3 /\ messages'[n] >= messages[n]
          /\ messages'[n] = 3 \/ messages'[n] = messages[n] + 1
      BY <2>3, CountGrows
    <3>4. local_EOB' = local_EOB /\ listed' = listed /\ remote_EOB'[n] = TRUE
      BY <2>3
    <3>5. Tallied(n) => Tallied(n)'
      <4> DEFINE l == Bit(local_EOB[n])
      <4>1. l \in 0..1 /\ Bit(local_EOB'[n]) = l /\ Bit(remote_EOB'[n]) = 1
        BY <3>4 DEF Bit
      <4>2. Bit(remote_EOB[n]) \in 0..1
        BY DEF Bit
      <4>3. messages[n] >= l + Bit(remote_EOB[n]) => messages'[n] >= l + 1
        BY <3>3, <4>1, <4>2
      <4>4. messages[n] >= 1 + l + Bit(remote_EOB[n]) => messages'[n] >= 1 + l + 1
        BY <3>3, <4>1, <4>2
      <4>5. listed'[n] \/ local_EOB'[n] => listed[n] \/ local_EOB[n]
        BY <3>4
      <4> QED
        BY <3>2, <4>1, <4>3, <4>4, <4>5 DEF Tallied
    <3>6. TallyOf(n)'
      BY <1>1, <2>3, <3>1, <3>2, <3>5 DEF TallyOf
    <3> QED
      BY <1>1, <2>1, <3>6, TallyUntouched DEF Tally
  <2> QED
    BY <1>3, <2>2, <2>3 DEF ReceiveEOB
<1>4. ASSUME \/ ReceiveError(n) \/ ReceiveLowDisk(n) \/ ReceiveOnStaleStream(n)
             \/ ReceiveCrcAbort(n) \/ KilledInClose(n)
      PROVE  Tally'
  <2>1. PICK out : Len(out) \in Nat /\ Answer(n, out)
    BY <1>4 DEF ReceiveError, ReceiveLowDisk, ReceiveOnStaleStream, ReceiveCrcAbort,
         KilledInClose
  <2>2. rc' = [rc EXCEPT ![n] = TRUE] /\ FtState'[n] \in {"DeinitTransfer", "Exit"}
    BY <1>4 DEF ReceiveError, ReceiveLowDisk, ReceiveOnStaleStream, ReceiveCrcAbort,
         KilledInClose, Failure, Goto
  <2>3. \A p \in Nodes \ {n} :
          /\ FtState'[p] = FtState[p] /\ TxState'[p] = TxState[p] /\ listed'[p] = listed[p]
          /\ local_EOB'[p] = local_EOB[p] /\ remote_EOB'[p] = remote_EOB[p]
          /\ batchnr'[p] = batchnr[p]
    BY <1>4
    DEF ReceiveError, ReceiveLowDisk, ReceiveOnStaleStream, ReceiveCrcAbort, KilledInClose,
        RejectFile, CloseFile, WriteBlock, AcceptFile, Failure, Goto, txVars
  <2>4. \A p \in Nodes \ {n} : Untouched(p)
    BY <1>2, <2>1, <2>2, <2>3 DEF Untouched
  <2> QED
    BY <1>1, <2>2, <2>4, TallyFailed, TallyUntouched DEF Tally
<1>5. ASSUME \/ ReceiveIgnored(n) \/ ReceiveMessage(n) \/ ReceiveKnownFile(n)
             \/ ReceivePartial(n) \/ ReceiveRefused(n) \/ ReceiveFile(n)
             \/ ReceiveBlock(n) \/ ReceiveLastBlock(n) \/ ReceiveCrcError(n)
      PROVE  Tally'
  <2>1. PICK out : Len(out) \in Nat /\ Answer(n, out)
    BY <1>5
    DEF ReceiveIgnored, ReceiveMessage, ReceiveKnownFile, ReceivePartial, ReceiveRefused,
        ReceiveFile, ReceiveBlock, ReceiveLastBlock, ReceiveCrcError
  <2>2. ReceiverOk(n)
    BY <1>5
    DEF ReceiveIgnored, ReceiveMessage, ReceiveKnownFile, ReceivePartial, ReceiveRefused,
        ReceiveFile, ReceiveBlock, ReceiveLastBlock, ReceiveCrcError
  <2>3. UNCHANGED <<local_EOB, remote_EOB, batchnr, listed, TxState>>
    BY <1>5
    DEF ReceiveIgnored, ReceiveMessage, ReceiveKnownFile, ReceivePartial, ReceiveRefused,
        ReceiveFile, ReceiveBlock, ReceiveLastBlock, ReceiveCrcError, AcceptFile, RejectFile,
        CloseFile, WriteBlock, txVars
  <2>4. /\ FtState'[n] \in {"Switch", "Transmit"} /\ rc' = rc
        /\ \A p \in Nodes \ {n} : FtState'[p] = FtState[p]
    BY <2>2 DEF ReceiverOk, Goto
  <2>5. \A p \in Nodes \ {n} : Untouched(p)
    BY <1>2, <2>1, <2>3, <2>4 DEF Untouched
  <2>6. TallyOf(n)'
    BY <1>1, <1>2, <2>1, <2>3, <2>4, TallyStays
  <2> QED
    BY <1>1, <2>5, <2>6, TallyUntouched DEF Tally
<1> QED
  BY <1>3, <1>4, <1>5 DEF Receive

--------------------------------------------------------------------------------
\* The transmitter.

\* A list with something on it is announced.
LEMMA TrafficCounts ==
  ASSUME TypeOK, NEW n \in Nodes, ~ listed[n]
  PROVE  Served(n) \/ Traffic(n) = <<Command("NUL")>>
<1>1. CASE ~ (Sendable(n) \subseteq Unreadable[batchnr[n]])
  BY <1>1 DEF Traffic
<1>2. CASE Sendable(n) \subseteq Unreadable[batchnr[n]]
  <2>1. \A f \in Own(n) :
          f \in outbound /\ batchnr[n] < BatchLimit => f \in Unreadable[batchnr[n]]
    BY <1>2 DEF Sendable, Filelist, Own
  <2>2. batchnr[n] < BatchLimit \/ batchnr[n] = BatchLimit
    BY OptionsAssumption DEF TypeOK, BatchTypes
  <2> QED
    BY <2>1, <2>2 DEF Served
<1> QED
  BY <1>1, <1>2

LEMMA TrafficLength ==
  ASSUME NEW n \in Nodes
  PROVE  /\ Len(Traffic(n)) \in 0..1
         /\ \A x : Len(Append(Traffic(n), x)) = Len(Traffic(n)) + 1
BY DEF Traffic

\* What is sent from the list is counted.
LEMMA ListTally ==
  ASSUME TypeOK, NEW n \in Nodes, TallyOf(n), GetNextFile(n), outbound' = outbound,
         NEW k \in Nat, k >= Len(Traffic(n)),
         messages'[n] = Count(messages[n], k),
         \/ local_EOB' = local_EOB
         \/ local_EOB' = [local_EOB EXCEPT ![n] = TRUE] /\ k > Len(Traffic(n)),
         TxState'[n] # "TxDone", FtState'[n] \in {"Switch", "Transmit"}
  PROVE  TallyOf(n)'
<1>1. /\ listed'[n] = TRUE /\ rc' = rc /\ remote_EOB' = remote_EOB /\ batchnr' = batchnr
      /\ TxState[n] = "TxGNF"
  BY DEF GetNextFile, Transmits, TypeOK, TxTypes
<1>2. Served(n)' <=> Served(n)
  BY <1>1 DEF Served
<1> DEFINE l == Bit(local_EOB[n])
           lp == Bit(local_EOB'[n])
           r == Bit(remote_EOB[n])
           t == Len(Traffic(n))
<1>3. /\ l \in 0..1 /\ lp \in 0..1 /\ r \in 0..1 /\ t \in 0..1 /\ Bit(remote_EOB'[n]) = r
      /\ messages[n] \in 0..3 /\ k >= t
  BY <1>1, TrafficLength DEF Bit, TypeOK, BatchTypes
<1>4. lp = l \/ (lp = 1 /\ k >= t + 1)
  <2>1. CASE local_EOB' = local_EOB
    BY <2>1
  <2>2. CASE local_EOB' = [local_EOB EXCEPT ![n] = TRUE] /\ k > t
    <3>1. n \in DOMAIN local_EOB
      BY DEF TypeOK, BatchTypes
    <3>2. lp = 1
      BY <2>2, <3>1 DEF Bit
    <3>3. k >= t + 1
      <4> HIDE DEF t
      <4> QED
        BY <1>3, <2>2
    <3> QED
      BY <3>2, <3>3
  <2> QED
    BY <2>1, <2>2
<1>5. messages'[n] = 3 \/ messages'[n] = messages[n] + k
  BY <1>3, CountGrows
<1> HIDE DEF l, lp, r, t
<1>6. ASSUME Tallied(n) PROVE Tallied(n)'
  <2>1. /\ messages[n] >= l + r
        /\ listed[n] \/ local_EOB[n] => Served(n) \/ messages[n] >= 1 + l + r
    BY <1>6 DEF Tallied, l, r
  <2>2. messages'[n] >= lp + r
    BY <1>3, <1>4, <1>5, <2>1
  <2>3. Served(n) \/ messages'[n] >= 1 + lp + r
    <3>1. CASE listed[n]
      BY <1>3, <1>4, <1>5, <2>1, <3>1
    <3>2. CASE ~ listed[n]
      <4>1. Served(n) \/ t = 1
        BY <3>2, TrafficCounts DEF t
      <4> QED
        BY <1>3, <1>4, <1>5, <2>1, <4>1
    <3> QED
      BY <3>1, <3>2
  <2> QED
    BY <1>2, <1>3, <2>2, <2>3 DEF Tallied, lp
<1> QED
  BY <1>1, <1>6 DEF TallyOf

LEMMA TransmitTally ==
  ASSUME TypeOK, Tally, NEW n \in Nodes, Transmit(n)
  PROVE  Tally'
<1> USE DEF TypeOK, ProcessTypes, BatchTypes, TxTypes
<1>1. outbound' \subseteq outbound /\ TallyOf(n)
  BY OutboundShrinks DEF Next, Tally
<1>2. messages[n] \in 0..3
  OBVIOUS
<1>3. CASE \/ TransmitEOB(n) \/ \E f \in Own(n) : TransmitFile(n, f) \/ SkipFile(n, f)
  <2>1. PICK out : /\ SendCommand(n, out)
                   /\ Len(out) \in Nat /\ Len(out) >= Len(Traffic(n))
                   /\ \/ local_EOB' = local_EOB
                      \/ /\ local_EOB' = [local_EOB EXCEPT ![n] = TRUE]
                         /\ Len(out) > Len(Traffic(n))
    <3>1. CASE TransmitEOB(n)
      <4>1. /\ SendCommand(n, Append(Traffic(n), Command("EOB")))
            /\ local_EOB' = [local_EOB EXCEPT ![n] = TRUE]
        BY <3>1 DEF TransmitEOB
      <4>2. Len(Traffic(n)) \in Nat
            /\ Len(Append(Traffic(n), Command("EOB"))) = Len(Traffic(n)) + 1
        BY TrafficLength
      <4> WITNESS Append(Traffic(n), Command("EOB"))
      <4> QED
        BY <4>1, <4>2
    <3>2. ASSUME NEW f \in Own(n), TransmitFile(n, f)
          PROVE  \E out : /\ SendCommand(n, out) /\ local_EOB' = local_EOB
                          /\ Len(out) \in Nat /\ Len(out) >= Len(Traffic(n))
      <4>1. /\ SendCommand(n, Append(Traffic(n), About("FILE", f, offset[f])))
            /\ local_EOB' = local_EOB
        BY <3>2 DEF TransmitFile
      <4>2. Len(Traffic(n)) \in Nat
            /\ Len(Append(Traffic(n), About("FILE", f, offset[f]))) = Len(Traffic(n)) + 1
        BY TrafficLength
      <4> WITNESS Append(Traffic(n), About("FILE", f, offset[f]))
      <4> QED
        BY <4>1, <4>2
    <3>3. ASSUME NEW f \in Own(n), SkipFile(n, f)
          PROVE  \E out : /\ SendCommand(n, out) /\ local_EOB' = local_EOB
                          /\ Len(out) \in Nat /\ Len(out) >= Len(Traffic(n))
      <4>1. SendCommand(n, Traffic(n)) /\ local_EOB' = local_EOB
        BY <3>3 DEF SkipFile
      <4>2. Len(Traffic(n)) \in Nat
        BY TrafficLength
      <4> QED
        BY <4>1, <4>2
    <3> QED
      BY <1>3, <3>1, <3>2, <3>3
  <2>2. /\ GetNextFile(n) /\ outbound' = outbound /\ rc' = rc
        /\ listed' = [listed EXCEPT ![n] = TRUE] /\ remote_EOB' = remote_EOB
        /\ batchnr' = batchnr
    BY <1>3 DEF TransmitEOB, TransmitFile, SkipFile, GetNextFile, Transmits
  <2>3. /\ TxState'[n] # "TxDone" /\ FtState'[n] \in {"Switch", "Transmit"}
        /\ \A p \in Nodes \ {n} : FtState'[p] = FtState[p] /\ TxState'[p] = TxState[p]
    BY <1>3 DEF TransmitEOB, TransmitFile, SkipFile, GetNextFile, Transmits, Goto
  <2>4. /\ messages'[n] = Count(messages[n], Len(out))
        /\ \A p \in Nodes \ {n} : messages'[p] = messages[p] /\ local_EOB'[p] = local_EOB[p]
    BY <2>1 DEF SendCommand
  <2>5. TallyOf(n)'
    BY <1>1, <2>1, <2>2, <2>3, <2>4, ListTally
  <2>6. \A p \in Nodes \ {n} : Untouched(p)
    BY <2>2, <2>3, <2>4 DEF Untouched
  <2> QED
    BY <1>1, <2>5, <2>6, TallyUntouched DEF Tally
<1>4. CASE \/ TransmitBlock(n) \/ TransmitEndOfFile(n) \/ ProcessGet(n) \/ ProcessGot(n)
           \/ ProcessSkip(n) \/ ClearSentList(n) \/ WaitForRemote(n)
  <2>1. /\ UNCHANGED <<local_EOB, remote_EOB, messages, batchnr, rc>>
        /\ listed'[n] => listed[n]
        /\ TxState'[n] = "TxDone" <=> TxState[n] = "TxDone"
        /\ \A p \in Nodes \ {n} : TxState'[p] = TxState[p] /\ listed'[p] = listed[p]
    <3>1. CASE TransmitBlock(n) \/ TransmitEndOfFile(n)
      BY <3>1 DEF TransmitBlock, TransmitEndOfFile, ReadBlock, Transmits, batchVars
    <3>2. CASE ProcessGet(n) \/ ProcessGot(n) \/ ProcessSkip(n)
      <4>1. UNCHANGED <<local_EOB, remote_EOB, messages, batchnr, rc, listed>>
        BY <3>2 DEF ProcessGet, ProcessGot, ProcessSkip, ProcessQueue, batchVars
      <4>2. TxState[n] # "TxDone"
        BY <1>1, <3>2 DEF ProcessGet, ProcessGot, ProcessSkip, ProcessQueue, TallyOf
      <4>3. TxState' = TxState \/ TxState' = [TxState EXCEPT ![n] = "TxGNF"]
        BY <3>2 DEF ProcessGet, ProcessGot, ProcessSkip, StopSending
      <4> QED
        BY <4>1, <4>2, <4>3
    <3>3. CASE ClearSentList(n) \/ WaitForRemote(n)
      BY <3>3 DEF ClearSentList, WaitForRemote, WaitLastAck, Transmits, ClearFilelist, batchVars
    <3> QED
      BY <1>4, <3>1, <3>2, <3>3
  <2>2. /\ FtState'[n] \notin {"DeinitTransfer", "Exit"}
        /\ FtState'[n] = "Messages" => TxState[n] # "TxDone"
        /\ \A p \in Nodes \ {n} : FtState'[p] = FtState[p]
    <3>1. CASE ProcessGet(n) \/ ProcessGot(n) \/ ProcessSkip(n)
      <4>1. ProcessQueue(n)
        BY <3>1 DEF ProcessGet, ProcessGot, ProcessSkip
      <4> QED
        BY <1>1, <4>1 DEF ProcessQueue, Goto, TallyOf
    <3>2. CASE TransmitBlock(n) \/ TransmitEndOfFile(n) \/ ClearSentList(n) \/ WaitForRemote(n)
      <4>1. Goto(n, "Switch")
        BY <3>2
        DEF TransmitBlock, TransmitEndOfFile, ReadBlock, ClearSentList, WaitForRemote, WaitLastAck
      <4> QED
        BY <4>1 DEF Goto
    <3> QED
      BY <1>4, <3>1, <3>2
  <2>3. messages'[n] \in 0..3 /\ messages'[n] >= messages[n]
    BY <1>2, <2>1
  <2>4. TallyOf(n)'
    BY <1>1, <2>1, <2>2, <2>3, TallyStays
  <2>5. \A p \in Nodes \ {n} : Untouched(p)
    BY <2>1, <2>2 DEF Untouched
  <2> QED
    BY <1>1, <2>4, <2>5, TallyUntouched DEF Tally
<1>5. CASE TransmitNewBatch(n)
  <2>1. TallyOf(n)'
    BY <1>5, TallyEmpty DEF TransmitNewBatch, NewBatch, ClearFilelist, WaitLastAck, Goto
  <2>2. \A p \in Nodes \ {n} : Untouched(p)
    BY <1>5
    DEF TransmitNewBatch, NewBatch, ClearFilelist, WaitLastAck, Transmits, Goto, Untouched
  <2> QED
    BY <1>1, <2>1, <2>2, TallyUntouched DEF Tally
<1>6. CASE EndSession(n)
  <2>1. /\ TxState'[n] = "TxDone" /\ rc' = rc /\ FtState'[n] = "Switch" /\ TxState[n] = "TxWLA"
        /\ UNCHANGED <<local_EOB, remote_EOB, messages, batchnr, outbound>>
    BY <1>6 DEF EndSession, WaitLastAck, Transmits, Goto, batchVars
  <2>2. ASSUME ~ rc[n], Minor[n] = 1 PROVE Served(n)'
    <3>1. local_EOB[n] /\ remote_EOB[n] /\ messages[n] < 3
      <4>1. Minor[n] # 0
        BY <2>2
      <4> QED
        BY <1>6, <4>1 DEF EndSession, SessionOver, BothEOB
    <3>2. Bit(local_EOB[n]) = 1 /\ Bit(remote_EOB[n]) = 1
      BY <3>1 DEF Bit
    <3>3. Tallied(n)
      BY <1>1, <2>1, <2>2 DEF TallyOf
    <3>4. Served(n)
      <4>1. Served(n) \/ messages[n] >= 1 + Bit(local_EOB[n]) + Bit(remote_EOB[n])
        BY <3>1, <3>3, Zenon DEF Tallied
      <4>2. messages[n] < 3
        BY <3>1
      <4> HIDE DEF TypeOK, ProcessTypes, BatchTypes, TxTypes
      <4> QED
        BY <1>2, <3>2, <4>1, <4>2
    <3> QED
      BY <2>1, <3>4 DEF Served
  <2>3. TallyOf(n)'
    BY <2>1, <2>2 DEF TallyOf
  <2>4. \A p \in Nodes \ {n} : Untouched(p)
    BY <1>6, <2>1 DEF EndSession, WaitLastAck, ClearFilelist, Goto, Untouched
  <2> QED
    BY <1>1, <2>3, <2>4, TallyUntouched DEF Tally
<1> QED
  BY <1>3, <1>4, <1>5, <1>6 DEF Transmit

--------------------------------------------------------------------------------
\* The end of a session.

LEMMA EndTally ==
  ASSUME TypeOK, Tally, NEW n \in Nodes, End(n) \/ Kill(n)
  PROVE  Tally'
<1> USE DEF TypeOK, ProcessTypes, BatchTypes, TxTypes
<1>1. outbound' \subseteq outbound /\ TallyOf(n)
  BY OutboundShrinks DEF Next, Tally
<1>2. UNCHANGED <<messages, batchnr, local_EOB, remote_EOB, TxState>>
  BY DEF End, Hangup, Timeout, Deinit, Idle, Kill, batchVars, txVars
<1>3. \A p \in Nodes \ {n} : Untouched(p)
  <2>1. \A p \in Nodes \ {n} :
          FtState'[p] = FtState[p] /\ rc'[p] = rc[p] /\ listed'[p] = listed[p]
    BY DEF End, Hangup, Timeout, Deinit, Kill, Failure, Goto, ClearFilelist, txVars
  <2> QED
    BY <1>2, <2>1 DEF Untouched
<1>4. TallyOf(n)'
  <2>1. CASE Hangup(n) \/ Timeout(n) \/ Kill(n)
    <3>1. rc' = [rc EXCEPT ![n] = TRUE] /\ FtState'[n] \in {"DeinitTransfer", "Exit"}
      BY <2>1 DEF Hangup, Timeout, Kill, Failure, Goto
    <3> QED
      BY <3>1, TallyFailed
  <2>2. CASE Deinit(n)
    <3>1. /\ FtState[n] = "DeinitTransfer" \/ TxState[n] = "TxDone"
          /\ FtState'[n] = "Exit" /\ rc' = rc /\ listed'[n] = FALSE
      BY <2>2 DEF Deinit, Finished, Goto, ClearFilelist
    <3>2. CASE FtState[n] = "DeinitTransfer"
      <4>1. rc[n] = TRUE
        BY <1>1, <3>2 DEF TallyOf
      <4> QED
        BY <3>1, <4>1, TallyFailed
    <3>3. CASE TxState[n] = "TxDone"
      <4>1. messages'[n] \in 0..3 /\ messages'[n] >= messages[n]
        BY <1>2
      <4> QED
        BY <1>1, <1>2, <3>1, <3>3, <4>1, TallyStays
    <3> QED
      BY <3>1, <3>2, <3>3
  <2> QED
    BY <2>1, <2>2 DEF End
<1> QED
  BY <1>1, <1>3, <1>4, TallyUntouched DEF Tally

LEMMA NextTally ==
  ASSUME TypeOK, Tally, [Next]_vars
  PROVE  Tally'
<1>1. ASSUME NEW n \in Nodes, Receive(n) PROVE Tally'
  BY <1>1, ReceiveTally
<1>2. ASSUME NEW n \in Nodes, Transmit(n) PROVE Tally'
  BY <1>2, TransmitTally
<1>3. ASSUME NEW n \in Nodes, End(n) \/ Kill(n) PROVE Tally'
  BY <1>3, EndTally
<1>4. CASE LoseLine \/ UNCHANGED vars
  <2>1. outbound' \subseteq outbound
    BY OutboundShrinks
  <2>2. \A p \in Nodes : Untouched(p)
    BY <1>4 DEF LoseLine, batchVars, txVars, vars, Untouched
  <2> QED
    BY <2>1, <2>2, TallyUntouched DEF Tally
<1>5. CASE Redial
  <2>1. ASSUME NEW p \in Nodes PROVE TallyOf(p)'
    BY <1>5, TallyEmpty DEF Redial
  <2> QED
    BY <2>1 DEF Tally
<1> QED
  BY <1>1, <1>2, <1>3, <1>4, <1>5 DEF Next

\* A session that ends well leaves no file queued but those that could not be read
\* when the list of its last batch was made (binkp.c:2826): files that were refused
\* in one of its batches are delivered, whatever was left of earlier sessions and
\* whatever faults happen.  In binkp/1.1 (binkp.c:1800), as long as the batches do
\* not reach the one from which on no files are offered (binkp.c:1553).
THEOREM GoodSessionsDeliver ==
  ASSUME \A n \in Nodes : Minor[n] = 1
  PROVE  Spec /\ [](\A n \in Nodes : batchnr[n] < BatchLimit) => []GoodSessionDelivers
<1>1. Init => Tally
  BY InitTally
<1>2. TypeOK /\ Tally /\ [Next]_vars => Tally'
  BY NextTally
<1>3. TypeOK /\ Tally /\ (\A n \in Nodes : batchnr[n] < BatchLimit) => GoodSessionDelivers
  <2> SUFFICES ASSUME TypeOK, Tally, \A n \in Nodes : batchnr[n] < BatchLimit,
                      NEW n \in Nodes, Succeeded(n)
               PROVE  Own(n) \cap outbound \subseteq Unreadable[batchnr[n]]
    BY DEF GoodSessionDelivers
  <2>1. Served(n)
    BY DEF Tally, TallyOf, Succeeded
  <2>2. batchnr[n] \in Nat /\ batchnr[n] < BatchLimit /\ BatchLimit \in Nat
    BY OptionsAssumption DEF TypeOK, BatchTypes
  <2> QED
    BY <2>1, <2>2 DEF Served
<1> QED
  BY <1>1, <1>2, <1>3, TypeCorrect, PTL DEF Spec

--------------------------------------------------------------------------------
(***************************************************************************)
(* A session between mailers that have nothing in tmp, on a line that      *)
(* holds: it does not fail on either side.                                 *)
(***************************************************************************)

\* Nothing is left of earlier sessions, the line holds and the processes live, and
\* both mailers believe the same version in use.
NothingLeft == \A f \in Files : Leftover[f] \subseteq {<<>>}

NothingBreaks == Faults \subseteq {"refuse", "move"}

Alike == \A n \in Nodes : Minor[n] = Minor[Peer[n]]

\* No frame asks for another offset, or gives the session up.
Smooth(q) ==
  \A i \in DOMAIN q : /\ q[i].cmd \notin {"GET", "ERR", "BSY"}
                      /\ q[i].cmd = "FILE" => q[i].num = 0

NothingFailed ==
  /\ link = "up"
  /\ \A n \in Nodes : rc[n] = FALSE /\ FtState[n] # "DeinitTransfer"
  /\ \A f \in Files : offset[f] = 0
  /\ \A n \in Nodes : Smooth(chan[n]) /\ Smooth(tql[n])

\* What is in tmp is being received, or has been.
PartsKnown ==
  \A f \in Files : part[f] # <<>> => InReceipt(f) \/ GotFor(f)

\* A file that has been offered is somewhere, and after the last batch it is nowhere.
Moving(f) == state[f] \in {"Sending", "IsSent"}

Somewhere(f) ==
  /\ Moving(f) => Offered(f) \/ InReceipt(f) \/ Answered(f) \/ Noted(f)
  /\ TxState[Sender(f)] = "TxDone" =>
       ~ Offered(f) /\ ~ InReceipt(f) /\ ~ Answered(f) /\ ~ Noted(f)

\* Behind frame i of q comes the last block of f, before another file or the end of
\* the batch; or neither of these comes.
FileEnd == {"FILE", "EOB"}

Ends(q, i, f) ==
  \E j \in DOMAIN q :
    /\ j > i
    /\ q[j] = About("DATA", f, Size[f])
    /\ \A k \in DOMAIN q : k > i /\ k < j => q[k].cmd \notin FileEnd

Open(q, i) == \A k \in DOMAIN q : k > i => q[k].cmd \notin FileEnd

Sends(p, f) == TxState[p] = "TxTryR" /\ cursend[p] = f /\ txpos[p] < Size[f]

\* The blocks of f follow frame i of those to n, or are still to be sent.
Follows(n, i, f) ==
  Ends(chan[n], i, f) \/ (Sends(Peer[n], f) /\ Open(chan[n], i))

FilesFollow ==
  \A n \in Nodes :
    /\ RxState[n] = "RxReceD" => Follows(n, 0, rname[n])
    /\ \A i \in DOMAIN chan[n] :
         chan[n][i].cmd = "FILE" => Follows(n, i, chan[n][i].file)

\* There was more in the batch than its ends.
Noisy(n) == messages[n] >= 1 + Bit(local_EOB[n]) + Bit(remote_EOB[n])

\* How the parts of a mailer's state go together.
TxStage(n) ==
  /\ TxState[n] \in {"TxGNF", "TxTryR"} <=> ~ local_EOB[n]
  /\ TxState[n] = "TxDone" => /\ remote_EOB[n] /\ RxState[n] = "RxDone" /\ tql[n] = <<>>
                              /\ Minor[n] = 1 => ~ Noisy(n)
  /\ FtState[n] = "Exit" => TxState[n] = "TxDone"
  /\ FtState[n] = "Switch" /\ BothEOB(n) /\ TxState[n] # "TxDone" =>
       tql[n] = <<>> /\ Pending(n) # {}

RxStage(n) ==
  /\ RxState[n] = "RxDone" => TxState[n] = "TxDone"
  /\ RxState[n] = "RxReceD" => ~ remote_EOB[n] /\ Noisy(n)
  /\ RxState[n] = "RxEOB" <=> Minor[n] = 0 /\ remote_EOB[n] /\ TxState[n] # "TxDone"

ListStage(n) ==
  /\ messages[n] >= Bit(local_EOB[n]) + Bit(remote_EOB[n])
  /\ \A f \in Own(n) :
       /\ state[f] = "Sending" => TxState[n] = "TxTryR" /\ cursend[n] = f
       /\ state[f] = "NoState" => ~ local_EOB[n]
       /\ Moving(f) => Noisy(n)

Stages == \A n \in Nodes : TxStage(n) /\ RxStage(n) /\ ListStage(n)

\* The frames q of a batch, whose end has been sent, and received.
Replying(q) == \A i \in DOMAIN q : q[i].cmd \in Reply

NoEnd(q) == \A i \in DOMAIN q : q[i].cmd # "EOB"

LastEnd(q) ==
  \E e \in DOMAIN q :
    /\ q[e].cmd = "EOB"
    /\ \A i \in DOMAIN q : i < e => q[i].cmd # "EOB"
    /\ \A i \in DOMAIN q : i > e => q[i].cmd \in Reply

Batch(q, sent, received) ==
  \/ ~ sent /\ ~ received /\ NoEnd(q)
  \/ sent /\ ~ received /\ LastEnd(q)
  \/ sent /\ received /\ Replying(q)

Noise(q) == \E i \in DOMAIN q : q[i].cmd \in {"NUL", "FILE"}

\* The peer of n is in the same batch as n.
Heeds(n) ==
  /\ Batch(chan[n], local_EOB[Peer[n]], remote_EOB[n])
  /\ Noise(chan[n]) => Noisy(Peer[n])
  /\ Noisy(Peer[n]) => Noisy(n) \/ Noise(chan[n])

Abreast(n) == Heeds(n) /\ Heeds(Peer[n])

\* The frames q of the batch n is in, and the frames r of the next, which its peer is
\* in.
BehindBy(n, q, r) ==
  /\ chan[n] = q \o r
  /\ Batch(q, TRUE, remote_EOB[n])
  /\ \A i \in DOMAIN q : q[i].cmd # "FILE"
  /\ Noisy(n) \/ Noise(q)
  /\ Batch(r, local_EOB[Peer[n]], FALSE)
  /\ \A i \in DOMAIN r : r[i].cmd \notin Reply
  /\ Noise(r) <=> Noisy(Peer[n])

Behind(n) ==
  /\ Minor[n] = 1
  /\ TxState[n] = "TxWLA" /\ RxState[n] # "RxReceD"
  /\ ~ remote_EOB[Peer[n]] /\ RxState[Peer[n]] = "RxWaitF" /\ chan[Peer[n]] = <<>>
  /\ \E q, r \in Seq(Frame) : BehindBy(n, q, r)

Together == \A n \in Nodes : Abreast(n) \/ Behind(n) \/ Behind(Peer[n])

Harmony ==
  /\ Gone /\ LineStraight /\ Layout /\ Prefixes
  /\ NothingFailed /\ PartsKnown
  /\ \A f \in Files : Somewhere(f)
  /\ FilesFollow /\ Stages /\ Together
--------------------------------------------------------------------------------
\* Queues.

\* The frames of a queue without its head, and of one behind another.
LEMMA TailFrames ==
  ASSUME NEW q \in Seq(Frame), q # <<>>
  PROVE  /\ Head(q) = q[1] /\ 1 \in DOMAIN q
         /\ Tail(q) \in Seq(Frame) /\ Head(q) \in Frame
         /\ \A i \in DOMAIN Tail(q) : i + 1 \in DOMAIN q /\ Tail(q)[i] = q[i + 1]
         /\ \A i \in DOMAIN q : i = 1 \/ (i > 1 /\ i - 1 \in DOMAIN Tail(q)
                                                 /\ Tail(q)[i - 1] = q[i])
<1>1. /\ Len(q) \in Nat /\ Len(q) > 0 /\ Head(q) = q[1]
      /\ DOMAIN q = 1..Len(q) /\ DOMAIN Tail(q) = 1..(Len(q) - 1)
      /\ \A i \in DOMAIN Tail(q) : Tail(q)[i] = q[i + 1]
      /\ Tail(q) \in Seq(Frame) /\ Head(q) \in Frame
  BY HeadTailProperties
<1>2. \A i \in DOMAIN Tail(q) : i + 1 \in DOMAIN q
  BY <1>1
<1>3. ASSUME NEW i \in DOMAIN q, i # 1
      PROVE  i > 1 /\ i - 1 \in DOMAIN Tail(q) /\ Tail(q)[i - 1] = q[i]
  <2>1. i \in Nat /\ i > 1 /\ i - 1 \in 1..(Len(q) - 1) /\ (i - 1) + 1 = i
    BY <1>1, <1>3
  <2> QED
    BY <1>1, <2>1
<1> QED
  BY <1>1, <1>2, <1>3

LEMMA ConcatFrames ==
  ASSUME NEW q \in Seq(Frame), NEW r \in Seq(Frame)
  PROVE  /\ q \o r \in Seq(Frame)
         /\ \A i \in DOMAIN q : i \in DOMAIN (q \o r) /\ (q \o r)[i] = q[i] /\ i \in 1..Len(q)
         /\ \A i \in DOMAIN r : /\ Len(q) + i \in DOMAIN (q \o r)
                                /\ (q \o r)[Len(q) + i] = r[i] /\ Len(q) + i > Len(q)
         /\ \A i \in DOMAIN (q \o r) :
              \/ i \in DOMAIN q
              \/ i > Len(q) /\ i - Len(q) \in DOMAIN r /\ (q \o r)[i] = r[i - Len(q)]
<1>1. /\ Len(q) \in Nat /\ Len(r) \in Nat
      /\ DOMAIN q = 1..Len(q) /\ DOMAIN r = 1..Len(r)
      /\ DOMAIN (q \o r) = 1..(Len(q) + Len(r)) /\ q \o r \in Seq(Frame)
      /\ \A i \in 1..(Len(q) + Len(r)) :
           (q \o r)[i] = IF i <= Len(q) THEN q[i] ELSE r[i - Len(q)]
  BY ConcatProperties
<1>2. ASSUME NEW i \in DOMAIN r
      PROVE  /\ Len(q) + i \in DOMAIN (q \o r) /\ (q \o r)[Len(q) + i] = r[i]
             /\ Len(q) + i > Len(q)
  <2>1. Len(q) + i \in 1..(Len(q) + Len(r)) /\ ~ (Len(q) + i <= Len(q))
        /\ (Len(q) + i) - Len(q) = i
    BY <1>1
  <2> QED
    BY <1>1, <2>1
<1>3. ASSUME NEW i \in DOMAIN (q \o r), i \notin DOMAIN q
      PROVE  i > Len(q) /\ i - Len(q) \in DOMAIN r /\ (q \o r)[i] = r[i - Len(q)]
  BY <1>1, <1>3
<1>4. ASSUME NEW i \in DOMAIN q PROVE i \in DOMAIN (q \o r) /\ (q \o r)[i] = q[i]
  BY <1>1
<1> QED
  BY <1>1, <1>2, <1>3, <1>4

\* The first frame of two queues is that of the first.
LEMMA ConcatTail ==
  ASSUME NEW q \in Seq(Frame), NEW r \in Seq(Frame), q # <<>>
  PROVE  /\ q \o r # <<>> /\ Head(q \o r) = Head(q)
         /\ Tail(q \o r) = Tail(q) \o r
OBVIOUS

LEMMA ConcatNone ==
  ASSUME NEW q \in Seq(Frame), NEW r \in Seq(Frame), NEW s \in Seq(Frame)
  PROVE  /\ q \o <<>> = q /\ <<>> \o q = q
         /\ (q \o r) \o s = q \o (r \o s)
OBVIOUS

LEMMA SmoothTail ==
  ASSUME NEW q \in Seq(Frame), q # <<>>, Smooth(q)
  PROVE  /\ Smooth(Tail(q)) /\ Head(q).cmd \in {"NUL", "EOB", "FILE", "GOT", "SKIP", "DATA"}
         /\ Head(q).cmd = "FILE" => Head(q).num = 0
<1>1. Smooth(Tail(q))
  BY TailFrames DEF Smooth
<1>2. Head(q).cmd \notin {"GET", "ERR", "BSY"} /\ (Head(q).cmd = "FILE" => Head(q).num = 0)
  BY TailFrames DEF Smooth
<1>3. Head(q).cmd \in {"NUL", "EOB", "ERR", "BSY", "FILE", "GET", "GOT", "SKIP", "DATA"}
  BY TailFrames DEF Frame
<1> QED
  BY <1>1, <1>2, <1>3

LEMMA SmoothConcat ==
  ASSUME NEW q \in Seq(Frame), NEW r \in Seq(Frame), Smooth(q), Smooth(r)
  PROVE  Smooth(q \o r)
<1> SUFFICES ASSUME NEW i \in DOMAIN (q \o r)
             PROVE  /\ (q \o r)[i].cmd \notin {"GET", "ERR", "BSY"}
                    /\ (q \o r)[i].cmd = "FILE" => (q \o r)[i].num = 0
  BY DEF Smooth
<1> QED
  BY ConcatFrames DEF Smooth

LEMMA SmoothOne ==
  ASSUME NEW x \in Frame, x.cmd \notin {"GET", "ERR", "BSY"}, x.cmd = "FILE" => x.num = 0
  PROVE  Smooth(<<x>>) /\ Smooth(<<>>)
<1>1. DOMAIN <<x>> = {1} /\ <<x>>[1] = x /\ DOMAIN <<>> = {}
  OBVIOUS
<1> QED
  BY <1>1 DEF Smooth

\* The frames of a batch, when one of them is received.
LEMMA BatchTail ==
  ASSUME NEW q \in Seq(Frame), q # <<>>, NEW s, NEW r, Batch(q, s, r)
  PROVE  /\ Head(q).cmd # "EOB" => Batch(Tail(q), s, r)
         /\ Head(q).cmd = "EOB" => s /\ ~ r /\ Replying(Tail(q)) /\ ~ Noise(q)
         /\ r => Head(q).cmd \in Reply
<1> USE TailFrames
<1>1. CASE ~ s /\ ~ r /\ NoEnd(q)
  <2>1. Head(q).cmd # "EOB" /\ NoEnd(Tail(q))
    BY <1>1 DEF NoEnd
  <2> QED
    BY <1>1, <2>1 DEF Batch
<1>2. CASE s /\ ~ r /\ LastEnd(q)
  <2>1. PICK e \in DOMAIN q :
          /\ q[e].cmd = "EOB"
          /\ \A i \in DOMAIN q : i < e => q[i].cmd # "EOB"
          /\ \A i \in DOMAIN q : i > e => q[i].cmd \in Reply
    BY <1>2 DEF LastEnd
  <2>2. e \in Nat /\ DOMAIN Tail(q) \subseteq Nat
    OBVIOUS
  <2>3. CASE e = 1
    <3>1. \A i \in DOMAIN Tail(q) : i + 1 > e
      BY <2>2, <2>3
    <3>2. Replying(Tail(q))
      BY <2>1, <3>1 DEF Replying
    <3>3. \A i \in DOMAIN q : q[i].cmd = "EOB" \/ q[i].cmd \in Reply
      BY <2>1, <2>3
    <3>4. ~ Noise(q)
      BY <3>3 DEF Noise, Reply
    <3> QED
      BY <1>2, <2>1, <2>3, <3>2, <3>4
  <2>4. CASE e # 1
    <3>1. e - 1 \in DOMAIN Tail(q) /\ Tail(q)[e - 1] = q[e] /\ e > 1
      BY <2>4
    <3>2. Head(q).cmd # "EOB"
      BY <2>1, <3>1
    <3>3. \A i \in DOMAIN Tail(q) : /\ i < e - 1 => i + 1 < e
                                    /\ i > e - 1 => i + 1 > e
      BY <2>2
    <3>4. LastEnd(Tail(q))
      BY <2>1, <3>1, <3>3 DEF LastEnd
    <3> QED
      BY <1>2, <3>2, <3>4 DEF Batch
  <2> QED
    BY <2>3, <2>4
<1>3. CASE s /\ r /\ Replying(q)
  <2>1. Replying(Tail(q)) /\ Head(q).cmd \in Reply
    BY <1>3 DEF Replying
  <2> QED
    BY <1>3, <2>1 DEF Batch, Reply
<1> QED
  BY <1>1, <1>2, <1>3 DEF Batch

\* A queue without an end before one.
LEMMA EndConcat ==
  ASSUME NEW q \in Seq(Frame), NEW o \in Seq(Frame), NoEnd(q)
  PROVE  /\ NoEnd(o) => NoEnd(q \o o)
         /\ LastEnd(o) => LastEnd(q \o o)
<1> USE ConcatFrames
<1>1. NoEnd(o) => NoEnd(q \o o)
  BY DEF NoEnd
<1>2. ASSUME LastEnd(o) PROVE LastEnd(q \o o)
  <2>1. PICK e \in DOMAIN o :
          /\ o[e].cmd = "EOB"
          /\ \A i \in DOMAIN o : i < e => o[i].cmd # "EOB"
          /\ \A i \in DOMAIN o : i > e => o[i].cmd \in Reply
    BY <1>2 DEF LastEnd
  <2> DEFINE d == Len(q) + e
  <2>2. d \in DOMAIN (q \o o) /\ (q \o o)[d].cmd = "EOB" /\ d > Len(q)
    BY <2>1
  <2>3. ASSUME NEW i \in DOMAIN (q \o o), i < d PROVE (q \o o)[i].cmd # "EOB"
    <3>1. CASE i \in DOMAIN q
      BY <3>1 DEF NoEnd
    <3>2. CASE i \notin DOMAIN q
      <4>1. i - Len(q) \in DOMAIN o /\ (q \o o)[i] = o[i - Len(q)]
        BY <3>2
      <4>2. i - Len(q) < e
        BY <2>3, <4>1
      <4> QED
        BY <2>1, <4>1, <4>2
    <3> QED
      BY <3>1, <3>2
  <2>4. ASSUME NEW i \in DOMAIN (q \o o), i > d PROVE (q \o o)[i].cmd \in Reply
    <3>1. i \notin DOMAIN q
      BY <2>4
    <3>2. i - Len(q) \in DOMAIN o /\ (q \o o)[i] = o[i - Len(q)]
      BY <3>1
    <3>3. i - Len(q) > e
      BY <2>4, <3>2
    <3> QED
      BY <2>1, <3>2, <3>3
  <2> HIDE DEF d
  <2> QED
    BY <2>2, <2>3, <2>4 DEF LastEnd
<1> QED
  BY <1>1, <1>2

\* And when one is sent.
LEMMA BatchConcat ==
  ASSUME NEW q \in Seq(Frame), NEW o \in Seq(Frame), NEW s, NEW r, Batch(q, s, r)
  PROVE  /\ Replying(o) => Batch(q \o o, s, r)
         /\ ~ s /\ NoEnd(o) => Batch(q \o o, s, r)
         /\ ~ s /\ LastEnd(o) => ~ r /\ Batch(q \o o, TRUE, r)
<1> USE ConcatFrames
<1>1. CASE ~ s /\ ~ r /\ NoEnd(q)
  <2>1. NoEnd(o) => NoEnd(q \o o)
    BY <1>1, EndConcat
  <2>2. Replying(o) => NoEnd(o)
    BY DEF Replying, NoEnd, Reply
  <2>3. LastEnd(o) => LastEnd(q \o o)
    BY <1>1, EndConcat
  <2> QED
    BY <1>1, <2>1, <2>2, <2>3 DEF Batch
<1>2. CASE s /\ ~ r /\ LastEnd(q)
  <2>1. PICK e \in DOMAIN q :
          /\ q[e].cmd = "EOB"
          /\ \A i \in DOMAIN q : i < e => q[i].cmd # "EOB"
          /\ \A i \in DOMAIN q : i > e => q[i].cmd \in Reply
    BY <1>2 DEF LastEnd
  <2>2. ASSUME Replying(o) PROVE LastEnd(q \o o)
    <3>1. e \in DOMAIN (q \o o) /\ (q \o o)[e] = q[e]
      OBVIOUS
    <3>2. \A i \in DOMAIN (q \o o) : i < e => i \in DOMAIN q
      OBVIOUS
    <3>3. \A i \in DOMAIN (q \o o) : i > e => (q \o o)[i].cmd \in Reply
      BY <2>1, <2>2 DEF Replying
    <3>4. \A i \in DOMAIN (q \o o) : i < e => (q \o o)[i].cmd # "EOB"
      BY <2>1, <3>2
    <3> QED
      BY <2>1, <3>1, <3>3, <3>4 DEF LastEnd
  <2> QED
    BY <1>2, <2>2 DEF Batch
<1>3. CASE s /\ r /\ Replying(q)
  <2>1. Replying(o) => Replying(q \o o)
    BY <1>3 DEF Replying
  <2> QED
    BY <1>3, <2>1 DEF Batch
<1> QED
  BY <1>1, <1>2, <1>3 DEF Batch

LEMMA NoiseTail ==
  ASSUME NEW q \in Seq(Frame), q # <<>>
  PROVE  Noise(q) <=> Head(q).cmd \in {"NUL", "FILE"} \/ Noise(Tail(q))
<1> QED
  BY SMTT(30), TailFrames DEF Noise

LEMMA NoiseConcat ==
  ASSUME NEW q \in Seq(Frame), NEW o \in Seq(Frame)
  PROVE  Noise(q \o o) <=> Noise(q) \/ Noise(o)
<1> USE ConcatFrames
<1>1. Noise(q \o o) => Noise(q) \/ Noise(o)
  BY DEF Noise
<1>2. Noise(q) => Noise(q \o o)
  BY DEF Noise
<1>3. ASSUME NEW i \in DOMAIN o, o[i].cmd \in {"NUL", "FILE"} PROVE Noise(q \o o)
  <2>1. Len(q) + i \in DOMAIN (q \o o) /\ (q \o o)[Len(q) + i] = o[i]
    OBVIOUS
  <2> QED
    BY <1>3, <2>1 DEF Noise
<1> QED
  BY <1>1, <1>2, <1>3 DEF Noise

\* Queues of a frame, and of none.
LEMMA ShortQueues ==
  ASSUME NEW x \in Frame
  PROVE  /\ Replying(<<x>>) <=> x.cmd \in Reply
         /\ NoEnd(<<x>>) <=> x.cmd # "EOB"
         /\ Noise(<<x>>) <=> x.cmd \in {"NUL", "FILE"}
         /\ x.cmd = "EOB" => LastEnd(<<x>>)
         /\ Replying(<<>>) /\ NoEnd(<<>>) /\ ~ Noise(<<>>) /\ ~ LastEnd(<<>>)
<1>1. DOMAIN <<x>> = {1} /\ <<x>>[1] = x /\ DOMAIN <<>> = {}
  OBVIOUS
<1> QED
  BY <1>1 DEF Replying, NoEnd, Noise, LastEnd

\* The rest of a file, behind a frame of a queue.
LEMMA EndsTail ==
  ASSUME NEW q \in Seq(Frame), q # <<>>, NEW f, NEW i \in Nat
  PROVE  /\ Ends(q, i + 1, f) => Ends(Tail(q), i, f)
         /\ Open(q, i + 1) => Open(Tail(q), i)
<1> USE TailFrames
<1>1. ASSUME Ends(q, i + 1, f) PROVE Ends(Tail(q), i, f)
  <2>1. PICK j \in DOMAIN q :
          /\ j > i + 1 /\ q[j] = About("DATA", f, Size[f])
          /\ \A k \in DOMAIN q : k > i + 1 /\ k < j => q[k].cmd \notin FileEnd
    BY <1>1 DEF Ends
  <2>2. j \in Nat /\ j - 1 \in DOMAIN Tail(q) /\ Tail(q)[j - 1] = q[j] /\ j - 1 > i
    BY <2>1
  <2>3. ASSUME NEW k \in DOMAIN Tail(q), k > i, k < j - 1 PROVE Tail(q)[k].cmd \notin FileEnd
    <3>1. k + 1 \in DOMAIN q /\ Tail(q)[k] = q[k + 1] /\ k + 1 > i + 1 /\ k + 1 < j
      BY SMTT(30), <2>2, <2>3
    <3> QED
      BY <2>1, <3>1
  <2> QED
    BY <2>1, <2>2, <2>3 DEF Ends
<1>2. ASSUME Open(q, i + 1), NEW k \in DOMAIN Tail(q), k > i
      PROVE  Tail(q)[k].cmd \notin FileEnd
  <2>1. k + 1 \in DOMAIN q /\ Tail(q)[k] = q[k + 1] /\ k + 1 > i + 1
    BY <1>2
  <2> QED
    BY <1>2, <2>1 DEF Open
<1> QED
  BY <1>1, <1>2 DEF Open

\* The first frame is that last block, or neither another file nor the end.
LEMMA EndsHead ==
  ASSUME NEW q \in Seq(Frame), q # <<>>, NEW f
  PROVE  /\ Ends(q, 0, f) => \/ Head(q) = About("DATA", f, Size[f])
                             \/ Head(q).cmd \notin FileEnd /\ Ends(Tail(q), 0, f)
         /\ Open(q, 0) => Head(q).cmd \notin FileEnd /\ Open(Tail(q), 0)
<1> USE TailFrames
<1>1. ASSUME Ends(q, 0, f), Head(q) # About("DATA", f, Size[f])
      PROVE  Head(q).cmd \notin FileEnd /\ Ends(Tail(q), 0, f)
  <2>1. PICK j \in DOMAIN q :
          /\ j > 0 /\ q[j] = About("DATA", f, Size[f])
          /\ \A k \in DOMAIN q : k > 0 /\ k < j => q[k].cmd \notin FileEnd
    BY <1>1 DEF Ends
  <2>2. j # 1
    BY <1>1, <2>1
  <2>3. j > 1 /\ 0 + 1 = 1 /\ Ends(q, 0 + 1, f)
    BY <2>1, <2>2 DEF Ends
  <2> QED
    BY <2>1, <2>3, EndsTail
<1>2. ASSUME Open(q, 0) PROVE Head(q).cmd \notin FileEnd /\ Open(Tail(q), 0)
  <2>1. Open(q, 0 + 1) /\ 1 > 0
    BY <1>2 DEF Open
  <2> QED
    BY <1>2, <2>1, EndsTail DEF Open
<1> QED
  BY <1>1, <1>2

LEMMA EndsConcat ==
  ASSUME NEW q \in Seq(Frame), NEW r \in Seq(Frame), NEW f, NEW i \in 0..Len(q)
  PROVE  /\ Ends(q, i, f) => Ends(q \o r, i, f)
         /\ Open(q, i) /\ Open(r, 0) => Open(q \o r, i)
         /\ Open(q, i) /\ Ends(r, 0, f) => Ends(q \o r, i, f)
<1> USE ConcatFrames
<1>0. Len(q) \in Nat
  OBVIOUS
<1>1. ASSUME Ends(q, i, f) PROVE Ends(q \o r, i, f)
  <2>1. PICK j \in DOMAIN q :
          /\ j > i /\ q[j] = About("DATA", f, Size[f])
          /\ \A k \in DOMAIN q : k > i /\ k < j => q[k].cmd \notin FileEnd
    BY <1>1 DEF Ends
  <2>2. ASSUME NEW k \in DOMAIN (q \o r), k > i, k < j PROVE (q \o r)[k].cmd \notin FileEnd
    <3>1. k \in DOMAIN q
      BY <2>2
    <3> QED
      BY <2>1, <2>2, <3>1
  <2>3. j \in DOMAIN (q \o r) /\ (q \o r)[j] = q[j]
    OBVIOUS
  <2> QED
    BY <2>1, <2>2, <2>3, Zenon DEF Ends
<1>2. ASSUME Open(q, i), Open(r, 0), NEW k \in DOMAIN (q \o r), k > i
      PROVE  (q \o r)[k].cmd \notin FileEnd
  <2>1. CASE k \in DOMAIN q
    BY <1>2, <2>1 DEF Open
  <2>2. CASE k \notin DOMAIN q
    <3>1. k - Len(q) \in DOMAIN r /\ (q \o r)[k] = r[k - Len(q)] /\ k - Len(q) > 0
      BY <2>2
    <3> QED
      BY <1>2, <3>1 DEF Open
  <2> QED
    BY <2>1, <2>2
<1>3. ASSUME Open(q, i), Ends(r, 0, f) PROVE Ends(q \o r, i, f)
  <2>1. PICK j \in DOMAIN r :
          /\ j > 0 /\ r[j] = About("DATA", f, Size[f])
          /\ \A k \in DOMAIN r : k > 0 /\ k < j => r[k].cmd \notin FileEnd
    BY <1>3 DEF Ends
  <2> DEFINE d == Len(q) + j
  <2>2. d \in DOMAIN (q \o r) /\ (q \o r)[d] = r[j] /\ d > i
    BY <1>0, <2>1
  <2>3. ASSUME NEW k \in DOMAIN (q \o r), k > i, k < d PROVE (q \o r)[k].cmd \notin FileEnd
    <3>1. CASE k \in DOMAIN q
      BY <1>3, <2>3, <3>1 DEF Open
    <3>2. CASE k \notin DOMAIN q
      <4>1. k - Len(q) \in DOMAIN r /\ (q \o r)[k] = r[k - Len(q)] /\ k - Len(q) > 0
        BY <3>2
      <4>2. k - Len(q) < j
        BY <2>3, <4>1
      <4> QED
        BY <2>1, <4>1, <4>2
    <3> QED
      BY <3>1, <3>2
  <2> HIDE DEF d
  <2> QED
    BY <2>1, <2>2, <2>3 DEF Ends
<1> QED
  BY <1>1, <1>2, <1>3 DEF Open

\* Nothing is behind the last frame.
LEMMA OpenEnd ==
  ASSUME NEW q \in Seq(Frame), NEW x \in Frame
  PROVE  /\ Open(q, Len(q)) /\ Open(<<>>, 0)
         /\ x.cmd \notin FileEnd => Open(<<x>>, 0)
         /\ \A f : x = About("DATA", f, Size[f]) => Ends(<<x>>, 0, f)
<1>1. Len(q) \in Nat /\ DOMAIN q = 1..Len(q) /\ DOMAIN <<>> = {}
      /\ DOMAIN <<x>> = {1} /\ <<x>>[1] = x
  OBVIOUS
<1>2. \A k \in DOMAIN q : ~ (k > Len(q))
  BY <1>1
<1>3. \A k \in {1} : k > 0 /\ ~ (k < 1)
  OBVIOUS
<1> QED
  BY <1>1, <1>2, <1>3 DEF Open, Ends

--------------------------------------------------------------------------------
\* What can happen.

LEMMA HarmonyTypes ==
  ASSUME Harmony
  PROVE  /\ Places /\ TypeOK
         /\ chan \in [Nodes -> Seq(Frame)] /\ tql \in [Nodes -> Seq(Frame)]
         /\ \A n \in Nodes : Peer[n] \in Nodes /\ Peer[n] # n /\ Peer[Peer[n]] = n
<1>1. Places /\ TypeOK
  BY DEF Harmony, Gone, Places
<1>2. chan \in [Nodes -> Seq(Frame)] /\ tql \in [Nodes -> Seq(Frame)]
  BY <1>1 DEF TypeOK, LineTypes, TxTypes
<1> QED
  BY <1>1, <1>2

\* Nobody asks for a file from where a part ends.
LEMMA HarmonyApart == Harmony => ResumesApart
<1> SUFFICES ASSUME Harmony, NEW f \in Files PROVE ~ Resumes(f)
  BY DEF ResumesApart, Own
<1>1. \A p \in Nodes : AskedBy(chan[p], f, 0) /\ AskedBy(tql[p], f, 0)
  BY DEF Harmony, NothingFailed, Smooth, AskedBy, Begins
<1>2. offset[f] = 0
  BY DEF Harmony, NothingFailed
<1> QED
  BY <1>1, <1>2 DEF Resumes, Numbers, Begins

\* A file that is somewhere is pending.
LEMMA PlacePending ==
  ASSUME Places, NEW f \in Files, Active(Sender(f)),
         Offered(f) \/ InReceipt(f) \/ Answered(f) \/ Noted(f)
  PROVE  Moving(f) /\ Sender(f) \in Nodes /\ f \in Own(Sender(f)) /\ f \in Pending(Sender(f))
<1>1. ~ AtRest(f) /\ state[f] \in FileState
  BY DEF Places, OnePlace, TypeOK, TxTypes
<1>2. Moving(f)
  BY <1>1 DEF AtRest, Active, RestStates, FileState, Moving
<1>3. Sender(f) \in Nodes /\ f \in Own(Sender(f))
  BY DEF Own, Sender
<1> QED
  BY <1>2, <1>3 DEF Moving, Pending

\* A frame about a file puts it in its place.
LEMMA FramePlace ==
  ASSUME Places, NEW n \in Nodes, NEW i \in DOMAIN chan[n]
  PROVE  /\ chan[n][i].cmd \in Reply =>
              /\ chan[n][i].file \in Files /\ Sender(chan[n][i].file) = n
              /\ Answered(chan[n][i].file)
         /\ chan[n][i].cmd = "FILE" =>
              /\ chan[n][i].file \in Files /\ Sender(chan[n][i].file) = Peer[n]
              /\ Receiver(chan[n][i].file) = n
              /\ Offered(chan[n][i].file)
<1>1. chan[n][i] \in Frame
  BY DEF Places, TypeOK, LineTypes
<1>2. chan[n][i].cmd \in Reply \cup {"FILE"} => chan[n][i].file \in Files
  BY <1>1, FrameFile DEF Reply
<1>3. /\ chan[n][i].cmd = "FILE" => Owner[chan[n][i].file] = Peer[n]
      /\ chan[n][i].cmd \in Reply => Owner[chan[n][i].file] = n
  BY DEF Places, LineOwned, Owned
<1>4. Peer[Peer[n]] = n
  OBVIOUS
<1>5. ASSUME chan[n][i].cmd \in Reply
      PROVE  Sender(chan[n][i].file) = n /\ Answered(chan[n][i].file)
  BY SMTT(30), <1>3, <1>5 DEF Sender, Answered, Has
<1>6. ASSUME chan[n][i].cmd = "FILE"
      PROVE  /\ Sender(chan[n][i].file) = Peer[n] /\ Receiver(chan[n][i].file) = n
             /\ Offered(chan[n][i].file)
  BY <1>3, <1>4, <1>6 DEF Sender, Receiver, Offered, Has
<1> QED
  BY <1>2, <1>5, <1>6

\* No answer is under way when nothing is pending.
LEMMA NoAnswers ==
  ASSUME Places, NEW n \in Nodes, Active(n), Pending(n) = {}, NEW i \in DOMAIN chan[n]
  PROVE  chan[n][i].cmd \notin Reply
<1> SUFFICES ASSUME chan[n][i].cmd \in Reply PROVE FALSE
  OBVIOUS
<1> DEFINE f == chan[n][i].file
<1>1. f \in Files /\ Sender(f) = n /\ Answered(f)
  BY FramePlace
<1> HIDE DEF f
<1> QED
  BY <1>1, PlacePending

\* n polls in a batch that its peer has left: something of that batch is under way.
LEMMA SwitchFrames ==
  ASSUME Harmony, NEW n \in Nodes, Behind(n), FtState[n] = "Switch",
         NEW q \in Seq(Frame), NEW r \in Seq(Frame), BehindBy(n, q, r)
  PROVE  q # <<>>
<1> SUFFICES ASSUME q = <<>> PROVE FALSE
  OBVIOUS
<1>1. Places /\ chan[n] = r
  BY HarmonyTypes, ConcatNone DEF BehindBy
<1>2. remote_EOB[n]
  BY ShortQueues, CommandTyped DEF BehindBy, Batch
<1>3. TxState[n] = "TxWLA" /\ RxState[Peer[n]] = "RxWaitF" /\ chan[Peer[n]] = <<>>
  BY DEF Behind
<1>4. TxStage(n) /\ ListStage(n)
  BY DEF Harmony, Stages
<1>5. local_EOB[n]
  BY <1>3, <1>4 DEF TxStage
<1>6. tql[n] = <<>> /\ Pending(n) # {}
  BY <1>2, <1>3, <1>4, <1>5 DEF TxStage, BothEOB
<1>7. PICK f \in Own(n) : state[f] \in {"NoState", "Sending", "IsSent"}
  BY <1>6 DEF Pending
<1>8. Moving(f)
  BY <1>3, <1>4, <1>5, <1>7 DEF ListStage, Moving
<1>9. f \in Files /\ Sender(f) = n /\ Receiver(f) = Peer[n]
  BY DEF Own, Sender, Receiver
<1>10. ~ Offered(f) /\ ~ InReceipt(f) /\ ~ Noted(f)
  BY <1>3, <1>6, <1>9, HasNone DEF Offered, InReceipt, Noted
<1>11. Answered(f)
  BY <1>8, <1>9, <1>10 DEF Harmony, Somewhere
<1>12. PICK i \in DOMAIN r : r[i].cmd \in Reply
  BY <1>1, <1>9, <1>11 DEF Answered, Has
<1> QED
  BY <1>12 DEF BehindBy

\* When the end of the batch has come, only answers do.
LEMMA AfterEnd ==
  ASSUME Harmony, NEW n \in Nodes, FtState[n] = "Switch", chan[n] # <<>>, remote_EOB[n]
  PROVE  Head(chan[n]).cmd \in Reply
<1>1. chan[n] \in Seq(Frame)
  BY HarmonyTypes
<1>2. CASE Abreast(n)
  BY <1>1, <1>2, BatchTail DEF Abreast, Heeds
<1>3. CASE Behind(n)
  <2>1. PICK q, r \in Seq(Frame) : BehindBy(n, q, r)
    BY <1>3 DEF Behind
  <2>2. q # <<>> /\ Batch(q, TRUE, remote_EOB[n]) /\ chan[n] = q \o r
    BY <1>3, <2>1, SwitchFrames DEF BehindBy
  <2>3. Head(q).cmd \in Reply
    BY <2>2, BatchTail
  <2> QED
    BY <2>2, <2>3, ConcatTail
<1>4. CASE Behind(Peer[n])
  BY <1>4, HarmonyTypes DEF Behind
<1> QED
  BY <1>2, <1>3, <1>4 DEF Harmony, Together

\* A frame finds the receiver in a state for it.
LEMMA PolledFrame ==
  ASSUME Harmony, NEW n \in Nodes, Polled(n)
  PROVE  /\ In(n) \in Frame /\ In(n) = Head(chan[n])
         /\ In(n).cmd \in {"NUL", "EOB", "FILE", "GOT", "SKIP", "DATA"}
         /\ TxState[n] # "TxDone" /\ RxState[n] # "RxDone" /\ FtState[n] = "Switch"
         /\ In(n).cmd \in FileEnd => RxState[n] = "RxWaitF" /\ ~ remote_EOB[n]
         /\ In(n).cmd = "DATA" => RxState[n] \in {"RxWaitF", "RxReceD"} /\ ~ remote_EOB[n]
<1>1. chan[n] \in Seq(Frame) /\ chan[n] # <<>> /\ ~ Finished(n) /\ FtState[n] = "Switch"
      /\ In(n) = Head(chan[n])
  BY HarmonyTypes DEF Polled, In
<1>2. In(n) \in Frame /\ In(n).cmd \in {"NUL", "EOB", "FILE", "GOT", "SKIP", "DATA"}
  BY <1>1, SmoothTail, QueueTyped DEF Harmony, NothingFailed
<1>3. TxStage(n) /\ RxStage(n)
  BY DEF Harmony, Stages
<1>4. TxState[n] # "TxDone" /\ RxState[n] # "RxDone"
  BY <1>1, <1>3 DEF Finished, TxStage, RxStage
<1>5. RxState[n] \in {"RxWaitF", "RxReceD", "RxEOB"}
  BY <1>4, HarmonyTypes DEF TypeOK, RxTypes
<1>6. ASSUME In(n).cmd \notin Reply PROVE ~ remote_EOB[n] /\ RxState[n] # "RxEOB"
  BY <1>1, <1>3, <1>6, AfterEnd DEF RxStage
<1>7. ASSUME In(n).cmd \in FileEnd PROVE RxState[n] # "RxReceD"
  <2> SUFFICES ASSUME RxState[n] = "RxReceD" PROVE FALSE
    OBVIOUS
  <2>1. Follows(n, 0, rname[n])
    BY DEF Harmony, FilesFollow
  <2>2. Head(chan[n]) = About("DATA", rname[n], Size[rname[n]])
    BY <1>1, <1>7, <2>1, EndsHead DEF Follows
  <2> QED
    BY <1>1, <1>7, <2>2 DEF About, FileEnd
<1> QED
  BY <1>1, <1>2, <1>4, <1>5, <1>6, <1>7 DEF FileEnd, Reply

\* There is nothing in tmp of a file that is offered.
LEMMA OfferedAfresh ==
  ASSUME Harmony, NEW n \in Nodes, Polled(n), In(n).cmd = "FILE"
  PROVE  /\ In(n).file \in Files /\ Sender(In(n).file) = Peer[n] /\ Receiver(In(n).file) = n
         /\ Offered(In(n).file)
         /\ In(n).num = 0 /\ part[In(n).file] = <<>>
         /\ ~ Reused(n) /\ TmpSize(n) = 0 /\ ~ AlreadyGot(n) /\ ~ IsPartial(n)
<1> DEFINE f == In(n).file
<1>1. Places /\ chan[n] \in Seq(Frame) /\ chan[n] # <<>> /\ In(n) = chan[n][1]
      /\ 1 \in DOMAIN chan[n] /\ In(n) = Head(chan[n])
  BY HarmonyTypes, TailFrames DEF Polled, In
<1>2. f \in Files /\ Sender(f) = Peer[n] /\ Receiver(f) = n /\ Offered(f)
  BY <1>1, FramePlace
<1>3. In(n).num = 0
  BY <1>1, SmoothTail DEF Harmony, NothingFailed
<1>4. part[f] = <<>>
  <2>1. OnePlace(f) /\ Gone
    BY <1>1, <1>2 DEF Places, Harmony
  <2>2. ~ InReceipt(f) /\ ~ GotFor(f)
    BY <1>2, <2>1, GotPlace DEF OnePlace
  <2> QED
    BY <1>2, <2>2 DEF Harmony, PartsKnown
<1>5. ~ Reused(n)
  BY <1>3 DEF Reused
<1>6. TmpSize(n) = 0
  BY <1>4, <1>5 DEF TmpSize
<1>7. Size[f] \in Nat \ {0}
  BY <1>2, FilesAssumption
<1> QED
  BY <1>2, <1>3, <1>4, <1>5, <1>6, <1>7 DEF AlreadyGot, IsPartial

\* The blocks of a file make it up.
LEMMA ContentRight ==
  ASSUME Harmony, NEW n \in Nodes, WriteBlock(n)
  PROVE  /\ rname[n] \in Files /\ infp[n] = rname[n] /\ Receiver(rname[n]) = n
         /\ Sender(rname[n]) = Peer[n]
         /\ IsLast(n) <=> In(n) = About("DATA", rname[n], Size[rname[n]])
         /\ In(n).file = rname[n]
         /\ IsLast(n) => Content(n) = Whole(rname[n])
<1> DEFINE e == rname[n]
<1>1. Places /\ Layout /\ LineStraight /\ Prefixes
  BY HarmonyTypes DEF Harmony
<1>2. /\ e \in Files /\ infp[n] = e /\ rxpos[n] = Len(part[e])
      /\ part[e] \in Seq(Files \X Nat)
      /\ Content(n) \in Seq(Files \X Nat) /\ Len(Content(n)) = Len(part[e]) + 1
      /\ Content(n) = Append(part[e], <<In(n).file, In(n).num>>)
  BY <1>1, WriteFacts DEF Places, TypeOK, RxTypes
<1>3. In(n).file = e /\ In(n).num = Len(part[e]) + 1 /\ In(n).cmd = "DATA"
      /\ RxState[n] = "RxReceD" /\ Polled(n)
  BY <1>1, NextBlock DEF WriteBlock
<1>4. Sender(e) = Peer[n] /\ Receiver(e) = n
  BY <1>1, WriteFacts DEF Sender, Receiver
<1>5. In(n) = About("DATA", e, Len(part[e]) + 1)
  BY <1>3, PolledFrame DEF About, Frame
<1>6. IsLast(n) <=> Len(part[e]) + 1 = Size[e]
  BY <1>2 DEF IsLast
<1>7. IsLast(n) <=> In(n) = About("DATA", e, Size[e])
  BY <1>5, <1>6 DEF About
<1>8. IsLast(n) => Content(n) = Whole(e)
  <2>1. PrefixOf(part[e], e) /\ <<e, Len(part[e]) + 1>> \in Files \X Nat
    BY <1>1, <1>2 DEF Prefixes
  <2>2. PrefixOf(Append(part[e], <<e, Len(part[e]) + 1>>), e)
    BY <1>2, <2>1, PrefixAppend
  <2>3. PrefixOf(Content(n), e)
    BY <1>2, <1>3, <2>2
  <2> QED
    BY <1>2, <1>6, <2>3, WholePrefix
<1> QED
  BY <1>2, <1>3, <1>4, <1>7, <1>8

--------------------------------------------------------------------------------
\* The steps of the receiver.

LEMMA HarmonyReceive ==
  ASSUME NothingBreaks, Harmony, NEW n \in Nodes, Receive(n)
  PROVE  /\ Polled(n)
         /\ \/ ReceiveIgnored(n) \/ ReceiveMessage(n) \/ ReceiveEOB(n) \/ ReceiveRefused(n)
            \/ ReceiveFile(n) \/ ReceiveBlock(n) \/ ReceiveLastBlock(n)
<1>1. ~ ReceiveError(n)
  <2> SUFFICES ASSUME ReceiveError(n) PROVE FALSE
    OBVIOUS
  <2> QED
    BY PolledFrame DEF ReceiveError, FileEnd
<1>2. ~ ReceiveKnownFile(n) /\ ~ ReceivePartial(n)
  BY OfferedAfresh DEF ReceiveKnownFile, ReceivePartial, AcceptFile
<1>3. ~ ReceiveLowDisk(n)
  BY DEF ReceiveLowDisk, Fault, NothingBreaks
<1>4. ~ ReceiveOnStaleStream(n)
  BY OfferedAfresh DEF ReceiveOnStaleStream, StaleStream
<1>5. ~ ReceiveCrcError(n) /\ ~ ReceiveCrcAbort(n)
  BY ContentRight DEF ReceiveCrcError, ReceiveCrcAbort, RejectFile, CloseFile, CrcFails
<1>6. ~ KilledInClose(n)
  BY DEF KilledInClose, Fault, NothingBreaks
<1>7. \/ ReceiveIgnored(n) \/ ReceiveMessage(n) \/ ReceiveEOB(n) \/ ReceiveRefused(n)
      \/ ReceiveFile(n) \/ ReceiveBlock(n) \/ ReceiveLastBlock(n)
  BY <1>1, <1>2, <1>3, <1>4, <1>5, <1>6 DEF Receive
<1>8. Polled(n)
  BY <1>7
  DEF ReceiveIgnored, ReceiveMessage, ReceiveEOB, ReceiveRefused, ReceiveFile, ReceiveBlock,
      ReceiveLastBlock, AcceptFile, CloseFile, WriteBlock
<1> QED
  BY <1>7, <1>8

\* What n's step leaves to the others.
Others(n) ==
  \A m \in Nodes \ {n} :
    /\ FtState'[m] = FtState[m] /\ RxState'[m] = RxState[m] /\ TxState'[m] = TxState[m]
    /\ local_EOB'[m] = local_EOB[m] /\ remote_EOB'[m] = remote_EOB[m]
    /\ messages'[m] = messages[m] /\ tql'[m] = tql[m] /\ rname'[m] = rname[m]
    /\ cursend'[m] = cursend[m] /\ txpos'[m] = txpos[m]
    /\ \A f \in Own(m) : state'[f] = state[f] /\ offset'[f] = offset[f]

Line(n, in, out) ==
  /\ chan'[n] = in
  /\ chan'[Peer[n]] = chan[Peer[n]] \o out
  /\ \A m \in Nodes \ {n, Peer[n]} : chan'[m] = chan[m]

\* What the receiver makes of a frame x that does not end the batch.
Hears(n, x, out) ==
  \/ /\ RxState'[n] = RxState[n] /\ rname'[n] = rname[n] /\ out = <<>>
     /\ x.cmd \in {"NUL", "GOT", "SKIP", "DATA"}
     /\ RxState[n] = "RxReceD" => x # About("DATA", rname[n], Size[rname[n]])
  \/ /\ x.cmd = "FILE" /\ RxState[n] = "RxWaitF" /\ rname'[n] = x.file
     /\ \/ RxState'[n] = "RxReceD" /\ out = <<>>
        \/ RxState'[n] = "RxWaitF" /\ out = <<About("SKIP", x.file, 0)>>
  \/ /\ x = About("DATA", rname[n], Size[rname[n]]) /\ RxState[n] = "RxReceD"
     /\ rname[n] \in Files /\ Sender(rname[n]) = Peer[n]
     /\ RxState'[n] = "RxWaitF" /\ rname'[n] = rname[n]
     /\ out = <<About("GOT", rname[n], 0)>>

HeardShape(n, out) ==
  /\ Polled(n) /\ In(n).cmd # "EOB"
  /\ Others(n) /\ Line(n, Tail(chan[n]), out) /\ Hears(n, In(n), out)
  /\ UNCHANGED <<local_EOB, remote_EOB, TxState, cursend, txpos, state, offset, outbound,
                 link, rc>>
  /\ messages'[n] = Count(messages[n], Len(out) + IF In(n).cmd = "DATA" THEN 0 ELSE 1)
  /\ FtState'[n] = IF BothEOB(n) /\ TxState[n] # "TxDone" THEN "Transmit" ELSE "Switch"
  /\ tql'[n] = IF In(n).cmd \in Reply THEN Append(tql[n], In(n)) ELSE tql[n]
  /\ \A f \in Files : \/ part'[f] = part[f]
                      \/ f = rname[n] /\ RxState[n] = "RxReceD" /\ Receiver(f) = n
                         /\ In(n).cmd = "DATA"

LEMMA AnswerLine ==
  ASSUME TypeOK, NEW n \in Nodes, NEW out \in Seq(Frame), Answer(n, out)
  PROVE  Line(n, Tail(chan[n]), out)
BY DEF Answer, Line, TypeOK, LineTypes

LEMMA ReceiverLine ==
  ASSUME TypeOK, NEW n \in Nodes, ReceiverOk(n), local_EOB'[n] = local_EOB[n],
         remote_EOB'[n] = remote_EOB[n]
  PROVE  /\ FtState'[n] = IF BothEOB(n) /\ TxState[n] # "TxDone" THEN "Transmit" ELSE "Switch"
         /\ \A m \in Nodes \ {n} : FtState'[m] = FtState[m]
         /\ rc' = rc
BY DEF ReceiverOk, Goto, BothEOB, TypeOK, ProcessTypes

LEMMA HeardHasShape ==
  ASSUME NothingBreaks, Harmony, NEW n \in Nodes, Receive(n), ~ ReceiveEOB(n)
  PROVE  \E out \in Seq(Frame) : HeardShape(n, out)
<1>1. TypeOK /\ Places /\ Polled(n)
  BY HarmonyTypes, HarmonyReceive
<1>2. In(n) \in Frame /\ FtState[n] = "Switch"
  BY <1>1, PolledFrame
<1> DEFINE Common(out) ==
      /\ Answer(n, out) /\ ReceiverOk(n)
      /\ UNCHANGED <<local_EOB, remote_EOB, TxState, cursend, txpos, state, offset, outbound>>
<1>3. ASSUME NEW out \in Seq(Frame), Common(out), In(n).cmd # "EOB", Hears(n, In(n), out),
             \A m \in Nodes \ {n} : /\ RxState'[m] = RxState[m] /\ rname'[m] = rname[m]
                                    /\ tql'[m] = tql[m],
             tql'[n] = IF In(n).cmd \in Reply THEN Append(tql[n], In(n)) ELSE tql[n],
             \A f \in Files : \/ part'[f] = part[f]
                              \/ f = rname[n] /\ RxState[n] = "RxReceD" /\ Receiver(f) = n
                                 /\ In(n).cmd = "DATA"
      PROVE  HeardShape(n, out)
  <2>1. Line(n, Tail(chan[n]), out)
    BY <1>1, <1>3, AnswerLine
  <2>2. /\ FtState'[n] = IF BothEOB(n) /\ TxState[n] # "TxDone" THEN "Transmit" ELSE "Switch"
        /\ \A m \in Nodes \ {n} : FtState'[m] = FtState[m]
        /\ rc' = rc
    BY <1>1, <1>3, ReceiverLine
  <2>3. /\ messages' = [messages EXCEPT ![n] =
                          Count(messages[n], Len(out) + IF In(n).cmd = "DATA" THEN 0 ELSE 1)]
        /\ link' = link
    BY <1>3 DEF Answer
  <2>4. /\ messages'[n] = Count(messages[n], Len(out) + IF In(n).cmd = "DATA" THEN 0 ELSE 1)
        /\ \A m \in Nodes \ {n} : messages'[m] = messages[m]
    <3>1. messages \in [Nodes -> 0..3]
      BY <1>1 DEF TypeOK, BatchTypes
    <3> QED
      BY <2>3, <3>1
  <2>5. Others(n)
    BY <1>3, <2>2, <2>4 DEF Others, Own
  <2> QED
    BY <1>1, <1>3, <2>1, <2>2, <2>3, <2>4, <2>5 DEF HeardShape
<1> HIDE DEF Common
<1>4. CASE ReceiveIgnored(n)
  <2>1. Common(<<>>)
    BY <1>4 DEF ReceiveIgnored, txVars, Common
  <2>2. In(n).cmd \in {"NUL", "DATA"} /\ (In(n).cmd = "DATA" => RxState[n] # "RxReceD")
    BY <1>4 DEF ReceiveIgnored
  <2>3. UNCHANGED <<RxState, rname, tql, part>>
    BY <1>4 DEF ReceiveIgnored, rxVars, txVars
  <2>4. Hears(n, In(n), <<>>)
    BY <2>2, <2>3 DEF Hears, About
  <2> QED
    BY NoFrames, <1>3, <2>1, <2>2, <2>3, <2>4 DEF Reply
<1>5. CASE ReceiveMessage(n)
  <2>1. Common(<<>>)
    BY <1>5 DEF ReceiveMessage, Common
  <2>2. In(n).cmd \in {"GOT", "SKIP"}
    BY <1>1, <1>5, PolledFrame DEF ReceiveMessage
  <2>3. UNCHANGED <<RxState, rname, part>>
    BY <1>5 DEF ReceiveMessage, rxVars
  <2>4. tql'[n] = Append(tql[n], In(n)) /\ \A m \in Nodes \ {n} : tql'[m] = tql[m]
    BY <1>5, HarmonyTypes DEF ReceiveMessage
  <2>5. Hears(n, In(n), <<>>)
    BY <2>2, <2>3 DEF Hears, About
  <2> QED
    BY NoFrames, <1>3, <2>1, <2>2, <2>3, <2>4, <2>5 DEF Reply
<1>6. CASE ReceiveRefused(n) \/ ReceiveFile(n)
  <2>1. AcceptFile(n) /\ In(n).cmd = "FILE"
    BY <1>6 DEF ReceiveRefused, ReceiveFile, AcceptFile
  <2>2. RxState[n] = "RxWaitF" /\ In(n).file \in Files
    BY <1>1, <2>1, PolledFrame, OfferedAfresh DEF FileEnd
  <2>3. /\ UNCHANGED <<local_EOB, remote_EOB, cursend, txpos, state, offset, outbound, tql, part>>
        /\ rname'[n] = In(n).file /\ \A m \in Nodes \ {n} : rname'[m] = rname[m]
    BY <1>1, <2>1 DEF AcceptFile, TypeOK, RxTypes
  <2>4. CASE ReceiveRefused(n)
    <3>1. Common(<<About("SKIP", In(n).file, 0)>>)
      BY <2>3, <2>4 DEF ReceiveRefused, Common
    <3>2. RxState'[n] = "RxWaitF" /\ \A m \in Nodes \ {n} : RxState'[m] = RxState[m]
      BY <1>1, <2>4 DEF ReceiveRefused, TypeOK, RxTypes
    <3>3. Hears(n, In(n), <<About("SKIP", In(n).file, 0)>>)
      BY <2>1, <2>2, <2>3, <3>2 DEF Hears
    <3>4. <<About("SKIP", In(n).file, 0)>> \in Seq(Frame)
      BY <2>2, AnswersTyped
    <3> QED
      BY <1>3, <2>1, <2>3, <3>1, <3>2, <3>3, <3>4 DEF Reply
  <2>5. CASE ReceiveFile(n)
    <3>1. Common(<<>>)
      BY <2>3, <2>5 DEF ReceiveFile, Common
    <3>2. RxState'[n] = "RxReceD" /\ \A m \in Nodes \ {n} : RxState'[m] = RxState[m]
      BY <1>1, <2>5 DEF ReceiveFile, TypeOK, RxTypes
    <3>3. Hears(n, In(n), <<>>)
      BY <2>1, <2>2, <2>3, <3>2 DEF Hears
    <3> QED
      BY NoFrames, <1>3, <2>1, <2>3, <3>1, <3>2, <3>3 DEF Reply
  <2> QED
    BY <1>6, <2>4, <2>5
<1>7. CASE ReceiveBlock(n) \/ ReceiveLastBlock(n)
  <2>1. WriteBlock(n) /\ In(n).cmd = "DATA" /\ RxState[n] = "RxReceD"
    BY <1>7 DEF ReceiveBlock, ReceiveLastBlock, CloseFile, WriteBlock
  <2>2. /\ rname[n] \in Files /\ infp[n] = rname[n] /\ Receiver(rname[n]) = n
        /\ Sender(rname[n]) = Peer[n]
        /\ IsLast(n) <=> In(n) = About("DATA", rname[n], Size[rname[n]])
    BY <2>1, ContentRight
  <2>3. UNCHANGED <<local_EOB, remote_EOB, TxState, cursend, txpos, state, offset, outbound,
                    tql, rname>>
    BY <2>1 DEF WriteBlock, txVars
  <2>4. \A f \in Files \ {rname[n]} : part'[f] = part[f]
    <3>1. part \in [Files -> Seq(Files \X Nat)]
      BY <1>1 DEF TypeOK, RxTypes
    <3> QED
      BY <1>7, <2>2, <3>1 DEF ReceiveBlock, ReceiveLastBlock
  <2>5. CASE ReceiveBlock(n)
    <3>1. Common(<<>>)
      BY <2>3, <2>5 DEF ReceiveBlock, Common
    <3>2. RxState' = RxState /\ ~ IsLast(n)
      BY <2>5 DEF ReceiveBlock
    <3>3. Hears(n, In(n), <<>>)
      BY <2>1, <2>2, <2>3, <3>2 DEF Hears
    <3> QED
      BY NoFrames, <1>3, <2>1, <2>2, <2>3, <2>4, <3>1, <3>2, <3>3 DEF Reply
  <2>6. CASE ReceiveLastBlock(n)
    <3>1. Common(<<About("GOT", rname[n], 0)>>)
      BY <2>3, <2>6 DEF ReceiveLastBlock, Common
    <3>2. RxState'[n] = "RxWaitF" /\ \A m \in Nodes \ {n} : RxState'[m] = RxState[m]
      BY <1>1, <2>6 DEF ReceiveLastBlock, TypeOK, RxTypes
    <3>3. IsLast(n)
      BY <2>6 DEF ReceiveLastBlock, CloseFile
    <3>4. Hears(n, In(n), <<About("GOT", rname[n], 0)>>)
      BY <2>1, <2>2, <2>3, <3>2, <3>3 DEF Hears
    <3>5. <<About("GOT", rname[n], 0)>> \in Seq(Frame)
      BY <2>2, AnswersTyped
    <3> QED
      BY <1>3, <2>1, <2>2, <2>3, <2>4, <3>1, <3>2, <3>4, <3>5 DEF Reply
  <2> QED
    BY <1>7, <2>5, <2>6
<1> QED
  BY <1>4, <1>5, <1>6, <1>7, HarmonyReceive

--------------------------------------------------------------------------------
\* The end of a batch.

\* The end of the peer's batch has come, and the batch is not over.
EndedShape(n) ==
  /\ Polled(n) /\ In(n).cmd = "EOB" /\ RxState[n] = "RxWaitF"
  /\ Others(n) /\ Line(n, Tail(chan[n]), <<>>)
  /\ UNCHANGED <<local_EOB, TxState, cursend, txpos, state, offset, outbound, link, rc,
                 tql, rname, part>>
  /\ remote_EOB'[n] = TRUE
  /\ messages'[n] = Count(messages[n], 1)
  /\ RxState'[n] = IF Minor[n] = 0 THEN "RxEOB" ELSE "RxWaitF"
  /\ FtState'[n] = IF local_EOB[n] /\ TxState[n] # "TxDone" THEN "Transmit" ELSE "Switch"

\* n begins the next batch.
NewShape(n) ==
  /\ \/ /\ Polled(n) /\ In(n).cmd = "EOB" /\ RxState[n] = "RxWaitF"
        /\ local_EOB[n] /\ Count(messages[n], 1) = 3
        /\ Line(n, Tail(chan[n]), <<>>)
     \/ /\ FtState[n] \in {"Switch", "Transmit"} /\ BothEOB(n) /\ messages[n] = 3
        /\ Line(n, chan[n], <<>>)
  /\ Minor[n] = 1 /\ Pending(n) = {}
  /\ Others(n)
  /\ UNCHANGED <<cursend, txpos, outbound, link, rc, tql, rname, part>>
  /\ local_EOB'[n] = FALSE /\ remote_EOB'[n] = FALSE /\ messages'[n] = 0
  /\ TxState'[n] = "TxGNF" /\ RxState'[n] = "RxWaitF" /\ FtState'[n] = "Switch"
  /\ \A f \in Own(n) : state'[f] = "NotListed" /\ offset'[f] = 0

LEMMA NewBatchEffect ==
  ASSUME TypeOK, NEW n \in Nodes, NewBatch(n)
  PROVE  /\ local_EOB'[n] = FALSE /\ remote_EOB'[n] = FALSE
         /\ TxState'[n] = "TxGNF" /\ RxState'[n] = "RxWaitF"
         /\ \A f \in Own(n) : state'[f] = "NotListed" /\ offset'[f] = 0
         /\ \A m \in Nodes \ {n} :
              /\ local_EOB'[m] = local_EOB[m] /\ remote_EOB'[m] = remote_EOB[m]
              /\ TxState'[m] = TxState[m] /\ RxState'[m] = RxState[m]
              /\ \A f \in Own(m) : state'[f] = state[f] /\ offset'[f] = offset[f]
<1>1. /\ local_EOB'[n] = FALSE /\ \A m \in Nodes \ {n} : local_EOB'[m] = local_EOB[m]
  BY DEF NewBatch, TypeOK, BatchTypes
<1>2. /\ remote_EOB'[n] = FALSE /\ \A m \in Nodes \ {n} : remote_EOB'[m] = remote_EOB[m]
  BY DEF NewBatch, TypeOK, BatchTypes
<1>3. /\ TxState'[n] = "TxGNF" /\ \A m \in Nodes \ {n} : TxState'[m] = TxState[m]
  BY DEF NewBatch, TypeOK, TxTypes
<1>4. /\ RxState'[n] = "RxWaitF" /\ \A m \in Nodes \ {n} : RxState'[m] = RxState[m]
  BY DEF NewBatch, TypeOK, RxTypes
<1>5. /\ \A f \in Own(n) : state'[f] = "NotListed" /\ offset'[f] = 0
      /\ \A m \in Nodes \ {n} : \A f \in Own(m) : state'[f] = state[f] /\ offset'[f] = offset[f]
  BY DEF NewBatch, ClearFilelist, Own
<1> QED
  BY <1>1, <1>2, <1>3, <1>4, <1>5

LEMMA EndHasShape ==
  ASSUME Harmony, NEW n \in Nodes, ReceiveEOB(n)
  PROVE  EndedShape(n) \/ NewShape(n)
<1>1. TypeOK /\ Polled(n) /\ In(n).cmd = "EOB" /\ RxState[n] = "RxWaitF"
  BY HarmonyTypes DEF ReceiveEOB
<1>2. UNCHANGED <<link, tql, cursend, txpos, outbound, rname, part>>
  BY DEF ReceiveEOB
<1>3. Line(n, Tail(chan[n]), <<>>)
  <2>1. chan' = [chan EXCEPT ![n] = Tail(chan[n])] /\ chan \in [Nodes -> Seq(Frame)]
    BY <1>1 DEF ReceiveEOB, TypeOK, LineTypes
  <2>2. chan[Peer[n]] \o <<>> = chan[Peer[n]]
    BY <2>1, ConcatNone
  <2> QED
    BY <2>1, <2>2 DEF Line
<1>4. /\ FtState'[n] = IF local_EOB'[n] /\ remote_EOB'[n] /\ TxState[n] # "TxDone"
                       THEN "Transmit" ELSE "Switch"
      /\ \A m \in Nodes \ {n} : FtState'[m] = FtState[m]
      /\ rc' = rc
  BY <1>1 DEF ReceiveEOB, ReceiverOk, Goto, TypeOK, ProcessTypes
<1>5. CASE /\ Minor[n] = 1 /\ local_EOB[n] /\ Count(messages[n], 1) = 3 /\ Pending(n) = {}
           /\ NewBatch(n) /\ messages' = [messages EXCEPT ![n] = 0]
  <2>1. messages'[n] = 0 /\ \A m \in Nodes \ {n} : messages'[m] = messages[m]
    BY <1>1, <1>5 DEF TypeOK, BatchTypes
  <2>2. \A m \in Nodes \ {n} :
          /\ local_EOB'[m] = local_EOB[m] /\ remote_EOB'[m] = remote_EOB[m]
          /\ TxState'[m] = TxState[m] /\ RxState'[m] = RxState[m]
          /\ \A f \in Own(m) : state'[f] = state[f] /\ offset'[f] = offset[f]
    BY <1>1, <1>5, NewBatchEffect
  <2>4. Others(n)
    BY <1>2, <1>4, <2>1, <2>2 DEF Others
  <2>3. FtState'[n] = "Switch"
    BY <1>1, <1>4, <1>5, NewBatchEffect
  <2> QED
    BY <1>1, <1>2, <1>3, <1>4, <1>5, <2>1, <2>3, <2>4, NewBatchEffect DEF NewShape
<1>6. CASE /\ remote_EOB' = [remote_EOB EXCEPT ![n] = TRUE]
           /\ messages' = [messages EXCEPT ![n] = Count(messages[n], 1)]
           /\ RxState' = [RxState EXCEPT ![n] = IF Minor[n] = 0 THEN "RxEOB" ELSE "RxWaitF"]
           /\ UNCHANGED <<local_EOB, batchnr, TxState, listed, state, offset>>
  <2>1. /\ messages'[n] = Count(messages[n], 1)
        /\ \A m \in Nodes \ {n} : messages'[m] = messages[m]
    BY <1>1, <1>6 DEF TypeOK, BatchTypes
  <2>2. remote_EOB'[n] = TRUE /\ \A m \in Nodes \ {n} : remote_EOB'[m] = remote_EOB[m]
    BY <1>1, <1>6 DEF TypeOK, BatchTypes
  <2>3. /\ RxState'[n] = IF Minor[n] = 0 THEN "RxEOB" ELSE "RxWaitF"
        /\ \A m \in Nodes \ {n} : RxState'[m] = RxState[m]
    BY <1>1, <1>6 DEF TypeOK, RxTypes
  <2>4. Others(n)
    BY <1>2, <1>4, <1>6, <2>1, <2>2, <2>3 DEF Others
  <2>5. FtState'[n] = IF local_EOB[n] /\ TxState[n] # "TxDone" THEN "Transmit" ELSE "Switch"
    BY <1>4, <1>6, <2>2
  <2> QED
    BY <1>1, <1>2, <1>3, <1>4, <1>6, <2>1, <2>2, <2>3, <2>4, <2>5 DEF EndedShape
<1> QED
  BY <1>5, <1>6 DEF ReceiveEOB
--------------------------------------------------------------------------------
\* The steps of the transmitter.

\* What it sends.
Sent(n, out) ==
  \/ \E f \in Own(n) : TransmitFile(n, f) /\ out = Append(Traffic(n), About("FILE", f, 0))
  \/ \E f \in Own(n) : SkipFile(n, f) /\ out = Traffic(n)
  \/ TransmitEOB(n) /\ out = Append(Traffic(n), Command("EOB"))
  \/ /\ TransmitBlock(n) \/ (TransmitEndOfFile(n) /\ txpos[n] + 1 = Size[cursend[n]])
     /\ txpos'[n] = txpos[n] + 1 /\ out = <<About("DATA", cursend[n], txpos[n] + 1)>>
  \/ /\ TransmitEndOfFile(n) /\ txpos[n] = Size[cursend[n]] /\ txpos' = txpos /\ out = <<>>
  \/ /\ \/ ProcessGot(n) \/ ProcessSkip(n) \/ EndSession(n) \/ TransmitNewBatch(n)
        \/ ClearSentList(n) \/ WaitForRemote(n)
     /\ out = <<>>

LEMMA TrafficFrames ==
  ASSUME NEW n \in Nodes
  PROVE  /\ Traffic(n) \in Seq(Frame) /\ Smooth(Traffic(n))
         /\ Traffic(n) = <<>> \/ Traffic(n) = <<Command("NUL")>>
         /\ \A x \in Frame : Append(Traffic(n), x) = Traffic(n) \o <<x>>
<1>1. Command("NUL") \in Frame /\ Command("NUL").cmd = "NUL"
  BY CommandTyped DEF Command
<1>2. Traffic(n) = <<>> \/ Traffic(n) = <<Command("NUL")>>
  BY DEF Traffic
<1>3. Traffic(n) \in Seq(Frame)
  <2>1. <<Command("NUL")>> \in Seq(Frame)
    BY <1>1
  <2> QED
    BY <1>2, <2>1, NoFrames
<1>4. Smooth(Traffic(n))
  BY <1>1, <1>2, SmoothOne
<1> QED
  BY <1>2, <1>3, <1>4, AppendConcat

LEMMA SendLine ==
  ASSUME Harmony, NEW n \in Nodes, NEW out \in Seq(Frame),
         Send(n, out) \/ (chan' = chan /\ out = <<>>)
  PROVE  Line(n, chan[n], out)
<1>1. /\ chan \in [Nodes -> Seq(Frame)] /\ link = "up"
      /\ chan[Peer[n]] \o <<>> = chan[Peer[n]]
  BY HarmonyTypes, ConcatNone DEF Harmony, NothingFailed
<1> QED
  BY <1>1 DEF Send, Line

LEMMA TransmitSends ==
  ASSUME Harmony, NEW n \in Nodes, Transmit(n)
  PROVE  \E out \in Seq(Frame) : Sent(n, out) /\ Line(n, chan[n], out) /\ Smooth(out)
<1>1. TypeOK /\ link = "up" /\ (\A f \in Files : offset[f] = 0) /\ Smooth(tql[n])
  BY HarmonyTypes DEF Harmony, NothingFailed
<1>2. Traffic(n) \in Seq(Frame) /\ Smooth(Traffic(n))
      /\ \A x \in Frame : Append(Traffic(n), x) = Traffic(n) \o <<x>>
  BY TrafficFrames
<1>3. ASSUME NEW x \in Frame, x.cmd \notin {"GET", "ERR", "BSY"}, x.cmd = "FILE" => x.num = 0
      PROVE  /\ Append(Traffic(n), x) \in Seq(Frame) /\ Smooth(Append(Traffic(n), x))
             /\ <<x>> \in Seq(Frame) /\ Smooth(<<x>>)
  <2>1. <<x>> \in Seq(Frame) /\ Smooth(<<x>>)
    BY <1>3, SmoothOne
  <2>2. Append(Traffic(n), x) = Traffic(n) \o <<x>>
    BY <1>2, <1>3
  <2>3. Traffic(n) \o <<x>> \in Seq(Frame) /\ Smooth(Traffic(n) \o <<x>>)
    BY <1>2, <2>1, SmoothConcat, ConcatFrames
  <2> QED
    BY <2>1, <2>2, <2>3
<1>4. ASSUME NEW f \in Own(n), TransmitFile(n, f) PROVE \E out \in Seq(Frame) :
        Sent(n, out) /\ Line(n, chan[n], out) /\ Smooth(out)
  <2>1. f \in Files /\ offset[f] = 0
    BY <1>1 DEF Own
  <2>2. About("FILE", f, 0) \in Frame /\ About("FILE", f, 0).cmd = "FILE"
        /\ About("FILE", f, 0).num = 0
    BY <2>1, AboutTyped DEF About
  <2> DEFINE out == Append(Traffic(n), About("FILE", f, 0))
  <2>3. out \in Seq(Frame) /\ Smooth(out)
    BY <1>3, <2>2
  <2>4. Send(n, out)
    BY <1>4, <2>1 DEF TransmitFile, SendCommand
  <2>5. Sent(n, out)
    BY <1>4 DEF Sent
  <2> HIDE DEF out
  <2> QED
    BY <2>3, <2>4, <2>5, SendLine
<1>5. ASSUME NEW f \in Own(n), SkipFile(n, f) PROVE \E out \in Seq(Frame) :
        Sent(n, out) /\ Line(n, chan[n], out) /\ Smooth(out)
  <2>1. Send(n, Traffic(n)) /\ Sent(n, Traffic(n))
    BY <1>5 DEF SkipFile, SendCommand, Sent
  <2> QED
    BY <1>2, <2>1, SendLine
<1>6. CASE TransmitEOB(n)
  <2>1. Command("EOB") \in Frame /\ Command("EOB").cmd = "EOB"
    BY CommandTyped DEF Command
  <2>2. Send(n, Append(Traffic(n), Command("EOB"))) /\ Sent(n, Append(Traffic(n), Command("EOB")))
    BY <1>6 DEF TransmitEOB, SendCommand, Sent
  <2> QED
    BY <1>3, <2>1, <2>2, SendLine
<1>7. CASE TransmitBlock(n) \/ TransmitEndOfFile(n)
  <2>1. cursend[n] \in Files /\ txpos[n] \in Nat
    BY <1>1, <1>7 DEF TransmitBlock, TransmitEndOfFile, ReadBlock, Transmits, TypeOK, TxTypes
  <2> DEFINE x == About("DATA", cursend[n], txpos[n] + 1)
  <2>2. x \in Frame /\ x.cmd = "DATA"
    BY <2>1, AboutTyped DEF About
  <2>3. <<x>> \in Seq(Frame) /\ Smooth(<<x>>)
    BY <1>3, <2>2
  <2>4. CASE /\ TransmitBlock(n) \/ (TransmitEndOfFile(n) /\ txpos[n] + 1 = Size[cursend[n]])
             /\ txpos' = [txpos EXCEPT ![n] = txpos[n] + 1]
             /\ Send(n, <<About("DATA", cursend[n], txpos'[n])>>)
    <3>1. txpos'[n] = txpos[n] + 1
      BY <1>1, <2>4 DEF TypeOK, TxTypes
    <3>2. Sent(n, <<x>>) /\ Send(n, <<x>>)
      BY <2>4, <3>1 DEF Sent
    <3> HIDE DEF x
    <3> QED
      BY <2>3, <3>2, SendLine
  <2>5. CASE TransmitEndOfFile(n) /\ txpos[n] = Size[cursend[n]] /\ UNCHANGED <<chan, txpos>>
    <3>1. Sent(n, <<>>) /\ chan' = chan
      BY <2>5 DEF Sent
    <3>2. Smooth(<<>>)
      BY <2>2, SmoothOne
    <3> QED
      BY <3>1, <3>2, SendLine, NoFrames
  <2> QED
    BY <1>7, <2>4, <2>5 DEF TransmitBlock, TransmitEndOfFile
<1>8. CASE \/ ProcessGot(n) \/ ProcessSkip(n) \/ EndSession(n) \/ TransmitNewBatch(n)
           \/ ClearSentList(n) \/ WaitForRemote(n)
  <2>1. Sent(n, <<>>)
    BY <1>8 DEF Sent
  <2>2. chan' = chan
    BY <1>8 DEF ProcessGot, ProcessSkip, ProcessQueue, EndSession, TransmitNewBatch,
        ClearSentList, WaitForRemote, WaitLastAck, lineVars
  <2>3. Smooth(<<>>)
    BY SmoothOne, CommandTyped DEF Smooth
  <2> QED
    BY <2>1, <2>2, <2>3, SendLine, NoFrames
<1>9. ~ ProcessGet(n)
  <2> SUFFICES ASSUME ProcessGet(n) PROVE FALSE
    OBVIOUS
  <2>1. tql[n] # <<>> /\ Head(tql[n]).cmd = "GET" /\ tql[n] \in Seq(Frame)
    BY HarmonyTypes DEF ProcessGet, ProcessQueue, Message
  <2> QED
    BY <1>1, <2>1, SmoothTail
<1> QED
  BY <1>4, <1>5, <1>6, <1>7, <1>8, <1>9 DEF Transmit

LEMMA TransmitOthers ==
  ASSUME Harmony, NEW n \in Nodes, Transmit(n)
  PROVE  /\ Others(n)
         /\ UNCHANGED <<link, rc, rname, part>>
         /\ FtState'[n] \in {"Switch", "Transmit", "Messages"}
         /\ FtState[n] \in {"Switch", "Transmit", "Messages"}
         /\ \A f \in Own(n) : offset'[f] = 0
<1>1. TypeOK /\ Places /\ ~ ProcessGet(n)
  <2>1. ASSUME ProcessGet(n) PROVE FALSE
    <3>1. tql[n] # <<>> /\ Head(tql[n]).cmd = "GET" /\ tql[n] \in Seq(Frame)
      BY <2>1, HarmonyTypes DEF ProcessGet, ProcessQueue, Message
    <3> QED
      BY <3>1, SmoothTail DEF Harmony, NothingFailed
  <2> QED
    BY <2>1, HarmonyTypes
<1>2. PICK o \in Seq(Frame) : TransmitShape(n, o)
  BY <1>1, TransmitHasShape
<1>3. /\ FtState[n] \in {"Switch", "Transmit", "Messages"} /\ rname' = rname
      /\ \A m \in Nodes \ {n} :
           /\ FtState'[m] = FtState[m] /\ RxState'[m] = RxState[m] /\ TxState'[m] = TxState[m]
           /\ cursend'[m] = cursend[m]
           /\ \A f \in Own(m) : state'[f] = state[f]
  BY <1>2 DEF TransmitShape, Own
<1>4. \A m \in Nodes \ {n} : tql'[m] = tql[m]
  BY <1>1, <1>2 DEF TransmitShape, TypeOK, TxTypes
<1>5. UNCHANGED <<link, rname, part>> /\ \A m \in Nodes \ {n} : txpos'[m] = txpos[m]
  BY <1>1, TransmitKeeps
<1>6. rc' = rc
  BY <1>1 DEF Transmit, TransmitFile, SkipFile, TransmitEOB, GetNextFile, TransmitBlock,
     TransmitEndOfFile, ReadBlock, ProcessGot, ProcessSkip, ProcessQueue, EndSession,
     TransmitNewBatch, ClearSentList, WaitForRemote, WaitLastAck, Transmits
<1>7. \A m \in Nodes \ {n} : messages'[m] = messages[m]
  BY <1>1 DEF Transmit, TransmitFile, SkipFile, TransmitEOB, SendCommand, TransmitBlock,
     TransmitEndOfFile, ReadBlock, ProcessGot, ProcessSkip, ProcessQueue, EndSession,
     TransmitNewBatch, ClearSentList, WaitForRemote, batchVars, TypeOK, BatchTypes
<1>8. \A m \in Nodes \ {n} : remote_EOB'[m] = remote_EOB[m]
  BY <1>1 DEF Transmit, TransmitFile, SkipFile, TransmitEOB, GetNextFile, TransmitBlock,
     TransmitEndOfFile, ReadBlock, ProcessGot, ProcessSkip, ProcessQueue, EndSession,
     TransmitNewBatch, NewBatch, ClearSentList, WaitForRemote, batchVars, TypeOK, BatchTypes
<1>9. \A m \in Nodes \ {n} : local_EOB'[m] = local_EOB[m]
  BY <1>1 DEF Transmit, TransmitFile, SkipFile, TransmitEOB, GetNextFile, TransmitBlock,
     TransmitEndOfFile, ReadBlock, ProcessGot, ProcessSkip, ProcessQueue, EndSession,
     TransmitNewBatch, NewBatch, ClearSentList, WaitForRemote, batchVars, TypeOK, BatchTypes
<1>10. offset' = offset \/ ClearFilelist(n)
  BY <1>1 DEF Transmit, TransmitFile, SkipFile, TransmitEOB, TransmitBlock,
     TransmitEndOfFile, ReadBlock, ProcessGot, ProcessSkip, EndSession,
     TransmitNewBatch, NewBatch, ClearSentList, WaitForRemote
<1>11. /\ \A f \in Own(n) : offset'[f] = 0
       /\ \A m \in Nodes \ {n} : \A f \in Own(m) : offset'[f] = offset[f]
  BY <1>10 DEF ClearFilelist, Own, Harmony, NothingFailed
<1>12. FtState'[n] \in {"Switch", "Transmit", "Messages"}
  BY <1>1 DEF Transmit, TransmitFile, SkipFile, TransmitEOB, TransmitBlock,
     TransmitEndOfFile, ReadBlock, ProcessGot, ProcessSkip, ProcessQueue, EndSession,
     TransmitNewBatch, ClearSentList, WaitForRemote, WaitLastAck, Goto, TypeOK, ProcessTypes
<1>13. Others(n)
  BY <1>3, <1>4, <1>5, <1>7, <1>8, <1>9, <1>11 DEF Others
<1> QED
  BY <1>3, <1>5, <1>6, <1>11, <1>12, <1>13

--------------------------------------------------------------------------------
\* What the transmitter's steps do to n.

Same(n) ==
  /\ remote_EOB'[n] = remote_EOB[n] /\ RxState'[n] = RxState[n]
  /\ tql'[n] = tql[n] /\ outbound' = outbound

\* A file is offered.
OfferShape(n, f, out) ==
  /\ Same(n)
  /\ f \in Own(n) /\ out = Append(Traffic(n), About("FILE", f, 0))
  /\ TxState[n] = "TxGNF" /\ TxState'[n] = "TxTryR" /\ cursend'[n] = f /\ txpos'[n] = 0
  /\ FtState'[n] = "Transmit" /\ local_EOB'[n] = local_EOB[n]
  /\ messages'[n] = Count(messages[n], Len(out))
  /\ state'[f] = "Sending" /\ \A g \in Own(n) \ {f} : state'[g] = Filelist(n)[g]

\* A file is passed over.
PassShape(n, out) ==
  /\ Same(n)
  /\ out = Traffic(n)
  /\ TxState[n] = "TxGNF" /\ TxState'[n] = "TxGNF"
  /\ FtState'[n] = "Switch" /\ local_EOB'[n] = local_EOB[n]
  /\ messages'[n] = Count(messages[n], Len(out))
  /\ \A g \in Own(n) : state'[g] \in {Filelist(n)[g], "Skipped"}

\* No file is left.
CloseShape(n, out) ==
  /\ Same(n)
  /\ out = Append(Traffic(n), Command("EOB")) /\ Sendable(n) = {}
  /\ TxState[n] = "TxGNF" /\ TxState'[n] = "TxWLA"
  /\ FtState'[n] = "Transmit" /\ local_EOB'[n] = TRUE
  /\ messages'[n] = Count(messages[n], Len(out))
  /\ \A g \in Own(n) : state'[g] = Filelist(n)[g]

\* A block is sent, or the end of the file is seen.
BlockShape(n, out) ==
  /\ Same(n)
  /\ TxState[n] = "TxTryR" /\ cursend[n] \in Own(n) /\ txpos[n] \in Nat
  /\ FtState'[n] = "Switch" /\ local_EOB'[n] = local_EOB[n] /\ messages'[n] = messages[n]
  /\ \/ /\ out = <<About("DATA", cursend[n], txpos[n] + 1)>>
        /\ txpos[n] < Size[cursend[n]] /\ txpos'[n] = txpos[n] + 1
     \/ out = <<>> /\ txpos[n] = Size[cursend[n]] /\ txpos'[n] = txpos[n]
  /\ \/ /\ TxState'[n] = "TxTryR" /\ cursend'[n] = cursend[n]
        /\ \A g \in Own(n) : state'[g] = state[g]
     \/ /\ TxState'[n] = "TxGNF" /\ state'[cursend[n]] = "IsSent"
        /\ txpos'[n] = Size[cursend[n]]
        /\ \A g \in Own(n) \ {cursend[n]} : state'[g] = state[g]

\* An answer is processed.
ReplyShape(n) ==
  /\ remote_EOB'[n] = remote_EOB[n] /\ RxState'[n] = RxState[n]
  /\ tql[n] # <<>> /\ tql'[n] = Tail(tql[n])
  /\ FtState'[n] \in {"Transmit", "Messages"}
  /\ local_EOB'[n] = local_EOB[n] /\ messages'[n] = messages[n] /\ txpos'[n] = txpos[n]
  /\ state'[Message(n).file] \in {"Got", "Skipped"}
  /\ \A g \in Own(n) \ {Message(n).file} : state'[g] = state[g]
  /\ Message(n).cmd = "GOT" => Message(n).file \notin outbound'
  /\ IF state[Message(n).file] = "Sending" THEN TxState'[n] = "TxGNF"
     ELSE TxState'[n] = TxState[n] /\ cursend'[n] = cursend[n]

\* The session is over.
DoneShape(n) ==
  /\ remote_EOB'[n] = remote_EOB[n] /\ tql'[n] = tql[n] /\ outbound' = outbound
  /\ RxState'[n] = IF BothEOB(n) THEN "RxDone" ELSE RxState[n]
  /\ TxState[n] = "TxWLA" /\ TxState'[n] = "TxDone" /\ tql[n] = <<>>
  /\ Pending(n) = {} /\ SessionOver(n)
  /\ FtState'[n] = "Switch" /\ local_EOB'[n] = local_EOB[n] /\ messages'[n] = messages[n]
  /\ \A g \in Own(n) : state'[g] = "NotListed"

\* It is not.
WaitShape(n) ==
  /\ Same(n)
  /\ TxState[n] = "TxWLA" /\ TxState'[n] = "TxWLA" /\ tql[n] = <<>>
  /\ FtState'[n] = "Switch" /\ local_EOB'[n] = local_EOB[n] /\ messages'[n] = messages[n]
  /\ \A g \in Own(n) : state'[g] \in {state[g], "NotListed"}
  /\ BothEOB(n) =>
       /\ \A g \in Own(n) : state'[g] = state[g]
       /\ Pending(n) # {} \/ (Minor[n] = 0 /\ RxState[n] \notin {"RxEOB", "RxDone"})

Acts(n, out) ==
  \/ \E f \in Own(n) : OfferShape(n, f, out)
  \/ PassShape(n, out) \/ CloseShape(n, out) \/ BlockShape(n, out)
  \/ (ReplyShape(n) \/ DoneShape(n) \/ WaitShape(n) \/ NewShape(n)) /\ out = <<>>

ActShape(n, out) ==
  /\ FtState[n] \in {"Switch", "Transmit", "Messages"}
  /\ Others(n) /\ Line(n, chan[n], out) /\ Smooth(out) /\ UNCHANGED <<link, rc, rname, part>>
  /\ FtState'[n] \in {"Switch", "Transmit", "Messages"}
  /\ \A f \in Own(n) : offset'[f] = 0
  /\ Acts(n, out)

LEMMA OwnFiles == ASSUME NEW n \in Nodes, NEW f \in Own(n)
                  PROVE  f \in Files /\ Sender(f) = n /\ Receiver(f) = Peer[n] /\ Owner[f] = n
BY DEF Own, Sender, Receiver

LEMMA NextFileSame ==
  ASSUME Harmony, NEW n \in Nodes, GetNextFile(n), NEW out, SendCommand(n, out)
  PROVE  /\ Same(n) /\ TxState[n] = "TxGNF"
         /\ messages'[n] = Count(messages[n], Len(out))
<1>1. TypeOK
  BY HarmonyTypes
<1>2. Same(n) /\ TxState[n] = "TxGNF"
  BY DEF GetNextFile, Transmits, Same
<1>3. messages'[n] = Count(messages[n], Len(out))
  BY <1>1 DEF SendCommand, TypeOK, BatchTypes
<1> QED
  BY <1>2, <1>3

LEMMA OfferEffect ==
  ASSUME Harmony, NEW n \in Nodes, NEW f \in Own(n), TransmitFile(n, f)
  PROVE  OfferShape(n, f, Append(Traffic(n), About("FILE", f, 0)))
<1>1. TypeOK /\ f \in Files /\ offset[f] = 0
  BY HarmonyTypes, OwnFiles DEF Harmony, NothingFailed
<1> DEFINE out == Append(Traffic(n), About("FILE", f, 0))
<1>2. Same(n) /\ TxState[n] = "TxGNF" /\ messages'[n] = Count(messages[n], Len(out))
  BY <1>1, NextFileSame DEF TransmitFile
<1>3. TxState'[n] = "TxTryR" /\ cursend'[n] = f /\ txpos'[n] = 0
  BY <1>1 DEF TransmitFile, StartAt, TypeOK, TxTypes
<1>4. FtState'[n] = "Transmit" /\ local_EOB'[n] = local_EOB[n]
  BY <1>1 DEF TransmitFile, Goto, TypeOK, ProcessTypes
<1>5. state'[f] = "Sending" /\ \A g \in Own(n) \ {f} : state'[g] = Filelist(n)[g]
  BY <1>1, OwnFiles DEF TransmitFile, Filelist
<1> HIDE DEF out
<1> QED
  BY <1>2, <1>3, <1>4, <1>5 DEF OfferShape, out

LEMMA PassEffect ==
  ASSUME Harmony, NEW n \in Nodes, NEW f \in Own(n), SkipFile(n, f)
  PROVE  PassShape(n, Traffic(n))
<1>1. TypeOK /\ f \in Files
  BY HarmonyTypes, OwnFiles
<1>2. Same(n) /\ TxState[n] = "TxGNF" /\ messages'[n] = Count(messages[n], Len(Traffic(n)))
  BY <1>1, NextFileSame DEF SkipFile
<1>3. TxState'[n] = "TxGNF" /\ FtState'[n] = "Switch" /\ local_EOB'[n] = local_EOB[n]
  BY <1>1, <1>2 DEF SkipFile, Goto, TypeOK, ProcessTypes
<1>4. \A g \in Own(n) : state'[g] \in {Filelist(n)[g], "Skipped"}
  BY <1>1, OwnFiles DEF SkipFile, Filelist
<1> QED
  BY <1>2, <1>3, <1>4 DEF PassShape

LEMMA CloseEffect ==
  ASSUME Harmony, NEW n \in Nodes, TransmitEOB(n)
  PROVE  CloseShape(n, Append(Traffic(n), Command("EOB")))
<1>1. TypeOK
  BY HarmonyTypes
<1> DEFINE out == Append(Traffic(n), Command("EOB"))
<1>2. Same(n) /\ TxState[n] = "TxGNF" /\ messages'[n] = Count(messages[n], Len(out))
  BY <1>1, NextFileSame DEF TransmitEOB
<1>3. TxState'[n] = "TxWLA" /\ FtState'[n] = "Transmit"
  BY <1>1 DEF TransmitEOB, Goto, TypeOK, ProcessTypes, TxTypes
<1>4. local_EOB'[n] = TRUE
  BY <1>1 DEF TransmitEOB, TypeOK, BatchTypes
<1>5. Sendable(n) = {} /\ state' = Filelist(n)
  BY DEF TransmitEOB
<1> HIDE DEF out
<1> QED
  BY <1>2, <1>3, <1>4, <1>5 DEF CloseShape, out

LEMMA BlockEffect ==
  ASSUME Harmony, NEW n \in Nodes, NEW out, Sent(n, out),
         TransmitBlock(n) \/ TransmitEndOfFile(n)
  PROVE  BlockShape(n, out)
<1>1. TypeOK /\ Places
  BY HarmonyTypes
<1>2. Same(n) /\ FtState'[n] = "Switch" /\ TxState[n] = "TxTryR"
  BY <1>1 DEF TransmitBlock, TransmitEndOfFile, ReadBlock, Transmits, Same, Goto, TypeOK,
     ProcessTypes, batchVars
<1>3. local_EOB'[n] = local_EOB[n] /\ messages'[n] = messages[n]
  BY DEF TransmitBlock, TransmitEndOfFile, ReadBlock, batchVars
<1>4. cursend[n] \in Own(n) /\ cursend[n] \in Files /\ txpos[n] \in Nat
      /\ Size[cursend[n]] \in Nat
  BY <1>1, <1>2, FilesAssumption DEF Places, NodeOwned, Own, TypeOK, TxTypes
<1>5. \/ /\ out = <<About("DATA", cursend[n], txpos[n] + 1)>>
         /\ txpos[n] < Size[cursend[n]] /\ txpos'[n] = txpos[n] + 1
      \/ out = <<>> /\ txpos[n] = Size[cursend[n]] /\ txpos'[n] = txpos[n]
  <2>1. ~ GetNextFile(n)
    BY <1>2 DEF GetNextFile, Transmits
  <2>2. tql[n] = <<>> /\ TxState[n] # "TxWLA"
    BY <1>2 DEF TransmitBlock, TransmitEndOfFile, ReadBlock
  <2>3. CASE /\ TransmitBlock(n) \/ (TransmitEndOfFile(n) /\ txpos[n] + 1 = Size[cursend[n]])
             /\ txpos'[n] = txpos[n] + 1 /\ out = <<About("DATA", cursend[n], txpos[n] + 1)>>
    <3>1. txpos[n] < Size[cursend[n]]
      BY <1>4, <2>3 DEF TransmitBlock
    <3> QED
      BY <2>3, <3>1
  <2>4. CASE /\ TransmitEndOfFile(n) /\ txpos[n] = Size[cursend[n]] /\ txpos' = txpos
             /\ out = <<>>
    BY <2>4
  <2> QED
    BY <2>1, <2>2, <2>3, <2>4 DEF Sent, TransmitFile, SkipFile, TransmitEOB, ProcessGot,
       ProcessSkip, ProcessQueue, EndSession, TransmitNewBatch, ClearSentList, WaitForRemote,
       WaitLastAck, Transmits
<1>6. CASE TransmitBlock(n)
  <2>1. /\ TxState'[n] = "TxTryR" /\ cursend'[n] = cursend[n]
        /\ \A g \in Own(n) : state'[g] = state[g]
    BY <1>2, <1>6 DEF TransmitBlock
  <2> QED
    BY <1>2, <1>3, <1>4, <1>5, <2>1 DEF BlockShape
<1>7. CASE TransmitEndOfFile(n)
  <2>1. /\ TxState'[n] = "TxGNF" /\ state'[cursend[n]] = "IsSent"
        /\ \A g \in Own(n) \ {cursend[n]} : state'[g] = state[g]
    BY <1>1, <1>4, <1>7 DEF TransmitEndOfFile, TypeOK, TxTypes, Own
  <2>2. txpos'[n] = Size[cursend[n]]
    BY <1>1, <1>4, <1>7 DEF TransmitEndOfFile, TypeOK, TxTypes
  <2> QED
    BY <1>2, <1>3, <1>4, <1>5, <2>1, <2>2 DEF BlockShape
<1> QED
  BY <1>6, <1>7

LEMMA ReplyEffect ==
  ASSUME Harmony, NEW n \in Nodes, ProcessGot(n) \/ ProcessSkip(n)
  PROVE  ReplyShape(n)
<1>1. TypeOK /\ Places /\ ProcessQueue(n) /\ tql[n] # <<>>
  BY HarmonyTypes DEF ProcessGot, ProcessSkip, ProcessQueue
<1> DEFINE f == Message(n).file
<1>2. f \in Files /\ Owner[f] = n /\ Noted(f) /\ Sender(f) = n
  BY <1>1, QueueHead DEF Sender
<1>3. /\ remote_EOB'[n] = remote_EOB[n] /\ RxState'[n] = RxState[n]
      /\ txpos'[n] = txpos[n] /\ messages'[n] = messages[n]
  BY <1>1 DEF ProcessQueue, batchVars, rxVars
<1>4. local_EOB'[n] = local_EOB[n]
  BY <1>1 DEF ProcessQueue, batchVars
<1>5. tql'[n] = Tail(tql[n])
  BY <1>1 DEF ProcessQueue, TypeOK, TxTypes
<1>6. FtState'[n] \in {"Transmit", "Messages"} /\ FtState[n] \in {"Switch", "Transmit", "Messages"}
  BY <1>1 DEF ProcessQueue, Goto, TypeOK, ProcessTypes
<1>7. OnList(n)
  <2>1. ~ AtRest(f)
    BY <1>1, <1>2 DEF Places, OnePlace
  <2> QED
    BY <1>2, <1>6, <2>1 DEF AtRest, RestStates, OnList
<1>8. state'[f] \in {"Got", "Skipped"} /\ \A g \in Own(n) \ {f} : state'[g] = state[g]
  BY <1>1, <1>2, <1>7, OwnFiles DEF ProcessGot, ProcessSkip, Mark, TypeOK, TxTypes
<1>9. Message(n).cmd = "GOT" => f \notin outbound'
  BY <1>7 DEF ProcessGot, ProcessSkip
<1>10. IF state[f] = "Sending" THEN TxState'[n] = "TxGNF"
       ELSE TxState'[n] = TxState[n] /\ cursend'[n] = cursend[n]
  BY <1>1 DEF ProcessGot, ProcessSkip, StopSending, TypeOK, TxTypes
<1> HIDE DEF f
<1> QED
  BY <1>1, <1>3, <1>4, <1>5, <1>6, <1>8, <1>9, <1>10 DEF ReplyShape, f

LEMMA LastAckEffect ==
  ASSUME Harmony, NEW n \in Nodes,
         EndSession(n) \/ TransmitNewBatch(n) \/ ClearSentList(n) \/ WaitForRemote(n)
  PROVE  DoneShape(n) \/ WaitShape(n) \/ NewShape(n)
<1>1. TypeOK /\ WaitLastAck(n)
  BY HarmonyTypes DEF EndSession, TransmitNewBatch, ClearSentList, WaitForRemote
<1>2. /\ TxState[n] = "TxWLA" /\ tql[n] = <<>> /\ tql'[n] = tql[n] /\ outbound' = outbound
      /\ FtState'[n] = "Switch" /\ FtState[n] \in {"Switch", "Transmit"}
  BY <1>1 DEF WaitLastAck, Transmits, Goto, TypeOK, ProcessTypes
<1>3. CASE EndSession(n)
  <2>1. TxState'[n] = "TxDone" /\ Pending(n) = {} /\ SessionOver(n)
    BY <1>1, <1>3 DEF EndSession, TypeOK, TxTypes
  <2>2. RxState'[n] = IF BothEOB(n) THEN "RxDone" ELSE RxState[n]
    BY <1>1, <1>3 DEF EndSession, TypeOK, RxTypes
  <2>3. \A g \in Own(n) : state'[g] = "NotListed"
    BY <1>3, OwnFiles DEF EndSession, ClearFilelist
  <2>4. remote_EOB'[n] = remote_EOB[n] /\ messages'[n] = messages[n]
    BY <1>3 DEF EndSession, batchVars
  <2>5. local_EOB'[n] = local_EOB[n]
    BY <1>3 DEF EndSession, batchVars
  <2> QED
    BY <1>2, <2>1, <2>2, <2>3, <2>4, <2>5 DEF DoneShape
<1>4. CASE TransmitNewBatch(n)
  <2>1. /\ Pending(n) = {} /\ Minor[n] = 1 /\ BothEOB(n) /\ messages[n] = 3 /\ NewBatch(n)
        /\ messages' = [messages EXCEPT ![n] = 0]
    BY <1>4 DEF TransmitNewBatch
  <2>2. messages'[n] = 0
    BY <1>1, <2>1 DEF TypeOK, BatchTypes
  <2>3. Line(n, chan[n], <<>>)
    <3>1. chan' = chan
      BY <1>1 DEF WaitLastAck
    <3> QED
      BY <3>1, NoFrames, SendLine
  <2>4. Others(n)
    BY <1>4, TransmitOthers DEF Transmit
  <2>5. UNCHANGED <<cursend, txpos, outbound, link, rc, tql, rname, part>>
    BY <1>1 DEF WaitLastAck, Transmits
  <2> QED
    BY <1>1, <1>2, <2>1, <2>2, <2>3, <2>4, <2>5, NewBatchEffect DEF NewShape
<1>5. CASE ClearSentList(n) \/ WaitForRemote(n)
  <2>1. Same(n) /\ TxState' = TxState /\ messages'[n] = messages[n]
    BY <1>2, <1>5 DEF ClearSentList, WaitForRemote, Same, batchVars
  <2>2. local_EOB'[n] = local_EOB[n]
    BY <1>5 DEF ClearSentList, WaitForRemote, batchVars
  <2>3. CASE ClearSentList(n)
    <3>1. ~ BothEOB(n) /\ \A g \in Own(n) : state'[g] = "NotListed"
      BY <2>3, OwnFiles DEF ClearSentList, ClearFilelist
    <3> QED
      BY <1>2, <2>1, <2>2, <3>1 DEF WaitShape
  <2>4. CASE WaitForRemote(n)
    <3>1. /\ state' = state
          /\ BothEOB(n) => \/ Pending(n) # {}
                           \/ Minor[n] = 0 /\ RxState[n] \notin {"RxEOB", "RxDone"}
      BY <2>4 DEF WaitForRemote
    <3> QED
      BY <1>2, <2>1, <2>2, <3>1 DEF WaitShape
  <2> QED
    BY <1>5, <2>3, <2>4
<1> QED
  BY <1>3, <1>4, <1>5

LEMMA TransmitActs ==
  ASSUME Harmony, NEW n \in Nodes, Transmit(n)
  PROVE  \E out \in Seq(Frame) : ActShape(n, out)
<1>1. PICK out \in Seq(Frame) : Sent(n, out) /\ Line(n, chan[n], out) /\ Smooth(out)
  BY TransmitSends
<1>2. Acts(n, out)
  <2>1. ASSUME NEW f \in Own(n), TransmitFile(n, f),
               out = Append(Traffic(n), About("FILE", f, 0))
        PROVE  Acts(n, out)
    BY <2>1, OfferEffect DEF Acts
  <2>2. ASSUME NEW f \in Own(n), SkipFile(n, f), out = Traffic(n)
        PROVE  Acts(n, out)
    BY <2>2, PassEffect DEF Acts
  <2>3. CASE TransmitEOB(n) /\ out = Append(Traffic(n), Command("EOB"))
    BY <2>3, CloseEffect DEF Acts
  <2>4. CASE TransmitBlock(n) \/ TransmitEndOfFile(n)
    BY <1>1, <2>4, BlockEffect DEF Acts
  <2>5. CASE /\ \/ ProcessGot(n) \/ ProcessSkip(n) \/ EndSession(n) \/ TransmitNewBatch(n)
                \/ ClearSentList(n) \/ WaitForRemote(n)
             /\ out = <<>>
    BY <2>5, ReplyEffect, LastAckEffect DEF Acts
  <2> QED
    BY <1>1, <2>1, <2>2, <2>3, <2>4, <2>5 DEF Sent
<1> QED
  BY <1>1, <1>2, TransmitOthers DEF ActShape

--------------------------------------------------------------------------------
\* The session ends.

\* A mailer that has not left still waits for an answer, when the other has left.
LEMMA NobodyHungUp ==
  ASSUME Harmony, NEW n \in Nodes, FtState[n] = "Switch", ~ Finished(n), chan[n] = <<>>
  PROVE  FtState[Peer[n]] # "Exit"
<1> SUFFICES ASSUME FtState[Peer[n]] = "Exit" PROVE FALSE
  OBVIOUS
<1> DEFINE p == Peer[n]
<1>1. p \in Nodes /\ Peer[p] = n /\ Places
  BY HarmonyTypes
<1>2. TxStage(n) /\ RxStage(n) /\ ListStage(n) /\ TxStage(p) /\ RxStage(p)
  BY <1>1 DEF Harmony, Stages
<1>3. TxState[p] = "TxDone" /\ remote_EOB[p] /\ RxState[p] = "RxDone" /\ local_EOB[p]
  BY <1>2 DEF TxStage
<1>4. Abreast(n)
  BY <1>1, <1>3 DEF Harmony, Together, Behind
<1>5. Batch(<<>>, local_EOB[p], remote_EOB[n]) /\ Batch(chan[p], local_EOB[n], remote_EOB[p])
  BY <1>1, <1>4 DEF Abreast, Heeds
<1>6. remote_EOB[n] /\ local_EOB[n] /\ Replying(chan[p])
  BY <1>3, <1>5, ShortQueues, CommandTyped DEF Batch
<1>7. TxState[n] # "TxDone"
  BY <1>2 DEF TxStage, Finished
<1>8. tql[n] = <<>> /\ Pending(n) # {}
  BY <1>2, <1>6, <1>7 DEF TxStage, BothEOB
<1>9. PICK f \in Own(n) : state[f] \in {"NoState", "Sending", "IsSent"}
  BY <1>8 DEF Pending
<1>10. Moving(f) /\ f \in Files /\ Sender(f) = n /\ Receiver(f) = p
  BY <1>2, <1>6, <1>9, OwnFiles DEF ListStage, Moving
<1>11. Offered(f) \/ InReceipt(f) \/ Answered(f) \/ Noted(f)
  BY <1>10 DEF Harmony, Somewhere
<1>12. ~ Offered(f)
  BY <1>6, <1>10 DEF Offered, Has, Replying, Reply
<1>13. ~ InReceipt(f) /\ ~ Answered(f) /\ ~ Noted(f)
  BY <1>3, <1>8, <1>10, HasNone DEF InReceipt, Answered, Noted
<1> QED
  BY <1>11, <1>12, <1>13

\* n leaves.
LeaveShape(n) ==
  /\ FtState[n] = "Switch" /\ Finished(n) /\ FtState'[n] = "Exit"
  /\ Others(n) /\ Line(n, chan[n], <<>>)
  /\ UNCHANGED <<link, rc, rname, part, outbound, tql, messages, local_EOB, remote_EOB, TxState,
                 RxState, cursend, txpos>>
  /\ \A f \in Own(n) : state'[f] = "NotListed" /\ offset'[f] = 0

LEMMA HarmonyEnd ==
  ASSUME Harmony, NEW n \in Nodes, End(n)
  PROVE  LeaveShape(n)
<1>1. TypeOK /\ chan[Peer[n]] \in Seq(Frame)
  BY HarmonyTypes
<1>2. ~ Hangup(n) /\ ~ Timeout(n)
  BY NobodyHungUp DEF Hangup, Timeout, Harmony, NothingFailed
<1>3. Deinit(n) /\ FtState[n] = "Switch" /\ Finished(n)
  BY <1>2 DEF End, Deinit, Harmony, NothingFailed
<1>4. FtState'[n] = "Exit" /\ \A m \in Nodes \ {n} : FtState'[m] = FtState[m]
  BY <1>1, <1>3 DEF Deinit, Goto, TypeOK, ProcessTypes
<1>5. UNCHANGED <<chan, link, rc, rname, part, outbound, tql, messages, remote_EOB, TxState,
                 RxState, cursend, txpos>>
  BY <1>3 DEF Deinit, Idle, lineVars, batchVars, rxVars
<1>6. local_EOB' = local_EOB
  BY <1>3 DEF Deinit, Idle, batchVars
<1>7. Line(n, chan[n], <<>>)
  BY <1>5, NoFrames, SendLine
<1>8. /\ \A f \in Own(n) : state'[f] = "NotListed" /\ offset'[f] = 0
      /\ \A m \in Nodes \ {n} : \A f \in Own(m) : state'[f] = state[f] /\ offset'[f] = offset[f]
  BY <1>3, OwnFiles DEF Deinit, ClearFilelist
<1>9. Others(n)
  BY <1>4, <1>5, <1>6, <1>8 DEF Others
<1> QED
  BY <1>3, <1>4, <1>5, <1>6, <1>7, <1>8, <1>9 DEF LeaveShape

LEMMA HarmonySteps ==
  ASSUME NothingBreaks, Harmony, [Next]_vars, ~ Redial, ~ UNCHANGED vars
  PROVE  \E n \in Nodes :
           \/ \E out \in Seq(Frame) : HeardShape(n, out) \/ ActShape(n, out)
           \/ EndedShape(n) \/ NewShape(n) \/ LeaveShape(n)
<1>1. ~ LoseLine /\ \A n \in Nodes : ~ Kill(n)
  BY DEF LoseLine, Kill, Fault, NothingBreaks
<1>2. PICK n \in Nodes : Receive(n) \/ Transmit(n) \/ End(n)
  BY <1>1 DEF Next
<1>3. CASE Receive(n)
  BY <1>3, HeardHasShape, EndHasShape
<1>4. CASE Transmit(n)
  BY <1>4, TransmitActs
<1>5. CASE End(n)
  BY <1>5, HarmonyEnd
<1> QED
  BY <1>2, <1>3, <1>4, <1>5
--------------------------------------------------------------------------------
\* Nothing fails.

\* The queues of a mailer's step.
LEMMA LineSmooth ==
  ASSUME Harmony, NEW n \in Nodes, NEW in \in Seq(Frame), NEW out \in Seq(Frame),
         Smooth(in), Smooth(out), Line(n, in, out)
  PROVE  \A m \in Nodes : chan'[m] \in Seq(Frame) /\ Smooth(chan'[m])
<1> TAKE m \in Nodes
<1>1. chan[m] \in Seq(Frame) /\ Smooth(chan[m]) /\ Peer[n] \in Nodes
      /\ chan[Peer[n]] \in Seq(Frame) /\ Smooth(chan[Peer[n]])
  BY HarmonyTypes DEF Harmony, NothingFailed
<1>2. chan[Peer[n]] \o out \in Seq(Frame) /\ Smooth(chan[Peer[n]] \o out)
  BY <1>1, SmoothConcat, ConcatFrames
<1> QED
  BY <1>1, <1>2 DEF Line

LEMMA HearsSmooth ==
  ASSUME Harmony, NEW n \in Nodes, NEW out \in Seq(Frame), HeardShape(n, out)
  PROVE  /\ Smooth(out) /\ In(n) \in Frame
         /\ out = <<>> \/ \E x \in Frame : out = <<x>> /\ x.cmd \in {"GOT", "SKIP"}
<1>1. In(n) \in Frame /\ Polled(n)
  BY PolledFrame DEF HeardShape
<1>2. Smooth(<<>>)
  BY SmoothOne, CommandTyped DEF Smooth
<1>3. CASE out = <<>>
  BY <1>1, <1>2, <1>3
<1>4. CASE In(n).cmd = "FILE" /\ out = <<About("SKIP", In(n).file, 0)>>
  <2>1. About("SKIP", In(n).file, 0) \in Frame
    BY <1>1, <1>4, FrameFile, AboutTyped
  <2> QED
    BY <1>1, <1>4, <2>1, SmoothOne DEF About
<1>5. CASE rname[n] \in Files /\ out = <<About("GOT", rname[n], 0)>>
  <2>1. About("GOT", rname[n], 0) \in Frame
    BY <1>5, AboutTyped
  <2> QED
    BY <1>1, <1>5, <2>1, SmoothOne DEF About
<1> QED
  BY <1>3, <1>4, <1>5 DEF HeardShape, Hears

\* Whoever acts, its queue of answers and its offsets.
LEMMA OthersFailed ==
  ASSUME Harmony, NEW n \in Nodes, Others(n), UNCHANGED <<link, rc>>,
         FtState'[n] # "DeinitTransfer", Smooth(tql'[n]),
         \A f \in Own(n) : offset'[f] = 0,
         \A m \in Nodes : Smooth(chan'[m])
  PROVE  NothingFailed'
<1>1. ASSUME NEW f \in Files PROVE offset'[f] = 0
  BY DEF Own, Others, Harmony, NothingFailed
<1>2. ASSUME NEW m \in Nodes PROVE rc'[m] = FALSE /\ FtState'[m] # "DeinitTransfer"
                                   /\ Smooth(tql'[m])
  BY DEF Others, Harmony, NothingFailed
<1>3. link' = "up"
  BY DEF Harmony, NothingFailed
<1>4. \A m \in Nodes : Smooth(chan[m])' /\ Smooth(tql[m])'
  BY <1>2 DEF Smooth
<1> QED
  BY <1>1, <1>2, <1>3, <1>4 DEF NothingFailed

LEMMA StepFailed ==
  ASSUME NothingBreaks, Harmony, [Next]_vars, ~ Redial, ~ UNCHANGED vars
  PROVE  NothingFailed'
<1>1. PICK n \in Nodes :
        \/ \E out \in Seq(Frame) : HeardShape(n, out) \/ ActShape(n, out)
        \/ EndedShape(n) \/ NewShape(n) \/ LeaveShape(n)
  BY HarmonySteps
<1>2. /\ chan[n] \in Seq(Frame) /\ Smooth(chan[n]) /\ tql[n] \in Seq(Frame) /\ Smooth(tql[n])
      /\ \A f \in Own(n) : offset[f] = 0
  BY HarmonyTypes, OwnFiles DEF Harmony, NothingFailed
<1>3. Smooth(<<>>) /\ <<>> \in Seq(Frame)
  BY NoFrames, SmoothOne, CommandTyped DEF Smooth
<1>4. chan[n] # <<>> => Tail(chan[n]) \in Seq(Frame) /\ Smooth(Tail(chan[n]))
  BY <1>2, SmoothTail, QueueTyped
<1>5. ASSUME NEW out \in Seq(Frame), HeardShape(n, out) PROVE NothingFailed'
  <2>1. chan[n] # <<>> /\ In(n) \in Frame /\ Smooth(out) /\ Smooth(<<In(n)>>)
    <3>1. chan[n] # <<>> /\ In(n) \in Frame /\ Smooth(out) /\ In(n) = Head(chan[n])
      BY <1>5, HearsSmooth DEF HeardShape, Polled, In
    <3> QED
      BY <1>2, <3>1, SmoothTail, SmoothOne
  <2> DEFINE in == Tail(chan[n])
  <2>5. Line(n, in, out) /\ in \in Seq(Frame) /\ Smooth(in) /\ Smooth(out)
    BY <1>4, <1>5, <2>1 DEF HeardShape
  <2> HIDE DEF in
  <2>2. \A m \in Nodes : Smooth(chan'[m])
    BY <2>5, LineSmooth
  <2>3. Smooth(tql'[n])
    <3>1. Append(tql[n], In(n)) = tql[n] \o <<In(n)>>
      BY <1>2, <2>1, AppendConcat
    <3>3. <<In(n)>> \in Seq(Frame)
      BY <2>1
    <3>2. Smooth(Append(tql[n], In(n)))
      BY <1>2, <2>1, <3>1, <3>3, SmoothConcat
    <3> QED
      BY <1>2, <1>5, <3>2 DEF HeardShape
  <2>4. \A f \in Own(n) : offset'[f] = 0
    BY <1>2, <1>5 DEF HeardShape
  <2> QED
    BY <1>5, <2>2, <2>3, <2>4, OthersFailed DEF HeardShape
<1>6. ASSUME NEW out \in Seq(Frame), ActShape(n, out) PROVE NothingFailed'
  <2>1. \A m \in Nodes : Smooth(chan'[m])
    BY <1>2, <1>6, LineSmooth DEF ActShape
  <2>2. tql'[n] = tql[n] \/ (tql[n] # <<>> /\ tql'[n] = Tail(tql[n]))
    BY <1>6 DEF ActShape, Acts, OfferShape, PassShape, CloseShape, BlockShape, ReplyShape,
       DoneShape, WaitShape, NewShape, Same
  <2>3. Smooth(tql'[n])
    BY <1>2, <2>2, SmoothTail
  <2> QED
    BY <1>6, <2>1, <2>3, OthersFailed DEF ActShape
<1>7. CASE EndedShape(n) \/ NewShape(n) \/ LeaveShape(n)
  <2>1. /\ (Line(n, Tail(chan[n]), <<>>) /\ chan[n] # <<>>) \/ Line(n, chan[n], <<>>)
        /\ Others(n) /\ UNCHANGED <<link, rc>> /\ tql'[n] = tql[n]
        /\ FtState'[n] # "DeinitTransfer"
    BY <1>7 DEF EndedShape, NewShape, LeaveShape, Polled
  <2>2. \A m \in Nodes : Smooth(chan'[m])
    BY <1>2, <1>3, <1>4, <2>1, LineSmooth
  <2>3. \A f \in Own(n) : offset'[f] = 0
    BY <1>2, <1>7 DEF EndedShape, NewShape, LeaveShape
  <2> QED
    BY <1>2, <2>1, <2>2, <2>3, OthersFailed
<1> QED
  BY <1>1, <1>5, <1>6, <1>7

--------------------------------------------------------------------------------
\* Where a file is.

Placed(f) == Offered(f) \/ InReceipt(f) \/ Answered(f) \/ Noted(f)

LEMMA HasKeeps ==
  ASSUME NEW q \in Seq(Frame), NEW C, NEW f
  PROVE  /\ q # <<>> /\ Has(q, C, f) =>
              (Head(q).cmd \in C /\ Head(q).file = f) \/ Has(Tail(q), C, f)
         /\ \A r \in Seq(Frame) : Has(q, C, f) \/ Has(r, C, f) => Has(q \o r, C, f)
<1>1. ASSUME q # <<>>, Has(q, C, f)
      PROVE  (Head(q).cmd \in C /\ Head(q).file = f) \/ Has(Tail(q), C, f)
  <2>1. PICK i \in DOMAIN q : q[i].cmd \in C /\ q[i].file = f
    BY <1>1 DEF Has
  <2>2. CASE i = 1
    BY <1>1, <2>1, <2>2, TailFrames
  <2>3. CASE i # 1
    <3>1. i - 1 \in DOMAIN Tail(q) /\ Tail(q)[i - 1] = q[i]
      BY <1>1, <2>3, TailFrames
    <3> QED
      BY <2>1, <3>1 DEF Has
  <2> QED
    BY <2>2, <2>3
<1>2. ASSUME NEW r \in Seq(Frame), Has(q, C, f) PROVE Has(q \o r, C, f)
  BY <1>2, ConcatFrames DEF Has
<1>3. ASSUME NEW r \in Seq(Frame), Has(r, C, f) PROVE Has(q \o r, C, f)
  <2>1. PICK i \in DOMAIN r : r[i].cmd \in C /\ r[i].file = f
    BY <1>3 DEF Has
  <2>2. Len(q) + i \in DOMAIN (q \o r) /\ (q \o r)[Len(q) + i] = r[i]
    BY ConcatFrames
  <2> QED
    BY <2>1, <2>2 DEF Has
<1> QED
  BY <1>1, <1>2, <1>3

\* How the queues of a step change.
LEMMA LineHas ==
  ASSUME Harmony, NEW n \in Nodes, NEW in \in Seq(Frame), NEW out \in Seq(Frame),
         Line(n, in, out), NEW C, NEW f, NEW m \in Nodes
  PROVE  /\ m = n => (Has(chan'[m], C, f) <=> Has(in, C, f))
         /\ m = Peer[n] => (Has(chan'[m], C, f) <=> Has(chan[m], C, f) \/ Has(out, C, f))
         /\ m \notin {n, Peer[n]} => (Has(chan'[m], C, f) <=> Has(chan[m], C, f))
<1>1. chan[m] \in Seq(Frame) /\ Peer[n] \in Nodes /\ Peer[n] # n
  BY HarmonyTypes
<1>2. Has(chan[m] \o out, C, f) <=> Has(chan[m], C, f) \/ Has(out, C, f)
  BY <1>1, HasKeeps, HasConcat
<1> QED
  BY ZenonT(30), <1>1, <1>2 DEF Line

LEMMA HeardPlaces ==
  ASSUME Harmony, NEW n \in Nodes, NEW out \in Seq(Frame), HeardShape(n, out),
         NEW f \in Files
  PROVE  /\ Placed(f) <=> Placed(f)'
         /\ GotFor(f) => GotFor(f)'
         /\ InReceipt(f) => InReceipt(f)' \/ GotFor(f)'
<1> DEFINE x == In(n)
           in == Tail(chan[n])
<1>1. /\ chan[n] \in Seq(Frame) /\ chan[n] # <<>> /\ x = Head(chan[n]) /\ x \in Frame
      /\ in \in Seq(Frame) /\ Peer[n] \in Nodes /\ Peer[n] # n
      /\ Peer[Peer[n]] = n /\ Peer \in [Nodes -> Nodes]
      /\ Sender(f) \in Nodes /\ Receiver(f) = Peer[Sender(f)] /\ Receiver(f) \in Nodes
      /\ Sender(f) = n => Receiver(f) = Peer[n]
      /\ Sender(f) = Peer[n] => Receiver(f) = n
      /\ Places
  BY HarmonyTypes, PolledFrame, QueueTyped DEF HeardShape, Polled, Sender, Receiver
<1>2. Line(n, in, out) /\ Hears(n, x, out) /\ Others(n)
  BY DEF HeardShape
<1>3. tql'[n] = IF x.cmd \in Reply THEN Append(tql[n], x) ELSE tql[n]
  BY DEF HeardShape
<1>4. outbound' = outbound
  BY DEF HeardShape
<1>5. \A C : /\ Has(chan[n], C, f) <=> (x.cmd \in C /\ x.file = f) \/ Has(in, C, f)
             /\ Has(tql'[n], C, f) <=>
                  Has(tql[n], C, f) \/ (x.cmd \in Reply /\ x.cmd \in C /\ x.file = f)
  <2> TAKE C
  <2>1. Has(chan[n], C, f) <=> (x.cmd \in C /\ x.file = f) \/ Has(in, C, f)
    BY <1>1, HasTail, HasKeeps
  <2>2. tql[n] \in Seq(Frame) /\ <<x>> \in Seq(Frame)
    BY <1>1, HarmonyTypes
  <2>3. Append(tql[n], x) = tql[n] \o <<x>>
    BY <1>1, <2>2, AppendConcat
  <2>4. Has(tql[n] \o <<x>>, C, f) <=> Has(tql[n], C, f) \/ (x.cmd \in C /\ x.file = f)
    BY <1>1, <2>2, HasKeeps, HasConcat, HasOne
  <2> QED
    BY <1>3, <2>1, <2>3, <2>4
<1>6. \A C : \A m \in Nodes :
        /\ m = n => (Has(chan'[m], C, f) <=> Has(in, C, f))
        /\ m = Peer[n] => (Has(chan'[m], C, f) <=> Has(chan[m], C, f) \/ Has(out, C, f))
        /\ m \notin {n, Peer[n]} => (Has(chan'[m], C, f) <=> Has(chan[m], C, f))
  BY <1>1, <1>2, LineHas
<1>7. \A m \in Nodes \ {n} : /\ tql'[m] = tql[m] /\ RxState'[m] = RxState[m]
                             /\ rname'[m] = rname[m]
  BY <1>2 DEF Others
<1>8. /\ ~ Has(out, {"FILE"}, f)
      /\ Has(out, Reply, f) => \/ x.cmd = "FILE" /\ x.file = f /\ RxState'[n] # "RxReceD"
                               \/ /\ RxState[n] = "RxReceD" /\ rname[n] = f
                                  /\ Has(out, {"GOT"}, f) /\ Sender(f) = Peer[n]
      /\ x.cmd = "FILE" /\ x.file = f => (RxState'[n] = "RxReceD" /\ rname'[n] = f)
                                         \/ Has(out, Reply, f)
      /\ RxState[n] = "RxReceD" /\ rname[n] = f =>
           (RxState'[n] = "RxReceD" /\ rname'[n] = f)
           \/ (Has(out, {"GOT"}, f) /\ Has(out, Reply, f))
      /\ RxState'[n] = "RxReceD" /\ rname'[n] = f =>
           (RxState[n] = "RxReceD" /\ rname[n] = f) \/ (x.cmd = "FILE" /\ x.file = f)
  <2>1. CASE /\ RxState'[n] = RxState[n] /\ rname'[n] = rname[n] /\ out = <<>>
             /\ x.cmd \in {"NUL", "GOT", "SKIP", "DATA"}
    BY <2>1, HasNone
  <2>2. CASE /\ x.cmd = "FILE" /\ RxState[n] = "RxWaitF" /\ rname'[n] = x.file
             /\ RxState'[n] = "RxReceD" /\ out = <<>>
    BY <2>2, HasNone
  <2>3. CASE /\ x.cmd = "FILE" /\ RxState[n] = "RxWaitF" /\ rname'[n] = x.file
             /\ RxState'[n] = "RxWaitF" /\ out = <<About("SKIP", x.file, 0)>>
    <3>1. About("SKIP", x.file, 0) \in Frame
      BY <1>1, <2>3, FrameFile, AboutTyped
    <3> QED
      BY <2>3, <3>1, HasOne DEF About, Reply
  <2>4. CASE /\ x = About("DATA", rname[n], Size[rname[n]]) /\ RxState[n] = "RxReceD"
             /\ rname[n] \in Files /\ Sender(rname[n]) = Peer[n]
             /\ RxState'[n] = "RxWaitF" /\ rname'[n] = rname[n]
             /\ out = <<About("GOT", rname[n], 0)>>
    <3>1. About("GOT", rname[n], 0) \in Frame /\ x.cmd = "DATA"
      BY <2>4, AboutTyped DEF About
    <3> QED
      BY <2>4, <3>1, HasOne DEF About, Reply
  <2> QED
    BY <1>2, <2>1, <2>2, <2>3, <2>4 DEF Hears
<1>9. x.cmd = "FILE" /\ x.file = f => Sender(f) = Peer[n]
  <2>1. x = chan[n][1] /\ 1 \in DOMAIN chan[n]
    BY <1>1, TailFrames
  <2> QED
    BY <1>1, <2>1, FramePlace
<1> HIDE DEF x, in
<1>10. RxState[n] = "RxReceD" /\ rname[n] = f => Sender(f) = Peer[n]
  <2>1. Places
    BY HarmonyTypes
  <2> QED
    BY <2>1 DEF Places, NodeOwned, Sender
<1>11. CASE Sender(f) = n
  <2>1. Offered(f) <=> Offered(f)'
    BY <1>1, <1>6, <1>8, <1>11 DEF Offered, Sender, Receiver
  <2>2. InReceipt(f) <=> InReceipt(f)'
    BY <1>1, <1>7, <1>11 DEF InReceipt, Sender, Receiver
  <2>3. \A C : C \subseteq Reply =>
          (/\ Has(chan[n], C, f) => Has(chan'[n], C, f) \/ Has(tql'[n], C, f)
           /\ Has(tql[n], C, f) => Has(tql'[n], C, f)
           /\ Has(tql'[n], C, f) => Has(tql[n], C, f) \/ Has(chan[n], C, f)
           /\ Has(chan'[n], C, f) => Has(chan[n], C, f))
    <3> SUFFICES ASSUME NEW C, C \subseteq Reply
                 PROVE  /\ Has(chan[n], C, f) => Has(chan'[n], C, f) \/ Has(tql'[n], C, f)
                        /\ Has(tql[n], C, f) => Has(tql'[n], C, f)
                        /\ Has(tql'[n], C, f) => Has(tql[n], C, f) \/ Has(chan[n], C, f)
                        /\ Has(chan'[n], C, f) => Has(chan[n], C, f)
      OBVIOUS
    <3>1. Has(chan'[n], C, f) <=> Has(in, C, f)
      BY <1>6
    <3>2. x.cmd \in C => x.cmd \in Reply
      OBVIOUS
    <3> QED
      BY <1>5, <3>1, <3>2
  <2>4. Reply \subseteq Reply /\ {"GOT"} \subseteq Reply
    BY DEF Reply
  <2>5. Answered(f) \/ Noted(f) <=> Answered(f)' \/ Noted(f)'
    BY <1>11, <2>3, <2>4 DEF Answered, Noted
  <2>6. GotFor(f) => GotFor(f)'
    BY <1>4, <1>11, <2>3, <2>4 DEF GotFor, Sender, Receiver
  <2> QED
    BY <2>1, <2>2, <2>5, <2>6 DEF Placed
<1>12. CASE Sender(f) = Peer[n]
  <2>1. Noted(f) <=> Noted(f)'
    BY <1>1, <1>7, <1>12 DEF Noted, Sender, Receiver
  <2>2. Answered(f)' <=> Answered(f) \/ Has(out, Reply, f)
    BY <1>1, <1>6, <1>12 DEF Answered, Sender, Receiver
  <2>3. Offered(f) <=> (x.cmd = "FILE" /\ x.file = f) \/ Offered(f)'
    BY <1>1, <1>5, <1>6, <1>12 DEF Offered, Sender, Receiver
  <2>4. /\ InReceipt(f) <=> RxState[n] = "RxReceD" /\ rname[n] = f
        /\ InReceipt(f)' <=> RxState'[n] = "RxReceD" /\ rname'[n] = f
    BY <1>1, <1>12 DEF InReceipt, Sender, Receiver
  <2>5. GotFor(f) \/ Has(out, {"GOT"}, f) => GotFor(f)'
    BY <1>1, <1>4, <1>6, <1>7, <1>12 DEF GotFor, Sender, Receiver
  <2> QED
    BY <1>8, <2>1, <2>2, <2>3, <2>4, <2>5 DEF Placed
<1>13. CASE Sender(f) \notin {n, Peer[n]}
  <2>0. Receiver(f) \notin {n, Peer[n]}
    BY <1>1, <1>13
  <2>1. (Noted(f) <=> Noted(f)') /\ (InReceipt(f) <=> InReceipt(f)')
    BY <1>1, <1>7, <1>13, <2>0 DEF Noted, InReceipt, Sender, Receiver
  <2>2. (Answered(f)' <=> Answered(f)) /\ (Offered(f)' <=> Offered(f))
    BY <1>1, <1>6, <1>13, <2>0 DEF Answered, Offered, Sender, Receiver
  <2>3. GotFor(f) => GotFor(f)'
    BY <1>1, <1>4, <1>6, <1>7, <1>13 DEF GotFor, Sender, Receiver
  <2> QED
    BY <2>1, <2>2, <2>3 DEF Placed
<1> QED
  BY <1>11, <1>12, <1>13

\* The other steps, but for the queue of answers of the mailer that acts.
LEMMA MovePlaces ==
  ASSUME Harmony, NEW n \in Nodes, NEW in \in Seq(Frame), NEW out \in Seq(Frame),
         Line(n, in, out), Others(n), outbound' \subseteq outbound, rname' = rname,
         RxState'[n] = "RxReceD" <=> RxState[n] = "RxReceD",
         NEW f \in Files, ~ Has(out, Reply, f),
         \A C \in {{"FILE"}, {"GOT"}, Reply} : Has(in, C, f) <=> Has(chan[n], C, f)
  PROVE  /\ Offered(f)' <=> Offered(f) \/ (Sender(f) = n /\ Has(out, {"FILE"}, f))
         /\ InReceipt(f)' <=> InReceipt(f)
         /\ Answered(f)' <=> Answered(f)
         /\ Has(chan[Sender(f)], {"GOT"}, f) => Has(chan'[Sender(f)], {"GOT"}, f)
         /\ Sender(f) # n \/ tql'[n] = tql[n] =>
              (Noted(f)' <=> Noted(f)) /\ (GotFor(f) => GotFor(f)')
<1>1. /\ Owner[f] \in Nodes /\ Peer[Owner[f]] \in Nodes /\ Peer[n] \in Nodes /\ Peer[n] # n
      /\ Peer[Peer[n]] = n /\ Peer[Peer[Owner[f]]] = Owner[f]
  BY HarmonyTypes
<1>2. \A C : \A m \in Nodes :
        /\ m = n => (Has(chan'[m], C, f) <=> Has(in, C, f))
        /\ m = Peer[n] => (Has(chan'[m], C, f) <=> Has(chan[m], C, f) \/ Has(out, C, f))
        /\ m \notin {n, Peer[n]} => (Has(chan'[m], C, f) <=> Has(chan[m], C, f))
  BY LineHas
<1>3. \A m \in Nodes : /\ m # n => tql'[m] = tql[m]
                       /\ RxState'[m] = "RxReceD" <=> RxState[m] = "RxReceD"
  BY DEF Others
<1>4. Offered(f)' <=> Offered(f) \/ (Sender(f) = n /\ Has(out, {"FILE"}, f))
  <2>1. Peer[Owner[f]] = Peer[n] <=> Owner[f] = n
    BY <1>1
  <2> QED
    BY <1>1, <1>2, <2>1 DEF Offered, Sender, Receiver
<1>5. InReceipt(f)' <=> InReceipt(f)
  BY <1>1, <1>3 DEF InReceipt, Receiver
<1>6. Answered(f)' <=> Answered(f)
  BY <1>1, <1>2 DEF Answered, Sender
<1>7. Has(chan[Sender(f)], {"GOT"}, f) => Has(chan'[Sender(f)], {"GOT"}, f)
  BY <1>1, <1>2 DEF Sender
<1>8. ASSUME Sender(f) # n \/ tql'[n] = tql[n]
      PROVE  (Noted(f)' <=> Noted(f)) /\ (GotFor(f) => GotFor(f)')
  <2>1. tql'[Owner[f]] = tql[Owner[f]]
    BY <1>1, <1>3, <1>8 DEF Sender
  <2>2. Noted(f)' <=> Noted(f)
    BY <2>1 DEF Noted, Sender
  <2>3. GotFor(f) => GotFor(f)'
    BY <1>7, <2>1 DEF GotFor, Sender
  <2> QED
    BY <2>2, <2>3
<1> QED
  BY <1>4, <1>5, <1>6, <1>7, <1>8

\* The batch ends, or the mailer leaves: no file moves.
LEMMA EndPlaces ==
  ASSUME Harmony, NEW n \in Nodes, EndedShape(n) \/ NewShape(n) \/ LeaveShape(n),
         NEW f \in Files
  PROVE  /\ Placed(f)' <=> Placed(f)
         /\ InReceipt(f)' <=> InReceipt(f)
         /\ GotFor(f) => GotFor(f)'
<1>1. chan[n] \in Seq(Frame) /\ <<>> \in Seq(Frame)
  BY HarmonyTypes, NoFrames
<1>2. Others(n) /\ outbound' \subseteq outbound /\ rname' = rname /\ tql' = tql
  BY DEF EndedShape, NewShape, LeaveShape
<1>3. RxState'[n] = "RxReceD" <=> RxState[n] = "RxReceD"
  <2>1. remote_EOB[n] => RxState[n] # "RxReceD"
    BY DEF Harmony, Stages, RxStage
  <2> QED
    BY <2>1 DEF EndedShape, NewShape, LeaveShape, BothEOB
<1>4. PICK in \in Seq(Frame) :
        /\ Line(n, in, <<>>)
        /\ \A C \in {{"FILE"}, {"GOT"}, Reply} : Has(in, C, f) <=> Has(chan[n], C, f)
  <2>1. CASE Polled(n) /\ In(n).cmd = "EOB" /\ Line(n, Tail(chan[n]), <<>>)
    <3>1. chan[n] # <<>> /\ Tail(chan[n]) \in Seq(Frame) /\ Head(chan[n]).cmd = "EOB"
      BY <1>1, <2>1, QueueTyped DEF Polled, In
    <3>2. \A C \in {{"FILE"}, {"GOT"}, Reply} :
            Has(Tail(chan[n]), C, f) <=> Has(chan[n], C, f)
      BY <1>1, <3>1, HasTail, HasKeeps DEF Reply
    <3> QED
      BY <2>1, <3>1, <3>2
  <2>2. CASE Line(n, chan[n], <<>>)
    BY <1>1, <2>2
  <2> QED
    BY <2>1, <2>2 DEF EndedShape, NewShape, LeaveShape
<1>5. ~ Has(<<>>, Reply, f) /\ ~ Has(<<>>, {"FILE"}, f)
  BY HasNone
<1>6. /\ Offered(f)' <=> Offered(f)
      /\ InReceipt(f)' <=> InReceipt(f)
      /\ Answered(f)' <=> Answered(f)
      /\ (Noted(f)' <=> Noted(f)) /\ (GotFor(f) => GotFor(f)')
  <2>1. tql'[n] = tql[n]
    BY <1>2
  <2> QED
    BY <1>1, <1>2, <1>3, <1>4, <1>5, <2>1, MovePlaces, ZenonT(30)
<1> QED
  BY <1>6 DEF Placed

\* The frames the transmitter sends.
LEMMA ActFrames ==
  ASSUME Harmony, NEW n \in Nodes, NEW out \in Seq(Frame), Acts(n, out), NEW f
  PROVE  /\ ~ Has(out, Reply, f)
         /\ Has(out, {"FILE"}, f) <=> OfferShape(n, f, out)
<1>1. Command("NUL") \in Frame /\ Command("EOB") \in Frame
      /\ Command("NUL").cmd = "NUL" /\ Command("EOB").cmd = "EOB"
  BY CommandTyped DEF Command
<1>2. ~ Has(Traffic(n), Reply, f) /\ ~ Has(Traffic(n), {"FILE"}, f)
      /\ Traffic(n) \in Seq(Frame)
      /\ \A x \in Frame : Append(Traffic(n), x) = Traffic(n) \o <<x>>
  <2>1. ~ Has(<<Command("NUL")>>, Reply, f) /\ ~ Has(<<Command("NUL")>>, {"FILE"}, f)
    BY <1>1, HasOne DEF Reply
  <2> QED
    BY <2>1, TrafficFrames, HasNone
<1>3. ASSUME NEW x \in Frame, NEW C
      PROVE  Has(Append(Traffic(n), x), C, f) <=>
               Has(Traffic(n), C, f) \/ (x.cmd \in C /\ x.file = f)
  <2>1. <<x>> \in Seq(Frame) /\ Append(Traffic(n), x) = Traffic(n) \o <<x>>
    BY <1>2, <1>3
  <2>2. Has(Traffic(n) \o <<x>>, C, f) <=> Has(Traffic(n), C, f) \/ Has(<<x>>, C, f)
    BY <1>2, <2>1, HasKeeps, HasConcat
  <2>3. Has(<<x>>, C, f) <=> x.cmd \in C /\ x.file = f
    BY HasOne
  <2> QED
    BY <2>1, <2>2, <2>3
<1>4. ASSUME NEW g \in Own(n), OfferShape(n, g, out)
      PROVE  ~ Has(out, Reply, f) /\ (Has(out, {"FILE"}, f) <=> f = g)
  <2>1. About("FILE", g, 0) \in Frame /\ About("FILE", g, 0).cmd = "FILE"
        /\ About("FILE", g, 0).file = g
    BY OwnFiles, AboutTyped DEF About
  <2>2. out = Append(Traffic(n), About("FILE", g, 0))
    BY <1>4 DEF OfferShape
  <2> QED
    BY <1>2, <1>3, <2>1, <2>2 DEF Reply
<1>5. ASSUME ~ \E g \in Own(n) : OfferShape(n, g, out)
      PROVE  ~ Has(out, Reply, f) /\ ~ Has(out, {"FILE"}, f)
  <2>1. CASE PassShape(n, out)
    BY <1>2, <2>1 DEF PassShape
  <2>2. CASE CloseShape(n, out)
    BY <1>1, <1>2, <1>3, <2>2 DEF CloseShape, Reply
  <2>3. CASE BlockShape(n, out)
    <3>1. cursend[n] \in Files /\ txpos[n] + 1 \in Nat
      BY <2>3, OwnFiles DEF BlockShape
    <3>2. About("DATA", cursend[n], txpos[n] + 1) \in Frame
          /\ About("DATA", cursend[n], txpos[n] + 1).cmd = "DATA"
      BY <3>1, AboutTyped DEF About
    <3>3. ~ Has(<<About("DATA", cursend[n], txpos[n] + 1)>>, Reply, f)
          /\ ~ Has(<<About("DATA", cursend[n], txpos[n] + 1)>>, {"FILE"}, f)
      BY <3>2, HasOne DEF Reply
    <3> QED
      BY <2>3, <3>3, HasNone DEF BlockShape
  <2>4. CASE out = <<>>
    BY <2>4, HasNone
  <2> QED
    BY <1>5, <2>1, <2>2, <2>3, <2>4 DEF Acts
<1>6. \A g : OfferShape(n, g, out) => g \in Own(n)
  BY DEF OfferShape
<1> QED
  BY <1>4, <1>5, <1>6

\* A file is offered, processed, or where it was.
LEMMA ActPlaces ==
  ASSUME Harmony, NEW n \in Nodes, NEW out \in Seq(Frame), ActShape(n, out),
         outbound' \subseteq outbound, NEW f \in Files
  PROVE  /\ Placed(f)' => Placed(f) \/ (Sender(f) = n /\ TxState'[n] = "TxTryR")
         /\ Placed(f) /\ (Sender(f) = n => Moving(f)') => Placed(f)'
         /\ Sender(f) = n /\ Moving(f)' => Moving(f) \/ Offered(f)'
         /\ InReceipt(f)' <=> InReceipt(f)
         /\ GotFor(f) => GotFor(f)'
<1>1. /\ chan[n] \in Seq(Frame) /\ Others(n) /\ Line(n, chan[n], out) /\ rname' = rname
      /\ Acts(n, out) /\ TypeOK /\ Places
  BY HarmonyTypes DEF ActShape
<1>2. ~ Has(out, Reply, f) /\ (Has(out, {"FILE"}, f) <=> OfferShape(n, f, out))
  BY <1>1, ActFrames
<1>3. Sender(f) = n <=> f \in Own(n)
  BY DEF Sender, Own
<1>4. CASE NewShape(n)
  <2>1. f \in Own(n) => ~ Moving(f)'
    BY <1>4 DEF NewShape, Moving
  <2> QED
    BY <1>3, <1>4, <2>1, EndPlaces
<1>5. CASE ~ NewShape(n)
  <2>1. RxState'[n] = "RxReceD" <=> RxState[n] = "RxReceD"
    <3>1. BothEOB(n) => RxState[n] # "RxReceD"
      BY DEF Harmony, Stages, RxStage, BothEOB
    <3> QED
      BY <1>1, <1>5, <3>1 DEF Acts, OfferShape, PassShape, CloseShape, BlockShape, ReplyShape,
         DoneShape, WaitShape, Same
  <2>2. /\ Offered(f)' <=> Offered(f) \/ (Sender(f) = n /\ Has(out, {"FILE"}, f))
        /\ InReceipt(f)' <=> InReceipt(f)
        /\ Answered(f)' <=> Answered(f)
        /\ Has(chan[Sender(f)], {"GOT"}, f) => Has(chan'[Sender(f)], {"GOT"}, f)
        /\ Sender(f) # n \/ tql'[n] = tql[n] =>
             (Noted(f)' <=> Noted(f)) /\ (GotFor(f) => GotFor(f)')
    BY <1>1, <1>2, <2>1, MovePlaces, ZenonT(30)
  <2>3. CASE Sender(f) # n
    <3>1. ~ OfferShape(n, f, out)
      BY <1>3, <2>3 DEF OfferShape
    <3> QED
      BY <1>2, <2>2, <2>3, <3>1 DEF Placed
  <2>4. CASE Sender(f) = n /\ ~ ReplyShape(n)
    <3>1. tql'[n] = tql[n]
      BY <1>1, <1>5, <2>4 DEF Acts, OfferShape, PassShape, CloseShape, BlockShape, DoneShape,
         WaitShape, Same
    <3>2. OfferShape(n, f, out) => TxState'[n] = "TxTryR"
      BY DEF OfferShape
    <3>3. Moving(f)' => Moving(f) \/ OfferShape(n, f, out)
      <4>1. Filelist(n)[f] \in {"NoState", "NotListed", state[f]}
        BY DEF Filelist
      <4>2. ASSUME NEW g \in Own(n), OfferShape(n, g, out), g # f
            PROVE  state'[f] = Filelist(n)[f]
        BY <1>3, <2>4, <4>2 DEF OfferShape
      <4>3. CASE PassShape(n, out) \/ CloseShape(n, out)
        BY <1>3, <2>4, <4>1, <4>3 DEF PassShape, CloseShape, Moving
      <4>4. CASE BlockShape(n, out)
        <5>1. Active(n)
          BY DEF ActShape, Active
        <5>2. TxState[n] = "TxTryR" /\ state[cursend[n]] = "Sending"
          BY <1>1, <4>4, <5>1 DEF Harmony, Gone, CurrentSending, BlockShape
        <5> QED
          BY <1>3, <2>4, <4>4, <5>2 DEF BlockShape, Moving
      <4>5. CASE DoneShape(n) \/ WaitShape(n)
        BY <1>3, <2>4, <4>5 DEF DoneShape, WaitShape, Moving
      <4> QED
        BY <1>1, <1>5, <2>4, <4>1, <4>2, <4>3, <4>4, <4>5 DEF Acts, Moving
    <3> QED
      BY <1>2, <2>2, <2>4, <3>1, <3>2, <3>3 DEF Placed
  <2>5. CASE Sender(f) = n /\ ReplyShape(n)
    <3>1. tql[n] # <<>> /\ tql'[n] = Tail(tql[n]) /\ tql[n] \in Seq(Frame)
          /\ Message(n) = Head(tql[n])
      BY <2>5, HarmonyTypes DEF ReplyShape, Message
    <3>2. \A C : /\ Has(tql'[n], C, f) => Has(tql[n], C, f)
                 /\ Has(tql[n], C, f) => \/ Has(tql'[n], C, f)
                                         \/ Message(n).cmd \in C /\ Message(n).file = f
      BY <3>1, HasTail, HasKeeps
    <3>3. /\ f = Message(n).file => ~ Moving(f)'
          /\ f # Message(n).file => state'[f] = state[f]
          /\ Message(n).cmd = "GOT" => Message(n).file \notin outbound'
      BY <1>3, <2>5 DEF ReplyShape, Moving
    <3>4. ~ OfferShape(n, f, out)
      <4>1. Tail(tql[n]) # tql[n]
        <5>1. Len(Tail(tql[n])) = Len(tql[n]) - 1 /\ Len(tql[n]) \in Nat
          BY <3>1, HeadTailProperties
        <5>2. Len(tql[n]) # Len(tql[n]) - 1
          BY <5>1
        <5> QED
          BY <5>1, <5>2, Zenon
      <4> QED
        BY <3>1, <4>1 DEF OfferShape, Same
    <3>5. (Noted(f)' => Noted(f)) /\ (Noted(f) => Noted(f)' \/ f = Message(n).file)
      BY <2>5, <3>2 DEF Noted, Sender
    <3>6. GotFor(f) => GotFor(f)'
      BY <2>2, <2>5, <3>2, <3>3 DEF GotFor, Sender
    <3>7. Moving(f)' => Moving(f) /\ f # Message(n).file
      BY <3>3 DEF Moving
    <3> QED
      BY <1>2, <2>2, <2>5, <3>4, <3>5, <3>6, <3>7 DEF Placed
  <2> QED
    BY <2>3, <2>4, <2>5
<1> QED
  BY <1>4, <1>5
--------------------------------------------------------------------------------
LEMMA StepKnown ==
  ASSUME NothingBreaks, Harmony, [Next]_vars, ~ Redial, ~ UNCHANGED vars
  PROVE  PartsKnown' /\ \A f \in Files : Somewhere(f)'
<1> SUFFICES ASSUME NEW f \in Files
             PROVE  (part'[f] # <<>> => InReceipt(f)' \/ GotFor(f)') /\ Somewhere(f)'
  BY DEF PartsKnown
<1>1. PICK n \in Nodes :
        \/ \E out \in Seq(Frame) : HeardShape(n, out) \/ ActShape(n, out)
        \/ EndedShape(n) \/ NewShape(n) \/ LeaveShape(n)
  BY HarmonySteps
<1>2. /\ TypeOK /\ Places /\ outbound' \subseteq outbound
      /\ Sender(f) \in Nodes
      /\ Sender(f) = n <=> f \in Own(n)
      /\ Somewhere(f) /\ (part[f] # <<>> => InReceipt(f) \/ GotFor(f))
  BY HarmonyTypes, OutboundShrinks DEF Harmony, PartsKnown, Sender, Own
<1>3. ASSUME /\ Placed(f)' => Placed(f) \/ TxState'[Sender(f)] = "TxTryR"
             /\ Moving(f)' => Moving(f) \/ Offered(f)'
             /\ Placed(f) /\ Moving(f)' => Placed(f)'
             /\ TxState'[Sender(f)] = "TxDone" => TxState[Sender(f)] = "TxDone" \/ ~ Placed(f)
      PROVE  Somewhere(f)'
  <2>1. Moving(f)' => Placed(f)'
    BY <1>2, <1>3 DEF Somewhere, Placed
  <2>2. TxState'[Sender(f)] = "TxDone" => ~ Placed(f)'
    BY <1>2, <1>3 DEF Somewhere, Placed
  <2> QED
    BY <2>1, <2>2 DEF Somewhere, Placed, Sender
<1>4. ASSUME NEW out \in Seq(Frame), HeardShape(n, out)
      PROVE  (part'[f] # <<>> => InReceipt(f)' \/ GotFor(f)') /\ Somewhere(f)'
  <2>1. part'[f] = part[f] \/ InReceipt(f)
    BY <1>4 DEF HeardShape, InReceipt
  <2>2. TxState' = TxState /\ state' = state
    BY <1>4 DEF HeardShape
  <2>3. (Moving(f)' <=> Moving(f)) /\ TxState'[Sender(f)] = TxState[Sender(f)]
    BY <2>2 DEF Moving
  <2>4. /\ Placed(f) <=> Placed(f)'
        /\ GotFor(f) => GotFor(f)'
        /\ InReceipt(f) => InReceipt(f)' \/ GotFor(f)'
    BY <1>4, HeardPlaces
  <2>5. Somewhere(f)'
    BY <1>3, <2>3, <2>4
  <2> QED
    BY <1>2, <2>1, <2>4, <2>5
<1>5. CASE EndedShape(n) \/ NewShape(n) \/ LeaveShape(n)
  <2>1. /\ Placed(f)' <=> Placed(f)
        /\ InReceipt(f)' <=> InReceipt(f)
        /\ GotFor(f) => GotFor(f)'
    BY <1>5, EndPlaces
  <2>2. part' = part
    BY <1>5 DEF EndedShape, NewShape, LeaveShape
  <2>3. Moving(f)' => Moving(f)
    BY <1>2, <1>5 DEF EndedShape, NewShape, LeaveShape, Others, Own, Moving, Sender
  <2>4. TxState'[Sender(f)] = "TxDone" => TxState[Sender(f)] = "TxDone"
    BY <1>2, <1>5 DEF EndedShape, NewShape, LeaveShape, Others
  <2>5. Somewhere(f)'
    BY <1>3, <2>1, <2>3, <2>4
  <2> QED
    BY <1>2, <2>1, <2>2, <2>5
<1>6. ASSUME NEW out \in Seq(Frame), ActShape(n, out)
      PROVE  (part'[f] # <<>> => InReceipt(f)' \/ GotFor(f)') /\ Somewhere(f)'
  <2>1. /\ Placed(f)' => Placed(f) \/ (Sender(f) = n /\ TxState'[n] = "TxTryR")
        /\ Placed(f) /\ (Sender(f) = n => Moving(f)') => Placed(f)'
        /\ Sender(f) = n /\ Moving(f)' => Moving(f) \/ Offered(f)'
        /\ InReceipt(f)' <=> InReceipt(f)
        /\ GotFor(f) => GotFor(f)'
    BY <1>2, <1>6, ActPlaces
  <2>2. part' = part /\ Others(n) /\ Active(n)
    BY <1>6 DEF ActShape, Active
  <2>3. Sender(f) # n => (Moving(f)' <=> Moving(f)) /\ TxState'[Sender(f)] = TxState[Sender(f)]
    BY <1>2, <2>2 DEF Others, Own, Moving, Sender
  <2>4. TxState'[n] = "TxDone" => TxState[n] = "TxDone" \/ Pending(n) = {}
    BY <1>6 DEF ActShape, Acts, OfferShape, PassShape, CloseShape, BlockShape, ReplyShape,
       DoneShape, WaitShape, NewShape
  <2>5. Sender(f) = n /\ Pending(n) = {} => ~ Placed(f)
    BY <1>2, <2>2, PlacePending DEF Placed
  <2>6. Somewhere(f)'
    BY <1>3, <2>1, <2>3, <2>4, <2>5
  <2> QED
    BY <1>2, <2>1, <2>2, <2>6
<1> QED
  BY <1>1, <1>4, <1>5, <1>6

--------------------------------------------------------------------------------
\* The blocks of a file follow it.

Trail(m) ==
  /\ RxState[m] = "RxReceD" => Follows(m, 0, rname[m])
  /\ \A i \in DOMAIN chan[m] :
       chan[m][i].cmd = "FILE" => Follows(m, i, chan[m][i].file)

LEMMA TrailAside ==
  ASSUME Harmony, NEW n \in Nodes, Others(n), NEW in, NEW out, Line(n, in, out),
         NEW m \in Nodes \ {n, Peer[n]}
  PROVE  Trail(m)'
<1>1. Peer[m] \in Nodes /\ Peer[m] # n
  BY HarmonyTypes
<1>2. Trail(m)
  BY DEF Harmony, FilesFollow, Trail
<1>3. chan'[m] = chan[m] /\ RxState'[m] = RxState[m] /\ rname'[m] = rname[m]
  BY DEF Line, Others
<1>4. /\ TxState'[Peer[m]] = TxState[Peer[m]] /\ cursend'[Peer[m]] = cursend[Peer[m]]
      /\ txpos'[Peer[m]] = txpos[Peer[m]]
  BY <1>1 DEF Others
<1>5. ASSUME NEW i, NEW f, Follows(m, i, f) PROVE Follows(m, i, f)'
  <2>1. Ends(chan[m], i, f) => Ends(chan'[m], i, f)
    BY <1>3
  <2>2. Sends(Peer[m], f) /\ Open(chan[m], i) => Sends(Peer[m], f)' /\ Open(chan'[m], i)
    BY <1>3, <1>4 DEF Sends
  <2> QED
    BY <1>5, <2>1, <2>2 DEF Follows
<1> QED
  BY <1>2, <1>3, <1>5 DEF Trail

\* The first frame is taken from the queue.
LEMMA TrailTaken ==
  ASSUME Harmony, NEW n \in Nodes, Others(n), chan[n] # <<>>, chan'[n] = Tail(chan[n]),
         RxState'[n] = "RxReceD" =>
           \/ /\ RxState[n] = "RxReceD" /\ rname'[n] = rname[n]
              /\ Head(chan[n]) # About("DATA", rname[n], Size[rname[n]])
           \/ Head(chan[n]).cmd = "FILE" /\ rname'[n] = Head(chan[n]).file
  PROVE  Trail(n)'
<1>1. Peer[n] \in Nodes \ {n} /\ chan[n] \in Seq(Frame) /\ Trail(n)
  BY HarmonyTypes DEF Harmony, FilesFollow, Trail
<1>2. /\ TxState'[Peer[n]] = TxState[Peer[n]] /\ cursend'[Peer[n]] = cursend[Peer[n]]
      /\ txpos'[Peer[n]] = txpos[Peer[n]]
  BY <1>1 DEF Others
<1>3. \A f : Sends(Peer[n], f) => Sends(Peer[n], f)'
  BY <1>2 DEF Sends
<1>4. ASSUME NEW i \in Nat, NEW f, Follows(n, i + 1, f) PROVE Follows(n, i, f)'
  <2>1. /\ Ends(chan[n], i + 1, f) => Ends(chan'[n], i, f)
        /\ Open(chan[n], i + 1) => Open(chan'[n], i)
    BY <1>1, EndsTail
  <2> QED
    BY <1>3, <1>4, <2>1 DEF Follows
<1>5. ASSUME RxState'[n] = "RxReceD" PROVE Follows(n, 0, rname[n])'
  <2>1. CASE /\ RxState[n] = "RxReceD" /\ rname'[n] = rname[n]
             /\ Head(chan[n]) # About("DATA", rname[n], Size[rname[n]])
    <3>1. Follows(n, 0, rname[n])
      BY <1>1, <2>1 DEF Trail
    <3>2. Ends(chan[n], 0, rname[n]) => Ends(chan'[n], 0, rname[n])
      BY <1>1, <2>1, EndsHead
    <3>3. Open(chan[n], 0) => Open(chan'[n], 0)
      BY <1>1, EndsHead
    <3>4. Ends(chan'[n], 0, rname[n]) \/ (Sends(Peer[n], rname[n])' /\ Open(chan'[n], 0))
      <4> DEFINE f == rname[n]
      <4>1. Sends(Peer[n], f) => Sends(Peer[n], f)'
        BY <1>2, <2>1 DEF Sends
      <4> QED
        BY <3>1, <3>2, <3>3, <4>1 DEF Follows
    <3> QED
      BY <2>1, <3>4 DEF Follows, Sends
  <2>2. CASE Head(chan[n]).cmd = "FILE" /\ rname'[n] = Head(chan[n]).file
    <3>1. Follows(n, 0 + 1, Head(chan[n]).file)
      BY <1>1, <2>2, TailFrames DEF Trail
    <3>2. /\ Ends(chan[n], 0 + 1, rname'[n]) => Ends(chan'[n], 0, rname'[n])
          /\ Open(chan[n], 0 + 1) => Open(chan'[n], 0)
      BY <1>1, EndsTail
    <3> QED
      BY <1>2, <2>2, <3>1, <3>2 DEF Follows, Sends
  <2> QED
    BY <1>5, <2>1, <2>2
<1>6. ASSUME NEW i \in DOMAIN chan'[n], chan'[n][i].cmd = "FILE"
      PROVE  Follows(n, i, chan[n][i].file)'
  <2>1. i \in Nat /\ i + 1 \in DOMAIN chan[n] /\ chan'[n][i] = chan[n][i + 1]
    <3>1. Tail(chan[n]) \in Seq(Frame)
      BY <1>1, QueueTyped
    <3> QED
      BY <1>1, <1>6, <3>1, TailFrames
  <2>2. Follows(n, i + 1, chan[n][i + 1].file)
    BY <1>1, <1>6, <2>1 DEF Trail
  <2>3. /\ Ends(chan[n], i + 1, chan[n][i + 1].file) => Ends(chan'[n], i, chan'[n][i].file)
        /\ Open(chan[n], i + 1) => Open(chan'[n], i)
    BY <1>1, <2>1, EndsTail
  <2> QED
    BY <1>2, <2>1, <2>2, <2>3 DEF Follows, Sends
<1> QED
  BY <1>5, <1>6 DEF Trail

\* The queue stays.
LEMMA TrailKept ==
  ASSUME Harmony, NEW n \in Nodes, Others(n), chan'[n] = chan[n], rname' = rname,
         RxState'[n] = "RxReceD" => RxState[n] = "RxReceD"
  PROVE  Trail(n)'
<1>1. Peer[n] \in Nodes \ {n} /\ Trail(n)
  BY HarmonyTypes DEF Harmony, FilesFollow, Trail
<1>2. /\ TxState'[Peer[n]] = TxState[Peer[n]] /\ cursend'[Peer[n]] = cursend[Peer[n]]
      /\ txpos'[Peer[n]] = txpos[Peer[n]]
  BY <1>1 DEF Others
<1>3. ASSUME NEW i, NEW f, Follows(n, i, f) PROVE Follows(n, i, f)'
  BY <1>2, <1>3 DEF Follows, Sends
<1> QED
  BY <1>1, <1>3 DEF Trail

LEMMA OpenShift ==
  ASSUME NEW q \in Seq(Frame), NEW r \in Seq(Frame), NEW i \in DOMAIN r, Open(r, i)
  PROVE  Open(q \o r, Len(q) + i)
<1> USE ConcatFrames
<1> SUFFICES ASSUME NEW k \in DOMAIN (q \o r), k > Len(q) + i
             PROVE  (q \o r)[k].cmd \notin FileEnd
  BY DEF Open
<1>1. Len(q) \in Nat /\ i \in Nat
  OBVIOUS
<1>2. k \notin DOMAIN q
  BY <1>1
<1>3. k - Len(q) \in DOMAIN r /\ (q \o r)[k] = r[k - Len(q)]
  BY <1>2
<1>4. k - Len(q) > i
  BY <1>1, <1>3
<1> QED
  BY <1>3, <1>4 DEF Open

\* Frames are sent.
LEMMA TrailSent ==
  ASSUME Harmony, NEW n \in Nodes, Others(n), NEW out \in Seq(Frame),
         chan'[Peer[n]] = chan[Peer[n]] \o out,
         \A f \in Files : Sends(n, f) =>
           \/ Sends(n, f)' /\ Open(out, 0)
           \/ Ends(out, 0, f)
           \/ ~ Offered(f) /\ ~ InReceipt(f),
         \A i \in DOMAIN out : out[i].cmd = "FILE" =>
           Sends(n, out[i].file)' /\ Open(out, i)
  PROVE  Trail(Peer[n])'
<1> DEFINE q == chan[Peer[n]]
<1>1. /\ Peer[n] \in Nodes \ {n} /\ Peer[Peer[n]] = n /\ q \in Seq(Frame)
      /\ Trail(Peer[n]) /\ Places
  BY HarmonyTypes DEF Harmony, FilesFollow, Trail
<1>2. RxState'[Peer[n]] = RxState[Peer[n]] /\ rname'[Peer[n]] = rname[Peer[n]]
  BY <1>1 DEF Others
<1>3. ASSUME NEW i \in 0..Len(q), NEW f \in Files, Follows(Peer[n], i, f),
             Offered(f) \/ InReceipt(f)
      PROVE  Follows(Peer[n], i, f)'
  <2>1. CASE Ends(q, i, f)
    <3>1. Ends(q \o out, i, f)
      BY <1>1, <2>1, EndsConcat
    <3> QED
      BY <3>1 DEF Follows
  <2>2. CASE Sends(n, f) /\ Open(q, i)
    <3>1. (Sends(n, f)' /\ Open(out, 0)) \/ Ends(out, 0, f)
      BY <1>3, <2>2
    <3>2. (Sends(n, f)' /\ Open(q \o out, i)) \/ Ends(q \o out, i, f)
      BY <1>1, <2>2, <3>1, EndsConcat
    <3> QED
      BY <1>1, <3>2 DEF Follows
  <2> QED
    BY <1>1, <1>3, <2>1, <2>2 DEF Follows
<1>4. ASSUME RxState'[Peer[n]] = "RxReceD" PROVE Follows(Peer[n], 0, rname[Peer[n]])'
  <2>1. PICK f \in Files : f = rname[Peer[n]]
    BY <1>1, <1>2, <1>4, HarmonyTypes DEF TypeOK, RxTypes
  <2>2. InReceipt(f)
    <3>1. Owner[f] = n
      BY <1>1, <1>2, <1>4, <2>1 DEF Places, NodeOwned
    <3> QED
      BY <1>2, <1>4, <2>1, <3>1 DEF InReceipt, Receiver
  <2>3. 0 \in 0..Len(q) /\ Follows(Peer[n], 0, f)
    BY <1>1, <1>2, <1>4, <2>1 DEF Trail
  <2>4. Follows(Peer[n], 0, f)'
    BY <1>3, <2>2, <2>3
  <2> QED
    BY <1>2, <2>1, <2>4 DEF Follows, Sends
<1>5. ASSUME NEW i \in DOMAIN chan'[Peer[n]], chan'[Peer[n]][i].cmd = "FILE"
      PROVE  Follows(Peer[n], i, chan[Peer[n]][i].file)'
  <2>1. CASE i \in DOMAIN q
    <3>1. i \in 0..Len(q) /\ (q \o out)[i] = q[i]
      BY <1>1, <2>1, ConcatFrames
    <3>2. q[i].cmd = "FILE" /\ chan'[Peer[n]][i].file = q[i].file
      BY <1>5, <3>1
    <3>3. PICK f \in Files : f = q[i].file /\ Offered(f)
      BY <1>1, <2>1, <3>2, FramePlace
    <3>4. Follows(Peer[n], i, f)
      BY <1>1, <2>1, <3>2, <3>3 DEF Trail
    <3>5. Follows(Peer[n], i, f)'
      BY <1>3, <3>1, <3>3, <3>4
    <3> QED
      BY <3>2, <3>3, <3>5 DEF Follows, Sends
  <2>2. CASE i \notin DOMAIN q
    <3>1. PICK j \in DOMAIN out : i = Len(q) + j /\ chan'[Peer[n]][i] = out[j]
      <4>1. i > Len(q) /\ i - Len(q) \in DOMAIN out /\ (q \o out)[i] = out[i - Len(q)]
        BY <1>1, <1>5, <2>2, ConcatFrames
      <4>2. i \in Nat /\ Len(q) \in Nat /\ i = Len(q) + (i - Len(q))
        BY <1>1, <1>5
      <4> QED
        BY <4>1, <4>2
    <3>2. PICK f : f = out[j].file
      OBVIOUS
    <3>3. Sends(n, f)' /\ Open(out, j)
      BY <1>5, <3>1, <3>2
    <3>4. Open(q \o out, i)
      BY <1>1, <3>1, <3>3, OpenShift
    <3>5. Follows(Peer[n], i, f)'
      BY <1>1, <3>3, <3>4 DEF Follows
    <3> QED
      BY <3>1, <3>2, <3>5 DEF Follows, Sends
  <2> QED
    BY <2>1, <2>2
<1> QED
  BY <1>4, <1>5 DEF Trail

LEMMA AllTrails ==
  ASSUME Harmony, NEW n \in Nodes, Others(n), NEW in, NEW out, Line(n, in, out),
         Trail(n)', Trail(Peer[n])'
  PROVE  FilesFollow'
<1>1. \A m \in Nodes \ {n, Peer[n]} : Trail(m)'
  BY TrailAside
<1>2. \A m \in Nodes : Trail(m)'
  BY <1>1
<1> QED
  BY <1>2 DEF Trail, FilesFollow

\* What a mailer receives.
LEMMA HeardFollow ==
  ASSUME Harmony, NEW n \in Nodes, NEW out \in Seq(Frame), HeardShape(n, out)
  PROVE  FilesFollow'
<1>1. /\ chan[n] # <<>> /\ In(n) = Head(chan[n]) /\ Others(n) /\ Line(n, Tail(chan[n]), out)
      /\ Hears(n, In(n), out) /\ UNCHANGED <<TxState, cursend, txpos>>
  BY DEF HeardShape, Polled, In
<1>2. Trail(n)'
  <2>1. chan'[n] = Tail(chan[n])
    BY <1>1 DEF Line
  <2>2. RxState'[n] = "RxReceD" =>
           \/ /\ RxState[n] = "RxReceD" /\ rname'[n] = rname[n]
              /\ Head(chan[n]) # About("DATA", rname[n], Size[rname[n]])
           \/ Head(chan[n]).cmd = "FILE" /\ rname'[n] = Head(chan[n]).file
    BY <1>1 DEF Hears
  <2> QED
    BY <1>1, <2>1, <2>2, TrailTaken
<1>3. Trail(Peer[n])'
  <2>1. out = <<>> \/ \E x \in Frame : out = <<x>> /\ x.cmd \in {"GOT", "SKIP"}
    BY HearsSmooth
  <2>2. Open(out, 0)
    <3>1. Open(<<>>, 0)
      BY DEF Open
    <3>2. ASSUME NEW x \in Frame, out = <<x>>, x.cmd \in {"GOT", "SKIP"} PROVE Open(out, 0)
      BY <3>2, OpenEnd, NoFrames DEF FileEnd
    <3> QED
      BY <2>1, <3>1, <3>2
  <2>3. \A i \in DOMAIN out : out[i].cmd # "FILE"
    BY <2>1
  <2>4. \A f \in Files : Sends(n, f) => Sends(n, f)' /\ Open(out, 0)
    BY <1>1, <2>2 DEF Sends
  <2>5. chan'[Peer[n]] = chan[Peer[n]] \o out
    BY <1>1 DEF Line
  <2> QED
    BY <1>1, <2>3, <2>4, <2>5, TrailSent
<1> QED
  BY <1>1, <1>2, <1>3, AllTrails

\* Nothing is sent, and no file was being sent or its sending goes on.
LEMMA SilentTrail ==
  ASSUME Harmony, NEW n \in Nodes, Others(n), chan'[Peer[n]] = chan[Peer[n]] \o <<>>,
         \A f \in Files : Sends(n, f) => Sends(n, f)' \/ (~ Offered(f) /\ ~ InReceipt(f))
  PROVE  Trail(Peer[n])'
<1>1. Open(<<>>, 0) /\ <<>> \in Seq(Frame) /\ DOMAIN <<>> = {}
  BY NoFrames DEF Open
<1>2. \A f \in Files : Sends(n, f) =>
           \/ Sends(n, f)' /\ Open(<<>>, 0)
           \/ Ends(<<>>, 0, f)
           \/ ~ Offered(f) /\ ~ InReceipt(f)
  BY <1>1
<1> QED
  BY <1>1, <1>2, TrailSent

LEMMA EndFollow ==
  ASSUME Harmony, NEW n \in Nodes, EndedShape(n) \/ NewShape(n) \/ LeaveShape(n)
  PROVE  FilesFollow'
<1>1. CASE EndedShape(n)
  <2>1. /\ chan[n] # <<>> /\ Others(n) /\ Line(n, Tail(chan[n]), <<>>)
        /\ UNCHANGED <<TxState, cursend, txpos>> /\ RxState'[n] # "RxReceD"
    BY <1>1 DEF EndedShape, Polled
  <2>2. Trail(n)'
    BY <2>1, TrailTaken DEF Line
  <2>3. \A f \in Files : Sends(n, f) => Sends(n, f)'
    BY <2>1 DEF Sends
  <2>4. Trail(Peer[n])'
    BY <2>1, <2>3, SilentTrail DEF Line
  <2> QED
    BY <2>1, <2>2, <2>4, AllTrails
<1>2. CASE NewShape(n)
  <2>1. /\ Others(n) /\ RxState'[n] # "RxReceD" /\ rname' = rname
        /\ \/ chan[n] # <<>> /\ Line(n, Tail(chan[n]), <<>>)
           \/ Line(n, chan[n], <<>>)
    BY <1>2 DEF NewShape, Polled
  <2>2. Trail(n)'
    BY <2>1, TrailTaken, TrailKept DEF Line
  <2>3. local_EOB[n]
    BY <1>2 DEF NewShape, BothEOB
  <2>4. \A f \in Files : ~ Sends(n, f)
    BY <2>3 DEF Sends, Harmony, Stages, TxStage
  <2>5. Trail(Peer[n])'
    BY <2>1, <2>4, SilentTrail DEF Line
  <2> QED
    BY <2>1, <2>2, <2>5, AllTrails
<1>3. CASE LeaveShape(n)
  <2>1. /\ Others(n) /\ Line(n, chan[n], <<>>)
        /\ UNCHANGED <<rname, TxState, RxState, cursend, txpos>>
    BY <1>3 DEF LeaveShape
  <2>2. Trail(n)'
    BY <2>1, TrailKept DEF Line
  <2>3. \A f \in Files : Sends(n, f) => Sends(n, f)'
    BY <2>1 DEF Sends
  <2>4. Trail(Peer[n])'
    BY <2>1, <2>3, SilentTrail DEF Line
  <2> QED
    BY <2>1, <2>2, <2>4, AllTrails
<1> QED
  BY <1>1, <1>2, <1>3

\* The frames a mailer sends that has no file open.
LEMMA TrafficTrail ==
  ASSUME Harmony, NEW n \in Nodes, Others(n), NEW out \in Seq(Frame),
         chan'[Peer[n]] = chan[Peer[n]] \o out, TxState[n] # "TxTryR",
         \A i \in DOMAIN out : out[i].cmd = "FILE" =>
           Sends(n, out[i].file)' /\ Open(out, i)
  PROVE  Trail(Peer[n])'
<1>1. \A f \in Files : ~ Sends(n, f)
  BY DEF Sends
<1> QED
  BY <1>1, TrailSent

\* M_FILE is the last frame sent with it, and the file is to be sent.
LEMMA OfferTrail ==
  ASSUME Harmony, NEW n \in Nodes, Others(n), NEW out \in Seq(Frame),
         Line(n, chan[n], out), NEW f \in Own(n), OfferShape(n, f, out)
  PROVE  Trail(Peer[n])'
<1>1. /\ TxState[n] # "TxTryR" /\ TxState'[n] = "TxTryR" /\ cursend'[n] = f /\ txpos'[n] = 0
      /\ out = Append(Traffic(n), About("FILE", f, 0)) /\ f \in Files
      /\ chan'[Peer[n]] = chan[Peer[n]] \o out
  BY OwnFiles DEF OfferShape, Line
<1>2. About("FILE", f, 0) \in Frame /\ About("FILE", f, 0).file = f
  BY <1>1, AboutTyped DEF About
<1>3. Sends(n, f)'
  <2>1. Size[f] \in Nat \ {0}
    BY <1>1, FilesAssumption
  <2>2. 0 < Size[f]
    BY <2>1
  <2> QED
    BY <1>1, <2>2 DEF Sends
<1>4. ASSUME NEW i \in DOMAIN out, out[i].cmd = "FILE"
      PROVE  out[i].file = f /\ Open(out, i)
  <2>1. CASE Traffic(n) = <<>>
    <3>1. out = <<About("FILE", f, 0)>> /\ i = 1 /\ Len(out) = 1
      BY <1>1, <1>4, <2>1
    <3> QED
      BY <1>2, <3>1, OpenEnd
  <2>2. CASE Traffic(n) = <<Command("NUL")>>
    <3>1. /\ Len(out) = 2 /\ DOMAIN out = {1, 2} /\ out[1] = Command("NUL")
          /\ out[2] = About("FILE", f, 0)
      BY <1>1, <2>2
    <3>2. i = 2
      BY <1>4, <3>1 DEF Command
    <3> QED
      BY <1>2, <3>1, <3>2, OpenEnd
  <2> QED
    BY <2>1, <2>2, TrafficFrames
<1>5. \A i \in DOMAIN out : out[i].cmd = "FILE" =>
           Sends(n, out[i].file)' /\ Open(out, i)
  BY <1>3, <1>4
<1> QED
  BY <1>1, <1>5, TrafficTrail

\* A block of the file is sent, which may be its last.
LEMMA BlockTrail ==
  ASSUME Harmony, NEW n \in Nodes, Others(n), NEW out \in Seq(Frame),
         Line(n, chan[n], out), BlockShape(n, out)
  PROVE  Trail(Peer[n])'
<1>1. PICK e \in Files : e = cursend[n]
  BY OwnFiles DEF BlockShape
<1>2. /\ txpos[n] \in Nat /\ Size[e] \in Nat
      /\ chan'[Peer[n]] = chan[Peer[n]] \o out
  BY <1>1, FilesAssumption DEF BlockShape, Line
<1>3. CASE out = <<>>
  <2>1. \A f \in Files : ~ Sends(n, f)
    <3>1. out # <<About("DATA", cursend[n], txpos[n] + 1)>>
      BY <1>3
    <3>2. txpos[n] = Size[e]
      BY <1>1, <3>1 DEF BlockShape
    <3> QED
      BY <1>1, <1>2, <3>2 DEF Sends
  <2> QED
    BY <1>2, <1>3, <2>1, SilentTrail
<1>4. CASE out # <<>>
  <2>1. /\ out = <<About("DATA", e, txpos[n] + 1)>> /\ txpos'[n] = txpos[n] + 1
        /\ txpos[n] < Size[e]
    BY <1>1, <1>4 DEF BlockShape
  <2>2. /\ About("DATA", e, txpos[n] + 1) \in Frame
        /\ About("DATA", e, txpos[n] + 1).cmd = "DATA"
    BY <1>1, <1>2, AboutTyped DEF About
  <2>3. Open(out, 0)
    BY <2>1, <2>2, OpenEnd DEF FileEnd
  <2>4. \A i \in DOMAIN out : out[i].cmd # "FILE"
    BY <2>1, <2>2
  <2>5. \A f \in Files : Sends(n, f) => f = e
    BY <1>1 DEF Sends
  <2>6. (Sends(n, e)' /\ Open(out, 0)) \/ Ends(out, 0, e)
    <3>1. CASE txpos[n] + 1 = Size[e]
      <4>1. About("DATA", e, txpos[n] + 1) = About("DATA", e, Size[e])
        BY <3>1
      <4> QED
        BY <2>1, <2>2, <4>1, OpenEnd
    <3>2. CASE txpos[n] + 1 # Size[e]
      <4>1. txpos'[n] < Size[e] /\ txpos'[n] # Size[e]
        BY <1>2, <2>1, <3>2
      <4>2. TxState'[n] = "TxTryR" /\ cursend'[n] = cursend[n]
        BY <1>1, <4>1 DEF BlockShape
      <4> QED
        BY <1>1, <2>3, <4>1, <4>2 DEF Sends
    <3> QED
      BY <3>1, <3>2
  <2>7. \A f \in Files : Sends(n, f) =>
           \/ Sends(n, f)' /\ Open(out, 0)
           \/ Ends(out, 0, f)
           \/ ~ Offered(f) /\ ~ InReceipt(f)
    BY <2>5, <2>6
  <2> QED
    BY <1>2, <2>4, <2>7, TrailSent
<1> QED
  BY <1>3, <1>4

\* The file being sent is given up only when it has been answered.
LEMMA ReplyTrail ==
  ASSUME Harmony, NEW n \in Nodes, Others(n), Line(n, chan[n], <<>>), ReplyShape(n)
  PROVE  Trail(Peer[n])'
<1>1. ASSUME NEW f \in Files, Sends(n, f)
      PROVE  Sends(n, f)' \/ (~ Offered(f) /\ ~ InReceipt(f))
  <2>1. CASE state[Message(n).file] = "Sending"
    <3>1. /\ Message(n).file \in Files /\ Owner[Message(n).file] = n /\ Noted(Message(n).file)
      BY HarmonyTypes, QueueHead DEF ReplyShape
    <3>2. Message(n).file \in Own(n)
      BY <3>1 DEF Own
    <3>3. cursend[n] = Message(n).file
      BY <2>1, <3>2 DEF Harmony, Stages, ListStage
    <3>4. f = Message(n).file
      BY <1>1, <3>3 DEF Sends
    <3> QED
      BY <1>1, <3>1, <3>4, HarmonyTypes DEF Places, OnePlace
  <2>2. CASE state[Message(n).file] # "Sending"
    BY <1>1, <2>2 DEF ReplyShape, Sends
  <2> QED
    BY <2>1, <2>2
<1> QED
  BY <1>1, SilentTrail DEF Line

LEMMA ActFollow ==
  ASSUME Harmony, NEW n \in Nodes, NEW out \in Seq(Frame), ActShape(n, out)
  PROVE  FilesFollow'
<1>1. Others(n) /\ Line(n, chan[n], out) /\ rname' = rname /\ Acts(n, out)
  BY DEF ActShape
<1>2. Trail(n)'
  <2>1. RxState'[n] = "RxReceD" => RxState[n] = "RxReceD"
    BY <1>1 DEF Acts, OfferShape, PassShape, CloseShape, BlockShape, ReplyShape, DoneShape,
                WaitShape, NewShape, Same
  <2> QED
    BY <1>1, <2>1, TrailKept DEF Line
<1>3. CASE \E f \in Own(n) : OfferShape(n, f, out)
  BY <1>1, <1>2, <1>3, OfferTrail, AllTrails
<1>4. CASE PassShape(n, out) \/ CloseShape(n, out)
  <2>1. TxState[n] # "TxTryR" /\ chan'[Peer[n]] = chan[Peer[n]] \o out
    BY <1>1, <1>4 DEF PassShape, CloseShape, Line
  <2>2. \A i \in DOMAIN out : out[i].cmd # "FILE"
    <3>1. CASE PassShape(n, out)
      <4>1. out = <<>> \/ out = <<Command("NUL")>>
        BY <3>1, TrafficFrames DEF PassShape
      <4> QED
        BY <4>1 DEF Command
    <3>2. CASE CloseShape(n, out)
      <4>1. out = Append(<<>>, Command("EOB")) \/ out = Append(<<Command("NUL")>>, Command("EOB"))
        BY <3>2, TrafficFrames DEF CloseShape
      <4>2. Command("EOB").cmd = "EOB" /\ Command("NUL").cmd = "NUL"
        BY DEF Command
      <4> QED
        BY <4>1, <4>2
    <3> QED
      BY <1>4, <3>1, <3>2
  <2> QED
    BY SMTT(30), <1>1, <1>2, <2>1, <2>2, TrafficTrail, AllTrails
<1>5. CASE BlockShape(n, out)
  BY <1>1, <1>2, <1>5, BlockTrail, AllTrails
<1>6. CASE ReplyShape(n) /\ out = <<>>
  BY <1>1, <1>2, <1>6, ReplyTrail, AllTrails
<1>7. CASE (DoneShape(n) \/ WaitShape(n)) /\ out = <<>>
  <2>1. TxState[n] # "TxTryR" /\ chan'[Peer[n]] = chan[Peer[n]] \o <<>>
    BY <1>1, <1>7 DEF DoneShape, WaitShape, Line
  <2>2. \A f \in Files : ~ Sends(n, f)
    BY <2>1 DEF Sends
  <2> QED
    BY <1>1, <1>2, <2>1, <2>2, SilentTrail, AllTrails
<1>8. CASE NewShape(n)
  BY <1>8, EndFollow
<1> QED
  BY <1>1, <1>3, <1>4, <1>5, <1>6, <1>7, <1>8 DEF Acts

LEMMA StepFollow ==
  ASSUME NothingBreaks, Harmony, [Next]_vars, ~ Redial, ~ UNCHANGED vars
  PROVE  FilesFollow'
<1>1. PICK n \in Nodes :
        \/ \E out \in Seq(Frame) : HeardShape(n, out) \/ ActShape(n, out)
        \/ EndedShape(n) \/ NewShape(n) \/ LeaveShape(n)
  BY HarmonySteps
<1> QED
  BY <1>1, HeardFollow, EndFollow, ActFollow

--------------------------------------------------------------------------------
\* The stages of a mailer, and how many frames it has counted.

Stage(n) == TxStage(n) /\ RxStage(n) /\ ListStage(n)

\* The count of frames against the ends of the batch: k frames, d of them an end.
LEMMA NoisyCount ==
  ASSUME NEW n \in Nodes, messages[n] \in 0..3, NEW k \in Nat, NEW d \in {0, 1}, k >= d,
         messages[n] >= Bit(local_EOB[n]) + Bit(remote_EOB[n]),
         Bit(local_EOB'[n]) + Bit(remote_EOB'[n]) = Bit(local_EOB[n]) + Bit(remote_EOB[n]) + d,
         messages'[n] = Count(messages[n], k)
  PROVE  /\ Noisy(n)' <=> Noisy(n) \/ k > d
         /\ messages'[n] >= Bit(local_EOB'[n]) + Bit(remote_EOB'[n])
<1> DEFINE b == Bit(local_EOB[n]) + Bit(remote_EOB[n])
           c == Bit(local_EOB'[n]) + Bit(remote_EOB'[n])
<1>1. b \in 0..2 /\ c \in 0..2 /\ c = b + d
  BY DEF Bit
<1>2. /\ Noisy(n) <=> messages[n] >= 1 + b
      /\ Noisy(n)' <=> messages'[n] >= 1 + c
  <2>1. /\ Bit(local_EOB[n]) \in {0, 1} /\ Bit(remote_EOB[n]) \in {0, 1}
        /\ Bit(local_EOB'[n]) \in {0, 1} /\ Bit(remote_EOB'[n]) \in {0, 1}
    BY DEF Bit
  <2>2. messages[n] \in Nat /\ messages'[n] \in Nat
    BY DEF Count
  <2>3. ASSUME NEW m \in Nat, NEW x \in {0, 1}, NEW y \in {0, 1}
        PROVE  m >= 1 + x + y <=> m >= 1 + (x + y)
    OBVIOUS
  <2> QED
    BY <2>1, <2>2, <2>3, Zenon DEF Noisy
<1> HIDE DEF b, c
<1>3. messages[n] >= b
  BY DEF b
<1>4. messages'[n] = IF messages[n] + k < 3 THEN messages[n] + k ELSE 3
  BY DEF Count
<1>5. /\ messages'[n] >= 1 + c <=> messages[n] >= 1 + b \/ k > d
      /\ messages'[n] >= c
  BY <1>1, <1>3, <1>4
<1> QED
  BY <1>2, <1>5 DEF c

\* And without a frame.
LEMMA NoisySame ==
  ASSUME NEW n \in Nodes, messages'[n] = messages[n], local_EOB'[n] = local_EOB[n],
         remote_EOB'[n] = remote_EOB[n]
  PROVE  Noisy(n)' <=> Noisy(n)
BY DEF Noisy

LEMMA StageTypes ==
  ASSUME Harmony, NEW n \in Nodes
  PROVE  /\ Stage(n) /\ messages[n] \in 0..3 /\ Minor[n] \in {0, 1}
         /\ local_EOB[n] \in BOOLEAN /\ remote_EOB[n] \in BOOLEAN
         /\ messages[n] >= Bit(local_EOB[n]) + Bit(remote_EOB[n])
         /\ \A g \in Own(n) : Filelist(n)[g] \in {state[g], "NoState", "NotListed"}
<1>1. Stage(n)
  BY DEF Harmony, Stages, Stage
<1>2. messages[n] \in 0..3 /\ local_EOB[n] \in BOOLEAN /\ remote_EOB[n] \in BOOLEAN
  BY HarmonyTypes DEF TypeOK, BatchTypes
<1>3. \A g \in Own(n) : Filelist(n)[g] \in {state[g], "NoState", "NotListed"}
  BY OwnFiles DEF Filelist
<1> QED
  BY <1>1, <1>2, <1>3, OptionsAssumption DEF Stage, ListStage

LEMMA StageAside ==
  ASSUME Harmony, NEW n \in Nodes, Others(n), NEW m \in Nodes \ {n}
  PROVE  Stage(m)'
<1>1. /\ FtState'[m] = FtState[m] /\ RxState'[m] = RxState[m] /\ TxState'[m] = TxState[m]
      /\ local_EOB'[m] = local_EOB[m] /\ remote_EOB'[m] = remote_EOB[m]
      /\ messages'[m] = messages[m] /\ tql'[m] = tql[m] /\ cursend'[m] = cursend[m]
      /\ \A f \in Own(m) : state'[f] = state[f]
  BY DEF Others
<1>2. (Noisy(m)' <=> Noisy(m)) /\ (BothEOB(m)' <=> BothEOB(m))
  BY <1>1, NoisySame DEF BothEOB
<1>3. Pending(m)' = Pending(m)
  BY <1>1 DEF Pending
<1>4. Stage(m)
  BY StageTypes
<1>5. TxStage(m)'
  BY <1>1, <1>2, <1>3, <1>4 DEF Stage, TxStage
<1>6. RxStage(m)'
  BY <1>1, <1>2, <1>4 DEF Stage, RxStage
<1>7. ListStage(m)'
  BY <1>1, <1>2, <1>4 DEF Stage, ListStage, Moving
<1> QED
  BY <1>5, <1>6, <1>7 DEF Stage

\* What a mailer hears, in the count of its frames.
LEMMA HeardNoisy ==
  ASSUME Harmony, NEW n \in Nodes, NEW out \in Seq(Frame), HeardShape(n, out)
  PROVE  /\ Noisy(n)' <=> Noisy(n) \/ In(n).cmd \in {"NUL", "FILE"}
         /\ messages'[n] >= Bit(local_EOB'[n]) + Bit(remote_EOB'[n])
<1>1. /\ messages'[n] = Count(messages[n], Len(out) + IF In(n).cmd = "DATA" THEN 0 ELSE 1)
      /\ local_EOB'[n] = local_EOB[n] /\ remote_EOB'[n] = remote_EOB[n]
      /\ Hears(n, In(n), out) /\ Polled(n) /\ In(n).cmd # "EOB"
  BY DEF HeardShape
<1> DEFINE k == Len(out) + IF In(n).cmd = "DATA" THEN 0 ELSE 1
<1>2. k \in Nat
  OBVIOUS
<1>3. /\ Noisy(n)' <=> Noisy(n) \/ k > 0
      /\ messages'[n] >= Bit(local_EOB'[n]) + Bit(remote_EOB'[n])
  <2>1. Bit(local_EOB'[n]) + Bit(remote_EOB'[n]) = Bit(local_EOB[n]) + Bit(remote_EOB[n]) + 0
    BY <1>1 DEF Bit
  <2>2. k >= 0 /\ messages'[n] = Count(messages[n], k)
    BY <1>1, <1>2
  <2> HIDE DEF k
  <2> QED
    BY <1>2, <2>1, <2>2, StageTypes, NoisyCount
<1>4. In(n).cmd \in {"NUL", "FILE"} => k > 0
  <2>1. Len(out) \in Nat
    OBVIOUS
  <2> QED
    BY <2>1
<1>5. In(n).cmd \in Reply => Noisy(n)
  <2>1. ASSUME In(n).cmd \in Reply PROVE Moving(In(n).file) /\ In(n).file \in Own(n)
    <3>1. 1 \in DOMAIN chan[n] /\ In(n) = chan[n][1] /\ FtState[n] = "Switch"
      BY <1>1, HarmonyTypes, TailFrames DEF Polled, In
    <3>2. /\ In(n).file \in Files /\ Sender(In(n).file) = n /\ Answered(In(n).file)
      BY <2>1, <3>1, HarmonyTypes, FramePlace
    <3> QED
      BY <3>1, <3>2, HarmonyTypes, PlacePending DEF Active
  <2> QED
    BY <2>1, StageTypes DEF Stage, ListStage
<1>6. In(n).cmd = "DATA" /\ k > 0 => Noisy(n)
  <2>1. ASSUME In(n).cmd = "DATA", k > 0 PROVE RxState[n] = "RxReceD"
    <3>1. out # <<>>
      BY <2>1
    <3> QED
      BY <1>1, <2>1, <3>1 DEF Hears
  <2> QED
    BY <2>1, StageTypes DEF Stage, RxStage
<1>7. In(n).cmd \in {"NUL", "FILE", "DATA"} \cup Reply
  BY <1>1, PolledFrame DEF Reply
<1> HIDE DEF k
<1> QED
  BY <1>3, <1>4, <1>5, <1>6, <1>7

LEMMA HeardStage ==
  ASSUME Harmony, NEW n \in Nodes, NEW out \in Seq(Frame), HeardShape(n, out)
  PROVE  Stage(n)'
<1>1. /\ Noisy(n)' <=> Noisy(n) \/ In(n).cmd \in {"NUL", "FILE"}
      /\ messages'[n] >= Bit(local_EOB'[n]) + Bit(remote_EOB'[n])
  BY HeardNoisy
<1>2. /\ Polled(n) /\ In(n).cmd # "EOB" /\ Hears(n, In(n), out)
      /\ local_EOB'[n] = local_EOB[n] /\ remote_EOB'[n] = remote_EOB[n]
      /\ TxState'[n] = TxState[n] /\ cursend'[n] = cursend[n] /\ state' = state
      /\ FtState'[n] = IF BothEOB(n) /\ TxState[n] # "TxDone" THEN "Transmit" ELSE "Switch"
  BY DEF HeardShape
<1>3. TxState[n] # "TxDone" /\ RxState[n] # "RxDone"
      /\ (In(n).cmd = "FILE" => ~ remote_EOB[n])
  BY <1>2, PolledFrame DEF FileEnd
<1>4. Stage(n)
  BY StageTypes
<1>5. TxStage(n)'
  BY <1>2, <1>3, <1>4 DEF Stage, TxStage, BothEOB
<1>6. RxStage(n)'
  <2>1. RxState'[n] # "RxDone" /\ (RxState'[n] = "RxEOB" <=> RxState[n] = "RxEOB")
    BY <1>2, <1>3 DEF Hears
  <2>2. RxState'[n] = "RxReceD" => RxState[n] = "RxReceD" \/ In(n).cmd = "FILE"
    BY <1>2 DEF Hears
  <2>3. RxState'[n] = "RxReceD" => ~ remote_EOB'[n] /\ Noisy(n)'
    BY <1>1, <1>2, <1>3, <1>4, <2>2 DEF Stage, RxStage
  <2>4. RxState'[n] = "RxEOB" <=> Minor[n] = 0 /\ remote_EOB'[n] /\ TxState'[n] # "TxDone"
    BY <1>2, <1>4, <2>1 DEF Stage, RxStage
  <2> QED
    BY <2>1, <2>3, <2>4 DEF RxStage
<1>7. ListStage(n)'
  BY <1>1, <1>2, <1>4 DEF Stage, ListStage, Moving
<1> QED
  BY <1>5, <1>6, <1>7 DEF Stage

\* The end of the peer's batch is no noise.
LEMMA EndedNoisy ==
  ASSUME Harmony, NEW n \in Nodes, EndedShape(n)
  PROVE  /\ Noisy(n)' <=> Noisy(n)
         /\ messages'[n] >= Bit(local_EOB'[n]) + Bit(remote_EOB'[n])
         /\ ~ remote_EOB[n] /\ TxState[n] # "TxDone"
<1>1. /\ messages'[n] = Count(messages[n], 1) /\ local_EOB'[n] = local_EOB[n]
      /\ remote_EOB'[n] = TRUE /\ Polled(n) /\ In(n).cmd = "EOB"
  BY DEF EndedShape
<1>2. ~ remote_EOB[n] /\ TxState[n] # "TxDone"
  BY <1>1, PolledFrame DEF FileEnd
<1>3. Bit(local_EOB'[n]) + Bit(remote_EOB'[n]) = Bit(local_EOB[n]) + Bit(remote_EOB[n]) + 1
  BY <1>1, <1>2 DEF Bit
<1>4. 1 \in Nat /\ 1 >= 1 /\ ~ (1 > 1)
  OBVIOUS
<1>5. /\ Noisy(n)' <=> Noisy(n) \/ 1 > 1
      /\ messages'[n] >= Bit(local_EOB'[n]) + Bit(remote_EOB'[n])
  BY <1>1, <1>3, <1>4, StageTypes, NoisyCount
<1> QED
  BY <1>2, <1>4, <1>5

LEMMA EndStage ==
  ASSUME Harmony, NEW n \in Nodes, EndedShape(n) \/ NewShape(n) \/ LeaveShape(n)
  PROVE  Stage(n)'
<1>0. Stage(n) /\ Minor[n] \in {0, 1}
  BY StageTypes
<1>1. CASE EndedShape(n)
  <2>1. /\ local_EOB'[n] = local_EOB[n] /\ remote_EOB'[n] = TRUE
        /\ TxState'[n] = TxState[n] /\ cursend'[n] = cursend[n] /\ state' = state
        /\ RxState'[n] = IF Minor[n] = 0 THEN "RxEOB" ELSE "RxWaitF"
        /\ FtState'[n] = IF local_EOB[n] /\ TxState[n] # "TxDone" THEN "Transmit" ELSE "Switch"
    BY <1>1 DEF EndedShape
  <2>2. /\ Noisy(n)' <=> Noisy(n)
        /\ messages'[n] >= Bit(local_EOB'[n]) + Bit(remote_EOB'[n])
        /\ TxState[n] # "TxDone"
    BY <1>1, EndedNoisy
  <2>3. TxStage(n)'
    BY <1>0, <2>1, <2>2 DEF Stage, TxStage, BothEOB
  <2>4. RxStage(n)'
    BY <2>1, <2>2 DEF RxStage
  <2>5. ListStage(n)'
    BY <1>0, <2>1, <2>2 DEF Stage, ListStage, Moving
  <2> QED
    BY <2>3, <2>4, <2>5 DEF Stage
<1>2. CASE NewShape(n)
  <2>1. /\ local_EOB'[n] = FALSE /\ remote_EOB'[n] = FALSE /\ messages'[n] = 0
        /\ TxState'[n] = "TxGNF" /\ RxState'[n] = "RxWaitF" /\ FtState'[n] = "Switch"
        /\ \A f \in Own(n) : state'[f] = "NotListed"
    BY <1>2 DEF NewShape
  <2>2. TxStage(n)' /\ RxStage(n)'
    BY <2>1 DEF TxStage, RxStage, BothEOB
  <2>3. messages'[n] >= Bit(local_EOB'[n]) + Bit(remote_EOB'[n])
    BY <2>1 DEF Bit
  <2>4. ListStage(n)'
    BY <2>1, <2>3 DEF ListStage, Moving
  <2> QED
    BY <2>2, <2>4 DEF Stage
<1>3. CASE LeaveShape(n)
  <2>1. /\ FtState'[n] = "Exit" /\ Finished(n)
        /\ tql'[n] = tql[n] /\ messages'[n] = messages[n] /\ local_EOB'[n] = local_EOB[n]
        /\ remote_EOB'[n] = remote_EOB[n] /\ TxState'[n] = TxState[n]
        /\ RxState'[n] = RxState[n]
        /\ \A f \in Own(n) : state'[f] = "NotListed"
    BY <1>3 DEF LeaveShape
  <2>2. Noisy(n)' <=> Noisy(n)
    BY <2>1, NoisySame
  <2>3. TxStage(n)'
    BY <1>0, <2>1, <2>2 DEF Stage, TxStage, Finished
  <2>4. RxStage(n)'
    BY <1>0, <2>1, <2>2 DEF Stage, RxStage, Finished
  <2>5. ListStage(n)'
    BY <1>0, <2>1 DEF Stage, ListStage, Moving
  <2> QED
    BY <2>3, <2>4, <2>5 DEF Stage
<1> QED
  BY <1>1, <1>2, <1>3

\* How many frames a mailer sends of its batch, and how many of them end it.
LEMMA SentNoisy ==
  ASSUME Harmony, NEW n \in Nodes, NEW out \in Seq(Frame),
         \/ \E f \in Own(n) : OfferShape(n, f, out)
         \/ PassShape(n, out) \/ CloseShape(n, out) \/ BlockShape(n, out)
  PROVE  /\ Noisy(n)' <=> Noisy(n) \/ Noise(out)
         /\ messages'[n] >= Bit(local_EOB'[n]) + Bit(remote_EOB'[n])
         /\ ~ local_EOB[n]
         /\ IF local_EOB'[n] THEN LastEnd(out) ELSE NoEnd(out)
<1>0. Stage(n)
  BY StageTypes
<1>1. ~ local_EOB[n]
  BY <1>0 DEF Stage, TxStage, OfferShape, PassShape, CloseShape, BlockShape
<1>2. /\ Traffic(n) \in Seq(Frame) /\ (Traffic(n) = <<>> \/ Traffic(n) = <<Command("NUL")>>)
      /\ \A x \in Frame : Append(Traffic(n), x) = Traffic(n) \o <<x>>
      /\ Len(Traffic(n)) \in Nat
      /\ Noise(Traffic(n)) <=> Len(Traffic(n)) > 0
      /\ NoEnd(Traffic(n))
  <2>1. CASE Traffic(n) = <<>>
    <3>1. ~ Noise(<<>>) /\ NoEnd(<<>>) /\ Len(<<>>) = 0
      BY DEF Noise, NoEnd
    <3> QED
      BY <2>1, <3>1, TrafficFrames
  <2>2. CASE Traffic(n) = <<Command("NUL")>>
    <3>1. Command("NUL") \in Frame /\ Command("NUL").cmd = "NUL"
      BY CommandTyped DEF Command
    <3>2. Noise(<<Command("NUL")>>) /\ NoEnd(<<Command("NUL")>>)
      BY <3>1, ShortQueues
    <3>3. Len(Traffic(n)) = 1 /\ 1 > 0 /\ 1 \in Nat
      BY <2>2
    <3>4. Noise(Traffic(n)) /\ NoEnd(Traffic(n))
      BY <2>2, <3>2
    <3>5. Len(Traffic(n)) > 0 /\ Len(Traffic(n)) \in Nat
      BY <3>3
    <3> QED
      BY <3>4, <3>5, TrafficFrames
  <2> QED
    BY <2>1, <2>2, TrafficFrames
<1>3. CASE \E f \in Own(n) : OfferShape(n, f, out)
  <2>1. PICK f \in Own(n) : OfferShape(n, f, out)
    BY <1>3
  <2>2. About("FILE", f, 0) \in Frame /\ About("FILE", f, 0).cmd = "FILE"
    BY OwnFiles, AboutTyped DEF About
  <2>3. out = Traffic(n) \o <<About("FILE", f, 0)>>
    BY <1>2, <2>1, <2>2 DEF OfferShape
  <2>4. Len(out) \in Nat /\ Len(out) > 0 /\ Len(out) >= 0
    BY <2>3
  <2>5. /\ local_EOB'[n] = local_EOB[n] /\ remote_EOB'[n] = remote_EOB[n]
        /\ messages'[n] = Count(messages[n], Len(out))
    BY <2>1 DEF OfferShape, Same
  <2>6. Bit(local_EOB'[n]) + Bit(remote_EOB'[n]) = Bit(local_EOB[n]) + Bit(remote_EOB[n]) + 0
    BY <2>5 DEF Bit
  <2>7. /\ Noisy(n)' <=> Noisy(n) \/ Len(out) > 0
        /\ messages'[n] >= Bit(local_EOB'[n]) + Bit(remote_EOB'[n])
    BY <2>4, <2>5, <2>6, StageTypes, NoisyCount
  <2>8. Noise(out)
    BY <1>2, <2>2, <2>3, ShortQueues, NoiseConcat
  <2>9. NoEnd(out)
    <3>1. NoEnd(<<About("FILE", f, 0)>>)
      BY <2>2, ShortQueues
    <3> QED
      BY <1>2, <2>2, <2>3, <3>1, EndConcat
  <2> QED
    BY <1>1, <2>4, <2>5, <2>7, <2>8, <2>9
<1>4. CASE PassShape(n, out)
  <2>1. /\ local_EOB'[n] = local_EOB[n] /\ remote_EOB'[n] = remote_EOB[n]
        /\ messages'[n] = Count(messages[n], Len(out)) /\ out = Traffic(n)
    BY <1>4 DEF PassShape, Same
  <2>2. Bit(local_EOB'[n]) + Bit(remote_EOB'[n]) = Bit(local_EOB[n]) + Bit(remote_EOB[n]) + 0
    BY <2>1 DEF Bit
  <2>3. Len(out) \in Nat /\ Len(out) >= 0
    BY <1>2, <2>1
  <2>4. /\ Noisy(n)' <=> Noisy(n) \/ Len(out) > 0
        /\ messages'[n] >= Bit(local_EOB'[n]) + Bit(remote_EOB'[n])
    BY <2>1, <2>2, <2>3, StageTypes, NoisyCount
  <2> QED
    BY <1>1, <1>2, <2>1, <2>4
<1>5. CASE CloseShape(n, out)
  <2>1. /\ local_EOB'[n] = TRUE /\ remote_EOB'[n] = remote_EOB[n]
        /\ messages'[n] = Count(messages[n], Len(out))
    BY <1>5 DEF CloseShape, Same
  <2>2. Command("EOB") \in Frame /\ Command("EOB").cmd = "EOB"
    BY CommandTyped DEF Command
  <2>3. out = Traffic(n) \o <<Command("EOB")>>
    BY <1>2, <1>5, <2>2 DEF CloseShape
  <2>4. /\ Len(out) \in Nat /\ Len(out) >= 1
        /\ Len(out) > 1 <=> Len(Traffic(n)) > 0
    BY <1>2, <2>3
  <2>5. Bit(local_EOB'[n]) + Bit(remote_EOB'[n]) = Bit(local_EOB[n]) + Bit(remote_EOB[n]) + 1
    BY <1>1, <2>1 DEF Bit
  <2>6. /\ Noisy(n)' <=> Noisy(n) \/ Len(out) > 1
        /\ messages'[n] >= Bit(local_EOB'[n]) + Bit(remote_EOB'[n])
    BY <2>1, <2>4, <2>5, StageTypes, NoisyCount
  <2>7. Noise(out) <=> Noise(Traffic(n))
    BY <1>2, <2>2, <2>3, ShortQueues, NoiseConcat
  <2>8. LastEnd(out)
    <3>1. LastEnd(<<Command("EOB")>>)
      BY <2>2, ShortQueues
    <3> QED
      BY <1>2, <2>2, <2>3, <3>1, EndConcat
  <2> QED
    BY <1>1, <1>2, <2>1, <2>4, <2>6, <2>7, <2>8
<1>6. CASE BlockShape(n, out)
  <2>1. /\ local_EOB'[n] = local_EOB[n] /\ remote_EOB'[n] = remote_EOB[n]
        /\ messages'[n] = messages[n]
    BY <1>6 DEF BlockShape, Same
  <2>2. Noisy(n)' <=> Noisy(n)
    BY <2>1, NoisySame
  <2>3. messages'[n] >= Bit(local_EOB'[n]) + Bit(remote_EOB'[n])
    BY <2>1, StageTypes
  <2>4. ~ Noise(out) /\ NoEnd(out)
    <3>1. CASE out = <<>>
      BY <3>1 DEF Noise, NoEnd
    <3>2. CASE out # <<>>
      <4>1. out = <<About("DATA", cursend[n], txpos[n] + 1)>>
        BY <1>6, <3>2 DEF BlockShape
      <4>2. \A i \in DOMAIN out : out[i].cmd = "DATA"
        BY <4>1 DEF About
      <4> QED
        BY <4>2 DEF Noise, NoEnd
    <3> QED
      BY <3>1, <3>2
  <2> QED
    BY <1>1, <2>1, <2>2, <2>3, <2>4
<1> QED
  BY <1>3, <1>4, <1>5, <1>6

LEMMA SendStage ==
  ASSUME Harmony, NEW n \in Nodes, NEW out \in Seq(Frame), FtState[n] # "Exit", Active(n),
         FtState'[n] # "Exit",
         \/ \E f \in Own(n) : OfferShape(n, f, out)
         \/ PassShape(n, out) \/ CloseShape(n, out) \/ BlockShape(n, out)
  PROVE  Stage(n)'
<1>0. /\ Stage(n) /\ Minor[n] \in {0, 1}
      /\ \A g \in Own(n) : Filelist(n)[g] \in {state[g], "NoState", "NotListed"}
  BY StageTypes
<1>1. /\ Noisy(n)' <=> Noisy(n) \/ Noise(out)
      /\ messages'[n] >= Bit(local_EOB'[n]) + Bit(remote_EOB'[n])
      /\ ~ local_EOB[n]
  BY SentNoisy
<1>2. /\ remote_EOB'[n] = remote_EOB[n] /\ RxState'[n] = RxState[n]
      /\ TxState[n] \in {"TxGNF", "TxTryR"} /\ TxState'[n] # "TxDone"
  BY DEF OfferShape, PassShape, CloseShape, BlockShape, Same
<1>3. RxState[n] # "RxDone"
  BY <1>0, <1>2 DEF Stage, RxStage
<1>4. RxStage(n)'
  BY <1>0, <1>1, <1>2, <1>3 DEF Stage, RxStage
<1>5. TxStage(n)'
  <2>1. TxState'[n] \in {"TxGNF", "TxTryR"} <=> ~ local_EOB'[n]
    BY <1>1 DEF OfferShape, PassShape, CloseShape, BlockShape
  <2>2. FtState'[n] = "Switch" => ~ local_EOB'[n]
    BY <1>1 DEF OfferShape, PassShape, CloseShape, BlockShape
  <2> QED
    BY <1>2, <2>1, <2>2 DEF TxStage, BothEOB
<1>6. ASSUME NEW g \in Own(n)
      PROVE  /\ state'[g] = "Sending" => TxState'[n] = "TxTryR" /\ cursend'[n] = g
             /\ state'[g] = "NoState" => ~ local_EOB'[n]
             /\ Moving(g)' => Noisy(n)'
  <2>0. /\ state[g] = "Sending" => TxState[n] = "TxTryR" /\ cursend[n] = g
        /\ Moving(g) => Noisy(n)
        /\ Filelist(n)[g] \in {state[g], "NoState", "NotListed"}
    BY <1>0 DEF Stage, ListStage
  <2>1. CASE \E f \in Own(n) : OfferShape(n, f, out)
    <3>1. PICK f \in Own(n) : OfferShape(n, f, out)
      BY <2>1
    <3>2. /\ TxState[n] = "TxGNF" /\ TxState'[n] = "TxTryR" /\ cursend'[n] = f
          /\ local_EOB'[n] = local_EOB[n]
          /\ state'[f] = "Sending" /\ (g # f => state'[g] = Filelist(n)[g])
      BY <3>1 DEF OfferShape
    <3>3. Noise(out)
      <4>1. \E i \in DOMAIN out : out[i].cmd \in {"NUL", "FILE"}
        <5>1. out = Append(Traffic(n), About("FILE", f, 0)) /\ Traffic(n) \in Seq(Frame)
          BY <3>1, TrafficFrames DEF OfferShape
        <5>2. Len(out) \in DOMAIN out /\ out[Len(out)] = About("FILE", f, 0)
          BY <5>1
        <5> QED
          BY <5>2 DEF About
      <4> QED
        BY <4>1 DEF Noise
    <3> QED
      BY <1>1, <2>0, <3>2, <3>3
  <2>2. CASE PassShape(n, out)
    <3>1. /\ TxState[n] = "TxGNF" /\ local_EOB'[n] = local_EOB[n]
          /\ state'[g] \in {Filelist(n)[g], "Skipped"}
      BY <2>2 DEF PassShape
    <3> QED
      BY <1>1, <2>0, <3>1 DEF Moving
  <2>3. CASE CloseShape(n, out)
    <3>1. /\ TxState[n] = "TxGNF" /\ state'[g] = Filelist(n)[g] /\ Sendable(n) = {}
      BY <2>3 DEF CloseShape
    <3>2. Filelist(n)[g] # "NoState"
      BY <3>1 DEF Sendable
    <3> QED
      BY <1>1, <2>0, <3>1, <3>2 DEF Moving
  <2>4. CASE BlockShape(n, out)
    <3>1. /\ TxState[n] = "TxTryR" /\ cursend[n] \in Own(n) /\ local_EOB'[n] = local_EOB[n]
      BY <2>4 DEF BlockShape
    <3>2. state[cursend[n]] = "Sending"
      BY <3>1 DEF Harmony, Gone, CurrentSending
    <3>3. Noisy(n)
      BY <1>0, <3>1, <3>2 DEF Stage, ListStage, Moving
    <3>4. CASE TxState'[n] = "TxTryR" /\ cursend'[n] = cursend[n] /\ state'[g] = state[g]
      BY <1>1, <2>0, <3>1, <3>3, <3>4
    <3>5. CASE g = cursend[n] /\ state'[g] = "IsSent"
      BY <1>1, <3>3, <3>5
    <3>6. CASE g # cursend[n] /\ state'[g] = state[g]
      BY <1>1, <2>0, <3>1, <3>3, <3>6
    <3> QED
      BY <2>4, <3>4, <3>5, <3>6 DEF BlockShape
  <2> QED
    BY <2>1, <2>2, <2>3, <2>4
<1>7. ListStage(n)'
  BY <1>1, <1>6 DEF ListStage
<1> QED
  BY <1>4, <1>5, <1>7 DEF Stage

LEMMA ReplyStage ==
  ASSUME Harmony, NEW n \in Nodes, ReplyShape(n)
  PROVE  Stage(n)'
<1>0. Stage(n)
  BY StageTypes
<1>1. /\ remote_EOB'[n] = remote_EOB[n] /\ RxState'[n] = RxState[n] /\ tql[n] # <<>>
      /\ FtState'[n] \in {"Transmit", "Messages"}
      /\ local_EOB'[n] = local_EOB[n] /\ messages'[n] = messages[n]
      /\ state'[Message(n).file] \in {"Got", "Skipped"}
      /\ \A g \in Own(n) \ {Message(n).file} : state'[g] = state[g]
      /\ IF state[Message(n).file] = "Sending" THEN TxState'[n] = "TxGNF"
         ELSE TxState'[n] = TxState[n] /\ cursend'[n] = cursend[n]
  BY DEF ReplyShape
<1>2. Noisy(n)' <=> Noisy(n)
  BY <1>1, NoisySame
<1>3. TxState[n] # "TxDone" /\ RxState[n] # "RxDone"
  BY <1>0, <1>1 DEF Stage, TxStage, RxStage
<1>4. state[Message(n).file] = "Sending" => TxState[n] = "TxTryR" /\ cursend[n] = Message(n).file
  <2>1. Message(n).file \in Own(n)
    BY <1>1, HarmonyTypes, QueueHead DEF Own
  <2> QED
    BY <1>0, <2>1 DEF Stage, ListStage
<1>5. TxStage(n)'
  BY <1>0, <1>1, <1>3, <1>4 DEF Stage, TxStage
<1>6. RxStage(n)'
  BY <1>0, <1>1, <1>2, <1>3 DEF Stage, RxStage
<1>7. ASSUME NEW g \in Own(n)
      PROVE  /\ state'[g] = "Sending" => TxState'[n] = "TxTryR" /\ cursend'[n] = g
             /\ state'[g] = "NoState" => ~ local_EOB'[n]
             /\ Moving(g)' => Noisy(n)'
  <2>0. /\ state[g] = "Sending" => TxState[n] = "TxTryR" /\ cursend[n] = g
        /\ state[g] = "NoState" => ~ local_EOB[n]
        /\ Moving(g) => Noisy(n)
    BY <1>0 DEF Stage, ListStage
  <2> QED
    BY <1>1, <1>2, <1>4, <2>0 DEF Moving
<1>8. ListStage(n)'
  BY <1>0, <1>1, <1>7 DEF Stage, ListStage
<1> QED
  BY <1>5, <1>6, <1>8 DEF Stage

\* Both batches have ended when a mailer is done.
LEMMA DoneEnds ==
  ASSUME Harmony, NEW n \in Nodes, DoneShape(n)
  PROVE  BothEOB(n) /\ (Minor[n] = 1 => ~ Noisy(n))
<1>0. Stage(n) /\ Minor[n] \in {0, 1} /\ messages[n] \in 0..3
  BY StageTypes
<1>1. TxState[n] = "TxWLA" /\ SessionOver(n)
  BY DEF DoneShape
<1>2. local_EOB[n] /\ RxState[n] # "RxDone"
  BY <1>0, <1>1 DEF Stage, TxStage, RxStage
<1>3. CASE Minor[n] = 0
  BY <1>0, <1>1, <1>2, <1>3 DEF SessionOver, BothEOB, Stage, RxStage
<1>4. CASE Minor[n] = 1
  <2>1. BothEOB(n) /\ messages[n] < 3
    BY <1>1, <1>4 DEF SessionOver
  <2>2. Bit(local_EOB[n]) = 1 /\ Bit(remote_EOB[n]) = 1
    BY <2>1 DEF BothEOB, Bit
  <2>3. ~ (messages[n] >= 1 + 1 + 1)
    BY <1>0, <2>1
  <2> QED
    BY <2>1, <2>2, <2>3 DEF Noisy
<1> QED
  BY <1>0, <1>3, <1>4

LEMMA LastStage ==
  ASSUME Harmony, NEW n \in Nodes, DoneShape(n) \/ WaitShape(n)
  PROVE  Stage(n)'
<1>0. Stage(n) /\ Minor[n] \in {0, 1}
  BY StageTypes
<1>1. /\ remote_EOB'[n] = remote_EOB[n] /\ local_EOB'[n] = local_EOB[n]
      /\ messages'[n] = messages[n] /\ FtState'[n] = "Switch" /\ TxState[n] = "TxWLA"
      /\ tql'[n] = tql[n] /\ tql[n] = <<>>
  BY DEF DoneShape, WaitShape, Same
<1>2. (Noisy(n)' <=> Noisy(n)) /\ local_EOB[n] /\ RxState[n] # "RxDone"
  BY <1>0, <1>1, NoisySame DEF Stage, TxStage, RxStage
<1>3. messages'[n] >= Bit(local_EOB'[n]) + Bit(remote_EOB'[n])
  BY <1>1, StageTypes
<1>4. CASE DoneShape(n)
  <2>1. BothEOB(n) /\ (Minor[n] = 1 => ~ Noisy(n))
    BY <1>4, DoneEnds
  <2>2. /\ RxState'[n] = "RxDone" /\ TxState'[n] = "TxDone"
        /\ \A g \in Own(n) : state'[g] = "NotListed"
    BY <1>4, <2>1 DEF DoneShape
  <2>3. TxStage(n)'
    BY <1>1, <1>2, <2>1, <2>2 DEF TxStage, BothEOB
  <2>4. RxStage(n)'
    BY <2>2 DEF RxStage
  <2>5. ListStage(n)'
    BY <1>3, <2>2 DEF ListStage, Moving
  <2> QED
    BY <2>3, <2>4, <2>5 DEF Stage
<1>5. CASE WaitShape(n)
  <2>1. /\ RxState'[n] = RxState[n] /\ TxState'[n] = "TxWLA"
        /\ \A g \in Own(n) : state'[g] \in {state[g], "NotListed"}
    BY <1>5 DEF WaitShape, Same
  <2>2. ASSUME BothEOB(n) PROVE Pending(n)' # {}
    <3>1. /\ \A g \in Own(n) : state'[g] = state[g]
          /\ Pending(n) # {} \/ (Minor[n] = 0 /\ RxState[n] \notin {"RxEOB", "RxDone"})
      BY <1>5, <2>2 DEF WaitShape
    <3>2. ~ (Minor[n] = 0 /\ RxState[n] \notin {"RxEOB", "RxDone"})
      BY <1>0, <1>1, <2>2 DEF Stage, RxStage, BothEOB
    <3>3. Pending(n)' = Pending(n)
      BY <3>1 DEF Pending
    <3> QED
      BY <3>1, <3>2, <3>3
  <2>3. TxStage(n)'
    BY <1>1, <1>2, <2>1, <2>2 DEF TxStage, BothEOB
  <2>4. RxStage(n)'
    BY <1>0, <1>1, <1>2, <2>1 DEF Stage, RxStage
  <2>5. ASSUME NEW g \in Own(n)
        PROVE  state'[g] # "Sending" /\ state'[g] # "NoState" /\ (Moving(g)' => Noisy(n)')
    <3>0. /\ state[g] = "Sending" => TxState[n] = "TxTryR"
          /\ state[g] = "NoState" => ~ local_EOB[n]
          /\ Moving(g) => Noisy(n)
      BY <1>0 DEF Stage, ListStage
    <3>1. state'[g] \in {state[g], "NotListed"}
      BY <2>1
    <3> QED
      BY <1>1, <1>2, <3>0, <3>1 DEF Moving
  <2>6. ListStage(n)'
    BY <1>3, <2>5 DEF ListStage
  <2> QED
    BY <2>3, <2>4, <2>6 DEF Stage
<1> QED
  BY <1>4, <1>5

LEMMA ActStage ==
  ASSUME Harmony, NEW n \in Nodes, NEW out \in Seq(Frame), ActShape(n, out)
  PROVE  Stage(n)'
<1>1. FtState[n] # "Exit" /\ FtState'[n] # "Exit" /\ Active(n) /\ Acts(n, out)
  BY DEF ActShape, Active
<1>2. CASE \/ \E f \in Own(n) : OfferShape(n, f, out)
           \/ PassShape(n, out) \/ CloseShape(n, out) \/ BlockShape(n, out)
  BY <1>1, <1>2, SendStage
<1>3. CASE ReplyShape(n)
  BY <1>3, ReplyStage
<1>4. CASE DoneShape(n) \/ WaitShape(n)
  BY <1>4, LastStage
<1>5. CASE NewShape(n)
  BY <1>5, EndStage
<1> QED
  BY <1>1, <1>2, <1>3, <1>4, <1>5 DEF Acts

LEMMA StepStages ==
  ASSUME NothingBreaks, Harmony, [Next]_vars, ~ Redial, ~ UNCHANGED vars
  PROVE  Stages'
<1>1. PICK n \in Nodes :
        \/ \E out \in Seq(Frame) : HeardShape(n, out) \/ ActShape(n, out)
        \/ EndedShape(n) \/ NewShape(n) \/ LeaveShape(n)
  BY HarmonySteps
<1>2. Stage(n)'
  BY <1>1, HeardStage, ActStage, EndStage
<1>3. Others(n)
  BY <1>1 DEF HeardShape, ActShape, EndedShape, NewShape, LeaveShape
<1>4. \A m \in Nodes : Stage(m)'
  BY <1>2, <1>3, StageAside
<1> QED
  BY <1>4 DEF Stages, Stage

--------------------------------------------------------------------------------
\* The two mailers are in the same batch, or one of them is a batch ahead.

Pairing(n) == Abreast(n) \/ Behind(n) \/ Behind(Peer[n])

\* What a step of n leaves alone of its peer.
LEMMA PeerKeeps ==
  ASSUME Harmony, NEW n \in Nodes, Others(n)
  PROVE  /\ Peer[n] \in Nodes /\ Peer[n] # n /\ Peer[Peer[n]] = n
         /\ RxState'[Peer[n]] = RxState[Peer[n]] /\ TxState'[Peer[n]] = TxState[Peer[n]]
         /\ local_EOB'[Peer[n]] = local_EOB[Peer[n]]
         /\ remote_EOB'[Peer[n]] = remote_EOB[Peer[n]]
         /\ Noisy(Peer[n])' <=> Noisy(Peer[n])
<1>1. Peer[n] \in Nodes \ {n} /\ Peer[Peer[n]] = n
  BY HarmonyTypes
<1>2. /\ RxState'[Peer[n]] = RxState[Peer[n]] /\ TxState'[Peer[n]] = TxState[Peer[n]]
      /\ local_EOB'[Peer[n]] = local_EOB[Peer[n]]
      /\ remote_EOB'[Peer[n]] = remote_EOB[Peer[n]]
      /\ messages'[Peer[n]] = messages[Peer[n]]
  BY <1>1 DEF Others
<1>3. Noisy(Peer[n])' <=> Noisy(Peer[n])
  BY <1>1, <1>2, NoisySame
<1> QED
  BY <1>1, <1>2, <1>3

LEMMA PairTypes ==
  ASSUME Harmony, NEW n \in Nodes
  PROVE  /\ Pairing(n) /\ chan[n] \in Seq(Frame) /\ chan[Peer[n]] \in Seq(Frame)
         /\ Abreast(n) => Heeds(n) /\ Heeds(Peer[n])
         /\ Peer[n] \in Nodes /\ Peer[Peer[n]] = n
  BY HarmonyTypes DEF Harmony, Together, Pairing, Abreast

\* The other pairs are not touched.
LEMMA PairAside ==
  ASSUME Harmony, NEW n \in Nodes, Others(n), NEW in, NEW out, Line(n, in, out),
         NEW m \in Nodes \ {n, Peer[n]}
  PROVE  Pairing(m)'
<1>1. /\ Peer[m] \in Nodes \ {n, Peer[n]} /\ Peer[Peer[m]] = m /\ Pairing(m)
  BY HarmonyTypes, PairTypes
<1>2. ASSUME NEW k \in Nodes \ {n, Peer[n]}
      PROVE  /\ chan'[k] = chan[k] /\ TxState'[k] = TxState[k] /\ RxState'[k] = RxState[k]
             /\ local_EOB'[k] = local_EOB[k] /\ remote_EOB'[k] = remote_EOB[k]
             /\ Noisy(k)' <=> Noisy(k)
  <2>1. /\ chan'[k] = chan[k] /\ TxState'[k] = TxState[k] /\ RxState'[k] = RxState[k]
        /\ local_EOB'[k] = local_EOB[k] /\ remote_EOB'[k] = remote_EOB[k]
        /\ messages'[k] = messages[k]
    BY <1>2 DEF Others, Line
  <2> QED
    BY <2>1, NoisySame
<1>3. ASSUME NEW k \in Nodes \ {n, Peer[n]}, Peer[k] \in Nodes \ {n, Peer[n]}
      PROVE  (Heeds(k) => Heeds(k)') /\ (Behind(k) => Behind(k)')
  <2>1. Heeds(k) => Heeds(k)'
    BY <1>2, <1>3 DEF Heeds
  <2>2. ASSUME Behind(k) PROVE Behind(k)'
    <3>1. PICK q \in Seq(Frame), r \in Seq(Frame) : BehindBy(k, q, r)
      BY <2>2 DEF Behind
    <3>2. BehindBy(k, q, r)'
      BY <1>2, <1>3, <3>1 DEF BehindBy
    <3> QED
      BY <1>2, <1>3, <2>2, <3>2 DEF Behind
  <2> QED
    BY <2>1, <2>2
<1>4. (Heeds(m) => Heeds(m)') /\ (Behind(m) => Behind(m)')
  BY <1>1, <1>3
<1>5. (Heeds(Peer[m]) => Heeds(Peer[m])') /\ (Behind(Peer[m]) => Behind(Peer[m])')
  BY <1>1, <1>3
<1> QED
  BY <1>1, <1>4, <1>5 DEF Pairing, Abreast

LEMMA AllPairs ==
  ASSUME Harmony, NEW n \in Nodes, Others(n), NEW in, NEW out, Line(n, in, out),
         Pairing(n)'
  PROVE  Together'
<1>1. \A m \in Nodes \ {n, Peer[n]} : Pairing(m)'
  BY PairAside
<1>2. Pairing(Peer[n])'
  <2>1. Peer[n] \in Nodes /\ Peer[Peer[n]] = n
    BY HarmonyTypes
  <2> QED
    BY <2>1 DEF Pairing, Abreast
<1>3. \A m \in Nodes : Pairing(m)'
  BY <1>1, <1>2
<1> QED
  BY <1>3 DEF Together, Pairing

\* Replies are no noise.
LEMMA ReplyingNoise ==
  ASSUME NEW q \in Seq(Frame), Replying(q)
  PROVE  ~ Noise(q)
BY DEF Replying, Noise, Reply

LEMMA HeardTogether ==
  ASSUME Harmony, NEW n \in Nodes, NEW out \in Seq(Frame), HeardShape(n, out)
  PROVE  Pairing(n)'
<1>1. /\ Polled(n) /\ In(n).cmd # "EOB" /\ Others(n) /\ Line(n, Tail(chan[n]), out)
      /\ Hears(n, In(n), out)
      /\ local_EOB'[n] = local_EOB[n] /\ remote_EOB'[n] = remote_EOB[n]
      /\ TxState'[n] = TxState[n]
  BY DEF HeardShape
<1>2. /\ chan[n] # <<>> /\ In(n) = Head(chan[n]) /\ FtState[n] = "Switch"
      /\ chan'[n] = Tail(chan[n]) /\ chan'[Peer[n]] = chan[Peer[n]] \o out
  BY <1>1 DEF Polled, In, Line
<1>3. Noisy(n)' <=> Noisy(n) \/ In(n).cmd \in {"NUL", "FILE"}
  BY HeardNoisy
<1>4. Replying(out) /\ ~ Noise(out)
  <2>1. CASE out = <<>>
    BY <2>1 DEF Replying, Noise
  <2>2. CASE \E x \in Frame : out = <<x>> /\ x.cmd \in {"GOT", "SKIP"}
    <3>1. Replying(out)
      BY <2>2, ShortQueues DEF Reply
    <3> QED
      BY <3>1, ReplyingNoise
  <2> QED
    BY <2>1, <2>2, HearsSmooth
<1>5. CASE Abreast(n)
  <2>1. Heeds(n)'
    <3>1. /\ Batch(chan[n], local_EOB[Peer[n]], remote_EOB[n])
          /\ Noise(chan[n]) => Noisy(Peer[n])
          /\ Noisy(Peer[n]) => Noisy(n) \/ Noise(chan[n])
      BY <1>5, PairTypes DEF Heeds
    <3>2. Batch(Tail(chan[n]), local_EOB[Peer[n]], remote_EOB[n])
      BY <1>1, <1>2, <3>1, PairTypes, BatchTail
    <3>3. Noise(chan[n]) <=> In(n).cmd \in {"NUL", "FILE"} \/ Noise(Tail(chan[n]))
      BY <1>2, PairTypes, NoiseTail
    <3>4. Batch(chan'[n], local_EOB'[Peer[n]], remote_EOB'[n])
      BY <1>1, <1>2, <3>2, PeerKeeps
    <3>5. /\ Noise(chan'[n]) => Noisy(Peer[n])'
          /\ Noisy(Peer[n])' => Noisy(n)' \/ Noise(chan'[n])
      BY <1>1, <1>2, <1>3, <3>1, <3>3, PeerKeeps
    <3> QED
      BY <3>4, <3>5 DEF Heeds
  <2>2. Heeds(Peer[n])'
    <3>1. /\ Batch(chan[Peer[n]], local_EOB[n], remote_EOB[Peer[n]])
          /\ Noise(chan[Peer[n]]) => Noisy(n)
          /\ Noisy(n) => Noisy(Peer[n]) \/ Noise(chan[Peer[n]])
          /\ Noise(chan[n]) => Noisy(Peer[n])
      BY <1>5, PairTypes DEF Heeds
    <3>2. Batch(chan[Peer[n]] \o out, local_EOB[n], remote_EOB[Peer[n]])
      BY <1>4, <3>1, PairTypes, BatchConcat
    <3>3. Noise(chan[Peer[n]] \o out) <=> Noise(chan[Peer[n]])
      BY <1>4, PairTypes, NoiseConcat
    <3>4. Noise(chan[n]) <=> In(n).cmd \in {"NUL", "FILE"} \/ Noise(Tail(chan[n]))
      BY <1>2, PairTypes, NoiseTail
    <3>5. Batch(chan'[Peer[n]], local_EOB'[n], remote_EOB'[Peer[n]])
      BY <1>1, <1>2, <3>2, PeerKeeps
    <3>6. /\ Noise(chan'[Peer[n]]) => Noisy(n)'
          /\ Noisy(n)' => Noisy(Peer[n])' \/ Noise(chan'[Peer[n]])
      BY <1>1, <1>2, <1>3, <3>1, <3>3, <3>4, PeerKeeps
    <3> QED
      BY <3>5, <3>6, PairTypes DEF Heeds
  <2> QED
    BY <2>1, <2>2 DEF Pairing, Abreast
<1>6. CASE Behind(n)
  <2>1. /\ Minor[n] = 1 /\ TxState[n] = "TxWLA" /\ RxState[n] # "RxReceD"
        /\ ~ remote_EOB[Peer[n]] /\ RxState[Peer[n]] = "RxWaitF" /\ chan[Peer[n]] = <<>>
    BY <1>6 DEF Behind
  <2>2. PICK q \in Seq(Frame), r \in Seq(Frame) : BehindBy(n, q, r)
    BY <1>6 DEF Behind
  <2>3. /\ chan[n] = q \o r
        /\ Batch(q, TRUE, remote_EOB[n])
        /\ \A i \in DOMAIN q : q[i].cmd # "FILE"
        /\ Noisy(n) \/ Noise(q)
        /\ Batch(r, local_EOB[Peer[n]], FALSE)
        /\ \A i \in DOMAIN r : r[i].cmd \notin Reply
        /\ Noise(r) <=> Noisy(Peer[n])
    BY <2>2 DEF BehindBy
  <2>4. q # <<>>
    BY <1>2, <1>6, <2>2, SwitchFrames
  <2>5. /\ Head(q) = In(n) /\ Tail(chan[n]) = Tail(q) \o r /\ Tail(q) \in Seq(Frame)
        /\ \A i \in DOMAIN Tail(q) : i + 1 \in DOMAIN q /\ Tail(q)[i] = q[i + 1]
        /\ In(n) = q[1] /\ 1 \in DOMAIN q
    BY <1>2, <2>3, <2>4, ConcatTail, TailFrames
  <2>6. In(n).cmd # "FILE" /\ \A i \in DOMAIN Tail(q) : Tail(q)[i].cmd # "FILE"
    BY <2>3, <2>5
  <2>7. out = <<>> /\ RxState'[n] # "RxReceD"
    BY <1>1, <2>1, <2>6 DEF Hears
  <2>8. chan'[Peer[n]] = <<>>
    BY <1>2, <2>1, <2>7
  <2>9. Batch(Tail(q), TRUE, remote_EOB'[n])
    BY <1>1, <2>3, <2>4, <2>5, BatchTail
  <2>10. Noisy(n)' \/ Noise(Tail(q))
    BY <1>3, <2>3, <2>4, <2>5, NoiseTail
  <2>11. BehindBy(n, Tail(q), r)'
    BY <1>1, <1>2, <2>3, <2>5, <2>6, <2>9, <2>10, PeerKeeps DEF BehindBy
  <2>12. Behind(n)'
    BY <1>1, <2>1, <2>5, <2>7, <2>8, <2>11, PeerKeeps DEF Behind
  <2> QED
    BY <2>12 DEF Pairing
<1>7. ~ Behind(Peer[n])
  BY <1>2, PairTypes DEF Behind
<1> QED
  BY <1>5, <1>6, <1>7, PairTypes DEF Pairing

LEMMA EndedTogether ==
  ASSUME Harmony, NEW n \in Nodes, EndedShape(n)
  PROVE  Pairing(n)'
<1>1. /\ Polled(n) /\ In(n).cmd = "EOB" /\ Others(n) /\ Line(n, Tail(chan[n]), <<>>)
      /\ local_EOB'[n] = local_EOB[n] /\ remote_EOB'[n] = TRUE
      /\ TxState'[n] = TxState[n] /\ RxState'[n] # "RxReceD"
  BY DEF EndedShape
<1>2. /\ chan[n] # <<>> /\ In(n) = Head(chan[n]) /\ FtState[n] = "Switch"
      /\ chan'[n] = Tail(chan[n]) /\ chan'[Peer[n]] = chan[Peer[n]]
  BY <1>1, PairTypes, ConcatNone DEF Polled, In, Line
<1>3. (Noisy(n)' <=> Noisy(n)) /\ ~ remote_EOB[n]
  BY EndedNoisy
<1>4. CASE Abreast(n)
  <2>1. /\ Batch(chan[n], local_EOB[Peer[n]], remote_EOB[n])
        /\ Noise(chan[n]) => Noisy(Peer[n])
        /\ Noisy(Peer[n]) => Noisy(n) \/ Noise(chan[n])
        /\ Batch(chan[Peer[n]], local_EOB[n], remote_EOB[Peer[n]])
        /\ Noise(chan[Peer[n]]) => Noisy(n)
        /\ Noisy(n) => Noisy(Peer[n]) \/ Noise(chan[Peer[n]])
    BY <1>4, PairTypes DEF Heeds
  <2>2. local_EOB[Peer[n]] /\ Replying(Tail(chan[n])) /\ ~ Noise(chan[n])
    BY <1>1, <1>2, <2>1, PairTypes, BatchTail
  <2>3. ~ Noise(Tail(chan[n]))
    BY <1>2, <2>2, PairTypes, NoiseTail
  <2>4. Batch(chan'[n], local_EOB'[Peer[n]], remote_EOB'[n])
    BY <1>1, <1>2, <2>2, PeerKeeps DEF Batch
  <2>5. Heeds(n)'
    BY <1>1, <1>2, <1>3, <2>1, <2>2, <2>3, <2>4, PeerKeeps DEF Heeds
  <2>6. Batch(chan'[Peer[n]], local_EOB'[n], remote_EOB'[Peer[n]])
    BY <1>1, <1>2, <2>1, PeerKeeps
  <2>7. Heeds(Peer[n])'
    BY <1>1, <1>2, <1>3, <2>1, <2>6, PeerKeeps, PairTypes DEF Heeds
  <2> QED
    BY <2>5, <2>7 DEF Pairing, Abreast
<1>5. CASE Behind(n)
  <2>1. /\ Minor[n] = 1 /\ TxState[n] = "TxWLA"
        /\ ~ remote_EOB[Peer[n]] /\ RxState[Peer[n]] = "RxWaitF" /\ chan[Peer[n]] = <<>>
    BY <1>5 DEF Behind
  <2>2. PICK q \in Seq(Frame), r \in Seq(Frame) : BehindBy(n, q, r)
    BY <1>5 DEF Behind
  <2>3. /\ chan[n] = q \o r
        /\ Batch(q, TRUE, remote_EOB[n])
        /\ \A i \in DOMAIN q : q[i].cmd # "FILE"
        /\ Noisy(n) \/ Noise(q)
        /\ Batch(r, local_EOB[Peer[n]], FALSE)
        /\ \A i \in DOMAIN r : r[i].cmd \notin Reply
        /\ Noise(r) <=> Noisy(Peer[n])
    BY <2>2 DEF BehindBy
  <2>4. q # <<>>
    BY <1>2, <1>5, <2>2, SwitchFrames
  <2>5. /\ Head(q) = In(n) /\ Tail(chan[n]) = Tail(q) \o r /\ Tail(q) \in Seq(Frame)
        /\ \A i \in DOMAIN Tail(q) : i + 1 \in DOMAIN q /\ Tail(q)[i] = q[i + 1]
    BY SMTT(30), <1>2, <2>3, <2>4, ConcatTail, TailFrames
  <2>6. \A i \in DOMAIN Tail(q) : Tail(q)[i].cmd # "FILE"
    BY <2>3, <2>5
  <2>7. Replying(Tail(q)) /\ ~ Noise(q)
    BY <1>1, <2>3, <2>4, <2>5, BatchTail
  <2>8. Batch(Tail(q), TRUE, remote_EOB'[n]) /\ Noisy(n)'
    BY <1>1, <1>3, <2>3, <2>7 DEF Batch
  <2>9. BehindBy(n, Tail(q), r)'
    BY <1>1, <1>2, <2>3, <2>5, <2>6, <2>8, PeerKeeps DEF BehindBy
  <2>10. Behind(n)'
    BY <1>1, <1>2, <2>1, <2>5, <2>9, PeerKeeps DEF Behind
  <2> QED
    BY <2>10 DEF Pairing
<1>6. ~ Behind(Peer[n])
  BY <1>2, PairTypes DEF Behind
<1> QED
  BY <1>4, <1>5, <1>6, PairTypes DEF Pairing

--------------------------------------------------------------------------------
\* A mailer without pending files begins the next batch: no answers are under way to
\* it, and no files from it.
LEMMA NewLine ==
  ASSUME Harmony, NEW n \in Nodes, NewShape(n)
  PROVE  /\ Noisy(n) /\ local_EOB[n]
         /\ \A i \in DOMAIN chan[n] : chan[n][i].cmd \notin Reply
         /\ \A i \in DOMAIN chan[Peer[n]] : chan[Peer[n]][i].cmd # "FILE"
         /\ RxState[Peer[n]] # "RxReceD"
<1>1. /\ Minor[n] = 1 /\ Pending(n) = {} /\ Active(n)
      /\ \/ local_EOB[n] /\ Count(messages[n], 1) = 3 /\ Polled(n) /\ In(n).cmd = "EOB"
         \/ BothEOB(n) /\ messages[n] = 3
  BY DEF NewShape, Polled, Active
<1>2. messages[n] \in 0..3
  BY StageTypes
<1>3. Noisy(n) /\ local_EOB[n]
  <2>1. CASE local_EOB[n] /\ Count(messages[n], 1) = 3 /\ Polled(n) /\ In(n).cmd = "EOB"
    <3>1. ~ remote_EOB[n]
      BY <2>1, PolledFrame DEF FileEnd
    <3>2. messages[n] >= 2
      BY <1>2, <2>1 DEF Count
    <3>3. Bit(local_EOB[n]) = 1 /\ Bit(remote_EOB[n]) = 0
      BY <2>1, <3>1 DEF Bit
    <3>4. messages[n] >= 1 + 1 + 0
      BY <1>2, <3>2
    <3>5. Noisy(n)
      BY <3>3, <3>4 DEF Noisy
    <3> QED
      BY <2>1, <3>5
  <2>2. CASE BothEOB(n) /\ messages[n] = 3
    <3>1. Bit(local_EOB[n]) = 1 /\ Bit(remote_EOB[n]) = 1 /\ local_EOB[n]
      BY <2>2 DEF Bit, BothEOB
    <3>2. messages[n] >= 1 + 1 + 1
      BY <2>2
    <3>3. Noisy(n)
      BY <3>1, <3>2 DEF Noisy
    <3> QED
      BY <3>1, <3>3
  <2> QED
    BY <1>1, <2>1, <2>2
<1>4. \A i \in DOMAIN chan[n] : chan[n][i].cmd \notin Reply
  BY <1>1, HarmonyTypes, NoAnswers
<1>5. \A f \in Files : Sender(f) = n => ~ Offered(f) /\ ~ InReceipt(f)
  BY <1>1, HarmonyTypes, PlacePending
<1>6. ASSUME NEW i \in DOMAIN chan[Peer[n]] PROVE chan[Peer[n]][i].cmd # "FILE"
  <2>1. Peer[n] \in Nodes /\ Peer[Peer[n]] = n /\ Places
    BY HarmonyTypes
  <2>2. chan[Peer[n]][i].cmd = "FILE" =>
          /\ chan[Peer[n]][i].file \in Files /\ Sender(chan[Peer[n]][i].file) = n
          /\ Offered(chan[Peer[n]][i].file)
    BY <1>6, <2>1, FramePlace
  <2> QED
    BY <1>5, <2>2
<1>7. RxState[Peer[n]] # "RxReceD"
  <2>1. SUFFICES ASSUME RxState[Peer[n]] = "RxReceD" PROVE FALSE
    OBVIOUS
  <2>2. PICK f \in Files : f = rname[Peer[n]]
    BY <2>1, HarmonyTypes DEF TypeOK, RxTypes
  <2>3. Sender(f) = n
    BY <2>1, <2>2, HarmonyTypes DEF Places, NodeOwned, Sender
  <2>4. InReceipt(f)
    BY <2>1, <2>2, <2>3 DEF InReceipt, Receiver, Sender
  <2> QED
    BY <1>5, <2>3, <2>4
<1> QED
  BY <1>3, <1>4, <1>6, <1>7

\* What is left to it of a batch that has ended.
LEMMA NothingLeftOf ==
  ASSUME NEW q \in Seq(Frame), Replying(q), \A i \in DOMAIN q : q[i].cmd \notin Reply
  PROVE  q = <<>>
<1>1. DOMAIN q = {} \/ 1 \in DOMAIN q
  OBVIOUS
<1>2. DOMAIN q = {}
  BY <1>1 DEF Replying
<1> QED
  BY <1>2

LEMMA NewTogether ==
  ASSUME Alike, Harmony, NEW n \in Nodes, NewShape(n)
  PROVE  Pairing(n)'
<1>1. /\ Minor[n] = 1 /\ Minor[Peer[n]] = 1 /\ Others(n)
      /\ local_EOB'[n] = FALSE /\ remote_EOB'[n] = FALSE /\ messages'[n] = 0
      /\ TxState'[n] = "TxGNF" /\ RxState'[n] = "RxWaitF"
  BY DEF NewShape, Alike
<1>2. /\ Noisy(n) /\ local_EOB[n]
      /\ \A i \in DOMAIN chan[n] : chan[n][i].cmd \notin Reply
      /\ \A i \in DOMAIN chan[Peer[n]] : chan[Peer[n]][i].cmd # "FILE"
      /\ RxState[Peer[n]] # "RxReceD"
  BY NewLine
<1>3. ~ Noisy(n)'
  BY <1>1 DEF Noisy, Bit
<1>4. /\ chan'[Peer[n]] = chan[Peer[n]]
      /\ \/ /\ chan[n] # <<>> /\ Head(chan[n]).cmd = "EOB" /\ FtState[n] = "Switch"
            /\ chan'[n] = Tail(chan[n])
         \/ remote_EOB[n] /\ chan'[n] = chan[n]
  BY PairTypes, ConcatNone DEF NewShape, Line, Polled, In, BothEOB
<1>5. ~ Behind(Peer[n])
  BY <1>4, PairTypes DEF Behind
<1>6. NoEnd(<<>>) /\ ~ Noise(<<>>) /\ Replying(<<>>)
  BY DEF NoEnd, Noise, Replying
<1>7. CASE Abreast(n)
  <2>1. /\ Batch(chan[n], local_EOB[Peer[n]], remote_EOB[n])
        /\ Batch(chan[Peer[n]], local_EOB[n], remote_EOB[Peer[n]])
        /\ Noisy(n) => Noisy(Peer[n]) \/ Noise(chan[Peer[n]])
    BY <1>7, PairTypes DEF Heeds
  <2>2. local_EOB[Peer[n]] /\ chan'[n] = <<>>
    <3>1. CASE chan[n] # <<>> /\ Head(chan[n]).cmd = "EOB" /\ chan'[n] = Tail(chan[n])
      <4>1. local_EOB[Peer[n]] /\ Replying(Tail(chan[n]))
        BY <2>1, <3>1, PairTypes, BatchTail
      <4>2. /\ Tail(chan[n]) \in Seq(Frame)
            /\ \A i \in DOMAIN Tail(chan[n]) :
                 i + 1 \in DOMAIN chan[n] /\ Tail(chan[n])[i] = chan[n][i + 1]
        BY <3>1, PairTypes, TailFrames
      <4>3. \A i \in DOMAIN Tail(chan[n]) : Tail(chan[n])[i].cmd \notin Reply
        BY <1>2, <4>2
      <4> QED
        BY <3>1, <4>1, <4>2, <4>3, NothingLeftOf
    <3>2. CASE remote_EOB[n] /\ chan'[n] = chan[n]
      <4>1. local_EOB[Peer[n]] /\ Replying(chan[n])
        BY <2>1, <3>2 DEF Batch
      <4> QED
        BY <1>2, <3>2, <4>1, PairTypes, NothingLeftOf
    <3> QED
      BY <1>4, <3>1, <3>2
  <2>3. TxState[Peer[n]] = "TxWLA"
    <3>1. TxState[Peer[n]] # "TxDone"
      <4>1. SUFFICES ASSUME TxState[Peer[n]] = "TxDone" PROVE FALSE
        OBVIOUS
      <4>2. remote_EOB[Peer[n]] /\ ~ Noisy(Peer[n])
        BY <1>1, <4>1, PairTypes, StageTypes DEF Stage, TxStage
      <4>3. Replying(chan[Peer[n]])
        BY <2>1, <4>2 DEF Batch
      <4>4. ~ Noise(chan[Peer[n]])
        BY <4>3, PairTypes, ReplyingNoise
      <4> QED
        BY <1>2, <2>1, <4>2, <4>4
    <3>2. TxState[Peer[n]] \notin {"TxGNF", "TxTryR"}
      BY <2>2, PairTypes, StageTypes DEF Stage, TxStage
    <3>3. TxState[Peer[n]] \in {"TxGNF", "TxTryR", "TxWLA", "TxDone"}
      BY PairTypes, HarmonyTypes DEF TypeOK, TxTypes
    <3> QED
      BY <3>1, <3>2, <3>3
  <2>4. Batch(chan[Peer[n]], TRUE, remote_EOB[Peer[n]])
    BY <1>2, <2>1 DEF Batch
  <2>5. Batch(<<>>, local_EOB'[n], FALSE)
    BY <1>1, <1>6 DEF Batch
  <2>6. chan'[Peer[n]] = chan[Peer[n]] \o <<>> /\ DOMAIN <<>> = {} /\ <<>> \in Seq(Frame)
    BY <1>4, PairTypes, ConcatNone, NoFrames
  <2>7. BehindBy(Peer[n], chan[Peer[n]], <<>>)'
    <3>1. Noisy(Peer[n])' \/ Noise(chan[Peer[n]])
      BY <1>1, <1>2, <2>1, PeerKeeps
    <3>2. Batch(chan'[Peer[n]], TRUE, remote_EOB'[Peer[n]])
      BY <1>1, <1>4, <2>4, PeerKeeps
    <3> QED
      BY <1>1, <1>2, <1>3, <1>4, <1>6, <2>5, <2>6, <3>1, <3>2, PairTypes DEF BehindBy
  <2>8. Behind(Peer[n])'
    <3>1. \E q, r \in Seq(Frame) : BehindBy(Peer[n], q, r)'
      BY <1>4, <2>6, <2>7, PairTypes DEF BehindBy
    <3> QED
      BY <1>1, <1>2, <2>2, <2>3, <3>1, PeerKeeps, PairTypes DEF Behind
  <2> QED
    BY <2>8 DEF Pairing
<1>8. CASE Behind(n)
  <2>1. /\ ~ remote_EOB[Peer[n]] /\ chan[Peer[n]] = <<>>
    BY <1>8 DEF Behind
  <2>2. PICK q \in Seq(Frame), r \in Seq(Frame) : BehindBy(n, q, r)
    BY <1>8 DEF Behind
  <2>3. /\ chan[n] = q \o r
        /\ Batch(q, TRUE, remote_EOB[n])
        /\ Batch(r, local_EOB[Peer[n]], FALSE)
        /\ Noise(r) <=> Noisy(Peer[n])
    BY <2>2 DEF BehindBy
  <2>4. \A i \in DOMAIN q : q[i].cmd \notin Reply
    BY <1>2, <2>3, ConcatFrames
  <2>5. chan'[n] = r
    <3>1. CASE chan[n] # <<>> /\ Head(chan[n]).cmd = "EOB" /\ FtState[n] = "Switch"
               /\ chan'[n] = Tail(chan[n])
      <4>1. q # <<>>
        BY <1>8, <2>2, <3>1, SwitchFrames
      <4>2. Head(q).cmd = "EOB" /\ Tail(chan[n]) = Tail(q) \o r
        BY <2>3, <3>1, <4>1, ConcatTail
      <4>3. /\ Tail(q) \in Seq(Frame)
            /\ \A i \in DOMAIN Tail(q) : i + 1 \in DOMAIN q /\ Tail(q)[i] = q[i + 1]
        BY <4>1, TailFrames
      <4>4. Replying(Tail(q))
        BY <2>3, <4>1, <4>2, BatchTail
      <4>5. \A i \in DOMAIN Tail(q) : Tail(q)[i].cmd \notin Reply
        BY <2>4, <4>3
      <4>6. Tail(q) = <<>>
        BY <4>3, <4>4, <4>5, NothingLeftOf
      <4> QED
        BY <3>1, <4>2, <4>6, ConcatNone
    <3>2. CASE remote_EOB[n] /\ chan'[n] = chan[n]
      <4>1. Replying(q)
        BY <2>3, <3>2 DEF Batch
      <4>2. q = <<>>
        BY <2>4, <4>1, NothingLeftOf
      <4> QED
        BY <2>3, <3>2, <4>2, ConcatNone
    <3> QED
      BY <1>4, <3>1, <3>2
  <2>6. Heeds(n)'
    <3>1. Batch(chan'[n], local_EOB'[Peer[n]], remote_EOB'[n])
      BY <1>1, <2>3, <2>5, PeerKeeps
    <3>2. /\ Noise(chan'[n]) => Noisy(Peer[n])'
          /\ Noisy(Peer[n])' => Noisy(n)' \/ Noise(chan'[n])
      BY <1>1, <2>3, <2>5, PeerKeeps
    <3> QED
      BY <3>1, <3>2 DEF Heeds
  <2>7. Heeds(Peer[n])'
    <3>1. chan'[Peer[n]] = <<>> /\ ~ remote_EOB'[Peer[n]]
      BY <1>1, <1>4, <2>1, PeerKeeps
    <3>2. Batch(chan'[Peer[n]], local_EOB'[n], remote_EOB'[Peer[n]])
      BY <1>1, <1>6, <3>1 DEF Batch
    <3>3. ~ Noise(chan'[Peer[n]])
      BY <1>6, <3>1
    <3> QED
      BY <1>3, <3>2, <3>3, PairTypes DEF Heeds
  <2> QED
    BY <2>6, <2>7 DEF Pairing, Abreast
<1> QED
  BY <1>5, <1>7, <1>8, PairTypes DEF Pairing

--------------------------------------------------------------------------------
\* The batches, when nothing of them changes on the line.
LEMMA QuietHeeds ==
  ASSUME Harmony, NEW n \in Nodes, Others(n), Line(n, chan[n], <<>>),
         local_EOB'[n] = local_EOB[n], remote_EOB'[n] = remote_EOB[n],
         messages'[n] = messages[n], Abreast(n)
  PROVE  Abreast(n)'
<1>1. /\ chan'[n] = chan[n] /\ chan'[Peer[n]] = chan[Peer[n]]
      /\ (Noisy(n)' <=> Noisy(n)) /\ Heeds(n) /\ Heeds(Peer[n])
      /\ Peer[Peer[n]] = n
  BY PairTypes, ConcatNone, NoisySame DEF Line
<1>2. Heeds(n)'
  BY <1>1, PeerKeeps DEF Heeds
<1>3. Heeds(Peer[n])'
  BY <1>1, PeerKeeps DEF Heeds
<1> QED
  BY <1>2, <1>3 DEF Abreast

LEMMA QuietTogether ==
  ASSUME Harmony, NEW n \in Nodes, Others(n), Line(n, chan[n], <<>>),
         local_EOB'[n] = local_EOB[n], remote_EOB'[n] = remote_EOB[n],
         messages'[n] = messages[n], RxState'[n] = RxState[n],
         TxState[n] = "TxWLA" => TxState'[n] = "TxWLA"
  PROVE  Pairing(n)'
<1>1. /\ chan'[n] = chan[n] /\ chan'[Peer[n]] = chan[Peer[n]]
      /\ (Noisy(n)' <=> Noisy(n)) /\ Peer[Peer[n]] = n
  BY PairTypes, ConcatNone, NoisySame DEF Line
<1>2. CASE Behind(n)
  <2>1. PICK q \in Seq(Frame), r \in Seq(Frame) : BehindBy(n, q, r)
    BY <1>2 DEF Behind
  <2>2. BehindBy(n, q, r)'
    BY <1>1, <2>1, PeerKeeps DEF BehindBy
  <2> QED
    BY <1>1, <1>2, <2>2, PeerKeeps DEF Behind, Pairing
<1>3. CASE Behind(Peer[n])
  <2>1. PICK q \in Seq(Frame), r \in Seq(Frame) : BehindBy(Peer[n], q, r)
    BY <1>3 DEF Behind
  <2>2. BehindBy(Peer[n], q, r)'
    BY ZenonT(30), <1>1, <2>1, PeerKeeps DEF BehindBy
  <2> QED
    BY <1>1, <1>3, <2>2, PeerKeeps DEF Behind, Pairing
<1> QED
  BY <1>2, <1>3, QuietHeeds, PairTypes DEF Pairing

LEMMA DoneTogether ==
  ASSUME Harmony, NEW n \in Nodes, Others(n), Line(n, chan[n], <<>>), DoneShape(n)
  PROVE  Pairing(n)'
<1>1. /\ local_EOB'[n] = local_EOB[n] /\ remote_EOB'[n] = remote_EOB[n]
      /\ messages'[n] = messages[n]
  BY DEF DoneShape
<1>2. remote_EOB[n] /\ (Minor[n] = 1 => ~ Noisy(n))
  BY DoneEnds DEF BothEOB
<1>3. ~ Behind(n)
  <2>1. SUFFICES ASSUME Behind(n) PROVE FALSE
    OBVIOUS
  <2>2. PICK q \in Seq(Frame), r \in Seq(Frame) : BehindBy(n, q, r)
    BY <2>1 DEF Behind
  <2>3. Batch(q, TRUE, remote_EOB[n]) /\ Noise(q)
    BY <1>2, <2>1, <2>2 DEF Behind, BehindBy
  <2>4. Replying(q)
    BY <1>2, <2>3 DEF Batch
  <2> QED
    BY <2>3, <2>4, ReplyingNoise
<1>4. ~ Behind(Peer[n])
  BY <1>2, PairTypes DEF Behind
<1> QED
  BY <1>1, <1>3, <1>4, QuietHeeds, PairTypes DEF Pairing

\* A mailer sends frames of its batch.
LEMMA SendTogether ==
  ASSUME Harmony, NEW n \in Nodes, NEW out \in Seq(Frame), Others(n),
         Line(n, chan[n], out), Acts(n, out),
         \/ \E f \in Own(n) : OfferShape(n, f, out)
         \/ PassShape(n, out) \/ CloseShape(n, out) \/ BlockShape(n, out)
  PROVE  Pairing(n)'
<1>1. /\ remote_EOB'[n] = remote_EOB[n] /\ RxState'[n] = RxState[n]
      /\ TxState[n] # "TxWLA"
  BY DEF OfferShape, PassShape, CloseShape, BlockShape, Same
<1>2. /\ Noisy(n)' <=> Noisy(n) \/ Noise(out)
      /\ ~ local_EOB[n]
      /\ IF local_EOB'[n] THEN LastEnd(out) ELSE NoEnd(out)
  BY SentNoisy
<1>3. chan'[n] = chan[n] /\ chan'[Peer[n]] = chan[Peer[n]] \o out
  BY DEF Line
<1>4. ASSUME NEW q \in Seq(Frame), NEW r, Batch(q, local_EOB[n], r)
      PROVE  Batch(q \o out, local_EOB'[n], r)
  <2>1. NoEnd(q) /\ ~ r
    BY <1>2, <1>4 DEF Batch
  <2>2. IF local_EOB'[n] THEN LastEnd(q \o out) ELSE NoEnd(q \o out)
    BY <1>2, <2>1, EndConcat
  <2> QED
    BY <2>1, <2>2 DEF Batch
<1>5. CASE Abreast(n)
  <2>1. /\ Batch(chan[n], local_EOB[Peer[n]], remote_EOB[n])
        /\ Noise(chan[n]) => Noisy(Peer[n])
        /\ Noisy(Peer[n]) => Noisy(n) \/ Noise(chan[n])
        /\ Batch(chan[Peer[n]], local_EOB[n], remote_EOB[Peer[n]])
        /\ Noise(chan[Peer[n]]) => Noisy(n)
        /\ Noisy(n) => Noisy(Peer[n]) \/ Noise(chan[Peer[n]])
    BY <1>5, PairTypes DEF Heeds
  <2>2. Heeds(n)'
    <3>1. Batch(chan'[n], local_EOB'[Peer[n]], remote_EOB'[n])
      BY <1>1, <1>3, <2>1, PeerKeeps
    <3> QED
      BY <1>2, <1>3, <2>1, <3>1, PeerKeeps DEF Heeds
  <2>3. Heeds(Peer[n])'
    <3>1. Batch(chan'[Peer[n]], local_EOB'[n], remote_EOB'[Peer[n]])
      BY <1>3, <1>4, <2>1, PairTypes, PeerKeeps
    <3>2. Noise(chan'[Peer[n]]) <=> Noise(chan[Peer[n]]) \/ Noise(out)
      BY <1>3, PairTypes, NoiseConcat
    <3> QED
      BY <1>2, <2>1, <3>1, <3>2, PairTypes, PeerKeeps DEF Heeds
  <2> QED
    BY <2>2, <2>3 DEF Abreast, Pairing
<1>6. CASE Behind(Peer[n])
  <2>1. /\ Minor[Peer[n]] = 1 /\ TxState[Peer[n]] = "TxWLA" /\ RxState[Peer[n]] # "RxReceD"
        /\ ~ remote_EOB[n] /\ RxState[n] = "RxWaitF" /\ chan[n] = <<>>
    BY <1>6, PairTypes DEF Behind
  <2>2. PICK q \in Seq(Frame), r \in Seq(Frame) : BehindBy(Peer[n], q, r)
    BY <1>6 DEF Behind
  <2>3. /\ chan[Peer[n]] = q \o r
        /\ Batch(q, TRUE, remote_EOB[Peer[n]])
        /\ \A i \in DOMAIN q : q[i].cmd # "FILE"
        /\ Noisy(Peer[n]) \/ Noise(q)
        /\ Batch(r, local_EOB[n], FALSE)
        /\ \A i \in DOMAIN r : r[i].cmd \notin Reply
        /\ Noise(r) <=> Noisy(n)
    BY <2>2, PairTypes DEF BehindBy
  <2>4. r \o out \in Seq(Frame) /\ chan'[Peer[n]] = q \o (r \o out)
    BY SMTT(30), <1>3, <2>3, ConcatFrames, ConcatNone
  <2>5. Batch(r \o out, local_EOB'[n], FALSE)
    BY <1>4, <2>3
  <2>6. \A i \in DOMAIN (r \o out) : (r \o out)[i].cmd \notin Reply
    <3>1. \A i \in DOMAIN out : out[i].cmd \notin Reply
      <4>1. \A f : ~ Has(out, Reply, f)
        BY ActFrames
      <4> QED
        BY <4>1 DEF Has
    <3> QED
      BY <2>3, <3>1, ConcatFrames
  <2>7. Noise(r \o out) <=> Noisy(n)'
    BY <1>2, <2>3, NoiseConcat
  <2>8. BehindBy(Peer[n], q, r \o out)'
    BY <1>1, <2>3, <2>4, <2>5, <2>6, <2>7, PeerKeeps DEF BehindBy
  <2>9. Behind(Peer[n])'
    BY <1>1, <1>3, <2>1, <2>4, <2>8, PeerKeeps DEF Behind
  <2> QED
    BY <2>9 DEF Pairing
<1>7. ~ Behind(n)
  BY <1>1 DEF Behind
<1> QED
  BY <1>5, <1>6, <1>7, PairTypes DEF Pairing

LEMMA ActTogether ==
  ASSUME Alike, Harmony, NEW n \in Nodes, NEW out \in Seq(Frame), ActShape(n, out)
  PROVE  Pairing(n)'
<1>1. Others(n) /\ Line(n, chan[n], out) /\ Acts(n, out)
  BY DEF ActShape
<1>2. CASE \/ \E f \in Own(n) : OfferShape(n, f, out)
           \/ PassShape(n, out) \/ CloseShape(n, out) \/ BlockShape(n, out)
  BY <1>1, <1>2, SendTogether
<1>3. CASE ReplyShape(n) /\ out = <<>>
  <2>1. /\ local_EOB'[n] = local_EOB[n] /\ remote_EOB'[n] = remote_EOB[n]
        /\ messages'[n] = messages[n] /\ RxState'[n] = RxState[n]
    BY <1>3 DEF ReplyShape
  <2>2. TxState[n] = "TxWLA" => TxState'[n] = "TxWLA"
    <3>1. state[Message(n).file] = "Sending" => TxState[n] = "TxTryR"
      <4>1. Message(n).file \in Own(n)
        BY <1>3, HarmonyTypes, QueueHead DEF Own, ReplyShape
      <4> QED
        BY <4>1, StageTypes DEF Stage, ListStage
    <3> QED
      BY <1>3, <3>1 DEF ReplyShape
  <2> QED
    BY <1>1, <1>3, <2>1, <2>2, QuietTogether
<1>4. CASE WaitShape(n) /\ out = <<>>
  <2>1. /\ local_EOB'[n] = local_EOB[n] /\ remote_EOB'[n] = remote_EOB[n]
        /\ messages'[n] = messages[n] /\ RxState'[n] = RxState[n]
        /\ TxState'[n] = "TxWLA"
    BY <1>4 DEF WaitShape, Same
  <2> QED
    BY <1>1, <1>4, <2>1, QuietTogether
<1>5. CASE DoneShape(n) /\ out = <<>>
  BY <1>1, <1>5, DoneTogether
<1>6. CASE NewShape(n)
  BY <1>6, NewTogether
<1> QED
  BY <1>1, <1>2, <1>3, <1>4, <1>5, <1>6 DEF Acts

LEMMA LeaveTogether ==
  ASSUME Harmony, NEW n \in Nodes, LeaveShape(n)
  PROVE  Pairing(n)'
<1>1. /\ Others(n) /\ Line(n, chan[n], <<>>)
      /\ local_EOB'[n] = local_EOB[n] /\ remote_EOB'[n] = remote_EOB[n]
      /\ messages'[n] = messages[n] /\ RxState'[n] = RxState[n] /\ TxState'[n] = TxState[n]
  BY DEF LeaveShape
<1> QED
  BY <1>1, QuietTogether

LEMMA StepTogether ==
  ASSUME NothingBreaks, Alike, Harmony, [Next]_vars, ~ Redial, ~ UNCHANGED vars
  PROVE  Together'
<1>1. PICK n \in Nodes :
        \/ \E out \in Seq(Frame) : HeardShape(n, out) \/ ActShape(n, out)
        \/ EndedShape(n) \/ NewShape(n) \/ LeaveShape(n)
  BY HarmonySteps
<1>2. Pairing(n)'
  BY <1>1, HeardTogether, EndedTogether, ActTogether, NewTogether, LeaveTogether
<1>3. Others(n) /\ \E in, out : Line(n, in, out)
  BY <1>1 DEF HeardShape, ActShape, EndedShape, NewShape, LeaveShape
<1> QED
  BY <1>2, <1>3, AllPairs
--------------------------------------------------------------------------------
\* A session begins.
Fresh ==
  /\ \A n \in Nodes :
       /\ FtState[n] = "Switch" /\ RxState[n] = "RxWaitF" /\ TxState[n] = "TxGNF"
       /\ ~ local_EOB[n] /\ ~ remote_EOB[n] /\ messages[n] = 0 /\ rc[n] = FALSE
       /\ chan[n] = <<>> /\ tql[n] = <<>>
  /\ link = "up"
  /\ \A f \in Files : state[f] = "NotListed" /\ offset[f] = 0

LEMMA FreshHarmony ==
  ASSUME Gone, LineStraight, Layout, Prefixes, Fresh,
         \A f \in Files : part[f] # <<>> => GotFor(f)
  PROVE  Harmony
<1>1. /\ \A n \in Nodes : Peer[n] \in Nodes
      /\ \A f \in Files : Sender(f) \in Nodes /\ Receiver(f) \in Nodes
      /\ DOMAIN <<>> = {}
  BY DEF Sender, Receiver
<1>2. NothingFailed
  BY <1>1 DEF Fresh, NothingFailed, Smooth
<1>3. \A f \in Files : Somewhere(f)
  BY <1>1 DEF Fresh, Somewhere, Moving
<1>4. FilesFollow
  BY <1>1 DEF Fresh, FilesFollow
<1>5. Stages
  <2>1. ASSUME NEW n \in Nodes PROVE TxStage(n) /\ RxStage(n)
    BY DEF Fresh, TxStage, RxStage, BothEOB
  <2>2. ASSUME NEW n \in Nodes PROVE ListStage(n)
    <3>1. messages[n] >= Bit(local_EOB[n]) + Bit(remote_EOB[n])
      BY DEF Fresh, Bit
    <3> QED
      BY <3>1, OwnFiles DEF Fresh, ListStage, Moving
  <2> QED
    BY <2>1, <2>2 DEF Stages
<1>6. Together
  <2>1. ASSUME NEW n \in Nodes PROVE Heeds(n)
    <3>1. ~ Noisy(Peer[n])
      BY <1>1 DEF Fresh, Noisy, Bit
    <3>2. ~ Noise(chan[n]) /\ NoEnd(chan[n])
      BY <1>1 DEF Fresh, Noise, NoEnd
    <3>3. Batch(chan[n], local_EOB[Peer[n]], remote_EOB[n])
      BY <1>1, <3>2 DEF Fresh, Batch
    <3> QED
      BY <3>1, <3>2, <3>3 DEF Heeds
  <2> QED
    BY <1>1, <2>1 DEF Together, Abreast
<1> QED
  BY <1>2, <1>3, <1>4, <1>5, <1>6 DEF Harmony, PartsKnown

--------------------------------------------------------------------------------
\* The invariant holds.

LEMMA InitHarmony == NothingLeft /\ Init => Harmony
<1> SUFFICES ASSUME NothingLeft, Init PROVE Harmony
  OBVIOUS
<1>1. NoneLonger /\ NoneOlder
  <2>1. ASSUME NEW f \in Files, NEW p \in Leftover[f]
        PROVE  Len(p) <= Size[f] /\ PrefixOf(p, f)
    <3>1. p = <<>> /\ Size[f] \in Nat
      BY <2>1, FilesAssumption DEF NothingLeft
    <3>2. Len(p) = 0 /\ DOMAIN p = {} /\ 0 <= Size[f]
      BY <3>1
    <3> QED
      BY <3>2 DEF PrefixOf
  <2> QED
    BY <2>1 DEF NoneLonger, NoneOlder
<1>2. Gone /\ LineStraight /\ Layout /\ Prefixes
  BY <1>1, InitGone, InitStraight, InitLayout, InitPrefixes
<1>3. Fresh
  BY DEF Init, Fresh
<1>4. \A f \in Files : part[f] = <<>>
  BY DEF Init, NothingLeft
<1> QED
  BY <1>2, <1>3, <1>4, FreshHarmony

LEMMA FreshSession ==
  Gone /\ LineStraight /\ Layout /\ Prefixes /\ Fresh
    /\ (\A f \in Files : part[f] # <<>> => GotFor(f)) => Harmony
BY FreshHarmony

\* All the files of a session that is over have been acknowledged or are in no place.
LEMMA RedialHarmony ==
  ASSUME Harmony, Redial, Gone', LineStraight', Layout', Prefixes'
  PROVE  Harmony'
<1>1. Fresh'
  BY DEF Redial, Fresh
<1>2. ASSUME NEW f \in Files, part'[f] # <<>> PROVE GotFor(f)'
  <2>1. FtState[Sender(f)] = "Exit" /\ part'[f] = part[f] /\ outbound' = outbound
    BY DEF Redial, Sender
  <2>2. TxState[Sender(f)] = "TxDone"
    BY <2>1 DEF Harmony, Stages, TxStage, Sender
  <2>3. ~ InReceipt(f) /\ ~ Answered(f) /\ ~ Noted(f)
    BY <2>2 DEF Harmony, Somewhere
  <2>4. GotFor(f)
    BY <1>2, <2>1, <2>3 DEF Harmony, PartsKnown
  <2>5. f \notin outbound
    BY <2>3, <2>4 DEF GotFor, Answered, Noted, Has, Reply
  <2> QED
    BY <2>1, <2>5 DEF GotFor
<1>3. (Gone /\ LineStraight /\ Layout /\ Prefixes /\ Fresh
        /\ \A f \in Files : part[f] # <<>> => GotFor(f))'
  BY <1>1, <1>2
<1> QED
  BY <1>3, FreshSession, PTL

LEMMA NextHarmony == NothingBreaks /\ Alike /\ Harmony /\ [Next]_vars => Harmony'
<1> SUFFICES ASSUME NothingBreaks, Alike, Harmony, [Next]_vars PROVE Harmony'
  OBVIOUS
<1>1. Gone' /\ LineStraight' /\ Layout' /\ Prefixes'
  <2>1. Gone /\ Places /\ LineStraight /\ Layout /\ Prefixes /\ ResumesApart
    BY HarmonyTypes, HarmonyApart DEF Harmony
  <2> QED
    BY <2>1, NextGone, NextStraight, NextLayout, PrefixStep
<1>2. CASE Redial
  BY <1>1, <1>2, RedialHarmony
<1>3. CASE UNCHANGED vars
  <2>1. NothingFailed' /\ PartsKnown' /\ (\A f \in Files : Somewhere(f))'
    BY <1>3 DEF Harmony, vars, lineVars, batchVars, txVars, rxVars, boundVars, NothingFailed,
                PartsKnown, Somewhere, Offered, InReceipt, Answered, Noted, GotFor, Moving
  <2>2. FilesFollow'
    BY <1>3 DEF Harmony, vars, lineVars, batchVars, txVars, rxVars, boundVars, FilesFollow,
                Follows, Sends
  <2>3. Stages'
    BY <1>3 DEF Harmony, vars, lineVars, batchVars, txVars, rxVars, boundVars, Stages,
                TxStage, RxStage, ListStage, Pending, BothEOB, Noisy, Moving
  <2>4. Together'
    <3>1. \A n \in Nodes : Heeds(n)' <=> Heeds(n)
      BY <1>3 DEF vars, lineVars, batchVars, txVars, rxVars, boundVars, Heeds, Noisy
    <3>2. \A n \in Nodes : Behind(n)' <=> Behind(n)
      BY <1>3 DEF vars, lineVars, batchVars, txVars, rxVars, boundVars, Behind, BehindBy, Noisy
    <3> QED
      BY <3>1, <3>2, HarmonyTypes DEF Harmony, Together, Abreast
  <2> QED
    BY <1>1, <2>1, <2>2, <2>3, <2>4 DEF Harmony
<1>4. CASE ~ Redial /\ ~ UNCHANGED vars
  BY <1>1, <1>4, StepFailed, StepKnown, StepFollow, StepStages, StepTogether DEF Harmony
<1> QED
  BY <1>2, <1>3, <1>4

LEMMA SpecHarmony ==
  ASSUME NothingLeft, NothingBreaks, Alike
  PROVE  Spec => []Harmony
<1>1. Init => Harmony
  BY InitHarmony
<1>2. Harmony /\ [Next]_vars => Harmony'
  BY NextHarmony
<1> QED
  BY <1>1, <1>2, PTL DEF Spec

\* Two mailers that believe the same version in use, with nothing of earlier sessions in
\* tmp, on a line that holds, agree about the session (file_transfer() of binkp.c, and the
\* ends of the batches at binkp.c:1121 and :1810): neither fails, whatever files are
\* refused and in whatever order their frames cross.
THEOREM MailersAgree ==
  ASSUME NothingLeft, NothingBreaks, Alike
  PROVE  Spec => []SidesAgree
<1>1. Harmony => SidesAgree
  BY HarmonyTypes DEF Harmony, NothingFailed, SidesAgree
<1> QED
  BY <1>1, SpecHarmony, PTL

\* Then no two files of as many blocks are asked for at an offset: what the theorems about
\* resumed files suppose (OwnStream and the others) holds of itself.
THEOREM NothingResumed ==
  ASSUME NothingLeft, NothingBreaks, Alike
  PROVE  Spec => []ResumesApart
<1>1. Harmony => ResumesApart
  BY HarmonyApart
<1> QED
  BY <1>1, SpecHarmony, PTL
================================================================================
