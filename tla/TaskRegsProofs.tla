----------------------------- MODULE TaskRegsProofs -----------------------------
(***************************************************************************)
(* What mbtask's table of clients guarantees for any number of records and *)
(* of clients and any size of the message buffers: its counters are true,  *)
(* the sysop is paged by one user at a time, and the messages to a user    *)
(* wait in the order they were accepted in.                                *)
(***************************************************************************)
EXTENDS TaskRegs, SequenceTheorems, FiniteSetTheorems, TLAPS

(* The inductive invariant. *)

\* A client with a record is not off, and has one record.
Registered ==
  /\ \A s \in Slots : reg[s].pid # Free => alive[reg[s].pid] # "off"
  /\ \A r, s \in Slots : reg[r].pid # Free /\ reg[r].pid = reg[s].pid => r = s

MailerSlots == {s \in Slots : reg[s].pid \in Mailers}
TcpSlots == {s \in Slots : reg[s].pid # Free /\ reg[s].istcp}
PagerSlots == {s \in Slots : reg[s].pid # Free /\ (reg[s].paging \/ reg[s].haspaged)}

Counted ==
  /\ mailers = Cardinality(MailerSlots)
  /\ ipmailers = Cardinality(TcpSlots)

PagedOnce == \A r, s \in PagerSlots : r = s

\* What remains of a number below two rounds of a buffer.
Wrap(x) == IF x <= RB THEN x ELSE x - (RB + 1)

\* The buffer with next read o, next write i, waiting messages w, and cells m.
Spot(o, k) == Wrap(o + k - 1)

\* Cell x was written after the k-th of the waiting messages.
Later(o, w, k, x) ==
  x = <<"reason", 0>> \/ \E j \in k + 1..Len(w) : x \in {Name(Spot(o, j)), Text(Spot(o, j))}

Intact(o, w, m, k) ==
  /\ Later(o, w, k, Name(Spot(o, k))) \/ m[Name(Spot(o, k))] = <<"from", w[k]>>
  /\ Later(o, w, k, Text(Spot(o, k))) \/ m[Text(Spot(o, k))] = <<"text", w[k]>>

Ring(ismsg, i, o, w, m) ==
  /\ Len(w) <= RB + 1
  /\ ismsg <=> w # <<>>
  /\ i = Wrap(o + Len(w))
  /\ \A k \in 1..Len(w) : Intact(o, w, m, k)

Rings == \A s \in Slots : Ring(reg[s].ismsg, in[s], out[s], owed[s], memory[s])

IInv == TypeOK /\ Registered /\ Counted /\ PagedOnce /\ Rings

--------------------------------------------------------------------------------
(* The ring of places. *)

LEMMA Round ==
  ASSUME NEW x \in 0..2 * RB + 1, NEW y, y = x
  PROVE  y % (RB + 1) = Wrap(x)
<1>1. RB \in Nat \ {0}
  BY SlotsAssumption
<1>2. CASE x <= RB
  BY <1>1, <1>2 DEF Wrap
<1>3. CASE x > RB
  <2>1. x - (RB + 1) \in 0..RB /\ x = (RB + 1) + (x - (RB + 1))
    BY <1>1, <1>3
  <2> QED
    BY <1>1, <1>3, <2>1 DEF Wrap
<1> QED
  BY <1>1, <1>2, <1>3

\* The places of the waiting messages, and the one behind them, which is written next.
LEMMA Spots ==
  ASSUME NEW o \in Places, NEW n \in 0..RB + 1, NEW k \in 1..n + 1
  PROVE  Spot(o, k) \in Places
BY SlotsAssumption DEF Spot, Wrap, Places

\* The two cells of a place are different, and cells of the record.
LEMMA PlaceCells ==
  ASSUME NEW i \in Places
  PROVE  /\ Name(i) \in Cells /\ Text(i) \in Cells /\ Name(i) # Text(i)
         /\ Name(i) # <<"reason", 0>>
BY SlotsAssumption DEF Cells, Name, Text, Places

LEMMA ReasonCell == <<"reason", 0>> \in Cells
<1>1. Text(RB) = <<"reason", 0>> /\ RB \in Places
  BY SlotsAssumption DEF Text, Places
<1> QED
  BY <1>1, PlaceCells

\* A record that is cleared has no messages.
LEMMA RingEmpty == \A m : Ring(FALSE, 0, 0, <<>>, m)
BY SlotsAssumption, EmptySeq DEF Ring, Wrap

\* A message is accepted.
LEMMA RingSend ==
  ASSUME NEW ismsg \in BOOLEAN, NEW i \in Places, NEW o \in Places, NEW w \in Seq(Numbers),
         NEW m \in [Cells -> Contents], NEW num \in Numbers,
         Ring(ismsg, i, o, w, m), ~ (ismsg /\ i = o)
  PROVE  Ring(TRUE, After(i), o, Append(w, num),
              [m EXCEPT ![Name(i)] = <<"from", num>>, ![Text(i)] = <<"text", num>>])
<1>1. PICK n \in Nat : n = Len(w)
  OBVIOUS
<1>2. PICK v : v = Append(w, num)
  OBVIOUS
<1>3. PICK mm : mm = [m EXCEPT ![Name(i)] = <<"from", num>>, ![Text(i)] = <<"text", num>>]
  OBVIOUS
<1>4. /\ RB \in Nat \ {0} /\ n <= RB + 1
      /\ ismsg <=> n # 0
      /\ i = Wrap(o + n)
  BY <1>1, SlotsAssumption, EmptySeq DEF Ring
<1>5. n <= RB /\ After(i) = Wrap(o + n + 1) /\ Spot(o, n + 1) = i
  BY <1>4 DEF Wrap, Places, After, Spot
<1>6. /\ Len(v) = n + 1 /\ v # <<>> /\ v[n + 1] = num
      /\ \A k \in 1..n : v[k] = w[k]
  BY <1>1, <1>2, AppendProperties
<1>7. /\ mm[Name(i)] = <<"from", num>> /\ mm[Text(i)] = <<"text", num>>
      /\ \A x \in Cells : x \notin {Name(i), Text(i)} => mm[x] = m[x]
  BY <1>3, PlaceCells
<1>8. ASSUME NEW k \in 1..n
      PROVE  Intact(o, v, mm, k)
  <2>1. \A x : Later(o, w, k, x) \/ x \in {Name(i), Text(i)} => Later(o, v, k, x)
    <3>1. n + 1 \in k + 1..Len(v) /\ k + 1..Len(w) \subseteq k + 1..Len(v)
      BY <1>1, <1>6
    <3> QED
      BY <1>5, <3>1 DEF Later
  <2>2. Spot(o, k) \in Places
    BY <1>4, Spots
  <2>3. Name(Spot(o, k)) \in Cells /\ Text(Spot(o, k)) \in Cells
    BY <2>2, PlaceCells
  <2>4. Intact(o, w, m, k)
    BY <1>1 DEF Ring
  <2> QED
    BY <1>6, <1>7, <2>1, <2>3, <2>4 DEF Intact
<1>9. Intact(o, v, mm, n + 1)
  BY <1>5, <1>6, <1>7 DEF Intact
<1>10. \A k \in 1..Len(v) : Intact(o, v, mm, k)
  <2>1. \A k \in 1..Len(v) : k \in 1..n \/ k = n + 1
    BY <1>6
  <2> QED
    BY <1>8, <1>9, <2>1
<1>11. Ring(TRUE, After(i), o, v, mm)
  <2>1. Len(v) <= RB + 1 /\ After(i) = Wrap(o + Len(v))
    <3>1. o + Len(v) = o + n + 1
      BY <1>6 DEF Places
    <3> QED
      BY <1>4, <1>5, <1>6, <3>1
  <2> QED
    BY <1>6, <1>10, <2>1 DEF Ring
<1> QED
  BY <1>2, <1>3, <1>11

\* The oldest message is read; whether one waits then is seen at the two pointers.
LEMMA RingRead ==
  ASSUME NEW i \in Places, NEW o \in Places, NEW w \in Seq(Numbers), NEW m,
         Ring(TRUE, i, o, w, m)
  PROVE  Ring(After(o) # i, i, After(o), Tail(w), m)
<1>1. PICK n \in Nat : n = Len(w)
  OBVIOUS
<1>2. PICK t : t = Tail(w)
  OBVIOUS
<1>3. /\ RB \in Nat \ {0} /\ n \in 1..RB + 1 /\ w # <<>>
      /\ i = Wrap(o + n)
  BY <1>1, SlotsAssumption, EmptySeq DEF Ring
<1>4. /\ Len(t) = n - 1 /\ t \in Seq(Numbers)
      /\ \A k \in 1..n - 1 : t[k] = w[k + 1]
  BY <1>1, <1>2, <1>3, HeadTailProperties
<1>5. t # <<>> <=> n # 1
  BY <1>3, <1>4, EmptySeq
<1>6. /\ i = Wrap(After(o) + (n - 1))
      /\ After(o) # i <=> n # 1
      /\ \A k \in 1..n : Spot(After(o), k) = Spot(o, k + 1)
  BY <1>3 DEF Wrap, Places, After, Spot
<1>7. ASSUME NEW k \in 1..n - 1
      PROVE  Intact(After(o), t, m, k)
  <2>1. \A x : Later(o, w, k + 1, x) => Later(After(o), t, k, x)
    <3>1. ASSUME NEW j \in (k + 1) + 1..Len(w)
          PROVE  /\ j - 1 \in k + 1..Len(t)
                 /\ Spot(After(o), j - 1) = Spot(o, j)
      <4>1. j - 1 \in k + 1..Len(t) /\ j - 1 \in 1..n /\ (j - 1) + 1 = j
        BY <1>1, <1>3, <1>4
      <4>2. Spot(After(o), j - 1) = Spot(o, (j - 1) + 1)
        BY <1>6, <4>1
      <4> QED
        BY <4>1, <4>2
    <3> QED
      BY <3>1 DEF Later
  <2>2. Intact(o, w, m, k + 1)
    <3>1. k + 1 \in 1..Len(w)
      BY <1>1, <1>3
    <3> QED
      BY <3>1 DEF Ring
  <2>3. Spot(After(o), k) = Spot(o, k + 1) /\ t[k] = w[k + 1]
    BY <1>3, <1>4, <1>6
  <2> QED
    BY <2>1, <2>2, <2>3 DEF Intact
<1>8. Ring(After(o) # i, i, After(o), t, m)
  BY <1>3, <1>4, <1>5, <1>6, <1>7 DEF Ring
<1> QED
  BY <1>2, <1>8

\* The reason of a page is written over what the last place of the texts may hold.
LEMMA RingPage ==
  ASSUME NEW ismsg, NEW i, NEW o \in Places, NEW w \in Seq(Numbers), NEW m \in [Cells -> Contents],
         Ring(ismsg, i, o, w, m), NEW y
  PROVE  Ring(ismsg, i, o, w, [m EXCEPT ![<<"reason", 0>>] = y])
<1> DEFINE mm == [m EXCEPT ![<<"reason", 0>>] = y]
<1>1. RB \in Nat \ {0} /\ Len(w) \in 0..RB + 1
  BY SlotsAssumption DEF Ring
<1>2. ASSUME NEW k \in 1..Len(w)
      PROVE  Intact(o, w, mm, k)
  <2>1. Spot(o, k) \in Places
    BY <1>1, Spots
  <2>2. \A x \in Cells : x # <<"reason", 0>> => mm[x] = m[x]
    OBVIOUS
  <2>3. Intact(o, w, m, k)
    BY DEF Ring
  <2> QED
    BY <2>1, <2>2, <2>3, PlaceCells DEF Intact, Later
<1> QED
  BY <1>2 DEF Ring

--------------------------------------------------------------------------------
(* The records. *)

LEMMA SlotsFinite == IsFiniteSet(Slots)
<1>1. MAXCLIENT \in Int /\ MAXCLIENT - 1 \in Int /\ 1 \in Int
  BY SlotsAssumption
<1> QED
  BY <1>1, FS_Interval DEF Slots

LEMMA SomeSlots ==
  ASSUME NEW S \in SUBSET Slots
  PROVE  IsFiniteSet(S) /\ Cardinality(S) \in Nat
BY SlotsFinite, FS_Subset, FS_CardinalityType

LEMMA FindRecord ==
  ASSUME NEW c, NEW s \in Find(c)
  PROVE  s \in Slots /\ reg[s].pid = c
BY DEF Find

LEMMA ClientsNotFree == \A c \in Clients : c # Free
BY SlotsAssumption

LEMMA EmptyRecord == Empty \in RecordTypes
BY DEF Empty, RecordTypes

\* Most commands change one record, and not whose it is.
LEMMA OneRecord ==
  ASSUME IInv, NEW s \in Slots, NEW r \in RecordTypes, r.pid = reg[s].pid,
         reg' = [reg EXCEPT ![s] = r], UNCHANGED alive
  PROVE  /\ reg' \in [Slots -> RecordTypes]
         /\ reg'[s] = r /\ \A q \in Slots : q # s => reg'[q] = reg[q]
         /\ Registered'
         /\ MailerSlots' = MailerSlots
         /\ r.istcp = reg[s].istcp => TcpSlots' = TcpSlots
         /\ (r.paging \/ r.haspaged => reg[s].paging \/ reg[s].haspaged) => PagedOnce'
<1>1. reg \in [Slots -> RecordTypes]
  BY DEF IInv, TypeOK
<1>2. /\ reg' \in [Slots -> RecordTypes]
      /\ reg'[s] = r /\ \A q \in Slots : q # s => reg'[q] = reg[q]
  BY <1>1
<1>3. \A q \in Slots : reg'[q].pid = reg[q].pid
  BY <1>2
<1>4. Registered'
  BY <1>3 DEF IInv, Registered
<1>5. MailerSlots' = MailerSlots
  BY <1>3 DEF MailerSlots
<1>6. r.istcp = reg[s].istcp => TcpSlots' = TcpSlots
  BY <1>2, <1>3 DEF TcpSlots
<1>7. ASSUME r.paging \/ r.haspaged => reg[s].paging \/ reg[s].haspaged
      PROVE  PagedOnce'
  <2>1. PagerSlots' \subseteq PagerSlots
    BY <1>2, <1>3, <1>7 DEF PagerSlots
  <2> QED
    BY <2>1 DEF IInv, PagedOnce
<1> QED
  BY <1>2, <1>4, <1>5, <1>6, <1>7

\* The messages are those of before where a command does not touch them.
LEMMA SameRings ==
  ASSUME IInv, UNCHANGED msgVars, \A s \in Slots : reg'[s].ismsg = reg[s].ismsg
  PROVE  Rings'
BY DEF IInv, Rings, msgVars

LEMMA InitInv == Init => IInv
<1> SUFFICES ASSUME Init
             PROVE  IInv
  OBVIOUS
<1> USE DEF Init
<1>1. \A s \in Slots : /\ reg[s].pid = Free /\ reg[s].ismsg = FALSE
                        /\ in[s] = 0 /\ out[s] = 0 /\ owed[s] = <<>>
  BY DEF Empty
<1>2. TypeOK
  <2>1. reg \in [Slots -> RecordTypes]
    BY EmptyRecord
  <2>2. 0 \in Places /\ 0 \in Numbers /\ 0 \in 0..MaxFail
    BY SlotsAssumption DEF Places, Numbers
  <2>3. Cleared \in [Cells -> Contents]
    BY DEF Cleared, Contents
  <2>4. owed \in [Slots -> Seq(Numbers)]
    BY EmptySeq
  <2> QED
    BY <2>1, <2>2, <2>3, <2>4 DEF TypeOK
<1>3. Registered
  BY <1>1 DEF Registered
<1>4. Counted
  <2>1. MailerSlots = {} /\ TcpSlots = {}
    BY <1>1, SlotsAssumption DEF MailerSlots, TcpSlots, Clients
  <2> QED
    BY <2>1, FS_EmptySet DEF Counted
<1>5. PagedOnce
  BY <1>1 DEF PagedOnce, PagerSlots
<1>6. Rings
  BY <1>1, RingEmpty DEF Rings
<1> QED
  BY <1>2, <1>3, <1>4, <1>5, <1>6 DEF IInv

--------------------------------------------------------------------------------
(* The commands. *)

\* A record is cleared for a new client, or of one that has gone.
LEMMA Wiped ==
  ASSUME IInv, NEW s \in Slots, Wipe(s),
         \A q \in Slots : reg'[q].ismsg = IF q = s THEN FALSE ELSE reg[q].ismsg
  PROVE  /\ in' \in [Slots -> Places] /\ out' \in [Slots -> Places]
         /\ memory' \in [Slots -> [Cells -> Contents]]
         /\ owed' \in [Slots -> Seq(Numbers)] /\ number' \in [Slots -> Numbers]
         /\ Rings'
<1>1. 0 \in Places /\ 0 \in Numbers
  BY SlotsAssumption DEF Places, Numbers
<1>2. Cleared \in [Cells -> Contents]
  BY DEF Cleared, Contents
<1>3. <<>> \in Seq(Numbers)
  BY EmptySeq
<1>4. /\ in' \in [Slots -> Places] /\ out' \in [Slots -> Places]
      /\ memory' \in [Slots -> [Cells -> Contents]]
      /\ owed' \in [Slots -> Seq(Numbers)] /\ number' \in [Slots -> Numbers]
  BY <1>1, <1>2, <1>3 DEF IInv, TypeOK, Wipe
<1>5. \A q \in Slots : q # s => Ring(reg'[q].ismsg, in'[q], out'[q], owed'[q], memory'[q])
  BY DEF IInv, TypeOK, Rings, Wipe
<1>6. Ring(reg'[s].ismsg, in'[s], out'[s], owed'[s], memory'[s])
  BY RingEmpty DEF IInv, TypeOK, Wipe
<1> QED
  BY <1>4, <1>5, <1>6 DEF Rings

LEMMA NewConStep ==
  ASSUME IInv, NEW c \in Clients, NewCon(c)
  PROVE  IInv'
<1>1. PICK s \in Find(Free) : /\ reg' = [reg EXCEPT ![s] = [Empty EXCEPT !.pid = c, !.silent = TRUE]]
                              /\ Wipe(s)
  BY DEF NewCon
<1>2. s \in Slots /\ reg[s].pid = Free
  BY FindRecord
<1>3. [Empty EXCEPT !.pid = c, !.silent = TRUE] \in RecordTypes
  BY DEF Empty, RecordTypes
<1>4. /\ reg' \in [Slots -> RecordTypes]
      /\ reg'[s].pid = c /\ ~ reg'[s].istcp /\ ~ reg'[s].paging /\ ~ reg'[s].haspaged /\ reg'[s].ismsg = FALSE
      /\ \A q \in Slots : q # s => reg'[q] = reg[q]
  BY <1>1, <1>2, <1>3 DEF IInv, TypeOK, Empty
<1>5. /\ alive[c] = "off" /\ alive' \in [Clients -> {"off", "on", "dying", "hung", "dead"}]
      /\ alive'[c] = "on" /\ \A d \in Clients : d # c => alive'[d] = alive[d]
  BY DEF NewCon, IInv, TypeOK
<1>6. \A q \in Slots : reg[q].pid # c
  BY <1>5, ClientsNotFree DEF IInv, Registered
<1>7. Registered'
  <2>1. \A q \in Slots : q # s /\ reg'[q].pid # Free => reg'[q].pid \in Clients /\ reg'[q].pid # c
    BY <1>4, <1>6 DEF IInv, TypeOK, RecordTypes
  <2> QED
    BY <1>4, <1>5, <1>6, <2>1 DEF IInv, Registered
<1>8. TcpSlots' = TcpSlots /\ PagerSlots' = PagerSlots
  BY <1>2, <1>4 DEF TcpSlots, PagerSlots
<1>9. mailers' = Cardinality(MailerSlots')
  <2>1. mailers = Cardinality(MailerSlots) /\ s \notin MailerSlots
    BY <1>2, SlotsAssumption DEF IInv, Counted, MailerSlots, Clients
  <2>2. IsFiniteSet(MailerSlots)
    BY SomeSlots DEF MailerSlots
  <2>3. CASE c \in Mailers
    <3>1. MailerSlots' = MailerSlots \cup {s}
      BY <1>2, <1>4, <2>3 DEF MailerSlots
    <3> QED
      BY <2>1, <2>2, <2>3, <3>1, FS_AddElement DEF NewCon
  <2>4. CASE c \notin Mailers
    <3>1. MailerSlots' = MailerSlots
      BY <1>2, <1>4, <2>1, <2>4 DEF MailerSlots
    <3> QED
      BY <2>1, <2>4, <3>1 DEF NewCon
  <2> QED
    BY <2>3, <2>4
<1>10. Counted' /\ ipmailers' = ipmailers
  BY <1>8, <1>9 DEF NewCon, IInv, Counted
<1>11. PagedOnce'
  BY <1>8 DEF IInv, PagedOnce
<1>12. /\ Rings'
       /\ in' \in [Slots -> Places] /\ out' \in [Slots -> Places]
       /\ memory' \in [Slots -> [Cells -> Contents]]
       /\ owed' \in [Slots -> Seq(Numbers)] /\ number' \in [Slots -> Numbers]
  BY <1>1, <1>2, <1>4, Wiped
<1>13. TypeOK'
  <2>1. mailers' \in Nat
    BY DEF NewCon, IInv, TypeOK
  <2> QED
    BY <1>4, <1>5, <1>10, <1>12, <2>1 DEF NewCon, IInv, TypeOK
<1> QED
  BY <1>7, <1>10, <1>11, <1>12, <1>13 DEF IInv

\* The counters without some of the clients.
LEMMA Dropped ==
  ASSUME IInv, NEW S \in SUBSET Slots, Drop(S), \A s \in S : reg[s].pid # Free,
         \A s \in S : reg'[s] = Empty, \A s \in Slots \ S : reg'[s].pid = reg[s].pid /\ reg'[s].istcp = reg[s].istcp
  PROVE  Counted' /\ mailers' \in Nat /\ ipmailers' \in Nat
<1>1. Free \notin Mailers
  BY SlotsAssumption DEF Clients
<1>2. Empty.pid = Free
  BY DEF Empty
<1> DEFINE M == {s \in S : reg[s].pid \in Mailers}
           T == {s \in S : reg[s].istcp}
<1>3. MailerSlots' = MailerSlots \ S /\ MailerSlots \cap S = M
  BY <1>1, <1>2 DEF MailerSlots
<1>4. TcpSlots' = TcpSlots \ S /\ TcpSlots \cap S = T
  BY <1>2 DEF TcpSlots
<1>5. IsFiniteSet(MailerSlots) /\ IsFiniteSet(TcpSlots)
  BY SomeSlots DEF MailerSlots, TcpSlots
<1>6. /\ Cardinality(MailerSlots \ S) = Cardinality(MailerSlots) - Cardinality(MailerSlots \cap S)
      /\ Cardinality(TcpSlots \ S) = Cardinality(TcpSlots) - Cardinality(TcpSlots \cap S)
  BY <1>5, FS_Difference
<1>7. mailers' = Cardinality(MailerSlots') /\ ipmailers' = Cardinality(TcpSlots')
  BY <1>3, <1>4, <1>6 DEF IInv, Counted, Drop
<1>8. Cardinality(MailerSlots') \in Nat /\ Cardinality(TcpSlots') \in Nat
  BY <1>3, <1>4, SomeSlots DEF MailerSlots, TcpSlots
<1> QED
  BY <1>7, <1>8 DEF Counted

LEMMA CloseConStep ==
  ASSUME IInv, NEW c \in Clients, CloseCon(c)
  PROVE  IInv'
<1>1. PICK s \in Find(c) : reg' = [reg EXCEPT ![s] = Empty] /\ Wipe(s) /\ Drop({s})
  BY DEF CloseCon
<1>2. s \in Slots /\ reg[s].pid = c /\ c # Free
  BY FindRecord, ClientsNotFree
<1>3. /\ reg' \in [Slots -> RecordTypes]
      /\ reg'[s] = Empty
      /\ \A q \in Slots : q # s => reg'[q] = reg[q]
  BY <1>1, <1>2, EmptyRecord DEF IInv, TypeOK
<1>4. Empty.pid = Free /\ Empty.ismsg = FALSE
  BY DEF Empty
<1>5. /\ alive' \in [Clients -> {"off", "on", "dying", "hung", "dead"}]
      /\ \A d \in Clients : d # c => alive'[d] = alive[d]
  BY DEF CloseCon, IInv, TypeOK
<1>6. Registered'
  <2>1. \A q \in Slots : q # s /\ reg[q].pid # Free => reg[q].pid \in Clients /\ reg[q].pid # c
    BY <1>2 DEF IInv, TypeOK, RecordTypes, Registered
  <2> QED
    BY <1>3, <1>4, <1>5, <2>1 DEF IInv, Registered
<1>7. PagedOnce'
  <2>1. PagerSlots' \subseteq PagerSlots
    BY <1>3, <1>4 DEF PagerSlots
  <2> QED
    BY <2>1 DEF IInv, PagedOnce
<1>8. Counted' /\ mailers' \in Nat /\ ipmailers' \in Nat
  BY <1>1, <1>2, <1>3, Dropped
<1>9. /\ Rings'
      /\ in' \in [Slots -> Places] /\ out' \in [Slots -> Places]
      /\ memory' \in [Slots -> [Cells -> Contents]]
      /\ owed' \in [Slots -> Seq(Numbers)] /\ number' \in [Slots -> Numbers]
  BY <1>1, <1>2, <1>3, <1>4, Wiped
<1>10. TypeOK'
  BY <1>3, <1>5, <1>8, <1>9 DEF CloseCon, IInv, TypeOK
<1> QED
  BY <1>6, <1>7, <1>8, <1>9, <1>10 DEF IInv

\* A command that changes one record, and none of what is counted, paged or written.
LEMMA QuietCommand ==
  ASSUME IInv, NEW c \in Clients, NEW s \in Find(c), NEW r \in RecordTypes,
         reg' = [reg EXCEPT ![s] = r],
         r.pid = reg[s].pid, r.istcp = reg[s].istcp, r.ismsg = reg[s].ismsg,
         r.paging \/ r.haspaged => reg[s].paging \/ reg[s].haspaged,
         UNCHANGED <<mailers, ipmailers, msgVars, sysop_present, clientVars>>
  PROVE  IInv'
<1>1. s \in Slots
  BY FindRecord
<1>2. /\ reg' \in [Slots -> RecordTypes]
      /\ Registered' /\ MailerSlots' = MailerSlots /\ TcpSlots' = TcpSlots /\ PagedOnce'
      /\ \A q \in Slots : reg'[q].ismsg = reg[q].ismsg
  BY <1>1, OneRecord DEF clientVars
<1>3. Rings'
  BY <1>2, SameRings
<1>4. Counted'
  BY <1>2 DEF IInv, Counted
<1>5. TypeOK'
  BY <1>2 DEF IInv, TypeOK, msgVars, clientVars
<1> QED
  BY <1>2, <1>3, <1>4, <1>5 DEF IInv

LEMMA NopStep ==
  ASSUME IInv, NEW c \in Clients, Nop(c)
  PROVE  IInv'
<1>1. PICK s \in Find(c) : reg' = [reg EXCEPT ![s] = [reg[s] EXCEPT !.late = FALSE]]
  <2>1. \A s \in Find(c) : s \in Slots /\ reg[s] \in RecordTypes
    BY FindRecord DEF IInv, TypeOK
  <2> QED
    BY <2>1 DEF Nop, Heard, IInv, TypeOK, RecordTypes
<1>2. reg[s] \in RecordTypes
  BY FindRecord DEF IInv, TypeOK
<1> DEFINE r == [reg[s] EXCEPT !.late = FALSE]
<1>3. /\ r \in RecordTypes /\ r.pid = reg[s].pid /\ r.istcp = reg[s].istcp /\ r.ismsg = reg[s].ismsg
      /\ r.paging \/ r.haspaged => reg[s].paging \/ reg[s].haspaged
  BY <1>1, <1>2 DEF RecordTypes
<1> QED
  BY <1>1, <1>3, QuietCommand DEF Nop

LEMMA TimerStep ==
  ASSUME IInv, NEW c \in Clients, Timer(c)
  PROVE  IInv'
<1>1. PICK s \in Find(c) : reg' = [reg EXCEPT ![s] = [[reg[s] EXCEPT !.short = FALSE] EXCEPT !.late = FALSE]]
  <2>1. \A s \in Find(c) : s \in Slots /\ reg[s] \in RecordTypes
    BY FindRecord DEF IInv, TypeOK
  <2> QED
    BY <2>1 DEF Timer, Heard, IInv, TypeOK, RecordTypes
<1>2. reg[s] \in RecordTypes
  BY FindRecord DEF IInv, TypeOK
<1> DEFINE r == [[reg[s] EXCEPT !.short = FALSE] EXCEPT !.late = FALSE]
<1>3. /\ r \in RecordTypes /\ r.pid = reg[s].pid /\ r.istcp = reg[s].istcp /\ r.ismsg = reg[s].ismsg
      /\ r.paging \/ r.haspaged => reg[s].paging \/ reg[s].haspaged
  BY <1>1, <1>2 DEF RecordTypes
<1> QED
  BY <1>1, <1>3, QuietCommand DEF Timer

LEMMA SetSilentStep ==
  ASSUME IInv, NEW c \in Clients, SetSilent(c)
  PROVE  IInv'
<1>1. PICK s \in Find(c), flag \in BOOLEAN : reg' = [reg EXCEPT ![s] = [[reg[s] EXCEPT !.silent = flag] EXCEPT !.late = FALSE]]
  <2>1. \A s \in Find(c) : s \in Slots /\ reg[s] \in RecordTypes
    BY FindRecord DEF IInv, TypeOK
  <2> QED
    BY <2>1 DEF SetSilent, Heard, IInv, TypeOK, RecordTypes
<1>2. reg[s] \in RecordTypes
  BY FindRecord DEF IInv, TypeOK
<1> DEFINE r == [[reg[s] EXCEPT !.silent = flag] EXCEPT !.late = FALSE]
<1>3. /\ r \in RecordTypes /\ r.pid = reg[s].pid /\ r.istcp = reg[s].istcp /\ r.ismsg = reg[s].ismsg
      /\ r.paging \/ r.haspaged => reg[s].paging \/ reg[s].haspaged
  BY <1>1, <1>2 DEF RecordTypes
<1> QED
  BY <1>1, <1>3, QuietCommand DEF SetSilent

LEMMA CancelStep ==
  ASSUME IInv, NEW c \in Clients, Cancel(c)
  PROVE  IInv'
<1>1. PICK s \in Find(c) : reg[s].paging /\ reg' = [reg EXCEPT ![s] = [[reg[s] EXCEPT !.paging = FALSE, !.haspaged = TRUE] EXCEPT !.late = FALSE]]
  <2>1. \A s \in Find(c) : s \in Slots /\ reg[s] \in RecordTypes
    BY FindRecord DEF IInv, TypeOK
  <2> QED
    BY <2>1 DEF Cancel, Heard, IInv, TypeOK, RecordTypes
<1>2. reg[s] \in RecordTypes
  BY FindRecord DEF IInv, TypeOK
<1> DEFINE r == [[reg[s] EXCEPT !.paging = FALSE, !.haspaged = TRUE] EXCEPT !.late = FALSE]
<1>3. /\ r \in RecordTypes /\ r.pid = reg[s].pid /\ r.istcp = reg[s].istcp /\ r.ismsg = reg[s].ismsg
      /\ r.paging \/ r.haspaged => reg[s].paging \/ reg[s].haspaged
  BY <1>1, <1>2 DEF RecordTypes
<1> QED
  BY <1>1, <1>3, QuietCommand DEF Cancel

LEMMA SysopTalkStep ==
  ASSUME IInv, NEW c \in Clients, SysopTalk(c)
  PROVE  IInv'
<1>1. PICK s \in Find(c) : reg' = [reg EXCEPT ![s] = [reg[s] EXCEPT !.paging = FALSE, !.haspaged = FALSE]]
  <2>1. \A s \in Find(c) : s \in Slots /\ reg[s] \in RecordTypes
    BY FindRecord DEF IInv, TypeOK
  <2> QED
    BY <2>1 DEF SysopTalk, IInv, TypeOK, RecordTypes
<1>2. reg[s] \in RecordTypes
  BY FindRecord DEF IInv, TypeOK
<1> DEFINE r == [reg[s] EXCEPT !.paging = FALSE, !.haspaged = FALSE]
<1>3. /\ r \in RecordTypes /\ r.pid = reg[s].pid /\ r.istcp = reg[s].istcp /\ r.ismsg = reg[s].ismsg
      /\ r.paging \/ r.haspaged => reg[s].paging \/ reg[s].haspaged
  BY <1>1, <1>2 DEF RecordTypes
<1> QED
  BY <1>1, <1>3, QuietCommand DEF SysopTalk

LEMMA QuietStep ==
  ASSUME IInv, NEW c \in Clients, Quiet(c)
  PROVE  IInv'
<1>1. PICK s \in Find(c) : reg' = [reg EXCEPT ![s] = [reg[s] EXCEPT !.late = TRUE]]
  <2>1. \A s \in Find(c) : s \in Slots /\ reg[s] \in RecordTypes
    BY FindRecord DEF IInv, TypeOK
  <2> QED
    BY <2>1 DEF Quiet, IInv, TypeOK, RecordTypes
<1>2. reg[s] \in RecordTypes
  BY FindRecord DEF IInv, TypeOK
<1> DEFINE r == [reg[s] EXCEPT !.late = TRUE]
<1>3. /\ r \in RecordTypes /\ r.pid = reg[s].pid /\ r.istcp = reg[s].istcp /\ r.ismsg = reg[s].ismsg
      /\ r.paging \/ r.haspaged => reg[s].paging \/ reg[s].haspaged
  BY <1>1, <1>2 DEF RecordTypes
<1> QED
  BY <1>1, <1>3, QuietCommand DEF Quiet

LEMMA RegIpStep ==
  ASSUME IInv, NEW c \in Clients, RegIp(c)
  PROVE  IInv'
<1>1. PICK s \in Find(c) : ~ reg[s].istcp /\ Heard(s, [reg[s] EXCEPT !.istcp = TRUE])
  BY DEF RegIp
<1>2. s \in Slots /\ reg[s].pid # Free /\ reg[s] \in RecordTypes
  BY FindRecord, ClientsNotFree DEF IInv, TypeOK
<1>3. PICK r \in RecordTypes : /\ reg' = [reg EXCEPT ![s] = r]
                               /\ r.pid = reg[s].pid /\ r.istcp /\ r.ismsg = reg[s].ismsg
                               /\ r.paging = reg[s].paging /\ r.haspaged = reg[s].haspaged
  <2> DEFINE r == [[reg[s] EXCEPT !.istcp = TRUE] EXCEPT !.late = FALSE]
  <2>1. r \in RecordTypes /\ r.pid = reg[s].pid /\ r.istcp /\ r.ismsg = reg[s].ismsg
        /\ r.paging = reg[s].paging /\ r.haspaged = reg[s].haspaged
    BY <1>2 DEF RecordTypes
  <2> QED
    BY <1>1, <2>1 DEF Heard
<1>4. /\ reg' \in [Slots -> RecordTypes]
      /\ reg'[s] = r /\ \A q \in Slots : q # s => reg'[q] = reg[q]
      /\ Registered' /\ MailerSlots' = MailerSlots /\ PagedOnce'
  BY <1>2, <1>3, OneRecord DEF RegIp, clientVars
<1>5. Rings'
  BY <1>3, <1>4, SameRings DEF RegIp
<1>6. Counted'
  <2>1. TcpSlots' = TcpSlots \cup {s} /\ s \notin TcpSlots
    BY <1>1, <1>2, <1>3, <1>4 DEF TcpSlots
  <2>2. IsFiniteSet(TcpSlots)
    BY SomeSlots DEF TcpSlots
  <2> QED
    BY <1>4, <2>1, <2>2, FS_AddElement DEF RegIp, IInv, Counted
<1>7. TypeOK'
  BY <1>4 DEF RegIp, IInv, TypeOK, msgVars, clientVars
<1> QED
  BY <1>4, <1>5, <1>6, <1>7 DEF IInv

LEMMA SendMessageStep ==
  ASSUME IInv, NEW c \in Clients, SendMessage(c)
  PROVE  IInv'
<1>1. PICK s \in Find(c) :
        /\ ~ Full(s)
        /\ reg' = [reg EXCEPT ![s].ismsg = TRUE]
        /\ memory' = [memory EXCEPT ![s][Name(in[s])] = <<"from", number[s]>>,
                                    ![s][Text(in[s])] = <<"text", number[s]>>]
        /\ in' = [in EXCEPT ![s] = After(in[s])]
        /\ owed' = [owed EXCEPT ![s] = Append(@, number[s])]
        /\ number' = [number EXCEPT ![s] = (@ + 1) % (2 * RB + 2)]
  BY DEF SendMessage
<1>2. /\ s \in Slots /\ reg[s] \in RecordTypes /\ in[s] \in Places /\ out[s] \in Places
      /\ memory[s] \in [Cells -> Contents] /\ owed[s] \in Seq(Numbers) /\ number[s] \in Numbers
  BY FindRecord DEF IInv, TypeOK
<1>3. PICK r \in RecordTypes : /\ reg' = [reg EXCEPT ![s] = r]
                               /\ r.pid = reg[s].pid /\ r.istcp = reg[s].istcp /\ r.ismsg = TRUE
                               /\ r.paging = reg[s].paging /\ r.haspaged = reg[s].haspaged
  <2> DEFINE r == [reg[s] EXCEPT !.ismsg = TRUE]
  <2>1. r \in RecordTypes /\ r.pid = reg[s].pid /\ r.istcp = reg[s].istcp /\ r.ismsg = TRUE
        /\ r.paging = reg[s].paging /\ r.haspaged = reg[s].haspaged
    BY <1>2 DEF RecordTypes
  <2>2. reg' = [reg EXCEPT ![s] = r]
    BY <1>1, <1>2 DEF IInv, TypeOK
  <2> QED
    BY <2>1, <2>2
<1>4. /\ reg' \in [Slots -> RecordTypes]
      /\ reg'[s] = r /\ \A q \in Slots : q # s => reg'[q] = reg[q]
      /\ Registered' /\ MailerSlots' = MailerSlots /\ TcpSlots' = TcpSlots /\ PagedOnce'
  BY <1>2, <1>3, OneRecord DEF SendMessage, clientVars
<1>5. Counted'
  BY <1>4 DEF SendMessage, IInv, Counted
<1> DEFINE mm == [memory[s] EXCEPT ![Name(in[s])] = <<"from", number[s]>>,
                                   ![Text(in[s])] = <<"text", number[s]>>]
<1>6. memory' = [memory EXCEPT ![s] = mm]
  BY <1>1, <1>2 DEF IInv, TypeOK
<1>7. mm \in [Cells -> Contents]
  BY <1>2, PlaceCells DEF Contents
<1>8. After(in[s]) \in Places /\ (number[s] + 1) % (2 * RB + 2) \in Numbers
  <2>1. RB \in Nat \ {0}
    BY SlotsAssumption
  <2>2. After(in[s]) \in Places
    BY <1>2, <2>1 DEF After, Places
  <2>3. \A x \in Nat : x % (2 * RB + 2) \in 0..2 * RB + 1
    BY <2>1
  <2>4. number[s] + 1 \in Nat
    BY <1>2, <2>1 DEF Numbers
  <2> QED
    BY <2>2, <2>3, <2>4 DEF Numbers
<1>9. Append(owed[s], number[s]) \in Seq(Numbers)
  BY <1>2, AppendProperties
<1>10. TypeOK'
  <2>1. in' \in [Slots -> Places] /\ number' \in [Slots -> Numbers] /\ owed' \in [Slots -> Seq(Numbers)]
    BY <1>1, <1>8, <1>9 DEF IInv, TypeOK
  <2>2. memory' \in [Slots -> [Cells -> Contents]]
    BY <1>6, <1>7 DEF IInv, TypeOK
  <2> QED
    BY <1>4, <2>1, <2>2 DEF SendMessage, IInv, TypeOK, clientVars
<1>11. Rings'
  <2>1. Ring(TRUE, After(in[s]), out[s], Append(owed[s], number[s]), mm)
    <3>1. Ring(reg[s].ismsg, in[s], out[s], owed[s], memory[s]) /\ reg[s].ismsg \in BOOLEAN
      BY <1>2 DEF IInv, Rings, RecordTypes
    <3> QED
      BY <1>1, <1>2, <3>1, RingSend DEF Full
  <2>2. out' = out
    BY DEF SendMessage
  <2>3. /\ reg'[s].ismsg = TRUE /\ in'[s] = After(in[s]) /\ out'[s] = out[s]
        /\ owed'[s] = Append(owed[s], number[s]) /\ memory'[s] = mm
    BY <1>1, <1>2, <1>3, <1>4, <1>6, <2>2 DEF IInv, TypeOK
  <2>4. \A q \in Slots : q # s => /\ reg'[q].ismsg = reg[q].ismsg /\ in'[q] = in[q] /\ out'[q] = out[q]
                                  /\ owed'[q] = owed[q] /\ memory'[q] = memory[q]
    BY <1>1, <1>2, <1>4, <1>6, <2>2 DEF IInv, TypeOK
  <2> QED
    BY ZenonT(30), <2>1, <2>3, <2>4 DEF IInv, Rings
<1> QED
  BY <1>4, <1>5, <1>10, <1>11 DEF IInv

LEMMA ReadMessageStep ==
  ASSUME IInv, NEW c \in Clients, ReadMessage(c)
  PROVE  IInv'
<1>1. PICK s \in Find(c) :
        /\ reg[s].ismsg
        /\ out' = [out EXCEPT ![s] = After(out[s])]
        /\ Heard(s, [reg[s] EXCEPT !.ismsg = After(out[s]) # in[s]])
        /\ owed' = [owed EXCEPT ![s] = Tail(@)]
  BY DEF ReadMessage
<1>2. /\ s \in Slots /\ reg[s] \in RecordTypes /\ in[s] \in Places /\ out[s] \in Places
      /\ owed[s] \in Seq(Numbers) /\ reg[s].ismsg = TRUE
  BY <1>1, FindRecord DEF IInv, TypeOK, RecordTypes
<1>3. PICK r \in RecordTypes : /\ reg' = [reg EXCEPT ![s] = r]
                               /\ r.pid = reg[s].pid /\ r.istcp = reg[s].istcp
                               /\ r.ismsg = (After(out[s]) # in[s])
                               /\ r.paging = reg[s].paging /\ r.haspaged = reg[s].haspaged
  <2> DEFINE r == [[reg[s] EXCEPT !.ismsg = After(out[s]) # in[s]] EXCEPT !.late = FALSE]
  <2>1. r \in RecordTypes /\ r.pid = reg[s].pid /\ r.istcp = reg[s].istcp
        /\ r.ismsg = (After(out[s]) # in[s])
        /\ r.paging = reg[s].paging /\ r.haspaged = reg[s].haspaged
    BY <1>2 DEF RecordTypes
  <2> QED
    BY <1>1, <2>1 DEF Heard
<1>4. /\ reg' \in [Slots -> RecordTypes]
      /\ reg'[s] = r /\ \A q \in Slots : q # s => reg'[q] = reg[q]
      /\ Registered' /\ MailerSlots' = MailerSlots /\ TcpSlots' = TcpSlots /\ PagedOnce'
  BY <1>2, <1>3, OneRecord DEF ReadMessage, clientVars
<1>5. Counted'
  BY <1>4 DEF ReadMessage, IInv, Counted
<1>6. Ring(TRUE, in[s], out[s], owed[s], memory[s])
  BY <1>2 DEF IInv, Rings
<1>7. Ring(After(out[s]) # in[s], in[s], After(out[s]), Tail(owed[s]), memory[s])
  BY <1>2, <1>6, RingRead
<1>8. After(out[s]) \in Places /\ Tail(owed[s]) \in Seq(Numbers)
  <2>1. owed[s] # <<>>
    BY <1>6 DEF Ring
  <2>2. RB \in Nat \ {0}
    BY SlotsAssumption
  <2>3. After(out[s]) \in Places
    BY <1>2, <2>2 DEF After, Places
  <2> QED
    BY <1>2, <2>1, <2>3, HeadTailProperties
<1>9. TypeOK'
  <2>1. out' \in [Slots -> Places] /\ owed' \in [Slots -> Seq(Numbers)]
    BY <1>1, <1>8 DEF IInv, TypeOK
  <2> QED
    BY <1>4, <2>1 DEF ReadMessage, IInv, TypeOK, clientVars
<1>10. Rings'
  <2>1. in' = in /\ memory' = memory
    BY DEF ReadMessage
  <2>2. /\ reg'[s].ismsg = (After(out[s]) # in[s]) /\ in'[s] = in[s] /\ out'[s] = After(out[s])
        /\ owed'[s] = Tail(owed[s]) /\ memory'[s] = memory[s]
    BY <1>1, <1>2, <1>3, <1>4, <2>1 DEF IInv, TypeOK
  <2>3. \A q \in Slots : q # s => /\ reg'[q].ismsg = reg[q].ismsg /\ in'[q] = in[q] /\ out'[q] = out[q]
                                  /\ owed'[q] = owed[q] /\ memory'[q] = memory[q]
    BY <1>1, <1>2, <1>4, <2>1 DEF IInv, TypeOK
  <2> QED
    BY <1>7, <2>2, <2>3 DEF IInv, Rings
<1> QED
  BY <1>4, <1>5, <1>9, <1>10 DEF IInv

LEMMA PageStep ==
  ASSUME IInv, NEW c \in Clients, Page(c)
  PROVE  IInv'
<1>1. PICK s \in Find(c) :
        /\ reg' = [reg EXCEPT ![s] = [[reg[s] EXCEPT !.paging = TRUE] EXCEPT !.late = FALSE]]
        /\ memory' = [memory EXCEPT ![s][<<"reason", 0>>] = <<"reason", 0>>]
  BY DEF Page, Heard
<1>2. /\ s \in Slots /\ reg[s].pid = c /\ c # Free
      /\ reg[s] \in RecordTypes /\ out[s] \in Places
      /\ memory[s] \in [Cells -> Contents] /\ owed[s] \in Seq(Numbers)
  BY FindRecord, ClientsNotFree DEF IInv, TypeOK
<1> DEFINE r == [[reg[s] EXCEPT !.paging = TRUE] EXCEPT !.late = FALSE]
           mm == [memory[s] EXCEPT ![<<"reason", 0>>] = <<"reason", 0>>]
<1>3. r \in RecordTypes /\ r.pid = reg[s].pid /\ r.istcp = reg[s].istcp /\ r.ismsg = reg[s].ismsg
  BY <1>2 DEF RecordTypes
<1>4. /\ reg' \in [Slots -> RecordTypes]
      /\ reg'[s] = r /\ \A q \in Slots : q # s => reg'[q] = reg[q]
      /\ Registered' /\ MailerSlots' = MailerSlots /\ TcpSlots' = TcpSlots
  BY <1>1, <1>2, <1>3, OneRecord DEF Page, clientVars
<1>5. Counted'
  BY <1>4 DEF Page, IInv, Counted
<1>6. PagedOnce'
  <2>1. Records(LAMBDA x : x.pid # c /\ (x.paging \/ x.haspaged)) = {}
    BY DEF Page, Busy
  <2>2. \A q \in Slots : reg[q].pid # Free /\ reg[q].pid # c => ~ (reg[q].paging \/ reg[q].haspaged)
    BY <2>1 DEF Records
  <2>3. \A q \in Slots : q # s => reg[q].pid # c
    BY <1>2 DEF IInv, Registered
  <2>4. PagerSlots' \subseteq {s}
    BY <1>4, <2>2, <2>3 DEF PagerSlots
  <2> QED
    BY <2>4 DEF PagedOnce
<1>7. memory' = [memory EXCEPT ![s] = mm] /\ mm \in [Cells -> Contents]
  BY <1>1, <1>2 DEF IInv, TypeOK, Contents
<1>8. TypeOK'
  BY <1>4, <1>7 DEF Page, IInv, TypeOK, clientVars
<1>9. Rings'
  <2>1. Ring(reg[s].ismsg, in[s], out[s], owed[s], mm)
    BY <1>2, RingPage DEF IInv, Rings
  <2>2. in' = in /\ out' = out /\ owed' = owed
    BY DEF Page
  <2>3. reg'[s].ismsg = reg[s].ismsg /\ memory'[s] = mm
    BY <1>2, <1>3, <1>4, <1>7 DEF IInv, TypeOK
  <2>4. \A q \in Slots : q # s => reg'[q].ismsg = reg[q].ismsg /\ memory'[q] = memory[q]
    BY <1>2, <1>4, <1>7 DEF IInv, TypeOK
  <2> QED
    BY <2>1, <2>2, <2>3, <2>4 DEF IInv, Rings
<1> QED
  BY <1>4, <1>5, <1>6, <1>8, <1>9 DEF IInv

--------------------------------------------------------------------------------
(* The checks, and the clients that fail. *)

LEMMA RegCheckStep ==
  ASSUME IInv, RegCheck
  PROVE  IInv'
<1>1. /\ Gone = {s \in Slots : reg[s].pid # Free /\ alive[reg[s].pid] = "dead"}
      /\ Late = {s \in Slots : reg[s].pid # Free /\ alive[reg[s].pid] # "dead" /\ reg[s].late}
  BY DEF Gone, Late, Records
<1>2. /\ reg \in [Slots -> RecordTypes]
      /\ in \in [Slots -> Places] /\ out \in [Slots -> Places]
      /\ memory \in [Slots -> [Cells -> Contents]]
      /\ owed \in [Slots -> Seq(Numbers)] /\ number \in [Slots -> Numbers]
      /\ alive \in [Clients -> {"off", "on", "dying", "hung", "dead"}]
  BY DEF IInv, TypeOK
<1>3. \A s \in Gone : reg'[s] = Empty
  BY <1>1 DEF RegCheck
<1>4. ASSUME NEW s \in Slots, s \notin Gone
      PROVE  /\ reg'[s] \in RecordTypes
             /\ reg'[s].pid = reg[s].pid /\ reg'[s].istcp = reg[s].istcp /\ reg'[s].ismsg = reg[s].ismsg
             /\ reg'[s].paging = reg[s].paging /\ reg'[s].haspaged = reg[s].haspaged
  <2>1. reg[s] \in RecordTypes
    BY <1>2
  <2>2. reg'[s] = IF s \in Late THEN [reg[s] EXCEPT !.late = FALSE, !.short = TRUE] ELSE reg[s]
    BY <1>4 DEF RegCheck
  <2> QED
    BY <2>1, <2>2 DEF RecordTypes
<1>5. reg' \in [Slots -> RecordTypes]
  <2>1. \A s \in Slots : reg'[s] \in RecordTypes
    BY <1>3, <1>4, EmptyRecord
  <2>2. reg' = [s \in Slots |-> reg'[s]]
    BY DEF RegCheck
  <2> QED
    BY <2>1, <2>2
<1>6. Empty.pid = Free /\ Empty.ismsg = FALSE
  BY DEF Empty
<1>7. /\ alive' \in [Clients -> {"off", "on", "dying", "hung", "dead"}]
      /\ \A c \in Clients : alive'[c] = "off" /\ alive[c] # "off" => \E s \in Gone : reg[s].pid = c
  <2> DEFINE new(c) == CASE \E s \in Gone : reg[s].pid = c -> "off"
                         [] \E s \in Late : reg[s].pid = c ->
                              Signal(c, \E s \in Late : reg[s].pid = c /\ reg[s].short)
                         [] OTHER -> alive[c]
  <2>1. \A c \in Clients : (\E s \in Gone : reg[s].pid = c) => ~ \E s \in Late : reg[s].pid = c
    BY <1>1
  <2>2. ASSUME NEW c \in Clients
        PROVE  /\ new(c) \in {"off", "on", "dying", "hung", "dead"}
               /\ new(c) = "off" /\ alive[c] # "off" => \E s \in Gone : reg[s].pid = c
    <3>1. Signal(c, \E s \in Late : reg[s].pid = c /\ reg[s].short) \in {"dead", "hung", "dying"}
      BY DEF Signal
    <3>2. CASE \E s \in Gone : reg[s].pid = c
      <4>1. new(c) = "off"
        BY <2>1, <3>2
      <4> QED
        BY <3>2, <4>1
    <3>3. CASE (~ \E s \in Gone : reg[s].pid = c) /\ \E s \in Late : reg[s].pid = c
      <4>1. new(c) = Signal(c, \E s \in Late : reg[s].pid = c /\ reg[s].short)
        BY <3>3
      <4> QED
        BY <3>1, <4>1
    <3>4. CASE (~ \E s \in Gone : reg[s].pid = c) /\ ~ \E s \in Late : reg[s].pid = c
      <4>1. new(c) = alive[c]
        BY <3>4
      <4> QED
        BY <1>2, <4>1
    <3> QED
      BY <3>2, <3>3, <3>4
  <2>3. alive' = [c \in Clients |-> new(c)]
    BY DEF RegCheck
  <2> HIDE DEF new
  <2> QED
    BY <2>2, <2>3
<1>8. Registered'
  <2>1. \A s \in Slots : reg'[s].pid # Free => s \notin Gone /\ reg'[s].pid = reg[s].pid /\ reg[s].pid \in Clients
    BY <1>2, <1>3, <1>4, <1>6 DEF RecordTypes
  <2>2. \A s \in Slots : reg'[s].pid # Free => alive'[reg'[s].pid] # "off"
    <3> SUFFICES ASSUME NEW s \in Slots, reg'[s].pid # Free, alive'[reg'[s].pid] = "off"
                 PROVE  FALSE
      OBVIOUS
    <3>1. s \notin Gone /\ reg'[s].pid = reg[s].pid /\ reg[s].pid \in Clients /\ reg[s].pid # Free
      BY <2>1
    <3>2. alive[reg[s].pid] # "off"
      BY <3>1 DEF IInv, Registered
    <3>3. PICK q \in Gone : reg[q].pid = reg[s].pid
      BY <1>7, <3>1, <3>2
    <3>4. q = s
      BY <1>1, <3>1, <3>3 DEF IInv, Registered
    <3> QED
      BY <3>1, <3>4
  <2>3. \A r, s \in Slots : reg'[r].pid # Free /\ reg'[r].pid = reg'[s].pid => r = s
    BY <2>1 DEF IInv, Registered
  <2> QED
    BY <2>2, <2>3 DEF Registered
<1>9. Counted' /\ mailers' \in Nat /\ ipmailers' \in Nat
  <2>1. Gone \in SUBSET Slots /\ \A s \in Gone : reg[s].pid # Free
    BY <1>1
  <2>2. \A s \in Slots \ Gone : reg'[s].pid = reg[s].pid /\ reg'[s].istcp = reg[s].istcp
    BY <1>4
  <2>3. Drop(Gone)
    BY DEF RegCheck
  <2> HIDE DEF Gone
  <2> QED
    BY <1>3, <2>1, <2>2, <2>3, Dropped
<1>10. PagedOnce'
  <2>1. PagerSlots' \subseteq PagerSlots
    BY <1>3, <1>4, <1>6 DEF PagerSlots
  <2> QED
    BY <2>1 DEF IInv, PagedOnce
<1>11. /\ in' \in [Slots -> Places] /\ out' \in [Slots -> Places]
       /\ memory' \in [Slots -> [Cells -> Contents]]
       /\ owed' \in [Slots -> Seq(Numbers)] /\ number' \in [Slots -> Numbers]
  <2>1. 0 \in Places /\ 0 \in Numbers /\ <<>> \in Seq(Numbers)
    BY SlotsAssumption, EmptySeq DEF Places, Numbers
  <2>2. Cleared \in [Cells -> Contents]
    BY DEF Cleared, Contents
  <2>3. in' \in [Slots -> Places] /\ out' \in [Slots -> Places] /\ number' \in [Slots -> Numbers]
    BY <1>2, <2>1 DEF RegCheck
  <2>4. memory' \in [Slots -> [Cells -> Contents]]
    BY <1>2, <2>2 DEF RegCheck
  <2>5. owed' \in [Slots -> Seq(Numbers)]
    BY <1>2, <2>1 DEF RegCheck
  <2> QED
    BY <2>3, <2>4, <2>5
<1>12. TypeOK'
  BY <1>5, <1>7, <1>9, <1>11 DEF RegCheck, IInv, TypeOK
<1>13. Rings'
  <2>1. ASSUME NEW s \in Slots
        PROVE  Ring(reg'[s].ismsg, in'[s], out'[s], owed'[s], memory'[s])
    <3>1. CASE s \in Gone
      <4>1. reg'[s].ismsg = FALSE /\ in'[s] = 0 /\ out'[s] = 0 /\ owed'[s] = <<>>
        BY <1>3, <1>6, <3>1 DEF RegCheck
      <4> QED
        BY <4>1, RingEmpty
    <3>2. CASE s \notin Gone
      <4>1. /\ reg'[s].ismsg = reg[s].ismsg /\ in'[s] = in[s] /\ out'[s] = out[s]
            /\ owed'[s] = owed[s] /\ memory'[s] = memory[s]
        BY <1>4, <3>2 DEF RegCheck
      <4> QED
        BY <4>1 DEF IInv, Rings
    <3> QED
      BY <3>1, <3>2
  <2> QED
    BY <2>1 DEF Rings
<1> QED
  BY <1>8, <1>9, <1>10, <1>12, <1>13 DEF IInv

\* A client that hangs or dies keeps its record; the sysop is in none.
LEMMA NoRecord ==
  ASSUME IInv, UNCHANGED <<reg, mailers, ipmailers, msgVars>>,
         failures' \in 0..MaxFail, sysop_present' \in BOOLEAN,
         alive' \in [Clients -> {"off", "on", "dying", "hung", "dead"}],
         \A c \in Clients : alive'[c] = "off" => alive[c] = "off"
  PROVE  IInv'
<1>1. TypeOK'
  BY DEF IInv, TypeOK, msgVars
<1>2. Registered'
  <2>1. \A s \in Slots : reg[s].pid # Free => reg[s].pid \in Clients
    BY DEF IInv, TypeOK, RecordTypes
  <2> QED
    BY <2>1 DEF IInv, Registered
<1>3. Counted' /\ PagedOnce'
  BY DEF IInv, Counted, PagedOnce, MailerSlots, TcpSlots, PagerSlots
<1>4. Rings'
  BY SameRings
<1> QED
  BY <1>1, <1>2, <1>3, <1>4 DEF IInv

LEMMA FailStep ==
  ASSUME IInv, NEW c \in Clients, Fail(c)
  PROVE  IInv'
<1>1. failures' \in 0..MaxFail
  BY SlotsAssumption DEF Fail, IInv, TypeOK
<1>2. /\ alive' \in [Clients -> {"off", "on", "dying", "hung", "dead"}]
      /\ \A d \in Clients : alive'[d] = "off" => alive[d] = "off"
  BY DEF Fail, IInv, TypeOK
<1>3. sysop_present' \in BOOLEAN
  BY DEF Fail, IInv, TypeOK
<1> QED
  BY <1>1, <1>2, <1>3, NoRecord DEF Fail, regVars

LEMMA SysopStep ==
  ASSUME IInv, Sysop
  PROVE  IInv'
<1>1. sysop_present' \in BOOLEAN
  BY DEF Sysop, IInv, TypeOK
<1> QED
  BY <1>1, NoRecord DEF Sysop, regVars, clientVars, IInv, TypeOK

LEMMA NextInv == IInv /\ [Next]_vars => IInv'
<1> SUFFICES ASSUME IInv, [Next]_vars
             PROVE  IInv'
  OBVIOUS
<1>1. ASSUME NEW c \in Clients, Command(c)
      PROVE  IInv'
  BY <1>1, NewConStep, CloseConStep, NopStep, TimerStep, RegIpStep, SetSilentStep,
     SendMessageStep, ReadMessageStep, PageStep, CancelStep, SysopTalkStep DEF Command
<1>2. ASSUME NEW c \in Clients, Quiet(c)
      PROVE  IInv'
  BY <1>2, QuietStep
<1>3. ASSUME NEW c \in Clients, Fail(c)
      PROVE  IInv'
  BY <1>3, FailStep
<1>4. CASE Sysop
  BY <1>4, SysopStep
<1>5. CASE RegCheck
  BY <1>5, RegCheckStep
<1>6. CASE UNCHANGED vars
  BY <1>6, NoRecord DEF vars, regVars, clientVars, IInv, TypeOK
<1> QED
  BY <1>1, <1>2, <1>3, <1>4, <1>5, <1>6 DEF Next

\* The inductive invariant of mbtask's registrations: the counters count the mailers that
\* are registered, at most one user pages, and the ring of each user has his messages.
THEOREM Invariance == Spec => []IInv
<1> QED
  BY InitInv, NextInv, PTL DEF Spec

--------------------------------------------------------------------------------
(* What follows from it. *)

\* The variables have their types: no command and no timer takes the position of a client,
\* the pointers of a ring or the counters outside the tables of taskregs.c.
THEOREM TypeCorrect == Spec => []TypeOK
<1>1. IInv => TypeOK
  BY DEF IInv
<1> QED
  BY <1>1, Invariance, PTL

\* mbtask's counters of mailers and of TCP/IP sessions, by which it starts calls
\* and programs, are those of the clients that are registered, however these end.
THEOREM CountersAreTrue == Spec => []CountersTrue
<1>1. IInv => CountersTrue
  <2> SUFFICES ASSUME IInv
               PROVE  CountersTrue
    OBVIOUS
  <2>1. Free \notin Mailers
    BY SlotsAssumption DEF Clients
  <2>2. Records(LAMBDA r : r.pid \in Mailers) = MailerSlots
    BY <2>1 DEF Records, MailerSlots
  <2>3. Records(LAMBDA r : r.istcp) = TcpSlots
    BY DEF Records, TcpSlots
  <2> QED
    BY <2>2, <2>3 DEF IInv, Counted, CountersTrue
<1> QED
  BY <1>1, Invariance, PTL

\* No more than one user pages the sysop or has paged him (reg_page()).
THEOREM OnePagerAtATime == Spec => []OnePager
<1>1. IInv => OnePager
  <2> SUFFICES ASSUME IInv
               PROVE  OnePager
    OBVIOUS
  <2>1. Records(LAMBDA r : r.paging \/ r.haspaged) = PagerSlots
    BY DEF Records, PagerSlots
  <2>2. CASE PagerSlots = {}
    BY <2>1, <2>2, FS_EmptySet DEF OnePager
  <2>3. CASE PagerSlots # {}
    <3>1. PICK s : PagerSlots = {s}
      BY <2>3 DEF IInv, PagedOnce
    <3>2. Cardinality({s}) = 1
      BY FS_Singleton
    <3> QED
      BY <2>1, <3>1, <3>2 DEF OnePager
  <2> QED
    BY <2>2, <2>3
<1> QED
  BY <1>1, Invariance, PTL

\* The messages that were accepted for a user wait until he reads them, in the
\* order they came in, and as they were sent where their places do not overlap
\* (reg_spm() and reg_ipm_r()).
THEOREM MessagesAreKept == Spec => []MessagesKept
<1>1. IInv => MessagesKept
  <2> SUFFICES ASSUME IInv, NEW s \in Slots
               PROVE  /\ reg[s].ismsg <=> owed[s] # <<>>
                      /\ in[s] = (out[s] + Len(owed[s])) % (RB + 1)
                      /\ \A k \in DOMAIN owed[s] :
                           /\ Name(Place(s, k)) \notin Overwritten(s, k) =>
                                memory[s][Name(Place(s, k))] = <<"from", owed[s][k]>>
                           /\ Text(Place(s, k)) \notin Overwritten(s, k) =>
                                memory[s][Text(Place(s, k))] = <<"text", owed[s][k]>>
    BY DEF MessagesKept
  <2>1. Ring(reg[s].ismsg, in[s], out[s], owed[s], memory[s])
    BY DEF IInv, Rings
  <2>2. out[s] \in Places /\ owed[s] \in Seq(Numbers) /\ RB \in Nat \ {0}
    BY SlotsAssumption DEF IInv, TypeOK
  <2>3. in[s] = (out[s] + Len(owed[s])) % (RB + 1)
    <3>1. PICK x \in 0..2 * RB + 1 : x = out[s] + Len(owed[s])
      BY <2>1, <2>2 DEF Ring, Places
    <3> QED
      BY <2>1, <3>1, Round DEF Ring
  <2>4. ASSUME NEW k \in 1..Len(owed[s])
        PROVE  Place(s, k) = Spot(out[s], k)
    <3>1. PICK x \in 0..2 * RB + 1 : x = out[s] + k - 1
      BY <2>1, <2>2 DEF Ring, Places
    <3> QED
      BY <3>1, Round DEF Place, Spot
  <2>5. ASSUME NEW k \in 1..Len(owed[s]), NEW x, Later(out[s], owed[s], k, x)
        PROVE  x \in Overwritten(s, k)
    <3>1. ASSUME NEW j \in k + 1..Len(owed[s]), x \in {Name(Spot(out[s], j)), Text(Spot(out[s], j))}
          PROVE  x \in {Name(Place(s, j)), Text(Place(s, j))}
      <4>1. j \in 1..Len(owed[s])
        BY <2>2
      <4> QED
        BY <2>4, <3>1, <4>1
    <3> QED
      BY <2>5, <3>1 DEF Later, Overwritten
  <2>6. \A k \in DOMAIN owed[s] : k \in 1..Len(owed[s]) /\ Intact(out[s], owed[s], memory[s], k)
    BY <2>1, <2>2 DEF Ring
  <2> QED
    BY <2>1, <2>3, <2>4, <2>5, <2>6 DEF Ring, Intact
<1> QED
  BY <1>1, Invariance, PTL
================================================================================
