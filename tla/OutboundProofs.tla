----------------------------- MODULE OutboundProofs -----------------------------
(***************************************************************************)
(* What the queue, the flo file and the mailer guarantee for any number of *)
(* mail packets, announcements, archives of a day, half days and mishaps:  *)
(* mail leaves an archive only when it has arrived or when it is removed   *)
(* as what the model names damage, no mail is stranded in an archive that  *)
(* no session sends, and the tic file of the last announcement of a file   *)
(* is not lost. And what the lock gives by which mbfido and the mailer     *)
(* exclude each other, NodeLock.                                           *)
(***************************************************************************)
EXTENDS Outbound, NodeLock, SequenceTheorems, FiniteSetTheorems, WellFoundedInduction, TLAPS

(* The inductive invariant. *)

FlushType ==
  [pc : {"idle", "choose", "pack", "unlink", "attach", "files"}, now : 0..MaxTick,
   arc : 0..MaxNr, nr : 0..MaxNr, oldnr : 0..MaxNr, attach : BOOLEAN,
   todo : SUBSET Packets, line : 0..2 * MaxTics + 1]
SessionType == [pc : {"idle", "sending", "got", "marked", "disposed"}, todo : SUBSET Things, file : Things]
ArchiveType == [there : BOOLEAN, mail : SUBSET Packets, stamp : 0..MaxTick]
LineType == [file : Things, sent : BOOLEAN]

\* TypeOK with its types named.
Types ==
  /\ posted \in [packets : 0..MaxPackets, tics : 0..MaxTics]
  /\ queue \subseteq Packets
  /\ filelist \in Seq({File} \cup Tics)
  /\ archive \in [Archives -> ArchiveType]
  /\ tics \subseteq Tics
  /\ flo \in Seq(LineType)
  /\ tick \in 0..MaxTick
  /\ flush \in FlushType
  /\ session \in SessionType
  /\ arrived \subseteq Packets \cup Tics
  /\ mishaps \in 0..MaxMishaps
  /\ damaged \subseteq Packets \cup Archives \cup Tics
  /\ \A a \in Archives : HasMail(a) => Exists(a)

\* mbfido and the mailer exclude each other with the node lock.
Turns == flush.pc # "idle" => session.pc = "idle"

\* flush_dir() works on a packet that is there, and adds it to an archive without a new
\* line only when that has one.
Flushing ==
  /\ flush.pc \in {"choose", "pack", "unlink", "attach"} => flush.todo # {}
  /\ flush.pc = "choose" => ~ flush.attach /\ flush.nr = flush.oldnr
  /\ flush.pc = "attach" => flush.attach
  /\ flush.pc = "unlink" => Packet \in archive[Arc(flush.arc)].mail \cup arrived \cup damaged
  /\ \A a \in Archives : flush.pc \in {"pack", "unlink"} /\ ~ flush.attach /\ a = Arc(flush.arc) =>
       Unsent(a) \/ a \in damaged
  /\ flush.pc = "files" => flush.line \in 1..Len(filelist) + 1

\* What the mailer disposes of has arrived.
Sending ==
  /\ session.pc \in {"got", "marked"} /\ session.file \in Archives =>
       archive[session.file].mail \subseteq arrived
  /\ session.pc \in {"got", "marked", "disposed"} /\ session.file \in Tics => session.file \in arrived

\* Mail is somewhere, and archives with mail are going to be sent.
MailSomewhere ==
  \A p \in Packets :
    p[2] > posted.packets \/ p \in queue \cup arrived \cup damaged \/ \E a \in Archives : p \in archive[a].mail
ArchivesSent == \A a \in Archives : HasMail(a) => WillBeSent(a)

\* The tic file of the last announcement.
Latest == <<"tic", posted.tics>>
Safe(t) == t \in arrived \cup damaged \/ (t \in tics /\ Unsent(t))
Done == flush.pc = "files" /\ flush.line > Len(filelist)

\* It is the last line of .filelist, and is attached when that is done: before, it has
\* no line unless mbfido was killed behind it.
Listed ==
  /\ Len(filelist) <= 2 * posted.tics
  /\ \A k \in posted.tics + 1..MaxTics :
       /\ \A i \in DOMAIN filelist : filelist[i] # <<"tic", k>>
       /\ \A i \in DOMAIN flo : flo[i].file # <<"tic", k>>
  /\ filelist # <<>> => posted.tics > 0
  /\ \A t \in Tics : t = Latest /\ filelist # <<>> =>
       /\ filelist[Len(filelist)] = t /\ \A i \in 1..Len(filelist) - 1 : filelist[i] # t
       /\ IF Done THEN Safe(t) ELSE t \in damaged \/ \A i \in DOMAIN flo : flo[i].file # t

TicKept ==
  \A t \in Tics : t = Latest => Safe(t) \/ (t \in tics /\ \E i \in DOMAIN filelist : filelist[i] = t)

\* scan_dir() has seen no mail in an archive that it removes as truncated.
Scanning ==
  /\ scan \in [pc : {"idle", "time", "size", "unlink", "toss"}, file : Archives, week : BOOLEAN,
               toss : BOOLEAN, seen : SUBSET Packets, count : 0..MaxScans]
  /\ scan.pc = "unlink" => scan.seen = {}

IInv ==
  /\ Types /\ Turns /\ Flushing /\ Sending
  /\ MailSomewhere /\ ArchivesSent
  /\ Listed /\ TicKept

--------------------------------------------------------------------------------
(* Names, and the first of some. *)

\* Packets, archives, tic files and the file have names of their own.
LEMMA Names ==
  /\ Packets \cap Archives = {} /\ Packets \cap Tics = {} /\ Archives \cap Tics = {}
  /\ File \notin Archives /\ File \notin Tics
  /\ \A k, l : <<"tic", k>> = <<"tic", l>> <=> k = l
  /\ \A k : <<"tic", k>> # File /\ <<"tic", k>> \notin Archives /\ (<<"tic", k>> \in Tics <=> k \in 1..MaxTics)
<1>1. Packets \cap Archives = {} /\ Packets \cap Tics = {} /\ Archives \cap Tics = {}
  BY DEF Packets, Archives, Tics
<1>2. File \notin Archives /\ File \notin Tics
  BY DEF File, Archives, Tics
<1>3. \A k, l : <<"tic", k>> = <<"tic", l>> <=> k = l
  OBVIOUS
<1>4. \A k : <<"tic", k>> # File /\ <<"tic", k>> \notin Archives
  BY DEF File, Archives
<1>5. \A k : <<"tic", k>> \in Tics <=> k \in 1..MaxTics
  BY DEF Tics
<1> QED
  BY <1>1, <1>2, <1>3, <1>4, <1>5

LEMMA LeastNatural ==
  ASSUME NEW T \in SUBSET Nat, T # {}
  PROVE  \E x \in T : \A y \in T : x <= y
<1>1. PICK x \in T : \A y \in T : ~ (<<y, x>> \in OpToRel(<, Nat))
  BY WFMin, NatLessThanWellFounded, Zenon
<1>2. ASSUME NEW y \in T, y < x
      PROVE  FALSE
  <2>1. <<y, x>> \in OpToRel(<, Nat)
    BY <1>2 DEF OpToRel
  <2> QED
    BY <1>1, <2>1
<1> QED
  BY <1>2

\* flush_dir() takes the packets in turn.
LEMMA PacketChosen ==
  ASSUME flush.todo \in SUBSET Packets, flush.todo # {}
  PROVE  Packet \in flush.todo
<1> DEFINE N == {p[2] : p \in flush.todo}
<1>1. N \in SUBSET Nat /\ N # {}
  BY BoundsAssumption DEF Packets
<1>2. PICK n \in N : \A m \in N : n <= m
  BY <1>1, LeastNatural
<1>3. \E p \in flush.todo : \A q \in flush.todo : p[2] <= q[2]
  BY <1>2
<1> QED
  BY <1>3 DEF Packet

LEMMA FirstUnsentLine ==
  ASSUME flo \in Seq(LineType), NEW f
  PROVE  /\ FirstUnsent(f) \in Nat
         /\ FirstUnsent(f) # 0 => FirstUnsent(f) \in DOMAIN flo /\ flo[FirstUnsent(f)] = Line(f)
<1> DEFINE I == {i \in 1..Len(flo) : flo[i] = Line(f)}
<1>1. FirstUnsent(f) = IF I # {} THEN Min(I) ELSE 0
  BY DEF FirstUnsent, SelectInSeq
<1>2. ASSUME I # {}
      PROVE  Min(I) \in I
  <2>1. I \in SUBSET Nat
    OBVIOUS
  <2>2. \E x \in I : \A y \in I : x <= y
    BY <1>2, <2>1, LeastNatural
  <2> QED
    BY <2>2 DEF Min
<1>3. DOMAIN flo = 1..Len(flo)
  OBVIOUS
<1> QED
  BY <1>1, <1>2, <1>3

--------------------------------------------------------------------------------
(* The lines of the flo file. *)

LEMMA MarkedLines ==
  ASSUME flo \in Seq(LineType), NEW S, flo' = Marked(flo, S)
  PROVE  /\ flo' \in Seq(LineType)
         /\ DOMAIN flo' = DOMAIN flo /\ \A i \in DOMAIN flo : flo'[i].file = flo[i].file
         /\ \A f : f \notin S /\ Unsent(f) => Unsent(f)'
<1>1. DOMAIN flo = 1..Len(flo) /\ Len(flo) \in Nat /\ \A i \in DOMAIN flo : flo[i] \in LineType
  OBVIOUS
<1>2. \A i \in DOMAIN flo : (IF flo[i].file \in S THEN [flo[i] EXCEPT !.sent = TRUE] ELSE flo[i]) \in LineType
  BY <1>1 DEF LineType
<1>3. flo' \in [1..Len(flo) -> LineType]
  BY <1>1, <1>2 DEF Marked
<1>4. flo' \in Seq(LineType)
  BY <1>1, <1>3
<1>5. \A i \in DOMAIN flo : flo'[i].file = flo[i].file
  BY <1>1 DEF Marked, LineType
<1>6. \A f : f \notin S /\ Unsent(f) => Unsent(f)'
  <2> SUFFICES ASSUME NEW f, f \notin S, NEW i \in DOMAIN flo, flo[i] = Line(f)
               PROVE  flo'[i] = Line(f)
    BY <1>3, <1>1 DEF Unsent, Line
  <2>1. flo[i].file = f
    BY DEF Line
  <2> QED
    BY <2>1 DEF Marked
<1> QED
  BY <1>1, <1>3, <1>4, <1>5, <1>6

LEMMA TidiedLines ==
  ASSUME flo \in Seq(LineType), flo' = Tidied(flo)
  PROVE  /\ flo' \in Seq(LineType)
         /\ \A i \in DOMAIN flo' : i \in DOMAIN flo /\ flo'[i].file = flo[i].file
         /\ \A f : Unsent(f) => Unsent(f)'
<1>1. flo' \in {flo, <<>>}
  BY DEF Tidied
<1>2. ASSUME NEW f, Unsent(f)
      PROVE  flo' = flo
  BY <1>2 DEF Unsent, Line, Tidied
<1>3. flo' \in Seq(LineType)
  BY <1>1, EmptySeq
<1>4. \A i \in DOMAIN flo' : i \in DOMAIN flo /\ flo'[i].file = flo[i].file
  <2>1. DOMAIN <<>> = {}
    OBVIOUS
  <2> QED
    BY <1>1, <2>1
<1>5. \A f : Unsent(f) => Unsent(f)'
  BY <1>2 DEF Unsent, Line
<1> QED
  BY <1>3, <1>4, <1>5

LEMMA AddedLine ==
  ASSUME flo \in Seq(LineType), NEW f \in Things, flo' = Append(flo, Line(f))
  PROVE  /\ flo' \in Seq(LineType)
         /\ \A i \in DOMAIN flo' : flo'[i].file = f \/ \E j \in DOMAIN flo : flo'[i].file = flo[j].file
         /\ Unsent(f)' /\ \A g : Unsent(g) => Unsent(g)'
<1>1. Line(f) \in LineType /\ Line(f).file = f
  BY DEF Line, LineType
<1>2. /\ flo' \in Seq(LineType) /\ Len(flo') = Len(flo) + 1
      /\ \A i \in 1..Len(flo) : flo'[i] = flo[i]
      /\ flo'[Len(flo) + 1] = Line(f)
  BY <1>1, AppendProperties
<1>3. DOMAIN flo = 1..Len(flo) /\ DOMAIN flo' = 1..Len(flo) + 1
  BY <1>2
<1>4. \A i \in DOMAIN flo' : i \in DOMAIN flo \/ i = Len(flo) + 1
  BY <1>3
<1> QED
  BY <1>1, <1>2, <1>3, <1>4 DEF Unsent

\* Only lines of the file itself and of a tic file are marked when it is attached again.
LEMMA UnattachedLines ==
  ASSUME flo \in Seq(LineType), NEW f, NEW x, x = Unattached(f)
  PROVE  /\ x \in Seq(LineType) /\ Len(x) = Len(flo)
         /\ \A i \in DOMAIN flo : x[i].file = flo[i].file
         /\ \A i \in DOMAIN flo : flo[i].file # File /\ i \notin OldTic(f) => x[i] = flo[i]
<1>1. DOMAIN flo = 1..Len(flo) /\ Len(flo) \in Nat /\ \A i \in DOMAIN flo : flo[i] \in LineType
  OBVIOUS
<1>2. CASE f # File
  BY <1>1, <1>2 DEF Unattached
<1>3. CASE f = File
  <2> DEFINE y == [i \in DOMAIN flo |-> [flo[i] EXCEPT !.sent = @ \/ i = FirstUnsent(f) \/ i \in OldTic(f)]]
  <2>1. x = y
    BY <1>3 DEF Unattached
  <2>2. \A i \in DOMAIN flo : y[i] \in LineType /\ y[i].file = flo[i].file
    BY <1>1 DEF LineType
  <2>3. x \in [1..Len(flo) -> LineType]
    BY <1>1, <2>1, <2>2
  <2>4. x \in Seq(LineType) /\ Len(x) = Len(flo)
    BY <1>1, <2>3
  <2>5. ASSUME NEW i \in DOMAIN flo, flo[i].file # File, i \notin OldTic(f)
        PROVE  x[i] = flo[i]
    <3>1. i # FirstUnsent(f)
      <4>1. PICK n : n = FirstUnsent(f)
        OBVIOUS
      <4>2. n # 0 => flo[n] = Line(f)
        BY <4>1, FirstUnsentLine
      <4>3. i # 0 /\ Line(f).file = File
        BY <1>1, <1>3 DEF Line
      <4> QED
        BY <2>5, <4>1, <4>2, <4>3
    <3>2. y[i] = [flo[i] EXCEPT !.sent = @]
      BY <2>5, <3>1, <1>1 DEF LineType
    <3> QED
      BY <1>1, <2>1, <3>2 DEF LineType
  <2> QED
    BY <2>1, <2>2, <2>4, <2>5
<1> QED
  BY <1>2, <1>3

--------------------------------------------------------------------------------
(* What most steps leave as it is. *)

LEMMA ArcName ==
  ASSUME flush \in FlushType, NEW n \in 0..MaxNr
  PROVE  Arc(n) \in Archives
<1>1. Week \in Nat \ {0} /\ flush.now \in Nat
  BY BoundsAssumption DEF FlushType
<1>2. flush.now \div 2 \in Nat
  BY <1>1
<1>3. \A x \in Nat : x % Week \in 0..Week - 1
  BY <1>1
<1>4. (flush.now \div 2) % Week \in 0..Week - 1
  BY <1>2, <1>3
<1> QED
  BY <1>4 DEF Arc, Archives

\* The mail, where no archive changes and none loses its line.
LEMMA MailFrame ==
  ASSUME IInv, posted' = posted, queue' = queue, \A a \in Archives : archive'[a].mail = archive[a].mail,
         arrived \subseteq arrived', damaged \subseteq damaged',
         \A a \in Archives : HasMail(a) /\ WillBeSent(a) => WillBeSent(a)'
  PROVE  MailSomewhere' /\ ArchivesSent'
<1>1. MailSomewhere'
  BY DEF IInv, MailSomewhere
<1>2. \A a \in Archives : HasMail(a)' <=> HasMail(a)
  BY DEF HasMail
<1>3. ArchivesSent'
  BY <1>2 DEF IInv, ArchivesSent
<1> QED
  BY <1>1, <1>3

\* The tic files.
LEMMA TicFrame ==
  ASSUME IInv, posted'.tics = posted.tics, filelist' = filelist, tics \cap {Latest} \subseteq tics' \cup arrived',
         arrived \subseteq arrived', damaged \cap Tics \subseteq damaged',
         \A i \in DOMAIN flo' : flo'[i].file \in Archives \/ \E j \in DOMAIN flo : flo'[i].file = flo[j].file,
         \A t \in Tics : t = Latest /\ t \in tics /\ Unsent(t) => Unsent(t)' \/ t \in arrived',
         filelist # <<>> => (Done' <=> Done)
  PROVE  Listed' /\ TicKept'
<1>1. Latest' = Latest
  BY DEF Latest
<1>2. ASSUME NEW t \in Tics, t = Latest, Safe(t)
      PROVE  Safe(t)'
  BY <1>2 DEF Safe
<1>3. \A k \in posted'.tics + 1..MaxTics :
        /\ \A i \in DOMAIN filelist' : filelist'[i] # <<"tic", k>>
        /\ \A i \in DOMAIN flo' : flo'[i].file # <<"tic", k>>
  <2> TAKE k \in posted'.tics + 1..MaxTics
  <2>1. /\ \A i \in DOMAIN filelist : filelist[i] # <<"tic", k>>
        /\ \A i \in DOMAIN flo : flo[i].file # <<"tic", k>>
    BY DEF IInv, Listed
  <2>2. <<"tic", k>> \notin Archives
    BY Names
  <2> QED
    BY <2>1, <2>2
<1>4. ASSUME NEW t \in Tics, t = Latest, filelist # <<>>
      PROVE  /\ filelist'[Len(filelist')] = t /\ \A i \in 1..Len(filelist') - 1 : filelist'[i] # t
             /\ IF Done' THEN Safe(t)' ELSE t \in damaged' \/ \A i \in DOMAIN flo' : flo'[i].file # t
  <2>1. filelist[Len(filelist)] = t /\ \A i \in 1..Len(filelist) - 1 : filelist[i] # t
    BY <1>4 DEF IInv, Listed
  <2>2. CASE Done
    <3>1. Safe(t)
      BY <1>4, <2>2 DEF IInv, Listed
    <3> QED
      BY <1>2, <1>4, <2>1, <2>2, <3>1
  <2>3. CASE ~ Done
    <3>1. t \in damaged \/ \A i \in DOMAIN flo : flo[i].file # t
      BY <1>4, <2>3 DEF IInv, Listed
    <3>2. t \notin Archives
      BY Names
    <3>3. t \in damaged' \/ \A i \in DOMAIN flo' : flo'[i].file # t
      BY <3>1, <3>2
    <3> QED
      BY <1>4, <2>1, <2>3, <3>3
  <2> QED
    BY <2>2, <2>3
<1>5. Listed'
  BY <1>1, <1>3, <1>4 DEF IInv, Listed
<1>6. TicKept'
  BY <1>1, <1>2 DEF IInv, TicKept, Safe
<1> QED
  BY <1>5, <1>6

LEMMA InitInv == Init => IInv
<1> SUFFICES ASSUME Init
             PROVE  IInv
  OBVIOUS
<1> USE DEF Init
<1>1. MaxPackets \in Nat /\ MaxTics \in Nat /\ MaxNr \in Nat /\ MaxTick \in Nat /\ MaxMishaps \in Nat
  BY BoundsAssumption
<1>2. flush \in FlushType
  BY <1>1 DEF NotFlushing, FlushType
<1>3. session \in SessionType
  BY DEF NoSession, SessionType, Things
<1>4. Gone \in ArchiveType /\ Gone.mail = {}
  BY <1>1 DEF Gone, ArchiveType
<1>5. Types
  BY <1>1, <1>2, <1>3, <1>4, EmptySeq DEF Types, HasMail
<1>6. Turns /\ Flushing /\ Sending
  BY DEF NotFlushing, NoSession, Turns, Flushing, Sending
<1>7. MailSomewhere
  BY DEF MailSomewhere, Packets
<1>8. ArchivesSent
  BY <1>4 DEF ArchivesSent, HasMail
<1>9. Listed /\ TicKept
  <2>1. Latest = <<"tic", 0>> /\ Latest \notin Tics
    BY Names, <1>1 DEF Latest
  <2>2. Len(filelist) = 0 /\ DOMAIN filelist = {} /\ DOMAIN flo = {}
    OBVIOUS
  <2>3. posted.tics = 0
    OBVIOUS
  <2> QED
    BY <2>1, <2>2, <2>3 DEF Listed, TicKept
<1> QED
  BY <1>5, <1>6, <1>7, <1>8, <1>9 DEF IInv

--------------------------------------------------------------------------------
(* Mail and files are posted, and flush_dir() begins. *)

\* What may still happen is below its bound.
LEMMA Possibilities ==
  /\ Possible("packets") => \E b \in 0..MaxPackets : posted.packets < b
  /\ Possible("tics") => \E b \in 0..MaxTics : posted.tics < b
  /\ Possible("ticks") => \E b \in 0..MaxTick : tick < b
  /\ Possible("scans") => \E b \in 0..MaxScans : scan.count < b
  /\ Possible("mishaps") => \E b \in 0..MaxMishaps : mishaps < b
<1>1. \A l \in Loads : /\ l.packets \in 0..MaxPackets /\ l.tics \in 0..MaxTics
                       /\ l.ticks \in 0..MaxTick /\ l.scans \in 0..MaxScans
                       /\ l.mishaps \in 0..MaxMishaps
  BY BoundsAssumption
<1>2. \A e : Possible(e) => \E l \in Loads : Events[e] < l[e]
  BY DEF Possible
<1> QED
  BY <1>1, <1>2 DEF Events

\* There is room for one more event of the kind.
LEMMA OneMore ==
  ASSUME IInv
  PROVE  /\ Possible("packets") => posted.packets < MaxPackets
         /\ Possible("tics") => posted.tics < MaxTics
         /\ Possible("ticks") => tick < MaxTick
         /\ Possible("mishaps") => mishaps < MaxMishaps
<1>1. /\ posted.packets \in Nat /\ posted.tics \in Nat /\ tick \in Nat /\ mishaps \in Nat
      /\ MaxPackets \in Nat /\ MaxTics \in Nat /\ MaxTick \in Nat /\ MaxMishaps \in Nat
  BY BoundsAssumption DEF IInv, Types
<1> QED
  BY <1>1, Possibilities

LEMMA PostMailStep ==
  ASSUME IInv, PostMail
  PROVE  IInv'
<1> USE DEF PostMail
<1>1. posted.packets + 1 \in 1..MaxPackets
  BY SMTT(30), OneMore, BoundsAssumption DEF IInv, Types
<1>2. /\ posted' \in [packets : 0..MaxPackets, tics : 0..MaxTics]
      /\ posted'.packets = posted.packets + 1 /\ posted'.tics = posted.tics
  BY <1>1 DEF IInv, Types
<1>3. queue' \subseteq Packets
  BY <1>1 DEF IInv, Types, Packets
<1>4. Types'
  BY <1>2, <1>3 DEF IInv, Types, HasMail, Exists
<1>5. Turns' /\ Flushing' /\ Sending'
  BY DEF IInv, Turns, Flushing, Sending
<1>6. MailSomewhere'
  <2>1. ASSUME NEW p \in Packets, p[2] <= posted'.packets
        PROVE  p[2] <= posted.packets \/ p = <<"mail", posted.packets + 1>>
    BY <1>1, <1>2, <2>1 DEF Packets, IInv, Types
  <2>2. \A p \in Packets : p[2] \in Nat
    BY BoundsAssumption DEF Packets
  <2>3. posted.packets \in Nat /\ posted'.packets \in Nat
    BY <1>2 DEF IInv, Types
  <2> QED
    BY <2>1, <2>2, <2>3 DEF IInv, MailSomewhere
<1>7. ArchivesSent'
  BY DEF IInv, ArchivesSent, HasMail, WillBeSent, Unsent, Arc
<1>8. Listed' /\ TicKept'
  BY <1>2, TicFrame DEF Done, Unsent
<1> QED
  BY <1>4, <1>5, <1>6, <1>7, <1>8 DEF IInv

LEMMA PostFileStep ==
  ASSUME IInv, PostFile
  PROVE  IInv'
<1> DEFINE tic == <<"tic", posted.tics + 1>>
<1>0. /\ flush.pc = "idle"
      /\ tics' = tics \cup {tic} /\ filelist' = filelist \o <<File, tic>>
      /\ posted' = [posted EXCEPT !.tics = @ + 1]
      /\ UNCHANGED <<queue, archive, flo, tick, flush, session, arrived, mishaps, damaged>>
  BY DEF PostFile
<1>1. posted.tics \in Nat /\ posted.tics + 1 \in 1..MaxTics
  <2>1. posted.tics < MaxTics
    BY OneMore DEF PostFile
  <2>2. MaxTics \in Nat
    BY BoundsAssumption
  <2>3. posted.tics \in Nat
    BY <2>2 DEF IInv, Types
  <2> QED
    BY <2>1, <2>2, <2>3
<1>2. tic \in Tics /\ tic # File
  BY <1>1, Names
<1>3. /\ posted' \in [packets : 0..MaxPackets, tics : 0..MaxTics]
      /\ posted'.packets = posted.packets /\ posted'.tics = posted.tics + 1
  <2>1. posted \in [packets : 0..MaxPackets, tics : 0..MaxTics]
    BY DEF IInv, Types
  <2>2. posted.tics + 1 \in 0..MaxTics
    BY <1>1
  <2>3. posted' = [posted EXCEPT !.tics = @ + 1]
    BY <1>0
  <2> QED
    BY <2>1, <2>2, <2>3
<1>4. filelist \in Seq({File} \cup Tics) /\ <<File, tic>> \in Seq({File} \cup Tics)
  BY <1>2 DEF IInv, Types
<1>5. /\ filelist' \in Seq({File} \cup Tics)
      /\ Len(filelist') = Len(filelist) + 2
      /\ \A i \in 1..Len(filelist) : filelist'[i] = filelist[i]
      /\ filelist'[Len(filelist) + 1] = File /\ filelist'[Len(filelist) + 2] = tic
  <2>1. Len(<<File, tic>>) = 2 /\ <<File, tic>>[1] = File /\ <<File, tic>>[2] = tic
    OBVIOUS
  <2>2. Len(filelist) \in Nat
    BY <1>4
  <2> QED
    BY <1>0, <1>4, <2>1, <2>2, ConcatProperties
<1>6. /\ Len(filelist) \in Nat /\ DOMAIN filelist = 1..Len(filelist)
      /\ DOMAIN filelist' = 1..Len(filelist) + 2 /\ filelist' # <<>>
  <2>1. Len(<<>>) = 0
    OBVIOUS
  <2> QED
    BY <1>4, <1>5, <2>1
<1>7. Types'
  BY <1>0, <1>2, <1>3, <1>5 DEF IInv, Types, HasMail, Exists
<1>8. Turns' /\ Flushing' /\ Sending'
  BY <1>0 DEF IInv, Turns, Flushing, Sending
<1>9. MailSomewhere' /\ ArchivesSent'
  BY <1>0, <1>3 DEF IInv, MailSomewhere, ArchivesSent, HasMail, WillBeSent, Unsent, Arc
<1>10. /\ \A i \in 1..Len(filelist) : filelist[i] # tic
       /\ \A i \in DOMAIN flo : flo[i].file # tic
  <2>1. posted.tics + 1 \in posted.tics + 1..MaxTics
    BY <1>1
  <2> QED
    BY <1>6, <2>1 DEF IInv, Listed
<1>12. Latest' = tic /\ ~ Done'
  BY <1>0, <1>3 DEF Latest, Done
<1>13. Listed'
  <2>1. Len(filelist') <= 2 * posted'.tics /\ posted'.tics > 0
    BY <1>1, <1>3, <1>5, <1>6 DEF IInv, Listed
  <2>2. ASSUME NEW k \in posted'.tics + 1..MaxTics
        PROVE  /\ \A i \in DOMAIN filelist' : filelist'[i] # <<"tic", k>>
               /\ \A i \in DOMAIN flo' : flo'[i].file # <<"tic", k>>
    <3>1. k \in posted.tics + 1..MaxTics /\ k # posted.tics + 1
      BY <1>1, <1>3
    <3>2. /\ \A i \in DOMAIN filelist : filelist[i] # <<"tic", k>>
          /\ \A i \in DOMAIN flo : flo[i].file # <<"tic", k>>
      BY <3>1 DEF IInv, Listed
    <3>3. File # <<"tic", k>> /\ tic # <<"tic", k>>
      BY <3>1, Names
    <3>4. \A i \in 1..Len(filelist) + 2 : i \in 1..Len(filelist) \/ i = Len(filelist) + 1 \/ i = Len(filelist) + 2
      BY <1>6
    <3> QED
      BY <1>0, <1>5, <1>6, <3>2, <3>3, <3>4
  <2>3. \A i \in 1..Len(filelist') - 1 : filelist'[i] # tic
    <3>1. \A i \in 1..Len(filelist') - 1 : i \in 1..Len(filelist) \/ i = Len(filelist) + 1
      BY <1>5, <1>6
    <3> QED
      BY <1>2, <1>5, <1>10, <3>1
  <2> QED
    BY <1>0, <1>5, <1>10, <1>12, <2>1, <2>2, <2>3 DEF Listed
<1>14. TicKept'
  <2>1. tic \in tics' /\ Len(filelist) + 2 \in DOMAIN filelist'
    BY <1>0, <1>6
  <2> QED
    BY <1>5, <1>12, <2>1 DEF TicKept
<1> QED
  BY <1>7, <1>8, <1>9, <1>13, <1>14 DEF IInv

LEMMA FlushDirStep ==
  ASSUME IInv, FlushDir
  PROVE  IInv'
<1>0. /\ flush.pc = "idle" /\ session.pc = "idle" /\ (queue # {} \/ filelist # <<>>)
      /\ UNCHANGED <<posted, queue, filelist, archive, tics, flo, tick, session, arrived, mishaps, damaged>>
  BY DEF FlushDir, disk
<1>1. /\ flush' \in FlushType /\ flush'.todo = queue /\ flush'.attach = FALSE /\ flush'.nr = 0 /\ flush'.oldnr = 0
      /\ \/ flush'.pc = "choose" /\ queue # {}
         \/ flush'.pc = "files" /\ queue = {} /\ flush'.line = 1
  <2>1. queue \in SUBSET Packets /\ tick \in 0..MaxTick /\ MaxTics \in Nat /\ MaxNr \in Nat
    BY BoundsAssumption DEF IInv, Types
  <2>2. 0 \in 0..MaxNr /\ 0 \in 0..2 * MaxTics + 1 /\ 1 \in 0..2 * MaxTics + 1
    BY <2>1
  <2>3. PICK p : p = (IF queue = {} THEN "files" ELSE "choose")
    OBVIOUS
  <2>4. PICK q : q = (IF queue = {} THEN 1 ELSE 0)
    OBVIOUS
  <2>5. flush' = [pc |-> p, now |-> tick, arc |-> 0, nr |-> 0, oldnr |-> 0, attach |-> FALSE, todo |-> queue, line |-> q]
    BY <2>3, <2>4 DEF FlushDir, NotFlushing
  <2>6. \/ p = "choose" /\ q = 0 /\ queue # {}
        \/ p = "files" /\ q = 1 /\ queue = {}
    BY <2>3, <2>4
  <2>7. p \in {"idle", "choose", "pack", "unlink", "attach", "files"} /\ q \in 0..2 * MaxTics + 1
    BY <2>2, <2>6
  <2>8. flush' \in FlushType
    BY <2>1, <2>2, <2>5, <2>7 DEF FlushType
  <2> QED
    BY <2>5, <2>6, <2>8
<1>2. Types'
  BY <1>0, <1>1 DEF IInv, Types, HasMail, Exists
<1>3. Len(filelist) \in Nat
  BY DEF IInv, Types
<1>4. Turns' /\ Flushing' /\ Sending'
  BY <1>0, <1>1, <1>3 DEF IInv, Turns, Flushing, Sending
<1>5. MailSomewhere' /\ ArchivesSent'
  <2>1. \A a \in Archives : HasMail(a) /\ WillBeSent(a) => WillBeSent(a)'
    BY <1>0 DEF WillBeSent, Unsent
  <2> QED
    BY <1>0, <2>1, MailFrame
<1>6. Listed' /\ TicKept'
  <2>1. Done' <=> Done
    <3>1. ~ Done
      BY <1>0 DEF Done
    <3>2. flush'.pc = "files" => filelist # <<>>
      BY <1>0, <1>1
    <3>3. filelist # <<>> => Len(filelist) >= 1
      BY EmptySeq DEF IInv, Types
    <3> QED
      BY <1>0, <1>1, <1>3, <3>1, <3>2, <3>3 DEF Done
  <2> QED
    BY <1>0, <2>1, TicFrame DEF Unsent
<1> QED
  BY <1>2, <1>4, <1>5, <1>6 DEF IInv

--------------------------------------------------------------------------------
(* flush_dir() packs the mail. *)

\* The packet flush_dir() works on depends on what it has still to do, and on nothing else.
First(todo) == CHOOSE p \in todo : \A q \in todo : p[2] <= q[2]

LEMMA PacketStays ==
  ASSUME flush'.todo = flush.todo
  PROVE  Packet' = Packet
<1>1. Packet = First(flush.todo)
  BY DEF Packet, First
<1>2. Packet' = First(flush'.todo)
  BY DEF Packet, First
<1> QED
  BY <1>1, <1>2

LEMMA NextPacketTaken ==
  ASSUME IInv, NEW S, S \subseteq flush.todo, NEW x, x = NextPacket(S)
  PROVE  /\ x \in FlushType /\ ~ x.attach
         /\ \/ x.pc = "choose" /\ x.todo # {} /\ x.nr = x.oldnr
            \/ x.pc = "files" /\ x.line = 1
<1>1. flush \in FlushType /\ 0 \in 0..MaxNr /\ 1 \in 0..2 * MaxTics + 1
  BY BoundsAssumption DEF IInv, Types
<1>2. S \in SUBSET Packets
  BY <1>1 DEF FlushType
<1>3. CASE S = {}
  <2>1. x = [flush EXCEPT !.pc = "files", !.todo = {}, !.attach = FALSE, !.line = 1]
    BY <1>3 DEF NextPacket
  <2> QED
    BY <1>1, <2>1 DEF FlushType
<1>4. CASE S # {}
  <2>1. x = [flush EXCEPT !.pc = "choose", !.todo = S, !.attach = FALSE, !.nr = 0, !.oldnr = 0]
    BY <1>4 DEF NextPacket
  <2> QED
    BY <1>1, <1>2, <1>4, <2>1 DEF FlushType
<1> QED
  BY <1>3, <1>4

\* Archives are removed, and mbfido packs in one of a new name.
LEMMA ChosenStep ==
  ASSUME IInv, flush.pc = "choose", NEW n \in 0..MaxNr, NEW S \in SUBSET Archives,
         flush' = Chosen(n), archive' = Removed(S),
         damaged' = (damaged \ S) \cup UNION {archive[a].mail : a \in S},
         UNCHANGED <<posted, queue, filelist, tics, flo, tick, session, arrived, mishaps>>
  PROVE  IInv'
<1>1. flush \in FlushType /\ archive \in [Archives -> ArchiveType] /\ session.pc = "idle"
  BY DEF IInv, Types, Turns
<1>2. flush' \in FlushType /\ flush'.pc = "pack" /\ flush'.attach /\ flush'.todo = flush.todo
  BY <1>1 DEF Chosen, FlushType
<1>3. Gone \in ArchiveType /\ Gone.mail = {}
  BY BoundsAssumption DEF Gone, ArchiveType
<1>4. /\ archive' \in [Archives -> ArchiveType]
      /\ \A a \in Archives : a \in S => archive'[a] = Gone
      /\ \A a \in Archives : a \notin S => archive'[a] = archive[a]
  BY <1>1, <1>3 DEF Removed
<1>5. \A a \in Archives : HasMail(a)' => a \notin S /\ HasMail(a)
  BY <1>3, <1>4 DEF HasMail
<1>6. UNION {archive[a].mail : a \in S} \subseteq Packets
  BY <1>1 DEF ArchiveType
<1>7. Types'
  <2>1. \A a \in Archives : HasMail(a)' => Exists(a)'
    BY <1>4, <1>5 DEF IInv, Types, Exists
  <2>2. damaged' \subseteq Packets \cup Archives \cup Tics
    BY <1>6 DEF IInv, Types
  <2> QED
    BY <1>2, <1>4, <2>1, <2>2 DEF IInv, Types
<1>8. Turns' /\ Flushing' /\ Sending'
  BY <1>1, <1>2 DEF IInv, Turns, Flushing, Sending
<1>9. MailSomewhere'
  <2> SUFFICES ASSUME NEW p \in Packets, NEW a \in Archives, p \in archive[a].mail
               PROVE  p \in damaged' \/ p \in archive'[a].mail
    BY Names DEF IInv, MailSomewhere
  <2> QED
    BY <1>4
<1>10. ArchivesSent'
  <2> SUFFICES ASSUME NEW a \in Archives, HasMail(a)'
               PROVE  WillBeSent(a)'
    BY DEF ArchivesSent
  <2>1. a \notin S /\ WillBeSent(a)
    BY <1>5 DEF IInv, ArchivesSent
  <2> QED
    BY <1>1, <2>1 DEF WillBeSent, Unsent
<1>11. Listed' /\ TicKept'
  <2>1. Done' <=> Done
    BY <1>2 DEF Done
  <2> QED
    BY <2>1, Names, TicFrame DEF Unsent
<1> QED
  BY <1>7, <1>8, <1>9, <1>10, <1>11 DEF IInv

LEMMA FreeNameStep ==
  ASSUME IInv, FreeName
  PROVE  IInv'
<1>1. /\ flush.pc = "choose" /\ Free(Arc(flush.arc)) /\ flush' = Chosen(flush.arc)
      /\ archive' = Removed({Arc(flush.arc)}) /\ damaged' = damaged \ {Arc(flush.arc)}
      /\ UNCHANGED <<posted, queue, filelist, tics, flo, tick, session, arrived, mishaps>>
  BY DEF FreeName
<1>2. flush.arc \in 0..MaxNr /\ Arc(flush.arc) \in Archives
  BY ArcName DEF IInv, Types, FlushType
<1>3. archive[Arc(flush.arc)].mail = {}
  BY <1>1, <1>2 DEF Free, Empty, IInv, Types, HasMail
<1>4. UNION {archive[a].mail : a \in {Arc(flush.arc)}} = {}
  BY <1>3
<1>5. damaged' = (damaged \ {Arc(flush.arc)}) \cup UNION {archive[a].mail : a \in {Arc(flush.arc)}}
  BY <1>1, <1>4
<1> QED
  BY <1>1, <1>2, <1>5, ChosenStep

LEMMA NamesExhaustedStep ==
  ASSUME IInv, NamesExhausted
  PROVE  IInv'
<1>1. /\ flush.pc = "choose" /\ flush.nr = MaxNr /\ flush' = Chosen(0) /\ archive' = Removed(Exhausted)
      /\ damaged' = (damaged \ Exhausted) \cup UNION {archive[a].mail : a \in Exhausted}
      /\ UNCHANGED <<posted, queue, filelist, tics, flo, tick, session, arrived, mishaps>>
  BY DEF NamesExhausted
<1>2. 0 \in 0..MaxNr
  BY BoundsAssumption
<1>3. \A n \in 0..MaxNr : Arc(n) \in Archives
  BY ArcName DEF IInv, Types
<1>4. Exhausted \in SUBSET Archives
  BY <1>1, <1>3 DEF Exhausted
<1> QED
  BY <1>1, <1>2, <1>4, ChosenStep

\* What the loop tries next; it ends with an archive that has mail.
LEMMA NameTried ==
  ASSUME IInv, TryName
  PROVE  \E n, k \in 0..MaxNr :
           \/ flush' = [flush EXCEPT !.pc = "choose", !.arc = n, !.nr = k, !.oldnr = k]
           \/ /\ flush' = [flush EXCEPT !.pc = "pack", !.arc = n, !.nr = k, !.oldnr = k]
              /\ n = flush.arc /\ HasMail(Arc(n))
<1>1. /\ flush.pc = "choose" /\ ~Free(Arc(flush.arc))
      /\ Empty(Arc(flush.arc)) => flush.nr < MaxNr
  BY DEF TryName
<1>2. MaxNr \in Nat /\ flush.nr \in 0..MaxNr /\ flush.arc \in 0..MaxNr /\ flush.oldnr = flush.nr
  BY <1>1, BoundsAssumption DEF IInv, Types, FlushType, Flushing
<1> DEFINE k1 == IF Passed(flush.arc, flush.nr) THEN flush.nr + 1 ELSE flush.nr
           n1 == IF Passed(flush.arc, flush.nr) THEN k1 ELSE flush.arc
           aged == HasMail(Arc(n1)) /\ Aged(Arc(n1)) /\ k1 < MaxNr
           k2 == IF aged THEN k1 + 1 ELSE k1
           n2 == IF aged THEN k2 ELSE n1
<1>3. flush' = [flush EXCEPT !.pc = IF k2 = flush.oldnr THEN "pack" ELSE "choose",
                             !.arc = n2, !.nr = k2, !.oldnr = k2]
  BY DEF TryName, LeftAlone
<1>4. k1 \in 0..MaxNr /\ n1 \in 0..MaxNr /\ k1 >= flush.nr
  BY <1>2 DEF Passed
<1>5. k2 \in 0..MaxNr /\ n2 \in 0..MaxNr /\ k2 >= k1
  <2> HIDE DEF k1, n1
  <2> QED
    BY <1>2, <1>4
<1>6. ASSUME k2 = flush.oldnr
      PROVE  n2 = flush.arc /\ HasMail(Arc(n2))
  <2>1. k1 = flush.nr /\ k2 = k1
    <3> HIDE DEF k1, k2
    <3> QED
      BY <1>2, <1>4, <1>5, <1>6
  <2>2. ~Passed(flush.arc, flush.nr)
    BY <2>1, <1>2
  <2>3. ~aged
    <3> HIDE DEF k1, n1, aged
    <3> QED
      BY <2>1, <1>4
  <2>4. n2 = flush.arc
    BY <2>2, <2>3
  <2>5. HasMail(Arc(flush.arc))
    BY <1>1, <2>2 DEF Passed, Free, Empty, HasMail
  <2> QED
    BY <2>4, <2>5
<1>7. PICK n, k \in 0..MaxNr : n = n2 /\ k = k2
  BY <1>5
<1> HIDE DEF k2, n2
<1>8. CASE k2 = flush.oldnr
  BY <1>3, <1>6, <1>7, <1>8
<1>9. CASE k2 # flush.oldnr
  BY <1>3, <1>7, <1>9
<1> QED
  BY <1>8, <1>9

LEMMA TryNameStep ==
  ASSUME IInv, TryName
  PROVE  IInv'
<1>1. /\ flush.pc = "choose"
      /\ UNCHANGED <<posted, queue, filelist, archive, tics, flo, tick, session, arrived, mishaps, damaged>>
  BY DEF TryName, disk
<1>2. flush \in FlushType /\ flush.todo # {} /\ ~ flush.attach /\ session.pc = "idle"
  BY <1>1 DEF IInv, Types, Flushing, Turns
<1>3. PICK n, k \in 0..MaxNr :
        \/ flush' = [flush EXCEPT !.pc = "choose", !.arc = n, !.nr = k, !.oldnr = k]
        \/ /\ flush' = [flush EXCEPT !.pc = "pack", !.arc = n, !.nr = k, !.oldnr = k]
           /\ n = flush.arc /\ HasMail(Arc(n))
  BY NameTried
<1>4. /\ flush' \in FlushType /\ flush'.todo # {} /\ ~ flush'.attach /\ flush'.now = flush.now
      /\ \/ flush'.pc = "choose" /\ flush'.nr = flush'.oldnr
         \/ flush'.pc = "pack" /\ flush'.arc = n /\ HasMail(Arc(n))
  BY ZenonT(30), <1>2, <1>3 DEF FlushType
<1>5. Types'
  BY <1>1, <1>4 DEF IInv, Types, HasMail, Exists
<1>6. Flushing'
  <2>1. ASSUME NEW a \in Archives, flush'.pc = "pack", a = Arc(flush.arc)'
        PROVE  Unsent(a)' \/ a \in damaged'
    <3>1. a = Arc(n)
      BY <1>4, <2>1 DEF Arc
    <3>2. WillBeSent(a)
      BY <1>4, <2>1, <3>1 DEF IInv, ArchivesSent
    <3> QED
      BY <1>1, <1>2, <3>2 DEF WillBeSent, Unsent
  <2> QED
    BY <1>4, <2>1 DEF Flushing
<1>7. Turns' /\ Sending'
  BY <1>1, <1>2 DEF IInv, Turns, Sending
<1>8. MailSomewhere' /\ ArchivesSent'
  <2>1. \A a \in Archives : HasMail(a) /\ WillBeSent(a) => WillBeSent(a)'
    BY <1>1, <1>2 DEF WillBeSent, Unsent
  <2> QED
    BY <1>1, <2>1, MailFrame
<1>9. Listed' /\ TicKept'
  <2>1. Done' <=> Done
    BY <1>1, <1>4 DEF Done
  <2> QED
    BY <1>1, <2>1, TicFrame DEF Unsent
<1> QED
  BY <1>5, <1>6, <1>7, <1>8, <1>9 DEF IInv

LEMMA NextPacketStep ==
  ASSUME IInv, flush.pc # "idle", flush.pc # "files", NEW S, S \subseteq flush.todo, flush' = NextPacket(S),
         UNCHANGED <<session, filelist, arrived>>,
         \A a \in Archives : archive'[a].mail = archive[a].mail
  PROVE  /\ flush' \in FlushType /\ flush'.pc \in {"choose", "files"}
         /\ Turns' /\ Flushing' /\ Sending'
         /\ filelist # <<>> => (Done' <=> Done)
<1>1. /\ flush' \in FlushType /\ ~ flush'.attach
      /\ \/ flush'.pc = "choose" /\ flush'.todo # {} /\ flush'.nr = flush'.oldnr
         \/ flush'.pc = "files" /\ flush'.line = 1
  BY NextPacketTaken
<1>2. Len(filelist) \in Nat /\ (filelist # <<>> => Len(filelist) >= 1)
  BY EmptySeq DEF IInv, Types
<1>3. session.pc = "idle"
  BY DEF IInv, Turns
<1>4. Turns' /\ Flushing' /\ Sending'
  BY <1>1, <1>2, <1>3 DEF Turns, Flushing, Sending
<1>5. ~ Done
  BY DEF Done
<1>6. filelist # <<>> => ~ Done'
  BY <1>1, <1>2 DEF Done
<1> QED
  BY <1>1, <1>4, <1>5, <1>6

LEMMA PackStep ==
  ASSUME IInv, Pack
  PROVE  IInv'
<1> DEFINE A == Arc(flush.arc)
           new == [there |-> TRUE, mail |-> archive[A].mail \cup {Packet}, stamp |-> tick]
<1>1. /\ flush.pc = "pack" /\ flush' = [flush EXCEPT !.pc = "unlink"]
      /\ UNCHANGED <<posted, queue, filelist, tics, flo, tick, session, arrived, mishaps, damaged>>
  BY DEF Pack
<1>2. flush \in FlushType /\ flush.todo # {} /\ session.pc = "idle"
  BY <1>1 DEF IInv, Types, Flushing, Turns
<1>3. A \in Archives /\ archive \in [Archives -> ArchiveType] /\ tick \in 0..MaxTick
  BY <1>2, ArcName DEF IInv, Types, FlushType
<1>4. Packet \in Packets
  BY <1>2, PacketChosen DEF FlushType
<1>5. /\ flush' \in FlushType /\ flush'.pc = "unlink" /\ flush'.attach = flush.attach /\ flush'.todo = flush.todo
      /\ flush'.arc = flush.arc /\ flush'.now = flush.now
  BY <1>1, <1>2 DEF FlushType
<1>6. Arc(flush.arc)' = A /\ Packet' = Packet
  BY <1>5, PacketStays DEF Arc
<1>7. new \in ArchiveType
  BY <1>3, <1>4 DEF ArchiveType
<1>8. archive' = [archive EXCEPT ![A] = new]
  BY DEF Pack
<1>9. /\ archive' \in [Archives -> ArchiveType] /\ archive'[A] = new
      /\ \A a \in Archives : a # A => archive'[a] = archive[a]
  <2> HIDE DEF new, A
  <2> QED
    BY <1>3, <1>7, <1>8
<1>10. archive'[A].mail = archive[A].mail \cup {Packet} /\ archive'[A].there
  BY <1>9
<1>11. Types'
  <2>1. \A a \in Archives : HasMail(a)' => Exists(a)'
    <3> HIDE DEF new, A
    <3> QED
      BY <1>9, <1>10 DEF HasMail, Exists, IInv, Types
  <2> QED
    BY <1>1, <1>5, <1>9, <2>1 DEF IInv, Types
<1>12. Flushing'
  <2>1. Packet' \in archive'[Arc(flush.arc)'].mail \cup arrived' \cup damaged'
    BY <1>6, <1>10
  <2>2. ASSUME NEW a \in Archives, ~ flush.attach, a = A
        PROVE  Unsent(a)' \/ a \in damaged'
    <3>1. Unsent(a) \/ a \in damaged
      BY <1>1, <2>2 DEF IInv, Flushing
    <3> QED
      BY <1>1, <3>1 DEF Unsent
  <2> QED
    BY <1>2, <1>5, <1>6, <2>1, <2>2 DEF Flushing
<1>13. Turns' /\ Sending'
  BY <1>1, <1>2 DEF IInv, Turns, Sending
<1>14. MailSomewhere'
  <2>1. \A a \in Archives : archive[a].mail \subseteq archive'[a].mail
    BY <1>9, <1>10
  <2> QED
    BY <1>1, <2>1 DEF IInv, MailSomewhere
<1>15. ArchivesSent'
  <2> SUFFICES ASSUME NEW a \in Archives, HasMail(a)'
               PROVE  WillBeSent(a)'
    BY DEF ArchivesSent
  <2>1. CASE a = A
    <3>1. flush'.attach => WillBeSent(a)'
      BY <1>5, <1>6, <2>1 DEF WillBeSent
    <3>2. ~ flush'.attach => Unsent(a)' \/ a \in damaged'
      BY <1>5, <1>6, <1>12, <2>1 DEF Flushing
    <3> QED
      BY <3>1, <3>2 DEF WillBeSent
  <2>2. CASE a # A
    <3>1. WillBeSent(a)
      BY <1>9, <2>2 DEF HasMail, IInv, ArchivesSent
    <3> QED
      BY <1>1, <1>2, <3>1 DEF WillBeSent, Unsent
  <2> QED
    BY <2>1, <2>2
<1>16. Listed' /\ TicKept'
  <2>1. Done' <=> Done
    BY <1>1, <1>5 DEF Done
  <2> QED
    BY <1>1, <2>1, TicFrame DEF Unsent
<1> QED
  BY <1>11, <1>12, <1>13, <1>14, <1>15, <1>16 DEF IInv

LEMMA PackFailsStep ==
  ASSUME IInv, PackFails
  PROVE  IInv'
<1>1. /\ flush.pc = "pack" /\ flush' = NextPacket(flush.todo \ {Packet}) /\ mishaps < MaxMishaps /\ mishaps' = mishaps + 1
      /\ UNCHANGED <<posted, queue, filelist, archive, tics, flo, tick, session, arrived, damaged>>
  BY OneMore DEF PackFails, disk
<1>2. /\ flush' \in FlushType /\ Turns' /\ Flushing' /\ Sending'
      /\ filelist # <<>> => (Done' <=> Done)
  BY <1>1, NextPacketStep
<1>3. mishaps' \in 0..MaxMishaps
  BY <1>1, BoundsAssumption DEF IInv, Types
<1>4. Types'
  BY <1>1, <1>2, <1>3 DEF IInv, Types, HasMail, Exists
<1>5. MailSomewhere' /\ ArchivesSent'
  <2>1. \A a \in Archives : HasMail(a) /\ WillBeSent(a) => WillBeSent(a)'
    BY <1>1 DEF WillBeSent, Unsent
  <2> QED
    BY <1>1, <2>1, MailFrame
<1>6. Listed' /\ TicKept'
  BY <1>1, <1>2, TicFrame DEF Unsent
<1> QED
  BY <1>2, <1>4, <1>5, <1>6 DEF IInv

LEMMA UnlinkStep ==
  ASSUME IInv, Unlink
  PROVE  IInv'
<1>1. /\ flush.pc = "unlink" /\ queue' = queue \ {Packet}
      /\ flush' = IF flush.attach THEN [flush EXCEPT !.pc = "attach"] ELSE NextPacket(flush.todo \ {Packet})
      /\ UNCHANGED <<posted, filelist, archive, tics, flo, tick, session, arrived, mishaps, damaged>>
  BY DEF Unlink
<1>2. flush \in FlushType /\ flush.todo # {} /\ session.pc = "idle" /\ Len(filelist) \in Nat
  BY <1>1 DEF IInv, Types, Flushing, Turns
<1>3. /\ Packet \in archive[Arc(flush.arc)].mail \cup arrived \cup damaged
      /\ Arc(flush.arc) \in Archives
  BY <1>1, <1>2, ArcName DEF IInv, Flushing, FlushType
<1>4. /\ flush' \in FlushType /\ Turns' /\ Flushing' /\ Sending'
      /\ filelist # <<>> => (Done' <=> Done)
  <2>1. CASE flush.attach
    <3>1. /\ flush' \in FlushType /\ flush'.pc = "attach" /\ flush'.attach /\ flush'.todo = flush.todo
      BY <1>1, <1>2, <2>1 DEF FlushType
    <3> QED
      BY <1>1, <1>2, <3>1 DEF IInv, Turns, Flushing, Sending, Done
  <2>2. CASE ~ flush.attach
    BY <1>1, <2>2, NextPacketStep
  <2> QED
    BY <2>1, <2>2
<1>5. Types'
  BY <1>1, <1>4 DEF IInv, Types, HasMail, Exists
<1>6. MailSomewhere'
  BY <1>1, <1>3 DEF IInv, MailSomewhere
<1>7. ArchivesSent'
  <2> SUFFICES ASSUME NEW a \in Archives, HasMail(a)'
               PROVE  WillBeSent(a)'
    BY DEF ArchivesSent
  <2>1. WillBeSent(a)
    BY <1>1 DEF HasMail, IInv, ArchivesSent
  <2>2. CASE flush.attach
    <3>1. flush'.pc = "attach" /\ flush'.attach /\ flush'.arc = flush.arc /\ flush'.now = flush.now
      BY <1>1, <1>2, <2>2 DEF FlushType
    <3> QED
      BY <1>1, <1>2, <2>1, <3>1 DEF WillBeSent, Unsent, Arc
  <2>3. CASE ~ flush.attach
    BY <1>1, <1>2, <2>1, <2>3 DEF WillBeSent, Unsent
  <2> QED
    BY <2>2, <2>3
<1>8. Listed' /\ TicKept'
  BY <1>1, <1>4, TicFrame DEF Unsent
<1> QED
  BY <1>4, <1>5, <1>6, <1>7, <1>8 DEF IInv

LEMMA AttachArchiveStep ==
  ASSUME IInv, AttachArchive
  PROVE  IInv'
<1>1. /\ flush.pc = "attach" /\ flush' = NextPacket(flush.todo \ {Packet})
      /\ flo' = IF Exists(Arc(flush.arc)) THEN Append(flo, Line(Arc(flush.arc))) ELSE flo
      /\ UNCHANGED <<posted, queue, filelist, archive, tics, tick, session, arrived, mishaps, damaged>>
  BY DEF AttachArchive, WithArchive
<1>2. flo \in Seq(LineType) /\ session.pc = "idle" /\ Arc(flush.arc) \in Archives
  BY <1>1, ArcName DEF IInv, Types, FlushType, Turns
<1>3. Arc(flush.arc) \in Things
  BY <1>2 DEF Things
<1>4. /\ flo' \in Seq(LineType)
      /\ \A i \in DOMAIN flo' : flo'[i].file = Arc(flush.arc) \/ \E j \in DOMAIN flo : flo'[i].file = flo[j].file
      /\ \A g : Unsent(g) \/ (g = Arc(flush.arc) /\ Exists(g)) => Unsent(g)'
  <2>1. PICK A \in Things : A = Arc(flush.arc)
    BY <1>3
  <2>2. CASE Exists(A)
    <3>1. flo' = Append(flo, Line(A))
      BY <1>1, <2>1, <2>2
    <3>2. /\ flo' \in Seq(LineType)
          /\ \A i \in DOMAIN flo' : flo'[i].file = A \/ \E j \in DOMAIN flo : flo'[i].file = flo[j].file
          /\ Unsent(A)' /\ \A g : Unsent(g) => Unsent(g)'
      BY <1>2, <3>1, AddedLine
    <3> QED
      BY <2>1, <3>2
  <2>3. CASE ~ Exists(A)
    <3>1. flo' = flo
      BY <1>1, <2>1, <2>3
    <3> QED
      BY <1>2, <2>1, <2>3, <3>1 DEF Unsent
  <2> QED
    BY <2>2, <2>3
<1>5. /\ flush' \in FlushType /\ Turns' /\ Flushing' /\ Sending'
      /\ filelist # <<>> => (Done' <=> Done)
  BY <1>1, NextPacketStep
<1>6. Types'
  BY <1>1, <1>4, <1>5 DEF IInv, Types, HasMail, Exists
<1>7. MailSomewhere' /\ ArchivesSent'
  <2>1. \A a \in Archives : HasMail(a) => Exists(a)
    BY DEF IInv, Types
  <2>2. \A a \in Archives : HasMail(a) /\ WillBeSent(a) => WillBeSent(a)'
    BY <1>1, <1>2, <1>4, <2>1 DEF WillBeSent
  <2> QED
    BY <1>1, <2>2, MailFrame
<1>8. Listed' /\ TicKept'
  BY <1>1, <1>2, <1>4, <1>5, TicFrame
<1> QED
  BY <1>5, <1>6, <1>7, <1>8 DEF IInv

LEMMA FloFailsStep ==
  ASSUME IInv, FloFails
  PROVE  IInv'
<1>1. /\ flush.pc = "attach" /\ flush' = NextPacket(flush.todo \ {Packet}) /\ mishaps < MaxMishaps /\ mishaps' = mishaps + 1
      /\ damaged' = damaged \cup {Arc(flush.arc)}
      /\ UNCHANGED <<posted, queue, filelist, archive, tics, flo, tick, session, arrived>>
  BY OneMore DEF FloFails, disk
<1>2. /\ flush' \in FlushType /\ Turns' /\ Flushing' /\ Sending'
      /\ filelist # <<>> => (Done' <=> Done)
  BY <1>1, NextPacketStep
<1>3. mishaps' \in 0..MaxMishaps /\ Arc(flush.arc) \in Archives
  BY <1>1, BoundsAssumption, ArcName DEF IInv, Types, FlushType
<1>4. Types'
  BY <1>1, <1>2, <1>3 DEF IInv, Types, HasMail, Exists
<1>5. MailSomewhere' /\ ArchivesSent'
  <2>1. \A a \in Archives : HasMail(a) /\ WillBeSent(a) => WillBeSent(a)'
    BY <1>1 DEF WillBeSent, Unsent, IInv, Turns
  <2> QED
    BY <1>1, <2>1, MailFrame
<1>6. Listed' /\ TicKept'
  BY <1>1, <1>2, TicFrame DEF Unsent
<1> QED
  BY <1>2, <1>4, <1>5, <1>6 DEF IInv

LEMMA FlushedStep ==
  ASSUME IInv, Flushed
  PROVE  IInv'
<1>1. /\ Done /\ filelist' = <<>> /\ flush' = NotFlushing
      /\ UNCHANGED <<posted, queue, archive, tics, flo, tick, session, arrived, mishaps, damaged>>
  BY DEF Flushed, Done
<1>2. flush' \in FlushType /\ flush'.pc = "idle"
  BY <1>1, BoundsAssumption DEF NotFlushing, FlushType
<1>3. Types'
  BY <1>1, <1>2, EmptySeq DEF IInv, Types, HasMail, Exists
<1>4. Turns' /\ Flushing' /\ Sending'
  BY <1>1, <1>2 DEF IInv, Turns, Flushing, Sending
<1>5. MailSomewhere' /\ ArchivesSent'
  <2>1. \A a \in Archives : HasMail(a) /\ WillBeSent(a) => WillBeSent(a)'
    BY <1>1 DEF WillBeSent, Unsent, Done
  <2> QED
    BY <1>1, <2>1, MailFrame
<1>6. Len(filelist') = 0 /\ DOMAIN filelist' = {} /\ posted.tics \in Nat
  BY <1>1, BoundsAssumption DEF IInv, Types
<1>7. Listed'
  BY <1>1, <1>6 DEF IInv, Listed
<1>8. TicKept'
  <2> SUFFICES ASSUME NEW t \in Tics, t = Latest
               PROVE  Safe(t)'
    BY <1>1 DEF TicKept, Latest
  <2>1. CASE filelist = <<>>
    <3>1. DOMAIN filelist = {}
      BY <2>1
    <3>2. Safe(t)
      BY <3>1 DEF IInv, TicKept
    <3> QED
      BY <1>1, <3>2 DEF Safe, Unsent
  <2>2. CASE filelist # <<>>
    <3>1. Safe(t)
      BY <1>1, <2>2 DEF IInv, Listed
    <3> QED
      BY <1>1, <3>1 DEF Safe, Unsent
  <2> QED
    BY <2>1, <2>2
<1> QED
  BY <1>3, <1>4, <1>5, <1>7, <1>8 DEF IInv

--------------------------------------------------------------------------------
(* flush_dir() attaches the files. *)

\* A tic file that is removed is on the disk and has a line.
LEMMA OldTicListed ==
  ASSUME NEW f
  PROVE  /\ \A i \in OldTic(f) : i \in DOMAIN flo /\ flo[i].file \in tics
         /\ f # File => OldTic(f) = {}
<1>1. OldTic(f) = {} \/ \E i \in DOMAIN flo : f = File /\ OldTic(f) = {i} /\ flo[i].file \in tics
  <2>1. PICK i : i = FirstUnsent(f) + 1
    OBVIOUS
  <2>2. OldTic(f) = IF f = File /\ i > 1 /\ i \in DOMAIN flo /\ flo[i].file \in tics THEN {i} ELSE {}
    BY <2>1 DEF OldTic
  <2> QED
    BY <2>2
<1> QED
  BY <1>1

LEMMA AttachedLines ==
  ASSUME flo \in Seq(LineType), NEW f \in Things, NEW line \in {<<>>, <<Line(f)>>}, flo' = Unattached(f) \o line
  PROVE  /\ flo' \in Seq(LineType)
         /\ \A i \in DOMAIN flo' : flo'[i].file = f \/ \E j \in DOMAIN flo : flo'[i].file = flo[j].file
         /\ \A i \in DOMAIN flo : flo[i].file # File /\ i \notin OldTic(f) => i \in DOMAIN flo' /\ flo'[i] = flo[i]
         /\ line = <<Line(f)>> => Unsent(f)'
<1>1. PICK x : x = Unattached(f)
  OBVIOUS
<1>2. /\ x \in Seq(LineType) /\ Len(x) = Len(flo)
      /\ \A i \in DOMAIN flo : x[i].file = flo[i].file
      /\ \A i \in DOMAIN flo : flo[i].file # File /\ i \notin OldTic(f) => x[i] = flo[i]
  BY <1>1, UnattachedLines
<1>3. flo' = x \o line
  BY <1>1
<1>4. DOMAIN flo = 1..Len(flo) /\ Len(flo) \in Nat
  OBVIOUS
<1>5. CASE line = <<>>
  <2>1. flo' = x
    BY <1>2, <1>3, <1>5, ConcatEmptySeq
  <2>2. DOMAIN flo' = DOMAIN flo
    BY <1>2, <1>4, <2>1
  <2>3. <<>> # <<Line(f)>>
    OBVIOUS
  <2> QED
    BY <1>2, <1>5, <2>1, <2>2, <2>3
<1>6. CASE line = <<Line(f)>>
  <2>1. Line(f) \in LineType /\ Line(f).file = f
    BY DEF Line, LineType
  <2>2. flo' = Append(x, Line(f))
    BY <1>2, <1>3, <1>6, <2>1, AppendIsConcat
  <2>3. /\ flo' \in Seq(LineType) /\ Len(flo') = Len(x) + 1
        /\ \A i \in 1..Len(x) : flo'[i] = x[i]
        /\ flo'[Len(x) + 1] = Line(f)
    BY <1>2, <2>1, <2>2, AppendProperties
  <2>4. DOMAIN flo' = 1..Len(flo) + 1
    BY <1>2, <2>3
  <2>5. \A i \in DOMAIN flo' : i \in DOMAIN flo \/ i = Len(flo) + 1
    BY <1>4, <2>4
  <2>6. \A i \in DOMAIN flo : i \in DOMAIN flo' /\ flo'[i] = x[i]
    BY <1>2, <1>4, <2>3, <2>4
  <2>7. Unsent(f)'
    <3>1. Len(flo) + 1 \in DOMAIN flo' /\ flo'[Len(flo) + 1] = Line(f)
      BY <1>2, <1>4, <2>3, <2>4
    <3> QED
      BY <3>1 DEF Unsent
  <2>8. \A i \in DOMAIN flo' : flo'[i].file = f \/ \E j \in DOMAIN flo : flo'[i].file = flo[j].file
    BY <1>2, <2>1, <2>3, <2>5, <2>6
  <2> QED
    BY <1>2, <2>3, <2>6, <2>7, <2>8
<1> QED
  BY <1>5, <1>6

\* A line of .filelist is done, whatever is written to the flo file.
LEMMA AttachOneStep ==
  ASSUME IInv, NEW f \in {File} \cup Tics, NEW line \in {<<>>, <<Line(f)>>}, AttachOne(f, line),
         mishaps' \in 0..MaxMishaps,
         damaged' = IF line = <<>> THEN damaged \cup ({f} \cap Tics) ELSE damaged
  PROVE  IInv'
<1>1. /\ flush.pc = "files" /\ flush.line \in DOMAIN filelist /\ f = filelist[flush.line]
      /\ flush' = [flush EXCEPT !.line = @ + 1]
      /\ UNCHANGED <<posted, queue, filelist, archive, tick, session, arrived>>
  BY DEF AttachOne
<1>2. /\ OnDisk(f) => flo' = Unattached(f) \o line /\ tics' = tics \ {flo[i].file : i \in OldTic(f)}
      /\ ~ OnDisk(f) => flo' = flo /\ tics' = tics
  BY DEF AttachOne
<1>3. /\ flush \in FlushType /\ filelist \in Seq({File} \cup Tics) /\ flo \in Seq(LineType) /\ session.pc = "idle"
      /\ tics \subseteq Tics /\ f \in Things
  BY <1>1 DEF IInv, Types, Turns, Things
<1>4. /\ flush.line \in 1..Len(filelist) /\ Len(filelist) \in Nat /\ DOMAIN filelist = 1..Len(filelist)
      /\ filelist # <<>> /\ ~ Done
  <2>1. Len(<<>>) = 0
    OBVIOUS
  <2> QED
    BY <1>1, <1>3, <2>1 DEF Done
<1>5. flush.line + 1 \in 0..2 * MaxTics + 1
  <2>1. posted.tics \in 0..MaxTics /\ MaxTics \in Nat /\ Len(filelist) <= 2 * posted.tics
    BY BoundsAssumption DEF IInv, Types, Listed
  <2> QED
    BY <1>4, <2>1
<1>6. /\ flush' \in FlushType /\ flush'.pc = "files" /\ flush'.line = flush.line + 1
  <2>1. PICK n \in 0..2 * MaxTics + 1 : n = flush.line + 1
    BY <1>5
  <2>2. flush' = [flush EXCEPT !.line = n]
    BY <1>1, <2>1
  <2> QED
    BY <1>1, <1>3, <2>1, <2>2 DEF FlushType
<1>7. Done' <=> flush.line = Len(filelist)
  BY <1>1, <1>4, <1>6 DEF Done
<1>8. damaged \subseteq damaged' /\ damaged' \subseteq damaged \cup Tics
  OBVIOUS
<1>9. /\ flo' \in Seq(LineType)
      /\ \A i \in DOMAIN flo' : flo'[i].file = f \/ \E j \in DOMAIN flo : flo'[i].file = flo[j].file
      /\ \A i \in DOMAIN flo : flo[i].file # File /\ flo[i].file \in tics' \cup Archives => i \in DOMAIN flo' /\ flo'[i] = flo[i]
  <2>1. CASE OnDisk(f)
    <3>1. /\ flo' \in Seq(LineType)
          /\ \A i \in DOMAIN flo' : flo'[i].file = f \/ \E j \in DOMAIN flo : flo'[i].file = flo[j].file
          /\ \A i \in DOMAIN flo : flo[i].file # File /\ i \notin OldTic(f) => i \in DOMAIN flo' /\ flo'[i] = flo[i]
      BY <1>2, <1>3, <2>1, AttachedLines
    <3>2. \A i \in OldTic(f) : flo[i].file \notin tics' /\ flo[i].file \notin Archives
      BY <1>2, <1>3, <2>1, OldTicListed, Names
    <3> QED
      BY <3>1, <3>2
  <2>2. CASE ~ OnDisk(f)
    BY <1>2, <1>3, <2>2
  <2> QED
    BY <2>1, <2>2
<1>10. tics' \subseteq tics /\ \A t \in tics \ tics' : \E i \in DOMAIN flo : flo[i].file = t
  BY <1>2, OldTicListed
<1>11. \A a \in Archives \cup tics' : Unsent(a) => Unsent(a)'
  <2> SUFFICES ASSUME NEW a \in Archives \cup tics', NEW i \in DOMAIN flo, flo[i] = Line(a)
               PROVE  i \in DOMAIN flo' /\ flo'[i] = Line(a)
    BY DEF Unsent
  <2>1. flo[i].file = a /\ a # File
    BY <1>3, <1>10, Names DEF Line
  <2> QED
    BY <1>9, <2>1
<1>12. Types'
  BY <1>1, <1>3, <1>6, <1>8, <1>9, <1>10 DEF IInv, Types, HasMail, Exists
<1>13. Turns' /\ Flushing' /\ Sending'
  BY <1>1, <1>3, <1>4, <1>6 DEF IInv, Turns, Flushing, Sending
<1>14. MailSomewhere' /\ ArchivesSent'
  <2>1. \A a \in Archives : HasMail(a) /\ WillBeSent(a) => WillBeSent(a)'
    BY <1>1, <1>3, <1>8, <1>11 DEF WillBeSent
  <2> QED
    BY <1>1, <1>8, <2>1, MailFrame
<1>15. ASSUME NEW t \in Tics, t = Latest
       PROVE  /\ filelist[Len(filelist)] = t /\ \A i \in 1..Len(filelist) - 1 : filelist[i] # t
              /\ t \in damaged \/ \A i \in DOMAIN flo : flo[i].file # t
              /\ t \in arrived \cup damaged \/ t \in tics
  BY <1>4, <1>15 DEF IInv, Listed, TicKept, Safe
<1>16. ASSUME NEW t \in Tics, t = Latest
       PROVE  t \in arrived' \cup damaged' \/ t \in tics'
  <2>1. t \in damaged \/ t \notin tics \/ t \in tics'
    BY <1>10, <1>15, <1>16
  <2> QED
    BY <1>1, <1>8, <1>15, <1>16, <2>1
<1>17. ASSUME NEW t \in Tics, t = Latest
       PROVE  IF Done' THEN Safe(t)' ELSE t \in damaged' \/ \A i \in DOMAIN flo' : flo'[i].file # t
  <2>1. CASE Done'
    <3>1. f = t /\ flush.line = Len(filelist)
      BY <1>1, <1>7, <1>15, <1>17, <2>1
    <3>2. CASE t \in tics' /\ t \notin damaged'
      <4>1. OnDisk(f) /\ line = <<Line(f)>>
        BY <1>10, <1>17, <3>1, <3>2 DEF OnDisk
      <4>2. Unsent(t)'
        BY <1>2, <1>3, <3>1, <4>1, AttachedLines
      <4> QED
        BY <2>1, <3>2, <4>2 DEF Safe
    <3> QED
      BY <1>16, <1>17, <2>1, <3>2 DEF Safe
  <2>2. CASE ~ Done'
    <3>1. flush.line \in 1..Len(filelist) - 1
      BY <1>4, <1>7, <2>2
    <3>2. f # t
      BY <1>1, <1>15, <1>17, <3>1
    <3> QED
      BY <1>8, <1>9, <1>15, <1>17, <2>2, <3>2
  <2> QED
    BY <2>1, <2>2
<1>18. Latest' = Latest
  BY <1>1 DEF Latest
<1>19. Listed'
  <2>1. ASSUME NEW k \in posted'.tics + 1..MaxTics
        PROVE  /\ \A i \in DOMAIN filelist' : filelist'[i] # <<"tic", k>>
               /\ \A i \in DOMAIN flo' : flo'[i].file # <<"tic", k>>
    <3>1. /\ \A i \in DOMAIN filelist : filelist[i] # <<"tic", k>>
          /\ \A i \in DOMAIN flo : flo[i].file # <<"tic", k>>
      BY <1>1, <2>1 DEF IInv, Listed
    <3>2. f # <<"tic", k>>
      BY <1>1, <3>1
    <3> QED
      BY <1>1, <1>9, <3>1, <3>2
  <2>2. Len(filelist') <= 2 * posted'.tics /\ posted'.tics > 0
    BY <1>1, <1>4 DEF IInv, Listed
  <2> QED
    BY <1>1, <1>15, <1>17, <1>18, <2>1, <2>2 DEF Listed
<1>20. TicKept'
  <2> SUFFICES ASSUME NEW t \in Tics, t = Latest
               PROVE  Safe(t)' \/ (t \in tics' /\ \E i \in DOMAIN filelist' : filelist'[i] = t)
    BY <1>18 DEF TicKept
  <2>1. Len(filelist) \in DOMAIN filelist' /\ filelist'[Len(filelist)] = t
    BY <1>1, <1>4, <1>15
  <2> QED
    BY <1>16, <2>1 DEF Safe
<1> QED
  BY <1>12, <1>13, <1>14, <1>19, <1>20 DEF IInv

LEMMA AttachFileStep ==
  ASSUME IInv, AttachFile
  PROVE  IInv'
<1>1. PICK f \in {File} \cup Tics : AttachOne(f, <<Line(f)>>) /\ UNCHANGED <<mishaps, damaged>>
  BY DEF AttachFile
<1>2. mishaps' \in 0..MaxMishaps
  BY <1>1 DEF IInv, Types
<1>3. PICK line : line = <<Line(f)>>
  OBVIOUS
<1>4. line # <<>>
  BY <1>3
<1>5. AttachOne(f, line) /\ line \in {<<>>, <<Line(f)>>} /\ damaged' = IF line = <<>> THEN damaged \cup ({f} \cap Tics) ELSE damaged
  BY <1>1, <1>3, <1>4
<1> QED
  BY <1>2, <1>5, AttachOneStep

LEMMA FileFailsStep ==
  ASSUME IInv, FileFails
  PROVE  IInv'
<1>1. PICK f \in {File} \cup Tics : AttachOne(f, <<>>) /\ damaged' = damaged \cup ({f} \cap Tics)
  BY DEF FileFails
<1>2. mishaps < MaxMishaps /\ mishaps' = mishaps + 1
  BY OneMore DEF FileFails
<1>3. mishaps' \in 0..MaxMishaps
  BY <1>2, BoundsAssumption DEF IInv, Types
<1>4. PICK line : line = <<>>
  OBVIOUS
<1>5. AttachOne(f, line) /\ line \in {<<>>, <<Line(f)>>} /\ damaged' = IF line = <<>> THEN damaged \cup ({f} \cap Tics) ELSE damaged
  BY <1>1, <1>4
<1> QED
  BY <1>3, <1>5, AttachOneStep

\* A kill: the tic files that .filelist still has, and the flo file may have too.
LEMMA FlushKilledStep ==
  ASSUME IInv, FlushKilled
  PROVE  IInv'
<1> DEFINE cost == CASE flush.pc \in {"unlink", "attach"} /\ flush.attach -> {Arc(flush.arc)}
                     [] flush.pc = "files" -> {filelist[i] : i \in 1..flush.line - 1} \cap Tics
                     [] OTHER -> {}
<1>1. /\ flush.pc # "idle" /\ mishaps < MaxMishaps /\ flush' = NotFlushing /\ mishaps' = mishaps + 1
      /\ UNCHANGED <<posted, queue, filelist, archive, tics, flo, tick, session, arrived>>
  BY OneMore DEF FlushKilled, disk
<1>2. damaged' = damaged \cup cost
  BY DEF FlushKilled
<1>3. flush \in FlushType /\ session.pc = "idle" /\ Arc(flush.arc) \in Archives
  BY <1>1, ArcName DEF IInv, Types, FlushType, Turns
<1>4. /\ flush.pc \in {"unlink", "attach"} /\ flush.attach => cost = {Arc(flush.arc)}
      /\ flush.pc = "files" => cost = {filelist[i] : i \in 1..flush.line - 1} \cap Tics
      /\ flush.pc # "files" /\ ~ (flush.pc \in {"unlink", "attach"} /\ flush.attach) => cost = {}
  OBVIOUS
<1> HIDE DEF cost
<1>5. cost \subseteq Archives \cup Tics
  BY <1>3, <1>4
<1>6. flush' \in FlushType /\ flush'.pc = "idle"
  BY <1>1, BoundsAssumption DEF NotFlushing, FlushType
<1>7. mishaps' \in 0..MaxMishaps
  BY <1>1, BoundsAssumption DEF IInv, Types
<1>8. Types'
  BY <1>1, <1>2, <1>5, <1>6, <1>7 DEF IInv, Types, HasMail, Exists
<1>9. Turns' /\ Flushing' /\ Sending'
  BY <1>1, <1>3, <1>6 DEF IInv, Turns, Flushing, Sending
<1>10. MailSomewhere' /\ ArchivesSent'
  <2>1. \A a \in Archives : HasMail(a) /\ WillBeSent(a) => WillBeSent(a)'
    BY <1>1, <1>2, <1>3, <1>4 DEF WillBeSent, Unsent
  <2> QED
    BY <1>1, <1>2, <2>1, MailFrame
<1>11. Latest' = Latest /\ \A t : Safe(t) => Safe(t)'
  BY <1>1, <1>2 DEF Latest, Safe, Unsent
<1>12. Listed'
  <2>1. ASSUME NEW t \in Tics, t = Latest, filelist # <<>>
        PROVE  t \in damaged' \/ \A i \in DOMAIN flo' : flo'[i].file # t
    <3>1. CASE Done
      <4>1. Len(filelist) \in 1..flush.line - 1 /\ flush.pc = "files"
        <5>1. Len(filelist) \in Nat /\ Len(filelist) >= 1 /\ flush.line \in Nat
          BY <1>3, <2>1, EmptySeq, BoundsAssumption DEF IInv, Types, FlushType
        <5> QED
          BY <3>1, <5>1 DEF Done
      <4>2. filelist[Len(filelist)] = t
        BY <2>1 DEF IInv, Listed
      <4>3. t \in cost
        BY <1>4, <2>1, <4>1, <4>2
      <4> QED
        BY <1>2, <4>3
    <3>2. CASE ~ Done
      <4>1. t \in damaged \/ \A i \in DOMAIN flo : flo[i].file # t
        BY <2>1, <3>2 DEF IInv, Listed
      <4> QED
        BY <1>1, <1>2, <4>1
    <3> QED
      BY <3>1, <3>2
  <2>2. ~ Done'
    BY <1>6 DEF Done
  <2> QED
    BY <1>1, <1>11, <2>1, <2>2 DEF IInv, Listed
<1>13. TicKept'
  BY <1>1, <1>11 DEF IInv, TicKept
<1> QED
  BY <1>8, <1>9, <1>10, <1>12, <1>13 DEF IInv

--------------------------------------------------------------------------------
(* The mailer. *)

LEMMA MailerAlone ==
  ASSUME IInv, flush.pc = "idle" \/ session.pc # "idle", flush' = flush, filelist' = filelist
  PROVE  flush.pc = "idle" /\ Turns' /\ Flushing' /\ (Done' <=> Done)
BY DEF IInv, Turns, Flushing, Done

LEMMA CallStep ==
  ASSUME IInv, Call
  PROVE  IInv'
<1> DEFINE listed == {f \in Things : Unsent(f)}
           missing == {f \in listed : ~OnDisk(f)}
<1>1. /\ session.pc = "idle" /\ flush.pc = "idle"
      /\ UNCHANGED <<posted, queue, filelist, tics, tick, flush, arrived, mishaps, damaged>>
  BY DEF Call
<1>2. /\ session' = [session EXCEPT !.pc = "sending", !.todo = listed \ missing]
      /\ flo' = Marked(flo, missing)
      /\ archive' = [a \in Archives |->
                       IF a \in missing THEN [there |-> TRUE, mail |-> {}, stamp |-> tick] ELSE archive[a]]
  BY DEF Call
<1>3. \A f \in missing : ~ OnDisk(f)
  OBVIOUS
<1>4. listed \ missing \subseteq Things
  OBVIOUS
<1> HIDE DEF listed, missing
<1>5. /\ session \in SessionType /\ flo \in Seq(LineType) /\ archive \in [Archives -> ArchiveType] /\ tick \in 0..MaxTick
      /\ \A a \in Archives : HasMail(a) => Exists(a)
  BY DEF IInv, Types
<1>6. session' \in SessionType /\ session'.pc = "sending"
  BY <1>2, <1>4, <1>5 DEF SessionType
<1>7. \A a \in Archives : HasMail(a) => a \notin missing
  BY <1>3, <1>5 DEF OnDisk
<1>8. \A t \in tics : t \notin missing
  BY <1>3 DEF OnDisk
<1>9. /\ flo' \in Seq(LineType)
      /\ DOMAIN flo' = DOMAIN flo /\ \A i \in DOMAIN flo : flo'[i].file = flo[i].file
      /\ \A f : f \notin missing /\ Unsent(f) => Unsent(f)'
  BY <1>2, <1>5, MarkedLines
<1>10. [there |-> TRUE, mail |-> {}, stamp |-> tick] \in ArchiveType
  BY <1>5 DEF ArchiveType
<1>11. archive' \in [Archives -> ArchiveType]
  BY <1>2, <1>5, <1>10
<1>12. \A a \in Archives : archive'[a].mail = archive[a].mail
  BY <1>2, <1>7 DEF HasMail
<1>13. \A a \in Archives : HasMail(a)' => Exists(a)'
  BY <1>2, <1>5, <1>7, <1>12 DEF HasMail, Exists
<1>14. Types'
  BY <1>1, <1>6, <1>9, <1>11, <1>13 DEF IInv, Types
<1>15. flush.pc = "idle" /\ Turns' /\ Flushing' /\ (Done' <=> Done)
  BY <1>1, MailerAlone
<1>16. Sending'
  BY <1>6 DEF Sending
<1>17. MailSomewhere' /\ ArchivesSent'
  <2>1. \A a \in Archives : HasMail(a) /\ WillBeSent(a) => WillBeSent(a)'
    BY <1>1, <1>7, <1>9 DEF WillBeSent
  <2> QED
    BY <1>1, <1>12, <2>1, MailFrame
<1>18. Listed' /\ TicKept'
  BY <1>1, <1>8, <1>9, <1>15, TicFrame
<1> QED
  BY <1>14, <1>15, <1>16, <1>17, <1>18 DEF IInv

LEMMA TransmitStep ==
  ASSUME IInv, NEW f \in Things, Transmit(f)
  PROVE  IInv'
<1>1. /\ session.pc = "sending" /\ session' = [session EXCEPT !.pc = "got", !.file = f]
      /\ arrived' = arrived \cup (IF f \in Archives THEN archive[f].mail ELSE {f} \cap Tics)
      /\ UNCHANGED <<posted, queue, filelist, archive, tics, flo, tick, flush, mishaps, damaged>>
  BY DEF Transmit, disk
<1>2. session' \in SessionType /\ session'.pc = "got" /\ session'.file = f
  BY <1>1 DEF IInv, Types, SessionType
<1>3. /\ arrived \subseteq arrived'
      /\ f \in Archives => archive[f].mail \subseteq arrived'
      /\ f \in Tics => f \in arrived'
  BY <1>1, Names
<1>4. arrived' \subseteq Packets \cup Tics
  BY <1>1 DEF IInv, Types, ArchiveType
<1>5. Types'
  BY <1>1, <1>2, <1>4 DEF IInv, Types, HasMail, Exists
<1>6. flush.pc = "idle" /\ Turns' /\ Flushing' /\ (Done' <=> Done)
  BY <1>1, MailerAlone
<1>7. Sending'
  BY <1>1, <1>2, <1>3 DEF Sending
<1>8. MailSomewhere' /\ ArchivesSent'
  <2>1. \A a \in Archives : HasMail(a) /\ WillBeSent(a) => WillBeSent(a)'
    BY <1>1, <1>6 DEF WillBeSent, Unsent
  <2> QED
    BY <1>1, <1>3, <2>1, MailFrame
<1>9. Listed' /\ TicKept'
  BY <1>1, <1>3, <1>6, TicFrame DEF Unsent
<1> QED
  BY <1>5, <1>6, <1>7, <1>8, <1>9 DEF IInv

\* A file is not sent in this session, refused or gone.
LEMMA LeftOutStep ==
  ASSUME IInv, session.pc = "sending", NEW f, session' = [session EXCEPT !.todo = @ \ {f}],
         UNCHANGED <<posted, queue, filelist, archive, tics, flo, tick, flush, arrived, mishaps, damaged>>
  PROVE  IInv'
<1>1. /\ session.pc = "sending" /\ session' = [session EXCEPT !.todo = @ \ {f}]
      /\ UNCHANGED <<posted, queue, filelist, archive, tics, flo, tick, flush, arrived, mishaps, damaged>>
  OBVIOUS
<1>2. session' \in SessionType /\ session'.pc = "sending"
  BY <1>1 DEF IInv, Types, SessionType
<1>3. Types'
  BY <1>1, <1>2 DEF IInv, Types, HasMail, Exists
<1>4. flush.pc = "idle" /\ Turns' /\ Flushing' /\ (Done' <=> Done)
  BY <1>1, MailerAlone
<1>5. Sending'
  BY <1>2 DEF Sending
<1>6. MailSomewhere' /\ ArchivesSent'
  <2>1. \A a \in Archives : HasMail(a) /\ WillBeSent(a) => WillBeSent(a)'
    BY <1>1, <1>4 DEF WillBeSent, Unsent
  <2> QED
    BY <1>1, <2>1, MailFrame
<1>7. Listed' /\ TicKept'
  BY <1>1, <1>4, TicFrame DEF Unsent
<1> QED
  BY <1>3, <1>4, <1>5, <1>6, <1>7 DEF IInv

LEMMA SkipStep ==
  ASSUME IInv, NEW f \in Things, Skip(f)
  PROVE  IInv'
BY LeftOutStep DEF Skip, disk

LEMMA PassMissingStep ==
  ASSUME IInv, PassMissing
  PROVE  IInv'
BY LeftOutStep DEF PassMissing, disk

LEMMA MarkStep ==
  ASSUME IInv, Mark
  PROVE  IInv'
<1>1. /\ session.pc = "got" /\ flo' = Marked(flo, {session.file}) /\ session' = [session EXCEPT !.pc = "marked"]
      /\ UNCHANGED <<posted, queue, filelist, archive, tics, tick, flush, arrived, mishaps, damaged>>
  BY DEF Mark
<1>2. session' \in SessionType /\ session'.pc = "marked" /\ session'.file = session.file
  BY <1>1 DEF IInv, Types, SessionType
<1>3. /\ flo' \in Seq(LineType)
      /\ DOMAIN flo' = DOMAIN flo /\ \A i \in DOMAIN flo : flo'[i].file = flo[i].file
      /\ \A f : f # session.file /\ Unsent(f) => Unsent(f)'
  <2>1. PICK S : S = {session.file}
    OBVIOUS
  <2>2. flo' = Marked(flo, S) /\ flo \in Seq(LineType)
    BY <1>1, <2>1 DEF IInv, Types
  <2>3. /\ flo' \in Seq(LineType)
        /\ DOMAIN flo' = DOMAIN flo /\ \A i \in DOMAIN flo : flo'[i].file = flo[i].file
        /\ \A f : f \notin S /\ Unsent(f) => Unsent(f)'
    BY <2>2, MarkedLines
  <2> QED
    BY <2>1, <2>3
<1>4. Types'
  BY <1>1, <1>2, <1>3 DEF IInv, Types, HasMail, Exists
<1>5. flush.pc = "idle" /\ Turns' /\ Flushing' /\ (Done' <=> Done)
  BY <1>1, MailerAlone
<1>6. Sending'
  BY <1>1, <1>2 DEF IInv, Sending
<1>7. MailSomewhere' /\ ArchivesSent'
  <2>1. \A a \in Archives : HasMail(a) /\ WillBeSent(a) => WillBeSent(a)'
    BY <1>1, <1>2, <1>3, <1>5 DEF WillBeSent
  <2> QED
    BY <1>1, <2>1, MailFrame
<1>8. Listed' /\ TicKept'
  <2>1. \A t \in Tics : Unsent(t) => Unsent(t)' \/ t \in arrived'
    BY <1>1, <1>3 DEF IInv, Sending
  <2> QED
    BY <1>1, <1>3, <1>5, <2>1, TicFrame
<1> QED
  BY <1>4, <1>5, <1>6, <1>7, <1>8 DEF IInv

LEMMA DisposeStep ==
  ASSUME IInv, Dispose
  PROVE  IInv'
<1> DEFINE gone == [there |-> TRUE, mail |-> {}, stamp |-> tick]
<1>1. /\ session.pc = "marked" /\ tics' = tics \ {session.file} /\ session' = [session EXCEPT !.pc = "disposed"]
      /\ UNCHANGED <<posted, queue, filelist, flo, tick, flush, arrived, mishaps, damaged>>
  BY DEF Dispose
<1>2. session' \in SessionType /\ session'.pc = "disposed" /\ session'.file = session.file
  BY <1>1 DEF IInv, Types, SessionType
<1>3. archive \in [Archives -> ArchiveType] /\ gone \in ArchiveType /\ gone.mail = {} /\ gone.there
  BY DEF IInv, Types, ArchiveType
<1>4. archive' = IF session.file \in Archives THEN [archive EXCEPT ![session.file] = gone] ELSE archive
  BY DEF Dispose
<1> HIDE DEF gone
<1>5. /\ archive' \in [Archives -> ArchiveType]
      /\ \A a \in Archives : archive'[a] = IF a = session.file THEN gone ELSE archive[a]
  BY <1>3, <1>4
<1>6. Types'
  <2>1. \A a \in Archives : HasMail(a)' => Exists(a)'
    BY <1>3, <1>5 DEF HasMail, Exists, IInv, Types
  <2> QED
    BY <1>1, <1>2, <1>5, <2>1 DEF IInv, Types
<1>7. flush.pc = "idle" /\ Turns' /\ Flushing' /\ (Done' <=> Done)
  BY <1>1, MailerAlone
<1>8. Sending'
  BY <1>1, <1>2 DEF IInv, Sending
<1>9. MailSomewhere'
  <2> SUFFICES ASSUME NEW p \in Packets, NEW a \in Archives, p \in archive[a].mail
               PROVE  p \in arrived' \/ p \in archive'[a].mail
    BY <1>1 DEF IInv, MailSomewhere
  <2>1. CASE a = session.file
    BY <1>1, <2>1 DEF IInv, Sending
  <2>2. CASE a # session.file
    BY <1>5, <2>2
  <2> QED
    BY <2>1, <2>2
<1>10. ArchivesSent'
  <2> SUFFICES ASSUME NEW a \in Archives, HasMail(a)'
               PROVE  WillBeSent(a)'
    BY DEF ArchivesSent
  <2>1. a # session.file /\ WillBeSent(a)
    BY <1>3, <1>5 DEF HasMail, IInv, ArchivesSent
  <2> QED
    BY <1>1, <1>7, <2>1 DEF WillBeSent, Unsent
<1>11. Listed' /\ TicKept'
  <2>1. \A t \in tics : t \in tics' \/ t \in arrived'
    BY <1>1 DEF IInv, Types, Sending
  <2> QED
    BY <1>1, <1>7, <2>1, TicFrame DEF Unsent
<1> QED
  BY <1>6, <1>7, <1>8, <1>9, <1>10, <1>11 DEF IInv

\* The flo file is tidied, and perhaps the mailer hangs up.
LEMMA TidyStep ==
  ASSUME IInv, session.pc \in {"disposed", "sending"}, flo' = Tidied(flo),
         session' \in SessionType, session'.pc \in {"idle", "sending"},
         UNCHANGED <<posted, queue, filelist, archive, tics, tick, flush, arrived, mishaps, damaged>>
  PROVE  IInv'
<1>1. /\ flo' \in Seq(LineType)
      /\ \A i \in DOMAIN flo' : i \in DOMAIN flo /\ flo'[i].file = flo[i].file
      /\ \A f : Unsent(f) => Unsent(f)'
  BY TidiedLines DEF IInv, Types
<1>2. Types'
  BY <1>1 DEF IInv, Types, HasMail, Exists
<1>3. flush.pc = "idle" /\ Turns' /\ Flushing' /\ (Done' <=> Done)
  BY MailerAlone
<1>4. Sending'
  BY DEF Sending
<1>5. MailSomewhere' /\ ArchivesSent'
  <2>1. \A a \in Archives : HasMail(a) /\ WillBeSent(a) => WillBeSent(a)'
    BY <1>1, <1>3 DEF WillBeSent
  <2> QED
    BY <2>1, MailFrame
<1>6. Listed' /\ TicKept'
  BY <1>1, <1>3, TicFrame
<1> QED
  BY <1>2, <1>3, <1>4, <1>5, <1>6 DEF IInv

LEMMA TidyFloStep ==
  ASSUME IInv, TidyFlo
  PROVE  IInv'
<1>1. /\ session.pc = "disposed" /\ flo' = Tidied(flo)
      /\ session' = [session EXCEPT !.pc = "sending", !.todo = @ \ {session.file}, !.file = File]
      /\ UNCHANGED <<posted, queue, filelist, archive, tics, tick, flush, arrived, mishaps, damaged>>
  BY DEF TidyFlo
<1>2. session' \in SessionType /\ session'.pc = "sending"
  BY <1>1 DEF IInv, Types, SessionType, Things
<1> QED
  BY <1>1, <1>2, TidyStep

LEMMA HangUpStep ==
  ASSUME IInv, HangUp
  PROVE  IInv'
<1>1. /\ session.pc = "sending" /\ flo' = Tidied(flo) /\ session' = NoSession
      /\ UNCHANGED <<posted, queue, filelist, archive, tics, tick, flush, arrived, mishaps, damaged>>
  BY DEF HangUp
<1>2. session' \in SessionType /\ session'.pc = "idle"
  BY <1>1 DEF NoSession, SessionType, Things
<1> QED
  BY <1>1, <1>2, TidyStep

\* The session ends, and what the mailer had marked and not truncated is named.
LEMMA BrokenStep ==
  ASSUME IInv, session.pc # "idle", session' = NoSession, mishaps' \in 0..MaxMishaps,
         damaged' = damaged \cup (IF session.pc = "marked" THEN {session.file} \cap Archives ELSE {}),
         UNCHANGED <<posted, queue, filelist, archive, tics, flo, tick, flush, arrived>>
  PROVE  IInv'
<1>1. session' \in SessionType /\ session'.pc = "idle"
  BY DEF NoSession, SessionType, Things
<1>2. Types'
  BY <1>1 DEF IInv, Types, HasMail, Exists
<1>3. flush.pc = "idle" /\ Turns' /\ Flushing' /\ (Done' <=> Done)
  BY MailerAlone
<1>4. Sending'
  BY <1>1 DEF Sending
<1>5. MailSomewhere' /\ ArchivesSent'
  <2>1. \A a \in Archives : HasMail(a) /\ WillBeSent(a) => WillBeSent(a)'
    BY <1>3 DEF WillBeSent, Unsent
  <2> QED
    BY <2>1, MailFrame
<1>6. Listed' /\ TicKept'
  BY <1>3, TicFrame DEF Unsent
<1> QED
  BY <1>2, <1>3, <1>4, <1>5, <1>6 DEF IInv

LEMMA BreakStep ==
  ASSUME IInv, Break
  PROVE  IInv'
BY BrokenStep DEF Break, disk, IInv, Types

LEMMA MailerKilledStep ==
  ASSUME IInv, MailerKilled
  PROVE  IInv'
<1>1. mishaps < MaxMishaps /\ mishaps' = mishaps + 1
  BY OneMore DEF MailerKilled
<1>2. mishaps' \in 0..MaxMishaps
  BY <1>1, BoundsAssumption DEF IInv, Types
<1> QED
  BY <1>2, BrokenStep DEF MailerKilled, disk

\* Nothing changes but the time.
LEMMA TimeStep ==
  ASSUME IInv, tick' \in 0..MaxTick, UNCHANGED <<posted, disk, flush, session, arrived, mishaps, damaged>>
  PROVE  IInv'
<1>1. UNCHANGED <<posted, queue, filelist, archive, tics, flo, flush, session, arrived, mishaps, damaged>>
  BY DEF disk
<1>2. Types'
  BY <1>1 DEF IInv, Types, HasMail, Exists
<1>3. Turns' /\ Sending' /\ (Done' <=> Done)
  BY <1>1 DEF IInv, Turns, Sending, Done
<1>4. Flushing'
  <2>1. Packet' = Packet
    BY <1>1, PacketStays
  <2>2. \A n : Arc(n)' = Arc(n)
    BY <1>1 DEF Arc
  <2> QED
    BY <1>1, <2>1, <2>2 DEF IInv, Flushing, Unsent
<1>5. MailSomewhere' /\ ArchivesSent'
  <2>1. \A a \in Archives : HasMail(a) /\ WillBeSent(a) => WillBeSent(a)'
    BY <1>1 DEF WillBeSent, Unsent, Arc
  <2> QED
    BY <1>1, <2>1, MailFrame
<1>6. Listed' /\ TicKept'
  BY <1>1, <1>3, TicFrame DEF Unsent
<1> QED
  BY <1>2, <1>3, <1>4, <1>5, <1>6 DEF IInv

--------------------------------------------------------------------------------
(* scan_dir(). *)

\* It removes an archive, and its mail is named.
LEMMA RemovedStep ==
  ASSUME IInv, NEW b \in Archives, archive' = Removed({b}),
         damaged' = damaged \cup (archive[b].mail \ arrived),
         UNCHANGED <<posted, queue, filelist, tics, flo, tick, flush, session, arrived, mishaps>>
  PROVE  IInv'
<1>1. flush \in FlushType /\ archive \in [Archives -> ArchiveType]
  BY DEF IInv, Types
<1>2. Gone \in ArchiveType /\ Gone.mail = {}
  BY BoundsAssumption DEF Gone, ArchiveType
<1>3. /\ archive' \in [Archives -> ArchiveType]
      /\ archive'[b] = Gone
      /\ \A a \in Archives : a # b => archive'[a] = archive[a]
  BY <1>1, <1>2 DEF Removed
<1>4. \A a \in Archives : HasMail(a)' => a # b /\ HasMail(a)
  BY <1>2, <1>3 DEF HasMail
<1>5. \A a \in Archives : archive[a].mail \subseteq archive'[a].mail \cup arrived' \cup damaged'
  BY <1>3
<1>6. Types'
  <2>1. \A a \in Archives : HasMail(a)' => Exists(a)'
    BY <1>3, <1>4 DEF IInv, Types, Exists
  <2>2. damaged' \subseteq Packets \cup Archives \cup Tics
    BY <1>1 DEF IInv, Types, ArchiveType
  <2> QED
    BY <1>3, <2>1, <2>2 DEF IInv, Types
<1>7. Turns' /\ (Done' <=> Done)
  BY DEF IInv, Turns, Done
<1>8. Sending'
  <2>1. \A a \in Archives : archive'[a].mail \subseteq archive[a].mail
    BY <1>2, <1>3
  <2> QED
    BY <2>1 DEF IInv, Sending
<1>9. Flushing'
  <2>1. Packet' = Packet
    BY PacketStays
  <2>2. \A n : Arc(n)' = Arc(n)
    BY DEF Arc
  <2>3. flush.pc = "unlink" => Packet \in archive'[Arc(flush.arc)].mail \cup arrived' \cup damaged'
    <3>1. Arc(flush.arc) \in Archives
      BY <1>1, ArcName DEF FlushType
    <3> QED
      BY <1>5, <3>1 DEF IInv, Flushing
  <2> QED
    BY <2>1, <2>2, <2>3 DEF IInv, Flushing, Unsent
<1>10. MailSomewhere'
  BY <1>5 DEF IInv, MailSomewhere
<1>11. ArchivesSent'
  <2> SUFFICES ASSUME NEW a \in Archives, HasMail(a)'
               PROVE  WillBeSent(a)'
    BY DEF ArchivesSent
  <2>1. WillBeSent(a)
    BY <1>4 DEF IInv, ArchivesSent
  <2> QED
    BY <2>1 DEF WillBeSent, Unsent, Arc
<1>12. Listed' /\ TicKept'
  <2>1. damaged \cap Tics \subseteq damaged'
    OBVIOUS
  <2> QED
    BY <1>7, <2>1, TicFrame DEF Unsent
<1> QED
  BY <1>6, <1>7, <1>8, <1>9, <1>10, <1>11, <1>12 DEF IInv

\* What a step of scan_dir() does to the archives.
LEMMA ScanEffect ==
  ASSUME Scanning, ScanStep \/ \E a \in Archives : ReadDir(a)
  PROVE  /\ UNCHANGED <<posted, queue, filelist, tics, flo, tick, flush, session, arrived, mishaps>>
         /\ \/ UNCHANGED <<archive, damaged>>
            \/ /\ archive' = Removed({scan.file})
               /\ damaged' = damaged \cup (archive[scan.file].mail \ arrived)
<1>1. CASE \E a \in Archives : ReadDir(a)
  BY <1>1 DEF ReadDir, Known
<1>2. CASE FileTime \/ FileSize
  BY <1>2 DEF FileTime, FileSize, Known
<1>3. CASE RemoveTruncated
  BY <1>3 DEF RemoveTruncated, Known, Scanning
<1>4. CASE RemoveOld
  BY <1>4 DEF RemoveOld, Known
<1> QED
  BY <1>1, <1>2, <1>3, <1>4 DEF ScanStep

LEMMA ScanInv ==
  ASSUME IInv, Scanning, ScanStep \/ \E a \in Archives : ReadDir(a)
  PROVE  IInv'
<1>1. UNCHANGED <<posted, queue, filelist, tics, flo, tick, flush, session, arrived, mishaps>>
  BY ScanEffect
<1>2. CASE UNCHANGED <<archive, damaged>>
  <2>1. tick' \in 0..MaxTick
    BY <1>1 DEF IInv, Types
  <2> QED
    BY <1>1, <1>2, <2>1, TimeStep DEF disk
<1>3. CASE /\ archive' = Removed({scan.file})
           /\ damaged' = damaged \cup (archive[scan.file].mail \ arrived)
  BY <1>1, <1>3, RemovedStep DEF Scanning
<1> QED
  BY <1>2, <1>3, ScanEffect

\* An archive is removed as truncated only after it was seen without mail.
LEMMA ScanningKept ==
  ASSUME Scanning, IInv, [Next]_vars
  PROVE  Scanning'
<1> DEFINE ScanType == [pc : {"idle", "time", "size", "unlink", "toss"}, file : Archives, week : BOOLEAN,
                        toss : BOOLEAN, seen : SUBSET Packets, count : 0..MaxScans]
<1>1. scan \in ScanType /\ (scan.pc = "unlink" => scan.seen = {})
  BY DEF Scanning
<1>2. ScanNext \in ScanType /\ ScanNext.pc = "idle"
  <2>1. <<"arc", 0, 0>> \in Archives
    BY BoundsAssumption DEF Archives
  <2> QED
    BY <1>1, <2>1 DEF ScanNext, NotScanning
<1>3. CASE \E a \in Archives : ReadDir(a)
  <2>1. PICK a \in Archives : ReadDir(a)
    BY <1>3
  <2>2. scan.count + 1 \in 0..MaxScans
    BY <1>1, <2>1, Possibilities, BoundsAssumption DEF ReadDir
  <2> QED
    BY <1>1, <2>1, <2>2 DEF ReadDir, Scanning
<1>4. CASE FileTime
  BY <1>1, <1>4 DEF FileTime, Scanning
<1>5. CASE FileSize
  <2>1. CASE Truncated(scan.file)
    <3>1. archive[scan.file].mail = {}
      BY <2>1 DEF Truncated, Empty
    <3>2. scan' = [scan EXCEPT !.pc = "unlink", !.seen = {}]
      BY <1>5, <2>1, <3>1 DEF FileSize
    <3> QED
      BY <1>1, <3>2 DEF Scanning
  <2>2. CASE ~ Truncated(scan.file)
    <3>1. scan' = ScanNext \/ scan' = [scan EXCEPT !.pc = "toss"]
      BY <1>5, <2>2 DEF FileSize
    <3> QED
      BY <1>1, <1>2, <3>1 DEF Scanning
  <2> QED
    BY <2>1, <2>2
<1>6. CASE RemoveTruncated \/ RemoveOld
  <2>1. scan' = ScanNext \/ scan' = [scan EXCEPT !.pc = "toss", !.seen = {}]
    BY <1>6 DEF RemoveTruncated, RemoveOld
  <2> QED
    BY <1>1, <1>2, <2>1 DEF Scanning
<1>7. CASE UNCHANGED scan
  BY <1>1, <1>7 DEF Scanning
<1>8. ScanStep \/ (\E a \in Archives : ReadDir(a)) \/ UNCHANGED scan
  BY DEF Next, PostMail, PostFile, FlushDir, FlushStep, PackFails, Transmit, Skip, MailerStep, Break,
     FlushKilled, FloFails, FileFails, MailerKilled, HalfDay, TryName, Unlink, AttachArchive, AttachFile,
     AttachOne, Flushed, Mark, TidyFlo, HangUp, PassMissing, FreeName, NamesExhausted, Pack, Call, Dispose,
     vars
<1> QED
  BY <1>3, <1>4, <1>5, <1>6, <1>7, <1>8 DEF ScanStep

--------------------------------------------------------------------------------
(* Every step. *)

LEMMA NextInv ==
  ASSUME IInv, Scanning, [Next]_vars
  PROVE  IInv'
<1>1. CASE PostMail
  BY <1>1, PostMailStep
<1>2. CASE PostFile
  BY <1>2, PostFileStep
<1>3. CASE FlushDir
  BY <1>3, FlushDirStep
<1>4. CASE FlushStep
  BY <1>4, FreeNameStep, NamesExhaustedStep, TryNameStep, PackStep, UnlinkStep, AttachArchiveStep,
     AttachFileStep, FlushedStep DEF FlushStep
<1>5. CASE PackFails
  BY <1>5, PackFailsStep
<1>6. CASE Call
  BY <1>6, CallStep
<1>7. CASE \E f \in Things : Transmit(f) \/ Skip(f)
  BY <1>7, TransmitStep, SkipStep
<1>8. CASE MailerStep
  BY <1>8, MarkStep, DisposeStep, TidyFloStep, PassMissingStep, HangUpStep DEF MailerStep
<1>9. CASE Break
  BY <1>9, BreakStep
<1>10. CASE FlushKilled
  BY <1>10, FlushKilledStep
<1>11. CASE FloFails
  BY <1>11, FloFailsStep
<1>12. CASE FileFails
  BY <1>12, FileFailsStep
<1>13. CASE MailerKilled
  BY <1>13, MailerKilledStep
<1>14. CASE HalfDay
  <2>1. tick < MaxTick /\ tick' = tick + 1 /\ UNCHANGED <<posted, disk, flush, session, arrived, mishaps, damaged>>
    BY <1>14, OneMore DEF HalfDay
  <2>2. tick' \in 0..MaxTick
    BY <2>1, BoundsAssumption DEF IInv, Types
  <2> QED
    BY <2>1, <2>2, TimeStep
<1>15. CASE UNCHANGED vars
  <2>1. UNCHANGED <<posted, disk, tick, flush, session, arrived, mishaps, damaged>>
    BY <1>15 DEF vars, disk
  <2>2. tick' \in 0..MaxTick
    BY <2>1 DEF IInv, Types
  <2> QED
    BY <2>1, <2>2, TimeStep
<1>16. CASE ScanStep \/ \E a \in Archives : ReadDir(a)
  BY <1>16, ScanInv
<1> QED
  BY <1>1, <1>2, <1>3, <1>4, <1>5, <1>6, <1>7, <1>8, <1>9, <1>10, <1>11, <1>12, <1>13, <1>14, <1>15,
     <1>16 DEF Next

--------------------------------------------------------------------------------
(* The theorems. *)

\* The inductive invariant of the queue, the flo file and the mailer: flush_dir() and the
\* session take turns, every archive with mail has an unsent line or is just getting one,
\* what a session disposes of has arrived, and scan_dir() removes as truncated only what
\* it has seen without mail.
THEOREM Invariance == Spec => [](IInv /\ Scanning)
<1>1. Init => IInv /\ Scanning
  <2>1. <<"arc", 0, 0>> \in Archives /\ 0 \in 0..MaxScans
    BY BoundsAssumption DEF Archives
  <2>2. Init => Scanning
    BY <2>1 DEF Init, NotScanning, Scanning
  <2> QED
    BY <2>2, InitInv
<1>2. IInv /\ Scanning /\ [Next]_vars => (IInv /\ Scanning)'
  BY NextInv, ScanningKept
<1> QED
  BY <1>1, <1>2, PTL DEF Spec

\* The variables have their types: among them, the line of .filelist at which flush_dir()
\* works never leaves what .filelist can hold, and an archive with mail exists.
THEOREM TypeCorrect == Spec => []TypeOK
<1>1. IInv /\ Scanning => TypeOK
  BY DEF IInv, Scanning, Types, TypeOK, FlushType, SessionType, ArchiveType, LineType
<1> QED
  BY <1>1, Invariance, PTL

\* No mail is stranded: whatever the turns of mbfido and the mailer, mail that has not
\* arrived is in the queue or in an archive that attach() lists or a session has just sent.
THEOREM NoMailIsStranded == Spec => []NoMailStranded
<1>1. IInv => NoMailStranded
  BY DEF IInv, NoMailStranded, MailSomewhere, ArchivesSent, HasMail
<1> QED
  BY <1>1, Invariance, PTL

\* Mail leaves an archive only when it has arrived, but for three losses that the model
\* names damage: flush_dir() removes the archives of a day whose names are all used,
\* scan_dir() removes mail that was on hold for more than toss_days, and it removes what
\* was packed under the name of an archive after it had seen that truncated.  For the
\* rest, execute_disposition() truncates only what was sent, and the loop of flush_dir()
\* that looks for a name removes only archives without mail.
THEOREM MailLeavesOnlySent == Spec => MailLeavesSent
<1> DEFINE Kept == \A a \in Archives : archive[a].mail \subseteq archive'[a].mail \cup arrived \cup damaged'
<1>1. ASSUME IInv, Scanning, [Next]_vars
      PROVE  Kept
  <2>1. CASE FreeName
    <3>1. archive' = Removed({Arc(flush.arc)}) /\ Free(Arc(flush.arc))
      BY <2>1 DEF FreeName
    <3>2. Arc(flush.arc) \in Archives
      BY <1>1, ArcName DEF IInv, Types, FlushType
    <3>3. archive[Arc(flush.arc)].mail = {}
      BY <1>1, <3>1, <3>2 DEF Free, Empty, IInv, Types, HasMail
    <3> QED
      BY <3>1, <3>3 DEF Removed
  <2>2. CASE NamesExhausted
    <3>1. archive' = Removed(Exhausted) /\ damaged' = (damaged \ Exhausted) \cup UNION {archive[a].mail : a \in Exhausted}
      BY <2>2 DEF NamesExhausted
    <3>2. \A a \in Archives : a \notin Exhausted => archive'[a] = archive[a]
      BY <3>1 DEF Removed
    <3>3. \A a \in Exhausted : archive[a].mail \subseteq damaged'
      BY <3>1
    <3> QED
      BY <3>2, <3>3
  <2>3. CASE Pack
    <3>1. archive \in [Archives -> ArchiveType]
      BY <1>1 DEF IInv, Types
    <3> QED
      BY <2>3, <3>1 DEF Pack
  <2>4. CASE Call
    <3>1. PICK S : /\ \A a \in S : ~OnDisk(a)
                   /\ archive' = [a \in Archives |->
                        IF a \in S THEN [there |-> TRUE, mail |-> {}, stamp |-> tick] ELSE archive[a]]
      BY <2>4 DEF Call
    <3>2. \A a \in Archives : a \in S => archive[a].mail = {}
      BY <1>1, <3>1 DEF OnDisk, IInv, Types, HasMail
    <3> QED
      BY <3>1, <3>2
  <2>5. CASE Dispose
    <3>1. /\ archive \in [Archives -> ArchiveType]
          /\ session.file \in Archives => archive[session.file].mail \subseteq arrived
      BY <1>1, <2>5 DEF IInv, Types, Sending, Dispose
    <3> QED
      BY <2>5, <3>1 DEF Dispose
  <2>6. CASE UNCHANGED archive
    BY <2>6
  <2>7. CASE ScanStep \/ \E a \in Archives : ReadDir(a)
    <3>1. \/ UNCHANGED <<archive, damaged>>
          \/ /\ archive' = Removed({scan.file})
             /\ damaged' = damaged \cup (archive[scan.file].mail \ arrived)
      BY <1>1, <2>7, ScanEffect
    <3> QED
      BY <3>1 DEF Removed
  <2>8. \/ FreeName \/ NamesExhausted \/ Pack \/ Call \/ Dispose
        \/ ScanStep \/ (\E a \in Archives : ReadDir(a)) \/ UNCHANGED archive
    BY <1>1 DEF Next, PostMail, PostFile, FlushDir, FlushStep, PackFails, Transmit, Skip, MailerStep, Break,
       FlushKilled, FloFails, FileFails, MailerKilled, HalfDay, TryName, Unlink, AttachArchive, AttachFile, AttachOne,
       Flushed, Mark, TidyFlo, HangUp, PassMissing, vars, disk
  <2> QED
    BY <2>1, <2>2, <2>3, <2>4, <2>5, <2>6, <2>7, <2>8
<1>2. IInv /\ Scanning /\ [Next]_vars => [Kept]_vars
  BY <1>1
<1> QED
  BY <1>2, Invariance, PTL DEF Spec, MailLeavesSent

\* The tic file of the last announcement of a file is not lost: attach() removes only the
\* older one of the file, and a session only what has arrived.
THEOREM LastTicIsKept == Spec => []LastTicKept
<1>1. ASSUME IInv
      PROVE  LastTicKept
  <2>1. posted.tics = 0 \/ Latest \in Tics
    <3>1. posted.tics \in 0..MaxTics /\ MaxTics \in Nat
      BY <1>1, BoundsAssumption DEF IInv, Types
    <3> QED
      BY <3>1 DEF Latest, Tics
  <2>2. posted.tics = 0 \/ Safe(Latest) \/ (Latest \in tics /\ \E i \in DOMAIN filelist : filelist[i] = Latest)
    BY <1>1, <2>1 DEF IInv, TicKept
  <2> QED
    BY <2>2 DEF LastTicKept, Latest, Safe
<1> QED
  BY <1>1, Invariance, PTL

--------------------------------------------------------------------------------
(***************************************************************************)
(* What the node lock guarantees for any set of processes: a lock with a   *)
(* pid has an owner, always; and two users of a node are kept apart as     *)
(* long as nobody comes back, no lock grows old and no other operating     *)
(* system locks nodes.                                                     *)
(***************************************************************************)

\* Inside nodelock(), after the lock was read as another one's.
Doubting == {"stat", "kill", "unlink", "relink"}

\* A process that has read another one's lock has none itself, and neither
\* has one that has returned the node for good.
DoubtersLockless ==
  \A p \in Procs : pc[p] \in Doubting \cup {"done"} => lockfile # p

OwnerInv == NodeTypeOK /\ LockHasOwner /\ DoubtersLockless

LEMMA InitOwnerInv == NodeInit => OwnerInv
BY ProcsAssumption, FilesAssumption
   DEF NodeInit, OwnerInv, NodeTypeOK, LockHasOwner, DoubtersLockless, Doubting, States

LEMMA NextOwnerInv == OwnerInv /\ [NodeNext]_nodeVars => OwnerInv'
<1> SUFFICES ASSUME OwnerInv, [NodeNext]_nodeVars PROVE OwnerInv'
  OBVIOUS
<1> USE ProcsAssumption, FilesAssumption
    DEF OwnerInv, NodeTypeOK, LockHasOwner, DoubtersLockless, Doubting, States, Goto, Locked, Busy
<1>1. ASSUME NEW p \in Procs, Start(p) PROVE OwnerInv'
  BY <1>1 DEF Start
<1>2. ASSUME NEW p \in Procs, Link(p) PROVE OwnerInv'
  <2>1. CASE Take(p) /\ Locked(p)
    BY <1>2, <2>1 DEF Link, Take
  <2>2. CASE Goto(p, "open") /\ UNCHANGED <<holds, lockfile, old>>
    BY <1>2, <2>2 DEF Link
  <2> QED
    BY <1>2, <2>1, <2>2 DEF Link
<1>3. ASSUME NEW p \in Procs, ReadLock(p) PROVE OwnerInv'
  BY <1>3 DEF ReadLock, Scanned, IsZero
<1>4. ASSUME NEW p \in Procs, Stat(p) PROVE OwnerInv'
  BY <1>4 DEF Stat, LooksOld
<1>5. ASSUME NEW p \in Procs, Probe(p) PROVE OwnerInv'
  BY <1>5 DEF Probe, OwnerGone
<1>6. ASSUME NEW p \in Procs, UnlinkStale(p) PROVE OwnerInv'
  BY <1>6 DEF UnlinkStale
<1>7. ASSUME NEW p \in Procs, Relink(p) PROVE OwnerInv'
  <2>1. CASE Take(p) /\ Locked(p)
    BY <1>7, <2>1 DEF Relink, Take
  <2>2. CASE Busy(p) /\ UNCHANGED <<lockfile, old>>
    BY <1>7, <2>2 DEF Relink
  <2> QED
    BY <1>7, <2>1, <2>2 DEF Relink
<1>8. ASSUME NEW p \in Procs, ReadOwn(p) PROVE OwnerInv'
  BY <1>8 DEF ReadOwn, Return
<1>9. ASSUME NEW p \in Procs, Unlock(p) PROVE OwnerInv'
  BY <1>9 DEF Unlock, Return
<1>10. ASSUME NEW p \in Procs, Die(p) PROVE OwnerInv'
  BY <1>10 DEF Die
<1>11. CASE ForeignUnlock \/ SixHours
  BY <1>11 DEF ForeignUnlock, SixHours
<1>12. CASE UNCHANGED nodeVars
  BY <1>12 DEF nodeVars
<1> QED
  BY <1>1, <1>2, <1>3, <1>4, <1>5, <1>6, <1>7, <1>8, <1>9, <1>10, <1>11, <1>12
     DEF NodeNext, Lock, Ulock

LEMMA OwnerInvariance == NodeSpec => []OwnerInv
<1>1. OwnerInv /\ [NodeNext]_nodeVars => OwnerInv'
  BY NextOwnerInv
<1> QED
  BY <1>1, InitOwnerInv, PTL DEF NodeSpec

\* Every variable keeps its type, whatever tmppid happens to hold.
THEOREM NodeLockTypes == NodeSpec => []NodeTypeOK
<1>1. OwnerInv => NodeTypeOK
  BY DEF OwnerInv
<1> QED
  BY <1>1, OwnerInvariance, PTL

\* No lock stays behind a process that has returned the node or was turned
\* away, in spite of every race, old lock and uninitialised pid.
THEOREM NoOrphanedLock == NodeSpec => []LockHasOwner
<1>1. OwnerInv => LockHasOwner
  BY DEF OwnerInv
<1> QED
  BY <1>1, OwnerInvariance, PTL
------------------------------------------------------------------------------
\* What it takes for the node lock to exclude: no third user.
Harmless == \A a, b, c \in Procs : a = b \/ a = c \/ b = c

\* The process will not work on the node any more.
Past(p) == pc[p] \in {"done", "dead"}

\* The lock file is never old, nor without a pid.
Plain == ~old /\ ~foreign /\ lockfile # Zero

LockNamesHolder ==
  /\ \A p \in holds : lockfile = p /\ pc[p] \notin Doubting /\ ~Past(p)
  /\ \A p \in Procs : pc[p] = "unlock" => p \in holds

\* The lock a process has read is there still, or its owner is past; and it is
\* removed only when the owner is past.
SeenPast ==
  \A p \in Procs :
    /\ pc[p] \in {"stat", "kill", "unlink"} =>
         /\ pid[p] \in Procs \ {p}
         /\ lockfile = pid[p] \/ Past(pid[p])
    /\ pc[p] = "kill" /\ tooOld[p] => Past(pid[p])
    /\ pc[p] = "unlink" => Past(pid[p])

Undisturbed == Plain /\ LockNamesHolder /\ SeenPast

PairInv == OwnerInv /\ (disturbed \/ Undisturbed)

LEMMA InitPairInv == NodeInit => PairInv
<1> SUFFICES ASSUME NodeInit PROVE PairInv
  OBVIOUS
<1>1. OwnerInv
  BY InitOwnerInv
<1>2. ASSUME ~ disturbed PROVE Undisturbed
  BY <1>2, FilesAssumption
     DEF NodeInit, Undisturbed, Plain, LockNamesHolder, SeenPast, Past, Doubting
<1> QED
  BY <1>1, <1>2 DEF PairInv

\* The removal of a stale lock takes it from nobody.
LEMMA RemovalHarmless ==
  ASSUME Harmless, OwnerInv, Undisturbed, NEW p \in Procs, pc[p] = "unlink"
  PROVE  holds = {}
<1>1. Past(pid[p]) /\ pid[p] \in Procs \ {p}
  BY DEF Undisturbed, SeenPast
<1>2. \A q \in Procs : q = p \/ q = pid[p]
  BY <1>1 DEF Harmless
<1> QED
  BY <1>1, <1>2 DEF Undisturbed, LockNamesHolder, OwnerInv, NodeTypeOK, Doubting

\* A step that is not one of the disturbances keeps the two apart.
LEMMA NextUndisturbed ==
  ASSUME Harmless, OwnerInv, Undisturbed, [NodeNext]_nodeVars, ~ disturbed'
  PROVE  Undisturbed'
<1>0. OwnerInv'
  BY NextOwnerInv
<1> USE <1>0, ProcsAssumption, FilesAssumption
    DEF Undisturbed, OwnerInv, NodeTypeOK, LockHasOwner, DoubtersLockless, Plain,
        LockNamesHolder, SeenPast, Past, Doubting, Goto, Locked, Busy
<1>1. ASSUME NEW p \in Procs, Start(p) PROVE Undisturbed'
  BY <1>1 DEF Start
<1>2. ASSUME NEW p \in Procs, Link(p) PROVE Undisturbed'
  BY <1>2 DEF Link, Take
<1>3. ASSUME NEW p \in Procs, ReadLock(p) PROVE Undisturbed'
  BY <1>3 DEF ReadLock, Scanned, IsZero
<1>4. ASSUME NEW p \in Procs, Stat(p) PROVE Undisturbed'
  BY <1>4 DEF Stat, LooksOld
<1>5. ASSUME NEW p \in Procs, Probe(p) PROVE Undisturbed'
  BY <1>5 DEF Probe, OwnerGone
<1>6. ASSUME NEW p \in Procs, UnlinkStale(p) PROVE Undisturbed'
  <2>1. holds = {}
    BY <1>6, RemovalHarmless DEF UnlinkStale
  <2>2. \A q \in Procs : pc[q] \in {"stat", "kill"} => q = p \/ q = pid[p]
    BY <1>6 DEF UnlinkStale, Harmless
  <2> QED
    BY <1>6, <2>1, <2>2 DEF UnlinkStale, Harmless
<1>7. ASSUME NEW p \in Procs, Relink(p) PROVE Undisturbed'
  BY <1>7 DEF Relink, Take
<1>8. ASSUME NEW p \in Procs, ReadOwn(p) PROVE Undisturbed'
  BY <1>8 DEF ReadOwn, Return
<1>9. ASSUME NEW p \in Procs, Unlock(p) PROVE Undisturbed'
  BY <1>9 DEF Unlock, Return
<1>10. ASSUME NEW p \in Procs, Die(p) PROVE Undisturbed'
  BY <1>10 DEF Die
<1>11. CASE ForeignUnlock \/ SixHours
  BY <1>11 DEF ForeignUnlock, SixHours
<1>12. CASE UNCHANGED nodeVars
  BY <1>12 DEF nodeVars
<1> QED
  BY <1>1, <1>2, <1>3, <1>4, <1>5, <1>6, <1>7, <1>8, <1>9, <1>10, <1>11, <1>12
     DEF NodeNext, Lock, Ulock

\* What has been disturbed stays so.
LEMMA DisturbedStays ==
  ASSUME OwnerInv, [NodeNext]_nodeVars, disturbed PROVE disturbed'
BY DEF NodeNext, Lock, Ulock, nodeVars, Start, Link, ReadLock, Stat, Probe, UnlinkStale,
       Relink, ReadOwn, Unlock, Return, Die, ForeignUnlock, SixHours

LEMMA NextPairInv == Harmless /\ PairInv /\ [NodeNext]_nodeVars => PairInv'
<1> SUFFICES ASSUME Harmless, PairInv, [NodeNext]_nodeVars PROVE PairInv'
  OBVIOUS
<1>1. OwnerInv'
  BY NextOwnerInv DEF PairInv
<1>2. CASE disturbed
  BY <1>1, <1>2, DisturbedStays DEF PairInv
<1>3. CASE disturbed'
  BY <1>1, <1>3 DEF PairInv
<1>4. CASE ~ disturbed /\ ~ disturbed'
  BY <1>1, <1>4, NextUndisturbed DEF PairInv
<1> QED
  BY <1>2, <1>3, <1>4

LEMMA PairInvariance == ASSUME Harmless PROVE NodeSpec => []PairInv
<1>1. PairInv /\ [NodeNext]_nodeVars => PairInv'
  BY NextPairInv
<1>2. NodeInit => PairInv
  BY InitPairInv
<1> QED
  BY <1>1, <1>2, PTL DEF NodeSpec

\* Two users of a node never work on it at the same time, until one of them
\* comes back after unlocking, a lock grows old, or another operating system
\* has been about.
THEOREM NodeMutual == ASSUME Harmless PROVE NodeSpec => []ExclusiveUndisturbed
<1>1. PairInv => ExclusiveUndisturbed
  BY DEF PairInv, Undisturbed, LockNamesHolder, ExclusiveUndisturbed, MutualExclusion
<1> QED
  BY <1>1, PairInvariance, PTL
================================================================================
