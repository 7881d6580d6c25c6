-------------------------------- MODULE Outbound --------------------------------
(***************************************************************************)
(* The way of mail and files for one node, from mbfido's queue to the other   *)
(* side.  mbfido (flush_dir() of mbfido/queue.c) packs mail packets in an      *)
(* archive with the name of the weekday and a number, and attaches archives    *)
(* and files to the flo file of the node (lib/attach.c).  A mailer session      *)
(* (mbcico/filelist.c, and binkp.c for what it does at M_GOT) sends what the     *)
(* flo file lists, puts '~' before the line of what was sent, and truncates,     *)
(* removes or leaves the file.  The two exclude each other with the node lock;   *)
(* each may be killed between any two of its writes.  scan_dir() (scanout.c of    *)
(* mbtask and of mbcico), which the daemon and the mailer call to see what there  *)
(* is to send, removes truncated and old archives without that lock.             *)
(***************************************************************************)
EXTENDS Integers, Sequences, FiniteSets, SequencesExt

CONSTANTS
  Loads,       \* what may happen together: bounds of the counts in Events
  MaxPackets,  \* mail packets that are posted
  MaxTics,     \* announcements of the file, each with a tic file of its own
  MaxNr,       \* maxnr, the last number of an archive of a day
  Limit,       \* CFG.maxarcsize: more packets than this make an archive too big
  Week,        \* days in a week
  TossDays,    \* CFG.toss_days: mail is on hold no longer than this (0: no limit)
  MaxTick,     \* half days that pass
  MaxScans,    \* archives that scan_dir() finds
  MaxMishaps   \* kills, and failures of the archiver and of the flo file

ASSUMPTION BoundsAssumption ==
  /\ MaxPackets \in Nat /\ MaxTics \in Nat
  /\ MaxTick \in Nat /\ MaxScans \in Nat /\ MaxMishaps \in Nat
  /\ Loads \subseteq [packets : 0..MaxPackets, tics : 0..MaxTics, ticks : 0..MaxTick,
                      scans : 0..MaxScans, mishaps : 0..MaxMishaps]
  /\ MaxNr \in Nat /\ Limit \in Nat
  /\ Week \in Nat \ {0} /\ TossDays \in Nat

Packets == {<<"mail", k>> : k \in 1..MaxPackets}
Archives == {<<"arc", d, n>> : d \in 0..Week - 1, n \in 0..MaxNr}
File == <<"file">>
Tics == {<<"tic", k>> : k \in 1..MaxTics}
Things == Archives \cup {File} \cup Tics

VARIABLES
  posted,    \* how many packets, and how many announcements, were made
  queue,     \* the packets in the queue directory
  filelist,  \* .filelist in the queue directory
  archive,   \* for each name the mail in the archive and the time of its last change
  tics,      \* the tic files on the disk
  flo,       \* the lines of the flo file; there is none when it has no lines
  tick,      \* the half days that have passed
  flush,     \* where flush_dir() is, and its variables
  session,   \* where the mailer is, and its list of what is to be sent
  scan,      \* where scan_dir() is, and what it knows of the archive it has found
  arrived,   \* the packets and tics the other side has
  mishaps,   \* how often something went wrong
  damaged    \* history: what the purges of mbfido and scan_dir() and the mishaps can cost

disk == <<queue, filelist, archive, tics, flo>>
vars == <<posted, disk, tick, flush, session, scan, arrived, mishaps, damaged>>

\* How often each event has happened; one more of it, with no bound passed.
Events ==
  [packets |-> posted.packets, tics |-> posted.tics, ticks |-> tick, scans |-> scan.count,
   mishaps |-> mishaps]
Possible(e) == \E l \in Loads : Events[e] < l[e] /\ \A k \in DOMAIN Events : Events[k] <= l[k]

--------------------------------------------------------------------------------
(* The outbound. *)

\* An archive that is not there, or was truncated when it was sent, or has mail.
Gone == [there |-> FALSE, mail |-> {}, stamp |-> 0]
Exists(a) == archive[a].there
Empty(a) == Exists(a) /\ archive[a].mail = {}
HasMail(a) == archive[a].mail # {}
TooBig(a) == Cardinality(archive[a].mail) > Limit

\* fage > 6: when mbfido took the time, the age in whole days was a week.
Aged(a) == (flush.now - archive[a].stamp) \div 2 >= Week

Line(f) == [file |-> f, sent |-> FALSE]
Unsent(f) == \E i \in DOMAIN flo : flo[i] = Line(f)
Marked(lines, S) ==
  [i \in DOMAIN lines |-> IF lines[i].file \in S THEN [lines[i] EXCEPT !.sent = TRUE] ELSE lines[i]]

\* It goes with its first line.
Tidied_First(lines) == IF Len(lines) > 0 /\ lines[1].sent THEN <<>> ELSE lines

\* The flo file goes with its last unsent line.
Tidied(lines) == IF \A i \in DOMAIN lines : lines[i].sent THEN <<>> ELSE lines

OnDisk(f) == f = File \/ f \in tics \/ (f \in Archives /\ Exists(f))

--------------------------------------------------------------------------------
(* mbfido. *)

NotFlushing ==
  [pc |-> "idle", now |-> 0, arc |-> 0, nr |-> 0, oldnr |-> 0, attach |-> FALSE, todo |-> {},
   line |-> 0]
NoSession == [pc |-> "idle", todo |-> {}, file |-> File]
NotScanning ==
  [pc |-> "idle", file |-> <<"arc", 0, 0>>, week |-> FALSE, toss |-> FALSE, seen |-> {}, count |-> 0]

Init ==
  /\ posted = [packets |-> 0, tics |-> 0]
  /\ queue = {}
  /\ filelist = <<>>
  /\ archive = [a \in Archives |-> Gone]
  /\ tics = {}
  /\ flo = <<>>
  /\ tick = 0
  /\ flush = NotFlushing
  /\ session = NoSession
  /\ scan = NotScanning
  /\ arrived = {}
  /\ mishaps = 0
  /\ damaged = {}

\* Mail for the node is written to the queue.
PostMail ==
  /\ flush.pc = "idle" /\ Possible("packets")
  /\ posted' = [posted EXCEPT !.packets = @ + 1]
  /\ queue' = queue \cup {<<"mail", posted.packets + 1>>}
  /\ UNCHANGED <<filelist, archive, tics, flo, tick, scan, flush, session, arrived, mishaps, damaged>>

\* ForwardFile(): the file, which stays where it is, and a tic file that goes with it.
PostFile ==
  /\ flush.pc = "idle" /\ Possible("tics")
  /\ LET tic == <<"tic", posted.tics + 1>>
     IN /\ tics' = tics \cup {tic}
        /\ filelist' = filelist \o <<File, tic>>
  /\ posted' = [posted EXCEPT !.tics = @ + 1]
  /\ UNCHANGED <<queue, archive, flo, tick, scan, flush, session, arrived, mishaps, damaged>>

Arc(n) == <<"arc", (flush.now \div 2) % Week, n>>
Packet == CHOOSE p \in flush.todo : \A q \in flush.todo : p[2] <= q[2]

\* Each packet starts with number 0; the archive name keeps the number of the last packet.
NextPacket(todo) ==
  IF todo = {}
    THEN [flush EXCEPT !.pc = "files", !.todo = {}, !.attach = FALSE, !.line = 1]
    ELSE [flush EXCEPT !.pc = "choose", !.todo = todo, !.attach = FALSE, !.nr = 0, !.oldnr = 0]

FlushDir ==
  /\ flush.pc = "idle" /\ session.pc = "idle"
  /\ queue # {} \/ filelist # <<>>
  /\ flush' = [NotFlushing EXCEPT !.pc = IF queue = {} THEN "files" ELSE "choose", !.todo = queue,
                                  !.line = IF queue = {} THEN 1 ELSE 0, !.now = tick]
  /\ UNCHANGED <<posted, disk, tick, scan, session, arrived, mishaps, damaged>>

Chosen(n) == [flush EXCEPT !.pc = "pack", !.arc = n, !.attach = TRUE]
Removed(S) == [a \in Archives |-> IF a \in S THEN Gone ELSE archive[a]]

\* The loop that looks for a name of the archive.  The name is free, or was sent a
\* week ago and is used again.
Free(a) == ~Exists(a) \/ (Empty(a) /\ Aged(a) /\ flush.nr < MaxNr)
FreeName ==
  /\ flush.pc = "choose" /\ Free(Arc(flush.arc))
  /\ flush' = Chosen(flush.arc)
  /\ archive' = Removed({Arc(flush.arc)})
  /\ damaged' = damaged \ {Arc(flush.arc)}
  /\ UNCHANGED <<posted, queue, filelist, tics, flo, tick, scan, session, arrived, mishaps>>

\* All numbers of the day are used: they are removed, also those that are not sent.
Exhausted == {Arc(n) : n \in 0..flush.nr}
NamesExhausted ==
  /\ flush.pc = "choose"
  /\ Empty(Arc(flush.arc)) /\ flush.nr = MaxNr
  /\ flush' = Chosen(0)
  /\ archive' = Removed(Exhausted)
  /\ damaged' = (damaged \ Exhausted) \cup UNION {archive[a].mail : a \in Exhausted}
  /\ UNCHANGED <<posted, queue, filelist, tics, flo, tick, scan, session, arrived, mishaps>>

\* A sent, big or old archive is left for the next number, as long as there is one.
Passed(n, k) == (Empty(Arc(n)) \/ TooBig(Arc(n))) /\ k < MaxNr
LeftAlone_Beyond(n, k) == HasMail(Arc(n)) /\ Aged(Arc(n))
\* Mail of a week ago is left alone, too.
LeftAlone(n, k) == HasMail(Arc(n)) /\ Aged(Arc(n)) /\ k < MaxNr
TryName ==
  /\ flush.pc = "choose" /\ ~Free(Arc(flush.arc))
  /\ Empty(Arc(flush.arc)) => flush.nr < MaxNr
  /\ LET passed == Passed(flush.arc, flush.nr)
         k1 == IF passed THEN flush.nr + 1 ELSE flush.nr
         n1 == IF passed THEN k1 ELSE flush.arc
         aged == LeftAlone(n1, k1)
         k2 == IF aged THEN k1 + 1 ELSE k1
         n2 == IF aged THEN k2 ELSE n1
     IN flush' = [flush EXCEPT !.pc = IF k2 = flush.oldnr THEN "pack" ELSE "choose",
                               !.arc = n2, !.nr = k2, !.oldnr = k2]
  /\ UNCHANGED <<posted, disk, tick, scan, session, arrived, mishaps, damaged>>

\* The archiver adds the packet, which is then removed from the queue.
Pack ==
  /\ flush.pc = "pack"
  /\ archive' = [archive EXCEPT ![Arc(flush.arc)] =
                   [there |-> TRUE, mail |-> @.mail \cup {Packet}, stamp |-> tick]]
  /\ flush' = [flush EXCEPT !.pc = "unlink"]
  /\ UNCHANGED <<posted, queue, filelist, tics, flo, tick, scan, session, arrived, mishaps, damaged>>

PackFails ==
  /\ flush.pc = "pack" /\ Possible("mishaps")
  /\ flush' = NextPacket(flush.todo \ {Packet})
  /\ mishaps' = mishaps + 1
  /\ UNCHANGED <<posted, disk, tick, scan, session, arrived, damaged>>

Unlink ==
  /\ flush.pc = "unlink"
  /\ queue' = queue \ {Packet}
  /\ flush' = IF flush.attach THEN [flush EXCEPT !.pc = "attach"] ELSE NextPacket(flush.todo \ {Packet})
  /\ UNCHANGED <<posted, filelist, archive, tics, flo, tick, scan, session, arrived, mishaps, damaged>>

\* attach(): an archive that is there gets a new line whatever lines there are with its
\* name.
WithArchive_Once ==
  IF \E i \in DOMAIN flo : flo[i].file = Arc(flush.arc) THEN flo ELSE Append(flo, Line(Arc(flush.arc)))
WithArchive == Append(flo, Line(Arc(flush.arc)))
AttachArchive ==
  /\ flush.pc = "attach"
  /\ flo' = IF Exists(Arc(flush.arc)) THEN WithArchive ELSE flo
  /\ flush' = NextPacket(flush.todo \ {Packet})
  /\ UNCHANGED <<posted, queue, filelist, archive, tics, tick, scan, session, arrived, mishaps, damaged>>

\* The first unsent line of the file (0: there is none).
FirstUnsent(f) == SelectInSeq(flo, LAMBDA l : l = Line(f))

\* un_attach(): an older, unsent line of the file is marked as sent, and when the tic
\* file of the file is listed behind it, that is removed, and its line marked too.
OldTic(f) ==
  LET i == FirstUnsent(f) + 1
  IN IF f = File /\ i > 1 /\ i \in DOMAIN flo /\ flo[i].file \in tics THEN {i} ELSE {}
Unattached(f) ==
  IF f = File
    THEN [i \in DOMAIN flo |-> [flo[i] EXCEPT !.sent = @ \/ i = FirstUnsent(f) \/ i \in OldTic(f)]]
    ELSE flo

\* A line of .filelist is done: attach() refuses a file that is not there, and takes the
\* older line of the file away before it writes the new one.
AttachOne(f, line) ==
  /\ flush.pc = "files" /\ flush.line \in DOMAIN filelist /\ f = filelist[flush.line]
  /\ IF OnDisk(f)
       THEN /\ flo' = Unattached(f) \o line
            /\ tics' = tics \ {flo[i].file : i \in OldTic(f)}
       ELSE UNCHANGED <<flo, tics>>
  /\ flush' = [flush EXCEPT !.line = @ + 1]
  /\ UNCHANGED <<posted, queue, filelist, archive, tick, scan, session, arrived>>

AttachFile == \E f \in {File} \cup Tics : AttachOne(f, <<Line(f)>>) /\ UNCHANGED <<mishaps, damaged>>

\* .filelist is removed and the node unlocked.
Flushed ==
  /\ flush.pc = "files" /\ flush.line > Len(filelist)
  /\ filelist' = <<>>
  /\ flush' = NotFlushing
  /\ UNCHANGED <<posted, queue, archive, tics, flo, tick, scan, session, arrived, mishaps, damaged>>

--------------------------------------------------------------------------------
(* The mailer. *)

\* The unsent lines are read; of a file that is not there the line is marked at once,
\* and an archive that is not there is created by its truncation.
Call ==
  /\ session.pc = "idle" /\ flush.pc = "idle" /\ flo # <<>>
  /\ LET listed == {f \in Things : Unsent(f)}
         missing == {f \in listed : ~OnDisk(f)}
     IN /\ session' = [session EXCEPT !.pc = "sending", !.todo = listed \ missing]
        /\ flo' = Marked(flo, missing)
        /\ archive' = [a \in Archives |->
                         IF a \in missing THEN [there |-> TRUE, mail |-> {}, stamp |-> tick] ELSE archive[a]]
  /\ UNCHANGED <<posted, queue, filelist, tics, tick, scan, flush, arrived, mishaps, damaged>>

\* The other side has the whole file.
Transmit(f) ==
  /\ session.pc = "sending" /\ f \in session.todo /\ OnDisk(f)
  /\ session' = [session EXCEPT !.pc = "got", !.file = f]
  /\ arrived' = arrived \cup (IF f \in Archives THEN archive[f].mail ELSE {f} \cap Tics)
  /\ UNCHANGED <<posted, disk, tick, scan, flush, mishaps, damaged>>

\* M_SKIP, or a file that cannot be opened or locked now.
Skip(f) ==
  /\ session.pc = "sending" /\ f \in session.todo
  /\ session' = [session EXCEPT !.todo = @ \ {f}]
  /\ UNCHANGED <<posted, disk, tick, scan, flush, arrived, mishaps, damaged>>

\* A file that has gone since the list was made counts as sent.  Its line stays.
PassMissing ==
  /\ session.pc = "sending"
  /\ \E f \in session.todo :
       ~OnDisk(f) /\ session' = [session EXCEPT !.todo = @ \ {f}]
  /\ UNCHANGED <<posted, disk, tick, scan, flush, arrived, mishaps, damaged>>

\* M_GOT: execute_disposition() marks the lines of the file ...
Mark ==
  /\ session.pc = "got"
  /\ flo' = Marked(flo, {session.file})
  /\ session' = [session EXCEPT !.pc = "marked"]
  /\ UNCHANGED <<posted, queue, filelist, archive, tics, tick, scan, flush, arrived, mishaps, damaged>>

\* ... then truncates an archive, removes a tic file, and leaves the file as it is ...
Dispose ==
  /\ session.pc = "marked"
  /\ archive' = IF session.file \in Archives
                  THEN [archive EXCEPT ![session.file] = [there |-> TRUE, mail |-> {}, stamp |-> tick]]
                  ELSE archive
  /\ tics' = tics \ {session.file}
  /\ session' = [session EXCEPT !.pc = "disposed"]
  /\ UNCHANGED <<posted, queue, filelist, flo, tick, scan, flush, arrived, mishaps, damaged>>

\* ... and then removes the flo file if all its lines are marked.
TidyFlo ==
  /\ session.pc = "disposed"
  /\ flo' = Tidied(flo)
  /\ session' = [session EXCEPT !.pc = "sending", !.todo = @ \ {session.file}, !.file = File]
  /\ UNCHANGED <<posted, queue, filelist, archive, tics, tick, scan, flush, arrived, mishaps, damaged>>

HangUp ==
  /\ session.pc = "sending" /\ session.todo = {}
  /\ flo' = Tidied(flo)
  /\ session' = NoSession
  /\ UNCHANGED <<posted, queue, filelist, archive, tics, tick, scan, flush, arrived, mishaps, damaged>>

\* The connection is lost, perhaps before the answer M_GOT.
Break ==
  /\ session.pc \in {"sending", "got"}
  /\ session' = NoSession
  /\ UNCHANGED <<posted, disk, tick, scan, flush, arrived, mishaps, damaged>>

--------------------------------------------------------------------------------
(* scan_dir(): one archive at a time, with an outbound that others change at each step.
   It takes no lock. *)

Known == UNCHANGED <<posted, queue, filelist, tics, flo, tick, flush, session, arrived, mishaps>>
Today == (tick \div 2) % Week
Age(a) == (tick - archive[a].stamp) \div 2
ScanNext == [NotScanning EXCEPT !.count = scan.count]

\* readdir() finds the archive.
ReadDir(a) ==
  /\ scan.pc = "idle" /\ Possible("scans") /\ Exists(a)
  /\ scan' = [scan EXCEPT !.pc = "time", !.file = a, !.count = @ + 1]
  /\ Known /\ UNCHANGED <<archive, damaged>>

\* fage; a file that is gone meanwhile is as old as the epoch.
FileTime ==
  /\ scan.pc = "time"
  /\ scan' = [scan EXCEPT !.pc = "size",
                 !.week = ~Exists(scan.file) \/ Age(scan.file) >= Week,
                 !.toss = TossDays # 0 /\ (~Exists(scan.file) \/ Age(scan.file) > TossDays)]
  /\ Known /\ UNCHANGED <<archive, damaged>>

Truncated_Any(a) == scan.week \/ a[2] # Today
\* A sent archive of another day, or of a week ago.
Truncated(a) == Empty(a) /\ (scan.week \/ a[2] # Today)
FileSize ==
  /\ scan.pc = "size"
  /\ scan' = IF Truncated(scan.file)
                THEN [scan EXCEPT !.pc = "unlink", !.seen = archive[scan.file].mail]
                ELSE IF scan.toss THEN [scan EXCEPT !.pc = "toss"] ELSE ScanNext
  /\ Known /\ UNCHANGED <<archive, damaged>>

\* It is removed, with the mail that was packed in it since.
RemoveTruncated ==
  /\ scan.pc = "unlink"
  /\ archive' = Removed({scan.file})
  /\ damaged' = damaged \cup (archive[scan.file].mail \ (arrived \cup scan.seen))
  /\ scan' = IF scan.toss THEN [scan EXCEPT !.pc = "toss", !.seen = {}] ELSE ScanNext
  /\ Known

\* Mail that is on hold too long is removed.
RemoveOld ==
  /\ scan.pc = "toss"
  /\ archive' = Removed({scan.file})
  /\ damaged' = damaged \cup (archive[scan.file].mail \ arrived)
  /\ scan' = ScanNext
  /\ Known

ScanStep == FileTime \/ FileSize \/ RemoveTruncated \/ RemoveOld

--------------------------------------------------------------------------------
(* Damage. *)

\* An archive that was made and not attached stays without a line, as does one that
\* was marked and not truncated: mail that is added to it later waits until the
\* archive's name is free again.
FlushKilled ==
  /\ flush.pc # "idle" /\ Possible("mishaps")
  /\ flush' = NotFlushing
  /\ mishaps' = mishaps + 1
  /\ damaged' = damaged \cup
       (CASE flush.pc \in {"unlink", "attach"} /\ flush.attach -> {Arc(flush.arc)}
          \* a tic file that is attached and still in .filelist is removed by the next run
          [] flush.pc = "files" -> {filelist[i] : i \in 1..flush.line - 1} \cap Tics
          [] OTHER -> {})
  /\ UNCHANGED <<posted, disk, tick, scan, session, arrived>>

\* The line cannot be written to the flo file.
FileFails ==
  /\ Possible("mishaps")
  /\ mishaps' = mishaps + 1
  /\ \E f \in {File} \cup Tics : AttachOne(f, <<>>) /\ damaged' = damaged \cup ({f} \cap Tics)

FloFails ==
  /\ flush.pc = "attach" /\ Possible("mishaps")
  /\ flush' = NextPacket(flush.todo \ {Packet})
  /\ mishaps' = mishaps + 1
  /\ damaged' = damaged \cup {Arc(flush.arc)}
  /\ UNCHANGED <<posted, disk, tick, scan, session, arrived>>

MailerKilled ==
  /\ session.pc \in {"marked", "disposed"} /\ Possible("mishaps")
  /\ session' = NoSession
  /\ mishaps' = mishaps + 1
  /\ damaged' = damaged \cup (IF session.pc = "marked" THEN {session.file} \cap Archives ELSE {})
  /\ UNCHANGED <<posted, disk, tick, scan, flush, arrived>>

\* Half a day passes.
HalfDay ==
  /\ Possible("ticks")
  /\ tick' = tick + 1
  /\ UNCHANGED <<posted, disk, flush, session, scan, arrived, mishaps, damaged>>

FlushStep == \/ FreeName \/ NamesExhausted \/ TryName \/ Pack \/ Unlink
             \/ AttachArchive \/ AttachFile \/ Flushed
MailerStep == Mark \/ Dispose \/ TidyFlo \/ PassMissing \/ HangUp

Next ==
  \/ PostMail \/ PostFile \/ FlushDir \/ FlushStep \/ PackFails
  \/ Call \/ (\E f \in Things : Transmit(f) \/ Skip(f)) \/ MailerStep \/ Break
  \/ (\E a \in Archives : ReadDir(a)) \/ ScanStep
  \/ FlushKilled \/ FloFails \/ FileFails \/ MailerKilled \/ HalfDay

\* mbfido runs whenever there is something in the queue, and in the end finds the node
\* unlocked; the node is called as long as there is a flo file, a session goes on, and an
\* archive that is offered again and again is accepted in the end.
Fairness ==
  /\ SF_vars(FlushDir) /\ WF_vars(FlushStep)
  /\ SF_vars(Call) /\ WF_vars(MailerStep \/ \E f \in Things : Transmit(f) \/ Skip(f))
  /\ \A a \in Archives : SF_vars(Transmit(a))

Spec == Init /\ [][Next]_vars /\ Fairness

--------------------------------------------------------------------------------
(* Properties. *)

TypeOK ==
  /\ posted \in [packets : 0..MaxPackets, tics : 0..MaxTics]
  /\ queue \subseteq Packets
  /\ filelist \in Seq({File} \cup Tics)
  /\ archive \in [Archives -> [there : BOOLEAN, mail : SUBSET Packets, stamp : 0..MaxTick]]
  /\ tics \subseteq Tics
  /\ flo \in Seq([file : Things, sent : BOOLEAN])
  /\ tick \in 0..MaxTick
  /\ flush \in [pc : {"idle", "choose", "pack", "unlink", "attach", "files"}, now : 0..MaxTick,
                 arc : 0..MaxNr, nr : 0..MaxNr, oldnr : 0..MaxNr, attach : BOOLEAN,
                 todo : SUBSET Packets, line : 0..2 * MaxTics + 1]
  /\ session \in [pc : {"idle", "sending", "got", "marked", "disposed"}, todo : SUBSET Things, file : Things]
  /\ scan \in [pc : {"idle", "time", "size", "unlink", "toss"}, file : Archives, week : BOOLEAN,
                toss : BOOLEAN, seen : SUBSET Packets, count : 0..MaxScans]
  /\ arrived \subseteq Packets \cup Tics
  /\ mishaps \in 0..MaxMishaps
  /\ damaged \subseteq Packets \cup Archives \cup Tics
  /\ \A a \in Archives : HasMail(a) => Exists(a)

\* An archive with mail is going to be sent: the flo file has an unsent line for it, or
\* mbfido is about to write that line, or the mailer has just sent it.
WillBeSent(a) ==
  \/ Unsent(a)
  \/ flush.pc \in {"unlink", "attach"} /\ flush.attach /\ a = Arc(flush.arc)
  \/ session.pc = "marked" /\ session.file = a
  \/ a \in damaged

\* No mail is stranded: mail that has not arrived is in the queue or in an archive that
\* is going to be sent, however often mbfido and the mailer take turns, and whatever
\* name was found for an archive, also when scan_dir() removes a sent archive meanwhile
\* -- but for the mail that NamesExhausted and scan_dir() throw away (RemoveOld, and
\* RemoveTruncated when mbfido has reused the name) and for what the section Damage names.
NoMailStranded ==
  \A p \in Packets :
    \/ p[2] > posted.packets
    \/ p \in queue \cup arrived \cup damaged
    \/ \E a \in Archives : p \in archive[a].mail /\ WillBeSent(a)

\* An archive with mail keeps its mail until that has arrived.  It loses mail unsent only
\* when mbfido's names are exhausted and when scan_dir() removes the archive (toss_days,
\* or the name was reused after scan_dir() saw the old archive truncated).
MailLeavesSent ==
  [][\A a \in Archives : archive[a].mail \subseteq archive'[a].mail \cup arrived \cup damaged']_vars

\* "Remove truncated ARCmail" (mbtask/scanout.c:153): what is removed because it was
\* truncated when scan_dir() looked at its size holds no mail that still has to be sent.
OnlyTruncatedRemoved ==
  [][RemoveTruncated => archive[scan.file].mail \subseteq arrived]_vars

\* The tic file of the last announcement is not lost: it waits in .filelist, or it is on
\* the disk and has an unsent line, or it has arrived.  Only an older one, which the new
\* one replaces, is removed unsent.
LastTicKept ==
  LET t == <<"tic", posted.tics>>
  IN \/ posted.tics = 0 \/ t \in arrived \cup damaged
     \/ t \in tics /\ (Unsent(t) \/ \E i \in DOMAIN filelist : filelist[i] = t)

\* In the end all mail that was posted has arrived, but for what was damaged or thrown
\* away (see NoMailStranded): mbfido does
\* not leave an archive that no session sends, nor a session a flo file that hides one.
Settled(p) ==
  \/ p \in arrived \cup damaged
  \/ \E a \in Archives \cap damaged : p \in archive[a].mail
MailArrives == <>[](\A p \in Packets : p[2] <= posted.packets => Settled(p))
================================================================================
