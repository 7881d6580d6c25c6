-------------------------------- MODULE OutStat --------------------------------
(***************************************************************************)
(* Which nodes the daemon has to call, and when that will change: the      *)
(* scan of the outbound (mbtask/scanout.c, mbtask/outstat.c) as functions   *)
(* of what is in the outbound, what the nodelist says of a node, the time,  *)
(* and the node's call status.                                              *)
(*                                                                          *)
(* A file of the outbound is its extension: a letter and two more.  Times    *)
(* are minutes of a day of Day minutes.                                     *)
(***************************************************************************)
EXTENDS Integers, FiniteSets

CONSTANTS
  Day,        \* length of the day; the code's is 24 * 60 minutes
  MaxTry,     \* the number of attempts that makes a node undialable (30)
  FidoZone,   \* zone -> its mail hour, for the six zones outstat() knows
  OwnHour     \* the system's own mail hour, TCFG.zmh_start to zmh_end

ASSUMPTION DayAssumption == Day \in Nat \ {0}
ASSUMPTION HoursAssumption ==
  /\ \A zone \in DOMAIN FidoZone : FidoZone[zone] \in (0 .. Day - 1) \X (0 .. Day - 1)
  /\ OwnHour \in (0 .. Day) \X (0 .. Day)

--------------------------------------------------------------------------------
(* The directory scan. *)

\* scan_dir(): the files it reports, with their kind and flavour.  Compressed
\* mail (.su0, .mo1, ...) and .?pk files are reported as well, and each() drops
\* them.
Kind(name) == CASE name[2] = "ut" -> "packet"
                [] name[2] = "lo" -> "flo"
                [] name[2] = "eq" -> "request"
                [] name[2] = "ol" -> "poll"
                [] name[2] = "box" -> "file"
                [] OTHER -> "other"

Flavor(name) == CASE name[1] = "f" -> "o"
                  [] name[1] = "i" -> "d"
                  [] OTHER -> name[1]

\* each(): the flags a node collects from its files.
Flags(names) ==
  LET Of(kinds) == {name \in names : Kind(name) \in kinds}
  IN  {Flavor(name) : name \in Of({"flo", "packet", "file"})}
        \cup {Kind(name) : name \in Of({"flo", "packet", "file", "request", "poll"})}

\* A node is in the list (alist) once each() has taken one of its files.
Listed(names) == Flags(names) # {}

--------------------------------------------------------------------------------
(* Times. *)

\* A pair of times holds from its first to its second, over midnight if the
\* second is not later: the Txx flags as outstat() compares them.
InWindow(window, now) ==
  IF window[1] > window[2] THEN now >= window[1] \/ now < window[2]
                           ELSE now >= window[1] /\ now < window[2]

\* The zone mail hour of a node: by its zone, or our own for other networks.  These
\* do not pass midnight.
ZoneMailHour(node, now) ==
  LET hour == IF node.zone \in DOMAIN FidoZone THEN FidoZone[node.zone] ELSE OwnHour
  IN  now >= hour[1] /\ now < hour[2]

\* Mail windows of a node: none, or one.
TWindow(node, now) == \E window \in node.windows : InWindow(window, now)

\* The times set_next() is called with for a node.
Ends_Start(window) == {window[1]}
Ends(window) == {window[1], window[2]}
Events(node) ==
  (UNION {Ends(window) : window \in node.windows})
    \cup IF node.zone \in DOMAIN FidoZone THEN Ends(FidoZone[node.zone]) ELSE {}

\* set_next() over all nodes in the list: the first of their events later today, or
\* midnight (24:00 is turned into 00:00).
Midnight == 0
NextEvent(nodes, now) ==
  LET later == {e \in UNION {Events(node) : node \in nodes} : e > now}
  IN  IF later = {} THEN Midnight ELSE CHOOSE e \in later : \A other \in later : e <= other

--------------------------------------------------------------------------------
(* Is a node to be called, and how? *)

Permanent(node) == node.icm /\ "inet" \in node.modes

Reachable(node, now) == node.cm \/ TWindow(node, now) \/ ZoneMailHour(node, now)

\* What sets F_CALL.
Wanted(node, flags, now) ==
  \/ Permanent(node) /\ node.ip /\ flags \cap {"d", "c", "o"} # {}
  \/ flags \cap {"d", "c"} # {} /\ (Reachable(node, now) \/ Permanent(node))
  \/ "poll" \in flags
  \/ /\ flags \cap {"file", "packet"} # {}
     /\ "h" \notin flags
     /\ TWindow(node, now) \/ ZoneMailHour(node, now)

\* The method: internet before ISDN before a modem.
CallMode(node) == CASE "inet" \in node.modes -> "inet"
                    [] "inet" \notin node.modes /\ "isdn" \in node.modes -> "isdn"
                    [] node.modes = {"pots"} -> "pots"
                    [] OTHER -> "none"

\* F_CALL at the end of outstat(): a node that is undialable, that may not be
\* called, or that no line reaches is not called.
MustCall(node, names, tryno, now) ==
  /\ Wanted(node, Flags(names), now)
  /\ tryno < MaxTry
  /\ ~node.nocall
  /\ CallMode(node) # "none"
================================================================================
