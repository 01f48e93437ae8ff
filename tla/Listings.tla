-------------------------------- MODULE Listings --------------------------------
(* How a package view or the unit list is filled: a tool prints an entry after *)
(* the other, it exits, and its output is parsed line by line.  Standard error *)
(* goes into the same pipe, so a warning may come between any two lines, those *)
(* of one entry too, and it may look like an entry.  A line is what the parser *)
(* of its format tells apart, with the item it is about.                       *)
EXTENDS Integers, Sequences, Functions

CONSTANTS
  Items,        \* packages or units, numbered in the order of their names
  WithEquals,   \* the ones whose summary has an "=" in it
  Foreign,      \* units without the suffix .service, packages of architectures
                \* that parse_dnf_check_update does not know
  MaxNotices    \* bound: warnings in one output

ASSUME ItemsAssumption ==
  /\ Items \subseteq Nat \ {0} /\ WithEquals \subseteq Items /\ Foreign \subseteq Items
  /\ MaxNotices \in Nat

None == 0       \* no version, no description, or the text of a warning
Repo == -1      \* the name of a repository, taken for a version

VARIABLES
  installed,    \* the packages installed on the host
  source,       \* "apt", "dnf", "pacman" or "systemd"
  view,         \* the view that is loaded
  format,       \* the command that runs
  at,           \* "idle", "print", "ended", "parse" or "shown"
  printed,      \* the items printed so far
  notices,      \* the warnings printed so far
  output,       \* the lines printed
  exit,         \* "ok" or "failed" once the command has ended
  lost,         \* reading the output failed before its end
  next,         \* the line the parser reads next
  rows,         \* the records parsed
  current       \* the unit parse_systemctl_show assembles

command == <<source, view, format, printed, notices, output, exit, lost>>
vars == <<installed, command, at, next, rows, current>>

Views == {"Installed", "Search", "Upgradable"}

FormatOf ==
  [apt    |-> [Installed |-> "dpkg-query", Search |-> "apt-cache search",
               Upgradable |-> "apt list"],
   dnf    |-> [Installed |-> "rpm -qa", Search |-> "dnf search",
               Upgradable |-> "dnf check-update"],
   pacman |-> [Installed |-> "pacman -Q", Search |-> "pacman -Ss",
               Upgradable |-> "pacman -Qu"],
   systemd |-> [v \in Views |-> "systemctl show"]]

InstalledFormats == {"dpkg-query", "rpm -qa", "pacman -Q"}
UpgradeFormats   == {"apt list", "dnf check-update", "pacman -Qu", "checkupdates"}
SearchFormats    == {"apt-cache search", "dnf search", "pacman -Ss"}
PackageFormats   == InstalledFormats \cup UpgradeFormats \cup SearchFormats

(* The exit status of these is not looked at.                                  *)
StatusIgnored == {"dnf search", "dnf check-update"}

(* What a warning can be for the parser: a line it passes over, one it takes   *)
(* for an entry (any line with a first field for dpkg-query, rpm and pacman,   *)
(* "config file /etc/pacman.conf could not be read" for pacman -Ss, a line     *)
(* with " - " for apt-cache), or an indented one it takes for a description.   *)
(* parse_systemctl_show has no key for it.                                     *)
WarningKinds == {"warning", "like entry", "like detail"}

WarningsOf(f) ==
  CASE f = "systemctl show" -> {"warning"}
    [] f = "pacman -Ss"     -> WarningKinds
    [] OTHER                -> {"warning", "like entry"}

Line(kind, item, sep) == [kind |-> kind, item |-> item, sep |-> sep]
NoUnit == [name |-> None, desc |-> None, state |-> None]

Init ==
  /\ installed \in SUBSET Items
  /\ source \in {"apt", "dnf", "pacman", "systemd"} /\ view = "Installed"
  /\ format = FormatOf[source][view]
  /\ at = "idle" /\ printed = <<>> /\ notices = 0 /\ output = <<>>
  /\ exit = "ok" /\ lost = FALSE /\ next = 1 /\ rows = <<>> /\ current = NoUnit
--------------------------------------------------------------------------------
(* A command starts.                                                           *)
Run(f) ==
  /\ at' = "print" /\ format' = f
  /\ printed' = <<>> /\ notices' = 0 /\ output' = <<>> /\ exit' = "ok" /\ lost' = FALSE
  /\ next' = 1 /\ rows' = <<>> /\ current' = NoUnit

(* The tools are missing, or the query has a control character: no rows.       *)
NotRun ==
  /\ at' = "shown" /\ format' = FormatOf[source][view']
  /\ printed' = <<>> /\ notices' = 0 /\ output' = <<>> /\ exit' = "failed" /\ lost' = FALSE
  /\ next' = 1 /\ rows' = <<>> /\ current' = NoUnit

(* The page of the source is loaded; checkupdates is preferred if there is one. *)
Load ==
  /\ at \in {"idle", "shown"}
  /\ view' \in Views
  /\ \/ Run(FormatOf[source][view'])
     \/ source = "pacman" /\ view' = "Upgradable" /\ Run("checkupdates")
     \/ NotRun
  /\ UNCHANGED <<installed, source>>
--------------------------------------------------------------------------------
(* What the tools print for an item.                                           *)
Separators == IF format = "dnf check-update" THEN {"tab", "space", "mixed"} ELSE {"tab"}

Block(item) ==
  (IF printed = <<>> THEN <<>> ELSE <<Line("blank", None, "tab")>>) \o
  <<Line("Id", item, "tab"), Line("Description", item, "tab"), Line("State", item, "tab")>>

(* dpkg-query also prints the packages of which only configuration is left.     *)
OnHost == IF format = "dpkg-query" THEN Items ELSE installed

PrintItem ==
  /\ at = "print"
  /\ \E item \in Items, sep \in Separators :
        /\ \A i \in DOMAIN printed : printed[i] # item
        /\ format \in InstalledFormats \cup UpgradeFormats => item \in OnHost
        /\ printed' = Append(printed, item)
        /\ output' = output \o
             CASE format = "systemctl show" -> Block(item)
               [] format = "pacman -Ss" -> <<Line("entry", item, sep), Line("detail", item, sep)>>
               [] OTHER -> <<Line("entry", item, sep)>>
  /\ UNCHANGED <<installed, source, view, format, at, notices, exit, lost, next, rows, current>>

InsertedAfter(lines, k, line) ==
  SubSeq(lines, 1, k) \o <<line>> \o SubSeq(lines, k + 1, Len(lines))

(* A warning is written at once, while what goes to standard output is kept in *)
(* a buffer: it may overtake any number of the lines printed before it.        *)
PrintNotice ==
  /\ at = "print" /\ notices < MaxNotices
  /\ notices' = notices + 1
  /\ \E k \in 0 .. Len(output), kind \in WarningsOf(format) :
        output' = InsertedAfter(output, k, Line(kind, None, "space"))
  /\ UNCHANGED <<installed, source, view, format, at, printed, exit, lost, next, rows, current>>

(* The command ends.  A command that fails may have printed only a part; and   *)
(* when read fails, the rest of the output is not there, whatever the status.  *)
End ==
  /\ at = "print"
  /\ \/ exit' = "ok" /\ lost' = FALSE /\ UNCHANGED output
     \/ /\ exit' \in {"ok", "failed"} /\ lost' = (exit' = "ok")
        /\ \E k \in 0 .. Len(output) : output' = SubSeq(output, 1, k)
  /\ at' = "ended"
  /\ UNCHANGED <<installed, source, view, format, printed, notices, next, rows, current>>

(* Mutant of UseOutput: the exit status is ignored for every command.          *)
UseAnyOutput ==
  /\ at = "ended" /\ at' = "parse"
  /\ UNCHANGED <<installed, command, next, rows, current>>

(* The status decides whether the output is parsed at all.                     *)
UseOutput ==
  /\ at = "ended" /\ (exit = "ok" \/ format \in StatusIgnored)
  /\ at' = "parse"
  /\ UNCHANGED <<installed, command, next, rows, current>>

DropOutput ==
  /\ at = "ended" /\ exit = "failed" /\ format \notin StatusIgnored
  /\ format # "checkupdates"
  /\ at' = "shown"
  /\ UNCHANGED <<installed, command, next, rows, current>>

(* After checkupdates failed, the local database is asked.                     *)
FallBack ==
  /\ at = "ended" /\ exit = "failed" /\ format = "checkupdates"
  /\ Run("pacman -Qu")
  /\ UNCHANGED <<installed, source, view>>
--------------------------------------------------------------------------------
(* The row for an entry.  Without the tabs it expects, parse_dnf_check_update  *)
(* finds no version, or takes the repository for it.                           *)
Version(line) ==
  CASE format \in SearchFormats \cup {"pacman -Qu", "checkupdates"} -> None
    [] format = "dnf check-update" /\ line.sep = "space" -> None
    [] format = "dnf check-update" /\ line.sep = "mixed" -> Repo
    [] OTHER -> line.item

Description(line) ==
  CASE format \in InstalledFormats \ {"pacman -Q"} -> line.item
    [] format \in {"apt-cache search", "dnf search"} -> line.item
    [] format \in UpgradeFormats \ {"dnf check-update"} -> line.item
    [] OTHER -> None

Row(line) ==
  [name |-> line.item, version |-> Version(line), desc |-> Description(line),
   installed |-> format \notin SearchFormats, upgradable |-> format \in UpgradeFormats]

Skipped(line) ==
  \/ line.kind = "warning"
  \/ format = "dnf search" /\ line.item \in WithEquals
  \/ format = "dnf check-update" /\ line.item \in Foreign

CurrentLine == output[next]
MoreLines == at = "parse" /\ next <= Len(output)

ParsePackage ==
  /\ MoreLines /\ format \in PackageFormats
  /\ rows' =
       IF Skipped(CurrentLine) THEN rows
       ELSE IF CurrentLine.kind \in {"entry", "like entry"} THEN Append(rows, Row(CurrentLine))
       ELSE IF rows = <<>> THEN rows
       ELSE [rows EXCEPT ![Len(rows)].desc = CurrentLine.item]
  /\ next' = next + 1
  /\ UNCHANGED <<installed, command, at, current>>

(* Mutant of Stored: a unit is stored whether or not it has a name.            *)
StoreAnyway == IF current.name \in Foreign THEN rows ELSE Append(rows, current)

Stored == IF current.name \in Items \ Foreign THEN Append(rows, current) ELSE rows

(* Mutant of Finish: what was assembled is kept for the next unit.              *)
FinishKeeps == rows' = Stored /\ current' = [current EXCEPT !.name = None]

(* finish: a unit with a name is stored, and the next one begins empty.        *)
Finish == rows' = Stored /\ current' = NoUnit

ParseProperty ==
  /\ MoreLines /\ format = "systemctl show"
  /\ CurrentLine.kind # "blank"
  /\ current' =
       CASE CurrentLine.kind = "Id"          -> [current EXCEPT !.name = CurrentLine.item]
         [] CurrentLine.kind = "Description" -> [current EXCEPT !.desc = CurrentLine.item]
         [] CurrentLine.kind = "State"       -> [current EXCEPT !.state = CurrentLine.item]
         [] OTHER                            -> current
  /\ next' = next + 1
  /\ UNCHANGED <<installed, command, at, rows>>

ParseBlank ==
  /\ MoreLines /\ format = "systemctl show"
  /\ CurrentLine.kind = "blank"
  /\ Finish
  /\ next' = next + 1
  /\ UNCHANGED <<installed, command, at>>

AtEnd == at = "parse" /\ next > Len(output) /\ at' = "shown"

EndOfPackages ==
  /\ AtEnd /\ format \in PackageFormats
  /\ UNCHANGED <<installed, command, next, rows, current>>

(* std::sort: the arrangements of the units in which their names ascend.       *)
SortedByName(units) ==
  {s \in {[i \in DOMAIN units |-> units[order[i]]] :
             order \in Bijection(DOMAIN units, DOMAIN units)} :
     \A i, j \in DOMAIN s : i < j => s[i].name <= s[j].name}

(* Mutant of EndOfUnits: no finish after the last line.                         *)
LastUnitForgotten ==
  /\ AtEnd /\ format = "systemctl show"
  /\ rows' \in SortedByName(rows) /\ current' = NoUnit
  /\ UNCHANGED <<installed, command, next>>

(* No blank line follows the last unit; the units are sorted by name.          *)
EndOfUnits ==
  /\ AtEnd /\ format = "systemctl show"
  /\ rows' \in SortedByName(Stored) /\ current' = NoUnit
  /\ UNCHANGED <<installed, command, next>>

Next ==
  \/ Load
  \/ PrintItem \/ PrintNotice \/ End
  \/ UseOutput \/ DropOutput \/ FallBack
  \/ ParsePackage \/ EndOfPackages
  \/ ParseProperty \/ ParseBlank \/ EndOfUnits

Spec == Init /\ [][Next]_vars
--------------------------------------------------------------------------------
Details == Items \cup {None}

Lines ==
  [kind : {"entry", "detail", "blank", "Id", "Description", "State"} \cup WarningKinds,
   item : Details, sep : {"tab", "space", "mixed"}]

Packages ==
  [name : Details, version : Details \cup {Repo}, desc : Details,
   installed : BOOLEAN, upgradable : BOOLEAN]

Units == [name : Items \ Foreign, desc : Details, state : Details]

(* Every listing has the records of its view; no unit without a name and none  *)
(* that is not a .service is ever stored.                                      *)
TypeOK ==
  /\ installed \subseteq Items
  /\ source \in DOMAIN FormatOf /\ view \in Views
  /\ format \in PackageFormats \cup {"systemctl show"}
  /\ at \in {"idle", "print", "ended", "parse", "shown"}
  /\ printed \in Seq(Items) /\ notices \in 0 .. MaxNotices
  /\ output \in Seq(Lines) /\ exit \in {"ok", "failed"} /\ lost \in BOOLEAN
  /\ next \in 1 .. Len(output) + 1
  /\ rows \in Seq(IF source = "systemd" THEN Units ELSE Packages)
  /\ current \in [name : Details, desc : Details, state : Details]

(* The rows of packages and units, without the warnings taken for one.         *)
Named == {i \in DOMAIN rows : rows[i].name # None}

(* What the row of a package or a unit says is not about another one, even     *)
(* when the output breaks off in the middle of a unit or of a search result,   *)
(* and wherever warnings come: nothing of the entry before it is left over     *)
(* (finish resets the record).                                                 *)
OwnDetails ==
  \A i \in Named :
     /\ rows[i].desc \in {None, rows[i].name}
     /\ source = "systemd" => rows[i].state \in {None, rows[i].name}
     /\ source # "systemd" => rows[i].version \in {None, Repo, rows[i].name}

Unlisted ==
  CASE format = "dnf search" -> WithEquals
    [] format \in {"dnf check-update", "systemctl show"} -> Foreign
    [] OTHER -> {}

Described == (PackageFormats \ {"pacman -Q", "dnf check-update"}) \cup {"systemctl show"}

(* The tool printed an entry for x, and later one for y.                        *)
PrintedInOrder(x, y) ==
  \E k, l \in DOMAIN printed : k < l /\ printed[k] = x /\ printed[l] = y

(* A line of the output is taken for what it is not.                           *)
Misread == \E k \in DOMAIN output : output[k].kind \in {"like entry", "like detail"}

(* When a command succeeded and all it printed was read, what is shown is what *)
(* it printed: every entry the parser does not leave out, once, packages in    *)
(* the order of the tool and units by name, and no warning costs a row, where- *)
(* ever it comes.  A warning makes a row of its own only if it looks like an   *)
(* entry.  Every row has its own description, except that a misread warning    *)
(* can take the one of a search result of pacman, which has a line for it.     *)
ListsWhatWasPrinted ==
  at = "shown" /\ exit = "ok" /\ ~lost =>
    /\ {rows[i].name : i \in Named} = {printed[k] : k \in DOMAIN printed} \ Unlisted
    /\ \A i, j \in Named : i < j =>
          IF source = "systemd" THEN rows[i].name < rows[j].name
          ELSE PrintedInOrder(rows[i].name, rows[j].name)
    /\ \A i, j \in Named : rows[i].name = rows[j].name => i = j
    /\ Named = DOMAIN rows \/ Misread
    /\ format \in Described /\ (format = "pacman -Ss" => ~Misread) =>
          \A i \in Named : rows[i].desc = rows[i].name

(* A command that failed shows no rows, except where its status is ignored     *)
(* because dnf check-update fails when there are upgrades.                     *)
NothingFromFailure ==
  at = "shown" /\ exit = "failed" /\ format \notin StatusIgnored => rows = <<>>
--------------------------------------------------------------------------------
(* Stated by the comment over parse_dnf_check_update (a space or a tab before  *)
(* the version): an upgrade is shown with its version.                         *)
VersionShown ==
  format = "dnf check-update" => \A i \in Named : rows[i].version = rows[i].name
================================================================================
