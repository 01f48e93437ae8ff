------------------------------ MODULE Application ------------------------------
(* The event loop of the control panel, Application::run: one thread that      *)
(* draws a frame, waits for a key, and runs the handler of the active page.    *)
(* A handler may stop in a modal dialog (confirmation, text prompt, help) or   *)
(* behind a child process; while it waits, the terminal may be resized and     *)
(* the host may change, so each wait is a separate step here.                  *)
(* Records of a table are opaque; what a listing returns is any member of      *)
(* Listings, because the host changes between two listings.                    *)
EXTENDS Table, Sequences

CONSTANTS
  Records,      \* the rows a table can show
  Listings,     \* for each table, the sequences a listing of it may return
  LineSizes,    \* the heights (LINES) the terminal can have
  UserNames,    \* valid user names that can be typed at the prompt
  None,         \* no record: an action without a target, or no row highlighted
  Garbage       \* what indexing a vector out of its range reads

Tables == {"Users", "Packages", "Processes", "Services", "Storage"}

ASSUME ListingsAssumption == Listings \in [Tables -> SUBSET Seq(Records)]
ASSUME LinesAssumption    == LineSizes \subseteq Nat
ASSUME TargetsAssumption  == /\ None \notin Records \cup UserNames
                             /\ Garbage \notin Records \cup UserNames \cup {None}

PageMeta == <<"Overview", "Users", "Packages", "Processes", "Services",
              "Storage", "Diagnostics">>

VARIABLES
  pc,        \* before the loop, at its top, in getch, in a dialog, ...
  key,       \* the key the running handler was entered with
  page,      \* page_index
  lines,     \* LINES, as ncurses last reported it
  fitted,    \* the LINES the last keep_visible used (a history variable)
  records, selected, offset, \* the tables: rows, selected row, first row drawn
  loaded,    \* the tables whose first listing was taken
  view,      \* PackageUiState::view
  backend,   \* the package backend: null, present, or no longer available()
  status,    \* colour of the status message, "none" when its text is empty
  shown,     \* the record the last frame highlighted (a history variable)
  term,      \* who owns the terminal: curses, a child, or nobody any more
  ask,       \* the operation and target the confirmation names
  yes,       \* the confirmation was answered with y
  ran        \* the operation the handler performed and whether it succeeded

tables == <<records, selected, offset, loaded, fitted>>
dialog == <<ask, yes>>
vars == <<pc, key, page, lines, tables, view, backend, status, shown, term,
          dialog, ran>>

Page == PageMeta[page + 1]

(* The operation the confirmation of a page announces for a key, and the one   *)
(* the handler then calls.                                                     *)
Announced ==
  [Users     |-> [a |-> "create", l |-> "lock", u |-> "unlock"],
   Packages  |-> [u |-> "update", U |-> "upgrade", i |-> "install", d |-> "remove"],
   Processes |-> [t |-> "terminate", K |-> "kill"],
   Services  |-> [s |-> "start", x |-> "stop", R |-> "restart", e |-> "enable",
                  d |-> "disable"]]
(* Mutant of Called: the services page calls enable for disable, and back.     *)
EnableForDisable ==
  [Announced EXCEPT !["Services"] = [@ EXCEPT !["e"] = "disable", !["d"] = "enable"]]

Called ==
  [Users     |-> [a |-> "create", l |-> "lock", u |-> "unlock"],
   Packages  |-> [u |-> "update", U |-> "upgrade", i |-> "install", d |-> "remove"],
   Processes |-> [t |-> "terminate", K |-> "kill"],
   Services  |-> [s |-> "start", x |-> "stop", R |-> "restart", e |-> "enable",
                  d |-> "disable"]]

RowOperations == {"lock", "unlock", "install", "remove", "terminate", "kill",
                  "start", "stop", "restart", "enable", "disable"}
Mutations == RowOperations \cup {"create", "update", "upgrade"}

NoAsk == [op |-> "none", target |-> None]
NoRun == [op |-> "none", target |-> None, ok |-> TRUE]

(* Mutant of SelectedRecord: selected is taken for an index that counts from 1. *)
RowAbove(t) ==
  IF selected[t] \in 1 .. Len(records[t]) THEN records[t][selected[t]] ELSE Garbage

(* records[selected]: any value at all when the index is out of range.         *)
SelectedRecord(t) ==
  IF selected[t] < Len(records[t]) THEN records[t][selected[t] + 1] ELSE Garbage

(* A listing of table t.  Only the ones that run a command can fail, and       *)
(* nothing in what they return says so: systemctl and APT then give no rows,   *)
(* DNF what was printed before the failure.                                    *)
Listing(t, rows, ok) ==
  /\ rows \in Listings[t]
  /\ ok \/ t \in {"Packages", "Services"}
  /\ ~ok /\ t = "Services" => rows = <<>>
--------------------------------------------------------------------------------
Init ==
  /\ pc = "start" /\ key = "none" /\ page = 0
  /\ lines \in LineSizes /\ fitted = lines
  /\ \E rows \in Listings["Users"] :
        records = [t \in Tables |-> IF t = "Users" THEN rows ELSE <<>>]
  /\ selected = [t \in Tables |-> 0]
  /\ offset = [t \in Tables |-> 0]
  /\ loaded = {"Users"}
  /\ view = "Installed" /\ backend = "null"
  /\ status = "none" /\ shown = None /\ term = "curses"
  /\ ask = NoAsk /\ yes = FALSE /\ ran = NoRun

(* create_package_backend: none, or one whose tools may be gone already.       *)
Start ==
  /\ pc = "start"
  /\ pc' = "frame" /\ backend' \in {"null", "present", "absent"}
  /\ UNCHANGED <<key, page, lines, tables, view, status, shown, term, dialog, ran>>
--------------------------------------------------------------------------------
(* The end of the loop body: keep_visible on every table, with the height the  *)
(* terminal has by then, and back to the top.  sel is the selection the        *)
(* handler leaves, off the offsets it leaves, height the new LINES.            *)
EndOfHandler(sel, off, height) ==
  /\ lines' = height
  /\ selected' = sel
  /\ offset' = [t \in Tables |-> KeepVisible(sel[t], off[t], VisibleRows(height))]
  /\ fitted' = height
  /\ pc' = "frame" /\ ask' = NoAsk /\ yes' = FALSE

(* Replace the rows of t by a new listing, and clamp the selection to it.      *)
Relist(t, rows) == records' = [records EXCEPT ![t] = rows]
Clamped(t, rows) ==
  [selected EXCEPT ![t] = ClampSelection(selected[t], Len(rows))]

(* load_package_view: the listing of the current view; selection, offset and   *)
(* the loaded flag are reset whatever the listing returned.                    *)
LoadPackageView(rows, height) ==
  /\ Relist("Packages", rows)
  /\ loaded' = loaded \cup {"Packages"}
  /\ EndOfHandler([selected EXCEPT !["Packages"] = 0],
                  [offset EXCEPT !["Packages"] = 0], height)
--------------------------------------------------------------------------------
(* The top of the loop: the first listing of the active page if it was not     *)
(* taken yet, one frame, and the status message is forgotten.                  *)
NeedsLoad ==
  /\ Page \in Tables \ loaded
  /\ Page = "Packages" => backend = "present"

Highlighted(recs, sel, off) ==
  IF /\ Page \in Tables /\ lines >= MinLines
     /\ Page = "Packages" => backend = "present"
     /\ sel[Page] < Len(recs[Page])
     /\ InWindow(sel[Page], off[Page], VisibleRows(lines))
  THEN recs[Page][sel[Page] + 1] ELSE None

Draw ==
  /\ pc = "frame"
  /\ \/ ~NeedsLoad /\ UNCHANGED <<records, selected, offset, loaded>>
     \/ /\ NeedsLoad
        /\ \E rows \in Listings[Page] : Relist(Page, rows)
        /\ loaded' = loaded \cup {Page}
        /\ IF Page = "Packages"
           THEN /\ selected' = [selected EXCEPT ![Page] = 0]
                /\ offset' = [offset EXCEPT ![Page] = 0]
           ELSE UNCHANGED <<selected, offset>>
  /\ shown' = Highlighted(records', selected', offset')
  /\ status' = "none" /\ ran' = NoRun /\ key' = "none"
  /\ pc' = "getch"
  /\ UNCHANGED <<page, lines, fitted, view, backend, term, dialog>>

ReadKey(k) == pc = "getch" /\ key' = k

Quit ==
  /\ ReadKey("q")
  /\ pc' = "done" /\ term' = "ended"
  /\ UNCHANGED <<page, lines, tables, view, backend, status, shown, dialog, ran>>

(* Left, Right and Tab go straight back to the top: no keep_visible.           *)
SwitchPage ==
  /\ \/ ReadKey("left")  /\ page' = IF page = 0 THEN Len(PageMeta) - 1 ELSE page - 1
     \/ ReadKey("right") /\ page' = (page + 1) % Len(PageMeta)
  /\ pc' = "frame"
  /\ UNCHANGED <<lines, tables, view, backend, status, shown, term, dialog, ran>>

Help ==
  /\ ReadKey("?")
  /\ pc' = "help"
  /\ UNCHANGED <<page, lines, tables, view, backend, status, shown, term, dialog, ran>>

(* Any key closes the overlay, KEY_RESIZE too; no keep_visible follows.        *)
CloseHelp ==
  /\ pc = "help"
  /\ lines' \in LineSizes
  /\ pc' = "frame"
  /\ UNCHANGED <<key, page, tables, view, backend, status, shown, term, dialog, ran>>
--------------------------------------------------------------------------------
(* A key without effect on the page.  KEY_RESIZE is one: it has no handler,    *)
(* but ncurses changed LINES before returning it.                              *)
IgnoredKey ==
  /\ ReadKey("other")
  /\ \E height \in LineSizes : EndOfHandler(selected, offset, height)
  /\ UNCHANGED <<page, records, loaded, view, backend, status, shown, term, ran>>

PageEnabled == Page = "Packages" => backend = "present"

(* A page with a table offers the key to the table before its own bindings.    *)
Navigate ==
  /\ Page \in Tables /\ PageEnabled
  /\ \E k \in TableKeys :
        /\ ReadKey(k)
        /\ EndOfHandler(
             [selected EXCEPT ![Page] = HandleTableKey(k, @, Len(records[Page]))],
             offset, lines)
  /\ UNCHANGED <<page, records, loaded, view, backend, status, shown, term, ran>>

OwnKey(k) == ReadKey(k) /\ (Page \in Tables => k \notin TableKeys)

(* r on the pages that only show the system snapshot.                          *)
RefreshSnapshot ==
  /\ Page \in {"Overview", "Diagnostics"} /\ OwnKey("r")
  /\ EndOfHandler(selected, offset, lines)
  /\ status' = "Success"
  /\ UNCHANGED <<page, records, loaded, view, backend, shown, term, ran>>

RefreshTable ==
  /\ Page \in {"Users", "Processes", "Services", "Storage"} /\ OwnKey("r")
  /\ \E rows \in Listings[Page], ok \in BOOLEAN :
        /\ Listing(Page, rows, ok)
        /\ Relist(Page, rows)
        /\ EndOfHandler(Clamped(Page, rows), offset, lines)
        /\ ran' = [op |-> "list", target |-> None, ok |-> ok]
  /\ status' = "Success"
  /\ UNCHANGED <<page, loaded, view, backend, shown, term>>

(* a, g and r of the package page: choose the view, or keep it, and reload.    *)
ShowPackages ==
  /\ Page = "Packages" /\ backend = "present"
  /\ \/ OwnKey("a") /\ view' = "Installed"
     \/ OwnKey("g") /\ view' = "Upgradable"
     \/ OwnKey("r") /\ view' = view
  /\ \E rows \in Listings["Packages"], ok \in BOOLEAN :
        /\ Listing("Packages", rows, ok)
        /\ LoadPackageView(rows, lines)
        /\ ran' = [op |-> "list", target |-> None, ok |-> ok]
  /\ status' = "Success"
  /\ UNCHANGED <<page, backend, shown, term>>
--------------------------------------------------------------------------------
(* The text prompt: the new user name, or the package search.                  *)
OpenPrompt ==
  /\ \/ Page = "Users" /\ OwnKey("a")
     \/ Page = "Packages" /\ backend = "present" /\ OwnKey("s")
  /\ pc' = "prompt"
  /\ UNCHANGED <<page, lines, tables, view, backend, status, shown, term, dialog, ran>>

InvalidUserName ==
  /\ pc = "prompt" /\ Page = "Users"
  /\ \E height \in LineSizes : EndOfHandler(selected, offset, height)
  /\ status' = "Danger"
  /\ UNCHANGED <<key, page, records, loaded, view, backend, shown, term, ran>>

AskCreateUser ==
  /\ pc = "prompt" /\ Page = "Users"
  /\ lines' \in LineSizes
  /\ \E name \in UserNames :
        ask' = [op |-> Announced["Users"][key], target |-> name]
  /\ pc' = "confirm"
  /\ UNCHANGED <<key, page, tables, view, backend, status, shown, term, yes, ran>>

EmptySearch ==
  /\ pc = "prompt" /\ Page = "Packages"
  /\ \E height \in LineSizes : EndOfHandler(selected, offset, height)
  /\ UNCHANGED <<key, page, records, loaded, view, backend, status, shown, term, ran>>

SearchPackages ==
  /\ pc = "prompt" /\ Page = "Packages"
  /\ view' = "Search"
  /\ \E rows \in Listings["Packages"], ok \in BOOLEAN, height \in LineSizes :
        /\ Listing("Packages", rows, ok)
        /\ LoadPackageView(rows, height)
        /\ ran' = [op |-> "list", target |-> None, ok |-> ok]
  /\ status' = "Success"
  /\ UNCHANGED <<key, page, backend, shown, term>>
--------------------------------------------------------------------------------
(* A mutation first names what it will do and waits for y.                     *)
Ask(k, target) ==
  /\ OwnKey(k)
  /\ ask' = [op |-> Announced[Page][k], target |-> target]
  /\ pc' = "confirm"
  /\ UNCHANGED <<page, lines, tables, view, backend, status, shown, term, yes, ran>>

AskLock ==
  /\ Page = "Users" /\ records["Users"] # <<>>
  /\ \E k \in {"l", "u"} : Ask(k, SelectedRecord("Users"))

(* The index was out of range, and reading there ended the process instead.    *)
CrashOnBadIndex ==
  /\ Page = "Users" /\ records["Users"] # <<>> /\ SelectedRecord("Users") = Garbage
  /\ \E k \in {"l", "u"} : OwnKey(k)
  /\ pc' = "crashed"
  /\ UNCHANGED <<page, lines, tables, view, backend, status, shown, term, dialog, ran>>

(* Mutant of AskPackages: the index can be updated without a backend.          *)
AskWithoutBackend ==
  /\ Page = "Packages"
  /\ \/ \E k \in {"u", "U"} : Ask(k, None)
     \/ \E k \in {"i", "d"} :
          /\ records["Packages"] # <<>> /\ (k = "d" => view # "Search")
          /\ Ask(k, SelectedRecord("Packages"))

AskPackages ==
  /\ Page = "Packages" /\ backend = "present"
  /\ \/ \E k \in {"u", "U"} : Ask(k, None)
     \/ records["Packages"] # <<>> /\ Ask("i", SelectedRecord("Packages"))
     \/ /\ records["Packages"] # <<>> /\ view # "Search"
        /\ Ask("d", SelectedRecord("Packages"))

(* Only the rows of a search are not marked as installed.                      *)
RemoveNotInstalled ==
  /\ Page = "Packages" /\ backend = "present"
  /\ records["Packages"] # <<>> /\ view = "Search"
  /\ OwnKey("d")
  /\ EndOfHandler(selected, offset, lines)
  /\ status' = "Warning"
  /\ UNCHANGED <<page, records, loaded, view, backend, shown, term, ran>>

AskSignal ==
  /\ Page = "Processes" /\ records["Processes"] # <<>>
  /\ \E k \in {"t", "K"} : Ask(k, SelectedRecord("Processes"))

AskService ==
  /\ Page = "Services" /\ records["Services"] # <<>>
  /\ \E k \in {"s", "x", "R", "e", "d"} : Ask(k, SelectedRecord("Services"))

(* Every key but y refuses, KEY_RESIZE too.                                    *)
Refuse ==
  /\ pc = "confirm"
  /\ \E height \in LineSizes : EndOfHandler(selected, offset, height)
  /\ UNCHANGED <<key, page, records, loaded, view, backend, status, shown, term, ran>>

(* Mutant of Accept: services are called without run_privileged.               *)
StaysInCurses ==
  /\ pc = "confirm"
  /\ yes' = TRUE
  /\ pc' = "act"
  /\ term' = IF Page \in {"Processes", "Services"} THEN "curses" ELSE "child"
  /\ UNCHANGED <<key, page, lines, tables, view, backend, status, shown, ask, ran>>

(* y: the handler acts.  Except for signals, which need no child process,      *)
(* run_privileged leaves curses mode first.                                    *)
Accept ==
  /\ pc = "confirm"
  /\ yes' = TRUE
  /\ pc' = "act"
  /\ term' = IF Page = "Processes" THEN "curses" ELSE "child"
  /\ UNCHANGED <<key, page, lines, tables, view, backend, status, shown, ask, ran>>

ResultColor(ok) == IF ok THEN "Success" ELSE "Danger"

(* The target the handler passes on.  Locking and removing go through a        *)
(* reference into the table; the other handlers copied the record, which ask   *)
(* still holds.                                                                *)
CallTarget ==
  IF Called[Page][key] \in {"lock", "unlock", "remove"}
  THEN SelectedRecord(Page) ELSE ask.target

(* Mutant of Perform: the terminal is not resumed.                             *)
LeftSuspended(ok) ==
  /\ pc = "act"
  /\ ran' = [op |-> Called[Page][key], target |-> CallTarget, ok |-> ok]
  /\ status' = ResultColor(ok)
  /\ UNCHANGED <<key, page, view, backend, shown, term>>

(* The child ended, or the signal was sent: curses mode is restored, and the    *)
(* result becomes the status message.                                          *)
Perform(ok) ==
  /\ pc = "act"
  /\ term' = "curses"
  /\ ran' = [op |-> Called[Page][key], target |-> CallTarget, ok |-> ok]
  /\ status' = ResultColor(ok)
  /\ UNCHANGED <<key, page, view, backend, shown>>

(* Every table is listed again whatever the result was.                        *)
Relisted(t) ==
  \E rows \in Listings[t] :
     /\ Relist(t, rows)
     /\ EndOfHandler(Clamped(t, rows), offset, lines)

SignalOrServiceDone ==
  /\ Page \in {"Processes", "Services"}
  /\ \E ok \in BOOLEAN : Perform(ok)
  /\ Relisted(Page)
  /\ UNCHANGED loaded

PackageDone ==
  /\ Page = "Packages"
  /\ \E ok \in BOOLEAN : Perform(ok)
  /\ \E rows \in Listings["Packages"] : LoadPackageView(rows, lines)

CreateUserDone ==
  /\ Page = "Users" /\ key = "a"
  /\ \E ok \in BOOLEAN : Perform(ok)
  /\ Relisted("Users")
  /\ UNCHANGED loaded

(* After locking or unlocking, the selection is not clamped to the new list.   *)
LockDone ==
  /\ Page = "Users" /\ key # "a"
  /\ \E ok \in BOOLEAN : Perform(ok)
  /\ \E rows \in Listings["Users"] :
        /\ Relist("Users", rows)
        /\ EndOfHandler(selected, offset, lines)
  /\ UNCHANGED loaded
--------------------------------------------------------------------------------
(* The tools of the package backend may be removed or installed meanwhile.     *)
ToolsChange ==
  /\ pc \notin {"start", "done", "crashed"} /\ backend # "null"
  /\ backend' = IF backend = "present" THEN "absent" ELSE "present"
  /\ UNCHANGED <<pc, key, page, lines, tables, view, status, shown, term, dialog, ran>>

Exited == pc \in {"done", "crashed"} /\ UNCHANGED vars

Handler ==
  \/ IgnoredKey \/ Navigate \/ RefreshSnapshot \/ RefreshTable \/ ShowPackages
  \/ OpenPrompt \/ InvalidUserName \/ AskCreateUser \/ EmptySearch \/ SearchPackages
  \/ AskLock \/ CrashOnBadIndex \/ AskPackages \/ RemoveNotInstalled
  \/ AskSignal \/ AskService \/ Refuse \/ Accept
  \/ SignalOrServiceDone \/ PackageDone \/ CreateUserDone \/ LockDone

Next ==
  \/ Start \/ Draw \/ Quit \/ SwitchPage \/ Help \/ CloseHelp \/ Handler
  \/ ToolsChange \/ Exited

Spec == Init /\ [][Next]_vars
--------------------------------------------------------------------------------
(* Types, with the two facts about the first listings the rest relies on.      *)
Ops == Mutations \cup {"none", "list"}
Targets == Records \cup UserNames \cup {None, Garbage}

TypeOK ==
  /\ pc \in {"start", "frame", "getch", "prompt", "confirm", "act", "help", "done",
            "crashed"}
  /\ page \in 0 .. Len(PageMeta) - 1
  /\ lines \in LineSizes /\ fitted \in LineSizes
  /\ records \in [Tables -> Seq(Records)]
  /\ selected \in [Tables -> Nat] /\ offset \in [Tables -> Nat]
  /\ loaded \in SUBSET Tables
  /\ view \in {"Installed", "Search", "Upgradable"}
  /\ backend \in {"null", "present", "absent"}
  /\ status \in {"none", "Success", "Warning", "Danger"}
  /\ shown \in Records \cup {None}
  /\ term \in {"curses", "child", "ended"}
  /\ ask \in [op : Ops, target : Targets] /\ yes \in BOOLEAN
  /\ ran \in [op : Ops, target : Targets, ok : BOOLEAN]

(* In every table but the user table, the selected index denotes a row, however *)
(* the list shrank in a refresh or behind a mutation (application.cpp:384-396,  *)
(* 408-427, 439): the next key indexes the vector with it unchecked.            *)
SelectionInRange ==
  \A t \in Tables \ {"Users"} : selected[t] = 0 \/ selected[t] < Len(records[t])

(* While the user looks at a frame, the selected row of the page is a row the   *)
(* frame drew (application.cpp:453-457): unless the height changed since the    *)
(* offsets were last fitted to it.                                              *)
SelectedOnScreen ==
  pc = "getch" /\ Page \in Tables \ {"Users"} /\ records[Page] # <<>> /\ lines = fitted
    => /\ selected[Page] < Len(records[Page])
       /\ InWindow(selected[Page], offset[Page], VisibleRows(lines))

(* No mutation is performed unless its confirmation was answered with y, and    *)
(* what is performed has the operation and the target the confirmation named,   *)
(* although the label and the call are chosen by separate code and some targets *)
(* are read through a reference only after the answer (application.cpp:306-313, *)
(* 365-372, 387-397, 411-428).                                                  *)
OnlyConfirmed ==
  [][ran' # ran /\ ran'.op \in Mutations
       => yes /\ ask = [op |-> ran'.op, target |-> ran'.target]]_vars

(* A row operation acts on the record that the last frame highlighted, if it    *)
(* highlighted one: neither a lazy listing nor a key can move the selection     *)
(* between the frame the user saw and the row the handler reads.                *)
ActsOnHighlighted ==
  ran.op \in RowOperations /\ shown # None => ran.target = shown

(* Children get the terminal out of curses mode, the loop waits for keys only   *)
(* inside it, and it is given back when the loop ends (application.cpp:143-148).*)
TerminalOwner ==
  /\ term = "child" => pc = "act"
  /\ pc \in {"start", "frame", "getch", "prompt", "confirm", "help"} => term = "curses"
  /\ pc = "done" => term = "ended"

(* README.md:51 "a scroll position indicator": of a list that continues beyond  *)
(* the window the whole thumb is drawn, at the top of its track at the first   *)
(* rows and at its end at the last ones, in spite of two integer divisions     *)
(* (widgets.hpp:135-151); except where a shorter list left the window beyond   *)
(* its end, which draws a part of the thumb or nothing.                        *)
ScrollbarShowsPosition ==
  pc = "getch" /\ Page \in Tables /\ lines >= MinLines =>
    LET count   == Len(records[Page])
        visible == VisibleRows(lines)
        off     == offset[Page]
        start   == ThumbStart(count, visible, off)
    IN  count > visible /\ off + visible <= count =>
          /\ start .. start + ThumbLength(count, visible) - 1
               \subseteq ThumbRows(count, visible, off)
          /\ off = 0 => 0 \in ThumbRows(count, visible, off)
          /\ off + visible = count => visible - 1 \in ThumbRows(count, visible, off)
--------------------------------------------------------------------------------
(* What the documentation says and the code does not do.                       *)

(* README.md:66 "g: show available upgrades".                                  *)
GShowsUpgrades ==
  [][pc = "getch" /\ key' = "g" /\ Page = "Packages" /\ backend = "present"
       => view' = "Upgradable"]_vars

(* README.md:59 "l/u: lock or unlock the selected account": the account is one  *)
(* of the table.                                                               *)
LocksListedAccount == ask.op \in {"lock", "unlock"} => ask.target \in Records
================================================================================
