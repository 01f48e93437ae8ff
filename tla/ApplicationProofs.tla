--------------------------- MODULE ApplicationProofs ---------------------------
(* Proofs about the event loop, for all listings, terminal heights and names.  *)
EXTENDS Application, TLAPS

(* A key leaves the selection on a row of the table, or on 0 in an empty one.  *)
LEMMA HandleTableKeyInRange ==
  ASSUME NEW k \in TableKeys, NEW sel \in Nat, NEW count \in Nat
  PROVE  /\ HandleTableKey(k, sel, count) \in Nat
         /\ sel = 0 \/ sel < count =>
              \/ HandleTableKey(k, sel, count) = 0
              \/ HandleTableKey(k, sel, count) < count
  BY DEF TableKeys, HandleTableKey, PageStep, Lesser, Greater

(* After clamping, the selection is on a row of the new list.                  *)
LEMMA ClampSelectionInRange ==
  ASSUME NEW sel \in Nat, NEW count \in Nat
  PROVE  /\ ClampSelection(sel, count) \in Nat
         /\ ClampSelection(sel, count) = 0 \/ ClampSelection(sel, count) < count
  BY DEF ClampSelection, Lesser

(* There is always room for one row: the window of a table is never empty.     *)
LEMMA VisibleRowsPositive ==
  ASSUME NEW height \in Nat
  PROVE  VisibleRows(height) \in Nat /\ VisibleRows(height) >= 1
  BY DEF VisibleRows, ChromeLines, Greater

(* The offset keep_visible chooses shows the selected row, whatever the offset *)
(* was and however the height changed.                                         *)
LEMMA KeepVisibleShowsSelection ==
  ASSUME NEW sel \in Nat, NEW off \in Nat, NEW visible \in Nat, visible >= 1
  PROVE  /\ KeepVisible(sel, off, visible) \in Nat
         /\ InWindow(sel, KeepVisible(sel, off, visible), visible)
  BY DEF KeepVisible, InWindow

(* A window that lies inside the list shows the whole thumb of its scrollbar.  *)
LEMMA ThumbInsideTrack ==
  ASSUME NEW count \in Nat, NEW visible \in Nat, NEW off \in Nat,
         visible >= 2, count > visible, off + visible <= count
  PROVE  /\ ThumbLength(count, visible) \in Nat /\ ThumbLength(count, visible) >= 1
         /\ ThumbStart(count, visible, off) \in Nat
         /\ ThumbStart(count, visible, off) + ThumbLength(count, visible) <= visible
         /\ off = 0 => ThumbStart(count, visible, off) = 0
         /\ off + visible = count =>
              ThumbStart(count, visible, off) + ThumbLength(count, visible) = visible
<1> DEFINE len == ThumbLength(count, visible)
           room == visible - len
           hidden == count - visible
<1>1. (visible * visible) \div count \in Nat /\ (visible * visible) \div count < visible
  <2>1. visible * visible < count * visible
    OBVIOUS
  <2> QED BY <2>1, SMTT(30)
<1>2. len \in Nat /\ 1 <= len /\ len < visible
  BY <1>1 DEF ThumbLength, Greater
<1>3. room \in Nat /\ room >= 1 /\ hidden \in Nat /\ hidden >= 1 /\ off <= hidden
  BY <1>2
<1>4. off * room <= hidden * room
  BY <1>3, SMTT(30)
<1>5. (off * room) \div hidden <= room
  <2>1. off * room \in Nat
    BY <1>3
  <2> QED BY <1>3, <1>4, <2>1, SMTT(30)
<1>6. ThumbStart(count, visible, off) = (off * room) \div hidden
  BY <1>3 DEF ThumbStart, Greater
<1>7. (off * room) \div hidden \in Nat
  <2>1. off * room \in Nat
    BY <1>3
  <2> QED BY <1>3, <2>1, SMTT(30)
<1>8. off = 0 => (off * room) \div hidden = 0
  BY <1>3, SMTT(30)
<1>9. off = hidden => (off * room) \div hidden = room
  BY <1>3, SMTT(30)
<1> QED
  <2> HIDE DEF len
  <2>1. (off * room) \div hidden + len <= visible
    BY <1>2, <1>3, <1>5, <1>7
  <2>2. off + visible = count => off = hidden
    OBVIOUS
  <2>3. off = hidden => (off * room) \div hidden + len = visible
    BY <1>2, <1>9
  <2> QED BY <1>2, <1>6, <1>7, <1>8, <2>1, <2>2, <2>3 DEF len
--------------------------------------------------------------------------------
(* The key a dialog was opened with is one the page binds to that dialog.      *)
KeyFits ==
  /\ pc = "prompt" => \/ Page = "Users" /\ key = "a"
                      \/ Page = "Packages" /\ key = "s"
  /\ pc \in {"confirm", "act"} =>
       Page \in DOMAIN Announced /\ key \in DOMAIN Announced[Page]

TypeInv == TypeOK /\ KeyFits

LEMMA EndOfHandlerType ==
  ASSUME NEW sel \in [Tables -> Nat], NEW off \in [Tables -> Nat],
         NEW height \in LineSizes, EndOfHandler(sel, off, height)
  PROVE  /\ pc' = "frame" /\ lines' \in LineSizes /\ fitted' \in LineSizes
         /\ selected' \in [Tables -> Nat] /\ offset' \in [Tables -> Nat]
         /\ ask' \in [op : Ops, target : Targets] /\ yes' \in BOOLEAN
<1>1. VisibleRows(height) \in Nat /\ VisibleRows(height) >= 1
  BY VisibleRowsPositive, LinesAssumption
<1>2. \A t \in Tables : KeepVisible(sel[t], off[t], VisibleRows(height)) \in Nat
  BY <1>1, KeepVisibleShowsSelection
<1>3. NoAsk \in [op : Ops, target : Targets]
  BY DEF NoAsk, Ops, Targets
<1> QED BY <1>2, <1>3 DEF EndOfHandler

LEMMA ListingType ==
  ASSUME TypeOK, NEW t \in Tables, NEW rows \in Listings[t]
  PROVE  /\ rows \in Seq(Records)
         /\ Relist(t, rows) => records' \in [Tables -> Seq(Records)]
         /\ Clamped(t, rows) \in [Tables -> Nat]
<1>1. rows \in Seq(Records)
  BY ListingsAssumption
<1>2. Len(rows) \in Nat /\ selected[t] \in Nat
  BY <1>1 DEF TypeOK
<1>3. ClampSelection(selected[t], Len(rows)) \in Nat
  BY <1>2, ClampSelectionInRange
<1> QED BY <1>1, <1>3 DEF TypeOK, Relist, Clamped

LEMMA SelectedRecordType ==
  ASSUME TypeOK, NEW t \in Tables
  PROVE  SelectedRecord(t) \in Records \cup {Garbage}
<1>1. records[t] \in Seq(Records) /\ selected[t] \in Nat
  BY DEF TypeOK
<1>2. CASE selected[t] < Len(records[t])
  <2>1. selected[t] + 1 \in 1 .. Len(records[t])
    BY <1>1, <1>2
  <2>2. records[t][selected[t] + 1] \in Records
    BY <1>1, <2>1
  <2> QED BY <1>2, <2>2 DEF SelectedRecord
<1> QED BY <1>2 DEF SelectedRecord

LEMMA AnnouncedType ==
  ASSUME NEW p \in DOMAIN Announced, NEW k \in DOMAIN Announced[p]
  PROVE  Announced[p][k] \in Mutations /\ Called[p][k] = Announced[p][k]
BY DEF Announced, Called, Mutations, RowOperations

LEMMA PageType ==
  ASSUME TypeOK
  PROVE  Page \in {"Overview", "Users", "Packages", "Processes", "Services",
                  "Storage", "Diagnostics"}
BY DEF TypeOK, Page, PageMeta

(* Handlers that end with EndOfHandler, whatever selection they leave.         *)
LEMMA EndedType ==
  ASSUME TypeInv, NEW sel \in [Tables -> Nat], NEW off \in [Tables -> Nat],
         NEW height \in LineSizes, EndOfHandler(sel, off, height),
         records' \in [Tables -> Seq(Records)], loaded' \in SUBSET Tables,
         view' \in {"Installed", "Search", "Upgradable"},
         status' \in {"none", "Success", "Warning", "Danger"},
         ran' \in [op : Ops, target : Targets, ok : BOOLEAN],
         term' \in {"curses", "child", "ended"},
         UNCHANGED <<page, backend, shown>>
  PROVE  TypeInv'
<1>1. TypeOK'
  BY EndOfHandlerType DEF TypeInv, TypeOK
<1> QED BY <1>1, EndOfHandlerType DEF TypeInv, KeyFits

LEMMA LoadPackageViewType ==
  ASSUME TypeInv, NEW rows \in Listings["Packages"], NEW height \in LineSizes,
         LoadPackageView(rows, height),
         view' \in {"Installed", "Search", "Upgradable"},
         status' \in {"none", "Success", "Warning", "Danger"},
         ran' \in [op : Ops, target : Targets, ok : BOOLEAN],
         term' \in {"curses", "child", "ended"},
         UNCHANGED <<page, backend, shown>>
  PROVE  TypeInv'
<1>1. "Packages" \in Tables
  BY DEF Tables
<1>2. /\ [selected EXCEPT !["Packages"] = 0] \in [Tables -> Nat]
      /\ [offset EXCEPT !["Packages"] = 0] \in [Tables -> Nat]
      /\ lines \in LineSizes /\ loaded \cup {"Packages"} \in SUBSET Tables
  BY <1>1 DEF TypeInv, TypeOK
<1>3. records' \in [Tables -> Seq(Records)]
  BY <1>1, ListingType DEF LoadPackageView, TypeInv
<1> QED BY <1>2, <1>3, EndedType DEF LoadPackageView

LEMMA ListRunType ==
  \A ok \in BOOLEAN : [op |-> "list", target |-> None, ok |-> ok]
                        \in [op : Ops, target : Targets, ok : BOOLEAN]
BY DEF Ops, Targets

LEMMA NavigationType ==
  ASSUME TypeInv, NEW t \in Tables, NEW k \in TableKeys
  PROVE  [selected EXCEPT ![t] = HandleTableKey(k, @, Len(records[t]))] \in [Tables -> Nat]
<1>1. selected[t] \in Nat /\ Len(records[t]) \in Nat
  BY DEF TypeInv, TypeOK
<1>2. HandleTableKey(k, selected[t], Len(records[t])) \in Nat
  BY <1>1, HandleTableKeyInRange
<1> QED BY <1>2 DEF TypeInv, TypeOK

(* What run_privileged and the signal handler pass on is well formed.          *)
LEMMA PerformType ==
  ASSUME TypeInv, NEW ok \in BOOLEAN, Perform(ok)
  PROVE  /\ ran' \in [op : Ops, target : Targets, ok : BOOLEAN]
         /\ status' \in {"none", "Success", "Warning", "Danger"}
         /\ term' \in {"curses", "child", "ended"}
         /\ view' \in {"Installed", "Search", "Upgradable"}
         /\ UNCHANGED <<page, backend, shown>>
<1>1. Page \in DOMAIN Announced /\ key \in DOMAIN Announced[Page]
  BY DEF Perform, TypeInv, KeyFits
<1>2. Called[Page][key] \in Ops
  BY <1>1, AnnouncedType DEF Ops
<1>3. Page \in Tables
  BY <1>1 DEF Announced, Tables
<1>4. CallTarget \in Targets
  <2>1. SelectedRecord(Page) \in Targets
    BY <1>3, SelectedRecordType DEF TypeInv, Targets
  <2>2. ask.target \in Targets
    BY DEF TypeInv, TypeOK
  <2> QED BY <2>1, <2>2 DEF CallTarget
<1> QED BY <1>2, <1>4 DEF Perform, ResultColor, TypeInv, TypeOK

(* Opening a confirmation for one of the page's keys.                          *)
LEMMA AskType ==
  ASSUME TypeInv, NEW p \in DOMAIN Announced, NEW k \in DOMAIN Announced[p],
         Page = p, NEW target \in Targets, Ask(k, target)
  PROVE  TypeInv'
<1>1. [op |-> Announced[Page][k], target |-> target] \in [op : Ops, target : Targets]
  BY AnnouncedType DEF Ops
<1>2. TypeOK'
  BY <1>1 DEF Ask, OwnKey, ReadKey, TypeInv, TypeOK, tables
<1>3. KeyFits'
  BY DEF Ask, OwnKey, ReadKey, KeyFits, Page
<1> QED BY <1>2, <1>3 DEF TypeInv

LEMMA HandlerType == TypeInv /\ Handler => TypeInv'
<1> SUFFICES ASSUME TypeInv, Handler PROVE TypeInv'
  OBVIOUS
<1>a. TypeOK /\ KeyFits /\ selected \in [Tables -> Nat] /\ offset \in [Tables -> Nat]
      /\ lines \in LineSizes
  BY DEF TypeInv, TypeOK
<1>b. \A t \in Tables : SelectedRecord(t) \in Targets
  BY <1>a, SelectedRecordType DEF Targets
<1>c. "Users" \in Tables /\ "Packages" \in Tables /\ "Processes" \in Tables
      /\ "Services" \in Tables
  BY DEF Tables
<1>1. CASE IgnoredKey \/ Refuse \/ InvalidUserName \/ EmptySearch
  <2>1. PICK height \in LineSizes : EndOfHandler(selected, offset, height)
    BY <1>1 DEF IgnoredKey, Refuse, InvalidUserName, EmptySearch
  <2>2. /\ status' \in {"none", "Success", "Warning", "Danger"}
        /\ UNCHANGED <<records, loaded, view, ran, term, page, backend, shown>>
    BY <1>1, <1>a DEF IgnoredKey, Refuse, InvalidUserName, EmptySearch, TypeOK
  <2> QED BY <2>1, <2>2, <1>a, EndedType DEF TypeOK
<1>2. CASE RefreshSnapshot \/ RemoveNotInstalled
  <2>1. EndOfHandler(selected, offset, lines)
    BY <1>2 DEF RefreshSnapshot, RemoveNotInstalled
  <2>2. /\ status' \in {"none", "Success", "Warning", "Danger"}
        /\ UNCHANGED <<records, loaded, view, ran, term, page, backend, shown>>
    BY <1>2 DEF RefreshSnapshot, RemoveNotInstalled
  <2> QED BY <2>1, <2>2, <1>a, EndedType DEF TypeOK
<1>3. CASE Navigate
  <2>1. PICK k \in TableKeys :
          EndOfHandler([selected EXCEPT ![Page] = HandleTableKey(k, @, Len(records[Page]))],
                       offset, lines)
    BY <1>3 DEF Navigate
  <2>2. /\ Page \in Tables
        /\ UNCHANGED <<page, records, loaded, view, backend, status, shown, term, ran>>
    BY <1>3 DEF Navigate
  <2>3. [selected EXCEPT ![Page] = HandleTableKey(k, @, Len(records[Page]))]
          \in [Tables -> Nat]
    BY <2>2, NavigationType
  <2> QED BY <2>1, <2>2, <2>3, <1>a, EndedType DEF TypeOK
<1>4. CASE RefreshTable
  <2>1. Page \in Tables
    BY <1>4 DEF RefreshTable, Tables
  <2>2. PICK rows \in Listings[Page], ok \in BOOLEAN :
          /\ Relist(Page, rows)
          /\ EndOfHandler(Clamped(Page, rows), offset, lines)
          /\ ran' = [op |-> "list", target |-> None, ok |-> ok]
    BY <1>4 DEF RefreshTable, Listing
  <2>3. records' \in [Tables -> Seq(Records)] /\ Clamped(Page, rows) \in [Tables -> Nat]
    BY <1>a, <2>1, <2>2, ListingType
  <2>4. status' = "Success" /\ UNCHANGED <<page, loaded, view, backend, shown, term>>
    BY <1>4 DEF RefreshTable
  <2>5. ran' \in [op : Ops, target : Targets, ok : BOOLEAN]
    BY <2>2, ListRunType
  <2> QED BY <1>a, <2>2, <2>3, <2>4, <2>5, EndedType DEF TypeOK
<1>5. CASE ShowPackages \/ SearchPackages
  <2>1. PICK rows \in Listings["Packages"], ok \in BOOLEAN, height \in LineSizes :
          /\ LoadPackageView(rows, height)
          /\ ran' = [op |-> "list", target |-> None, ok |-> ok]
    BY <1>5, <1>a DEF ShowPackages, SearchPackages
  <2>2. /\ view' \in {"Installed", "Search", "Upgradable"}
        /\ status' = "Success" /\ UNCHANGED <<page, backend, shown, term>>
    BY <1>5, <1>a DEF ShowPackages, SearchPackages, TypeOK
  <2>3. ran' \in [op : Ops, target : Targets, ok : BOOLEAN]
    BY <2>1, ListRunType
  <2> QED BY <2>1, <2>2, <2>3, <1>a, LoadPackageViewType DEF TypeOK
<1>6. CASE OpenPrompt
  <2>1. TypeOK'
    BY <1>6, <1>a DEF OpenPrompt, OwnKey, ReadKey, TypeOK, tables, dialog
  <2>2. KeyFits'
    BY <1>6 DEF OpenPrompt, OwnKey, ReadKey, KeyFits, Page
  <2> QED BY <2>1, <2>2 DEF TypeInv
<1>7. CASE AskCreateUser
  <2>1. Page = "Users" /\ key = "a"
    BY <1>7, <1>a DEF AskCreateUser, KeyFits
  <2>2. Page \in DOMAIN Announced /\ key \in DOMAIN Announced[Page]
    BY <2>1 DEF Announced
  <2>3. Announced["Users"][key] \in Ops
    BY <2>1, <2>2, AnnouncedType DEF Ops
  <2>4. ask' \in [op : Ops, target : Targets]
    BY <1>7, <2>3 DEF AskCreateUser, Targets
  <2>5. TypeOK'
    BY <1>7, <1>a, <2>4 DEF AskCreateUser, TypeOK, tables
  <2>6. KeyFits'
    BY <1>7, <2>2 DEF AskCreateUser, KeyFits, Page
  <2> QED BY <2>5, <2>6 DEF TypeInv
<1>8. CASE AskLock
  <2>1. PICK k \in {"l", "u"} : Page = "Users" /\ Ask(k, SelectedRecord("Users"))
    BY <1>8 DEF AskLock
  <2>2. "Users" \in DOMAIN Announced /\ k \in DOMAIN Announced["Users"]
    BY DEF Announced
  <2> QED BY <2>1, <2>2, <1>b, <1>c, AskType
<1>9. CASE CrashOnBadIndex
  BY <1>9, <1>a DEF CrashOnBadIndex, TypeInv, TypeOK, KeyFits, tables, dialog
<1>10. CASE AskPackages
  <2>1. Page = "Packages" /\ None \in Targets
    BY <1>10 DEF AskPackages, Targets
  <2>2. PICK k \in {"u", "U", "i", "d"}, target \in Targets : Ask(k, target)
    BY <1>10, <1>b, <1>c, <2>1 DEF AskPackages
  <2>3. "Packages" \in DOMAIN Announced /\ k \in DOMAIN Announced["Packages"]
    BY DEF Announced
  <2> QED BY <2>1, <2>2, <2>3, AskType
<1>11. CASE AskSignal
  <2>1. PICK k \in {"t", "K"} : Page = "Processes" /\ Ask(k, SelectedRecord("Processes"))
    BY <1>11 DEF AskSignal
  <2>2. "Processes" \in DOMAIN Announced /\ k \in DOMAIN Announced["Processes"]
    BY DEF Announced
  <2> QED BY <2>1, <2>2, <1>b, <1>c, AskType
<1>12. CASE AskService
  <2>1. PICK k \in {"s", "x", "R", "e", "d"} :
          Page = "Services" /\ Ask(k, SelectedRecord("Services"))
    BY <1>12 DEF AskService
  <2>2. "Services" \in DOMAIN Announced /\ k \in DOMAIN Announced["Services"]
    BY DEF Announced
  <2> QED BY <2>1, <2>2, <1>b, <1>c, AskType
<1>13. CASE Accept
  BY <1>13, <1>a DEF Accept, TypeInv, TypeOK, KeyFits, tables, Page
<1>14. CASE SignalOrServiceDone \/ CreateUserDone
  <2>1. PICK ok \in BOOLEAN : Perform(ok)
    BY <1>14 DEF SignalOrServiceDone, CreateUserDone
  <2>2. PICK t \in Tables : Relisted(t)
    BY <1>14, <1>c DEF SignalOrServiceDone, CreateUserDone
  <2>3. PICK rows \in Listings[t] :
          Relist(t, rows) /\ EndOfHandler(Clamped(t, rows), offset, lines)
    BY <2>2 DEF Relisted
  <2>4. records' \in [Tables -> Seq(Records)] /\ Clamped(t, rows) \in [Tables -> Nat]
    BY <1>a, <2>3, ListingType
  <2>5. UNCHANGED loaded
    BY <1>14 DEF SignalOrServiceDone, CreateUserDone
  <2> QED BY <1>a, <2>1, <2>3, <2>4, <2>5, PerformType, EndedType DEF TypeOK
<1>15. CASE PackageDone
  <2>1. PICK ok \in BOOLEAN : Perform(ok)
    BY <1>15 DEF PackageDone
  <2>2. PICK rows \in Listings["Packages"] : LoadPackageView(rows, lines)
    BY <1>15 DEF PackageDone
  <2> QED BY <1>a, <2>1, <2>2, PerformType, LoadPackageViewType
<1>16. CASE LockDone
  <2>1. PICK ok \in BOOLEAN : Perform(ok)
    BY <1>16 DEF LockDone
  <2>2. PICK rows \in Listings["Users"] :
          Relist("Users", rows) /\ EndOfHandler(selected, offset, lines)
    BY <1>16 DEF LockDone
  <2>3. records' \in [Tables -> Seq(Records)] /\ UNCHANGED loaded
    BY <1>16, <1>a, <1>c, <2>2, ListingType DEF LockDone
  <2> QED BY <1>a, <2>1, <2>2, <2>3, PerformType, EndedType DEF TypeOK
<1> QED BY <1>1, <1>2, <1>3, <1>4, <1>5, <1>6, <1>7, <1>8, <1>9, <1>10, <1>11,
           <1>12, <1>13, <1>14, <1>15, <1>16 DEF Handler

(* The type invariant and KeyFits are preserved by every step.                 *)
LEMMA TypeStep == TypeInv /\ [Next]_vars => TypeInv'
<1> SUFFICES ASSUME TypeInv, [Next]_vars PROVE TypeInv'
  OBVIOUS
<1> USE DEF TypeInv
<1>1. CASE Draw
  <2>1. records' \in [Tables -> Seq(Records)]
    BY <1>1, ListingType DEF Draw, NeedsLoad, TypeOK
  <2>2. selected' \in [Tables -> Nat] /\ offset' \in [Tables -> Nat]
    <3>1. CASE Page = "Packages" /\ NeedsLoad
      <4>1. /\ selected' = [selected EXCEPT ![Page] = 0]
            /\ offset' = [offset EXCEPT ![Page] = 0]
        BY <1>1, <3>1 DEF Draw
      <4>2. selected \in [Tables -> Nat] /\ offset \in [Tables -> Nat]
        BY DEF TypeOK
      <4> QED BY <4>1, <4>2
    <3>2. CASE ~(Page = "Packages" /\ NeedsLoad)
      <4>1. UNCHANGED <<selected, offset>>
        BY <1>1, <3>2 DEF Draw
      <4> QED BY <4>1 DEF TypeOK
    <3> QED BY <3>1, <3>2
  <2>3. shown' \in Records \cup {None}
    BY <1>1, <2>1, <2>2 DEF Draw, Highlighted
  <2>4. ran' \in [op : Ops, target : Targets, ok : BOOLEAN]
    BY <1>1 DEF Draw, NoRun, Ops, Targets
  <2>5. loaded' \in SUBSET Tables
    BY <1>1 DEF Draw, NeedsLoad, TypeOK
  <2>6. TypeOK'
    BY <1>1, <2>1, <2>2, <2>3, <2>4, <2>5 DEF Draw, TypeOK, dialog
  <2> QED BY <1>1, <2>6 DEF Draw, KeyFits
<1>2. CASE Start \/ Quit \/ Help \/ CloseHelp \/ ToolsChange
  BY <1>2 DEF Start, Quit, Help, CloseHelp, ToolsChange, ReadKey, TypeOK, KeyFits, Page, tables, dialog
<1>3. CASE SwitchPage
  <2>1. page' \in 0 .. Len(PageMeta) - 1
    BY <1>3 DEF SwitchPage, TypeOK, PageMeta
  <2> QED BY <1>3, <2>1 DEF SwitchPage, TypeOK, KeyFits, tables, dialog
<1>4. CASE Handler
  BY <1>4, HandlerType
<1>5. CASE UNCHANGED vars
  BY <1>5 DEF vars, tables, dialog, TypeOK, KeyFits, Page
<1> QED BY <1>1, <1>2, <1>3, <1>4, <1>5 DEF Next, Exited

LEMMA TypeInit == Init => TypeInv
<1> SUFFICES ASSUME Init PROVE TypeInv
  OBVIOUS
<1>1. records \in [Tables -> Seq(Records)]
  BY ListingsAssumption DEF Init, Tables
<1>2. /\ ask \in [op : Ops, target : Targets]
      /\ ran \in [op : Ops, target : Targets, ok : BOOLEAN]
  BY DEF Init, NoAsk, NoRun, Ops, Targets
<1>3. page \in 0 .. Len(PageMeta) - 1
  BY DEF Init, PageMeta
<1>4. loaded \in SUBSET Tables
  BY DEF Init, Tables
<1> QED BY <1>1, <1>2, <1>3, <1>4 DEF Init, TypeInv, TypeOK, KeyFits

(* Every variable keeps its type.                                              *)
THEOREM TypeCorrect == Spec => []TypeOK
<1>1. TypeInv => TypeOK
  BY DEF TypeInv
<1> QED BY <1>1, TypeInit, TypeStep, PTL DEF Spec
--------------------------------------------------------------------------------
(* Why the selection stays in range and on screen.  A table that was never     *)
(* listed is empty, and a page can only be worked on once it was listed; the   *)
(* offsets fit the height they were last computed for.                         *)
FirstListings ==
  /\ "Users" \in loaded
  /\ \A t \in Tables \ loaded : records[t] = <<>>
  /\ pc \notin {"frame", "done", "crashed"} /\ Page \in Tables \ {"Packages"}
       => Page \in loaded

Fits == \A t \in Tables : InWindow(selected[t], offset[t], VisibleRows(fitted))

SelectionInv == FirstListings /\ Fits /\ SelectionInRange

LEMMA EndedSelection ==
  ASSUME NEW sel \in [Tables -> Nat], NEW off \in [Tables -> Nat],
         NEW height \in LineSizes, EndOfHandler(sel, off, height),
         \A t \in Tables \ {"Users"} : sel[t] = 0 \/ sel[t] < Len(records'[t]),
         "Users" \in loaded',
         \A t \in Tables \ loaded' : records'[t] = <<>>
  PROVE  SelectionInv'
<1>1. VisibleRows(height) \in Nat /\ VisibleRows(height) >= 1
  BY VisibleRowsPositive, LinesAssumption
<1>2. \A t \in Tables :
        InWindow(sel[t], KeepVisible(sel[t], off[t], VisibleRows(height)), VisibleRows(height))
  BY <1>1, KeepVisibleShowsSelection
<1>3. selected' = sel /\ fitted' = height /\ pc' = "frame"
      /\ offset' = [t \in Tables |-> KeepVisible(sel[t], off[t], VisibleRows(height))]
  BY DEF EndOfHandler
<1>4. Fits'
  BY <1>2, <1>3 DEF Fits
<1> QED BY <1>3, <1>4 DEF SelectionInv, FirstListings, SelectionInRange

(* A refresh that clamps, of a table that was listed before.                   *)
LEMMA RelistedSelection ==
  ASSUME TypeOK, SelectionInv, NEW t \in loaded, NEW rows \in Listings[t],
         Relist(t, rows), EndOfHandler(Clamped(t, rows), offset, lines),
         UNCHANGED loaded
  PROVE  SelectionInv'
<1>1. t \in Tables /\ offset \in [Tables -> Nat] /\ lines \in LineSizes
  BY DEF TypeOK
<1>2. Clamped(t, rows) \in [Tables -> Nat] /\ rows \in Seq(Records)
  BY <1>1, ListingType
<1>3. records' = [records EXCEPT ![t] = rows] /\ DOMAIN records = Tables
  BY DEF Relist, TypeOK
<1>4. \A s \in Tables \ loaded' : records'[s] = <<>>
  BY <1>3 DEF SelectionInv, FirstListings
<1>5. \A s \in Tables \ {"Users"} : Clamped(t, rows)[s] = 0 \/ Clamped(t, rows)[s] < Len(records'[s])
  <2> TAKE s \in Tables \ {"Users"}
  <2>1. CASE s = t
    <3>1. selected[t] \in Nat /\ Len(rows) \in Nat
      BY <1>1, <1>2 DEF TypeOK
    <3>2. Clamped(t, rows)[t] = ClampSelection(selected[t], Len(rows))
      BY <1>1 DEF Clamped, TypeOK
    <3>3. records'[t] = rows
      BY <1>1, <1>3
    <3> QED BY <2>1, <3>1, <3>2, <3>3, ClampSelectionInRange
  <2>2. CASE s # t
    <3>1. Clamped(t, rows)[s] = selected[s] /\ records'[s] = records[s]
      BY <1>1, <1>3, <2>2 DEF Clamped, TypeOK
    <3> QED BY <3>1 DEF SelectionInv, SelectionInRange
  <2> QED BY <2>1, <2>2
<1> QED BY <1>1, <1>2, <1>4, <1>5, EndedSelection DEF SelectionInv, FirstListings

(* load_package_view selects the first row.                                    *)
LEMMA LoadPackageViewSelection ==
  ASSUME TypeOK, SelectionInv, NEW rows \in Listings["Packages"], NEW height \in LineSizes,
         LoadPackageView(rows, height)
  PROVE  SelectionInv'
<1> DEFINE sel == [selected EXCEPT !["Packages"] = 0]
           off == [offset EXCEPT !["Packages"] = 0]
<1>1. sel \in [Tables -> Nat] /\ off \in [Tables -> Nat] /\ lines \in LineSizes
  BY DEF TypeOK
<1>2. /\ records' = [records EXCEPT !["Packages"] = rows]
      /\ loaded' = loaded \cup {"Packages"}
      /\ EndOfHandler(sel, off, height)
  BY DEF LoadPackageView, Relist
<1>3. \A t \in Tables \ loaded' : records'[t] = <<>>
  BY <1>2 DEF SelectionInv, FirstListings, TypeOK
<1>4. \A t \in Tables \ {"Users"} : sel[t] = 0 \/ sel[t] < Len(records'[t])
  BY <1>2 DEF SelectionInv, SelectionInRange, TypeOK
<1>5. "Users" \in loaded'
  BY <1>2 DEF SelectionInv, FirstListings
<1> QED BY <1>1, <1>2, <1>3, <1>4, <1>5, EndedSelection

LEMMA DrawSelection == TypeOK /\ SelectionInv /\ Draw => SelectionInv'
<1> SUFFICES ASSUME TypeOK, SelectionInv, Draw PROVE SelectionInv'
  OBVIOUS
<1>1. UNCHANGED <<page, fitted>> /\ Page' = Page /\ pc' = "getch"
  BY DEF Draw, Page
<1>2. /\ records \in [Tables -> Seq(Records)] /\ loaded \in SUBSET Tables
      /\ selected \in [Tables -> Nat] /\ offset \in [Tables -> Nat]
      /\ fitted \in LineSizes
  BY DEF TypeOK
<1>3. CASE ~NeedsLoad
  <2>1. UNCHANGED <<records, selected, offset, loaded>>
    BY <1>3 DEF Draw
  <2>2. Page \in Tables \ {"Packages"} => Page \in loaded
    BY <1>3 DEF NeedsLoad
  <2> QED BY <1>1, <2>1, <2>2 DEF SelectionInv, FirstListings, Fits, SelectionInRange
<1>4. CASE NeedsLoad
  <2>1. PICK rows \in Listings[Page] : Relist(Page, rows)
    BY <1>4 DEF Draw
  <2>2. /\ records' = [records EXCEPT ![Page] = rows]
        /\ loaded' = loaded \cup {Page} /\ Page \in Tables \ loaded
    BY <1>4, <2>1 DEF Draw, Relist, NeedsLoad
  <2>3. \A t \in Tables \ loaded' : records'[t] = <<>>
    BY <1>2, <2>2 DEF SelectionInv, FirstListings
  <2>4. FirstListings'
    BY <1>1, <2>2, <2>3 DEF SelectionInv, FirstListings
  <2>5. selected[Page] = 0 \/ Page = "Users"
    <3>1. Page # "Users" => selected[Page] = 0 \/ selected[Page] < Len(<<>>)
      BY <2>2 DEF SelectionInv, FirstListings, SelectionInRange
    <3>2. selected[Page] \in Nat /\ Len(<<>>) = 0
      BY <1>2, <2>2
    <3> QED BY <3>1, <3>2
  <2>6. Page # "Users"
    BY <2>2 DEF SelectionInv, FirstListings
  <2>7. /\ selected' = [selected EXCEPT ![Page] = 0]
        /\ offset' = offset \/ offset' = [offset EXCEPT ![Page] = 0]
    <3>1. CASE Page = "Packages"
      BY <1>4, <3>1 DEF Draw
    <3>2. CASE Page # "Packages"
      BY <1>2, <1>4, <2>2, <2>5, <2>6, <3>2 DEF Draw
    <3> QED BY <3>1, <3>2
  <2>8. SelectionInRange'
    BY <1>2, <2>2, <2>7 DEF SelectionInv, SelectionInRange
  <2>9. Fits'
    <3>1. VisibleRows(fitted) \in Nat /\ VisibleRows(fitted) >= 1
      BY <1>2, VisibleRowsPositive, LinesAssumption
    <3> SUFFICES ASSUME NEW t \in Tables
                 PROVE  InWindow(selected'[t], offset'[t], VisibleRows(fitted))
      BY <1>1 DEF Fits
    <3>2. InWindow(selected[t], offset[t], VisibleRows(fitted))
      BY DEF SelectionInv, Fits
    <3>3. selected[t] \in Nat /\ offset[t] \in Nat
      BY <1>2
    <3>4. CASE t # Page
      BY <1>2, <2>7, <3>2, <3>4
    <3>5. CASE t = Page
      <4>1. selected'[t] = 0 /\ selected[t] = 0
        BY <1>2, <2>5, <2>6, <2>7, <3>5
      <4>2. offset'[t] = 0 \/ offset'[t] = offset[t]
        BY <1>2, <2>7, <3>5
      <4> QED BY <3>1, <3>2, <3>3, <4>1, <4>2 DEF InWindow
    <3> QED BY <3>4, <3>5
  <2> QED BY <2>4, <2>8, <2>9 DEF SelectionInv
<1> QED BY <1>3, <1>4

(* Steps into or inside a dialog, and back to the top of the loop, leave the   *)
(* tables alone.                                                               *)
LEMMA TablesUnchangedSelection ==
  ASSUME SelectionInv, UNCHANGED tables,
         \/ pc' \in {"frame", "done", "crashed"}
         \/ UNCHANGED page /\ pc \notin {"frame", "done", "crashed"}
         \/ UNCHANGED <<page, pc>>
  PROVE  SelectionInv'
<1>1. UNCHANGED <<records, selected, offset, loaded, fitted>>
  BY DEF tables
<1>2. FirstListings'
  BY <1>1 DEF SelectionInv, FirstListings, Page
<1> QED BY <1>1, <1>2 DEF SelectionInv, Fits, SelectionInRange

LEMMA HandlerSelection == TypeOK /\ SelectionInv /\ Handler => SelectionInv'
<1> SUFFICES ASSUME TypeOK, SelectionInv, Handler PROVE SelectionInv'
  OBVIOUS
<1>a. /\ selected \in [Tables -> Nat] /\ offset \in [Tables -> Nat] /\ lines \in LineSizes
      /\ records \in [Tables -> Seq(Records)]
  BY DEF TypeOK
<1>b. "Users" \in loaded /\ \A t \in Tables \ loaded : records[t] = <<>>
  BY DEF SelectionInv, FirstListings
<1>c. \A t \in Tables \ {"Users"} : selected[t] = 0 \/ selected[t] < Len(records[t])
  BY DEF SelectionInv, SelectionInRange
<1>1. CASE \/ IgnoredKey \/ Refuse \/ InvalidUserName \/ EmptySearch
           \/ RefreshSnapshot \/ RemoveNotInstalled
  <2>1. UNCHANGED <<records, loaded>>
    BY <1>1 DEF IgnoredKey, Refuse, InvalidUserName, EmptySearch, RefreshSnapshot,
                RemoveNotInstalled
  <2>2. PICK height \in LineSizes : EndOfHandler(selected, offset, height)
    BY <1>1, <1>a DEF IgnoredKey, Refuse, InvalidUserName, EmptySearch, RefreshSnapshot,
                      RemoveNotInstalled
  <2> QED BY <1>a, <1>b, <1>c, <2>1, <2>2, EndedSelection
<1>2. CASE Navigate
  <2>1. PICK k \in TableKeys :
          EndOfHandler([selected EXCEPT ![Page] = HandleTableKey(k, @, Len(records[Page]))],
                       offset, lines)
    BY <1>2 DEF Navigate
  <2> DEFINE sel == [selected EXCEPT ![Page] = HandleTableKey(k, @, Len(records[Page]))]
  <2>2. Page \in Tables /\ UNCHANGED <<records, loaded>>
    BY <1>2 DEF Navigate
  <2>3. sel \in [Tables -> Nat]
    <3>1. selected[Page] \in Nat /\ Len(records[Page]) \in Nat
      BY <1>a, <2>2
    <3>2. HandleTableKey(k, selected[Page], Len(records[Page])) \in Nat
      BY <3>1, HandleTableKeyInRange
    <3> QED BY <1>a, <3>2
  <2>4. \A t \in Tables \ {"Users"} : sel[t] = 0 \/ sel[t] < Len(records'[t])
    <3> TAKE t \in Tables \ {"Users"}
    <3>1. CASE t = Page
      <4>1. selected[t] \in Nat /\ Len(records[t]) \in Nat
        BY <1>a
      <4>2. sel[t] = HandleTableKey(k, selected[t], Len(records[t]))
        BY <1>a, <3>1
      <4> QED BY <1>c, <2>2, <4>1, <4>2, HandleTableKeyInRange
    <3>2. CASE t # Page
      BY <1>a, <1>c, <2>2, <3>2
    <3> QED BY <3>1, <3>2
  <2> QED BY <1>a, <1>b, <2>1, <2>2, <2>3, <2>4, EndedSelection
<1>3. CASE RefreshTable
  <2>1. Page \in loaded
    BY <1>3 DEF RefreshTable, OwnKey, ReadKey, SelectionInv, FirstListings, Tables
  <2>2. PICK rows \in Listings[Page] :
          Relist(Page, rows) /\ EndOfHandler(Clamped(Page, rows), offset, lines)
    BY <1>3 DEF RefreshTable, Listing
  <2>3. UNCHANGED loaded
    BY <1>3 DEF RefreshTable
  <2> QED BY <2>1, <2>2, <2>3, RelistedSelection
<1>4. CASE ShowPackages \/ SearchPackages \/ PackageDone
  <2>1. PICK rows \in Listings["Packages"], height \in LineSizes : LoadPackageView(rows, height)
    BY <1>4, <1>a DEF ShowPackages, SearchPackages, PackageDone
  <2> QED BY <2>1, LoadPackageViewSelection
<1>5. CASE \/ OpenPrompt \/ AskCreateUser \/ AskLock \/ CrashOnBadIndex
           \/ AskPackages \/ AskSignal \/ AskService \/ Accept
  <2>1. UNCHANGED <<tables, page>> /\ pc \notin {"frame", "done", "crashed"}
    BY <1>5 DEF OpenPrompt, AskCreateUser, AskLock, CrashOnBadIndex, AskPackages,
                AskSignal, AskService, Ask, OwnKey, ReadKey, Accept
  <2> QED BY <2>1, TablesUnchangedSelection
<1>6. CASE SignalOrServiceDone \/ CreateUserDone
  <2>1. UNCHANGED loaded
    BY <1>6 DEF SignalOrServiceDone, CreateUserDone
  <2>2. PICK t \in loaded : Relisted(t)
    <3>1. CASE SignalOrServiceDone
      <4>1. Page \in {"Processes", "Services"} /\ pc = "act" /\ Relisted(Page)
        BY <3>1 DEF SignalOrServiceDone, Perform
      <4> QED BY <4>1 DEF SelectionInv, FirstListings, Tables
    <3>2. CASE CreateUserDone
      BY <1>b, <3>2 DEF CreateUserDone
    <3> QED BY <1>6, <3>1, <3>2
  <2>3. PICK rows \in Listings[t] :
          Relist(t, rows) /\ EndOfHandler(Clamped(t, rows), offset, lines)
    BY <2>2 DEF Relisted
  <2> QED BY <2>1, <2>2, <2>3, RelistedSelection
<1>7. CASE LockDone
  <2>1. PICK rows \in Listings["Users"] :
          Relist("Users", rows) /\ EndOfHandler(selected, offset, lines)
    BY <1>7 DEF LockDone
  <2>2. UNCHANGED loaded /\ records' = [records EXCEPT !["Users"] = rows]
    BY <1>7, <2>1 DEF LockDone, Relist
  <2>3. \A t \in Tables \ {"Users"} : records'[t] = records[t]
    BY <1>a, <2>2
  <2> QED BY <1>a, <1>b, <1>c, <2>1, <2>2, <2>3, EndedSelection
<1> QED BY <1>1, <1>2, <1>3, <1>4, <1>5, <1>6, <1>7 DEF Handler

(* SelectionInv is inductive relative to the type invariant.                   *)
LEMMA SelectionStep == TypeOK /\ SelectionInv /\ [Next]_vars => SelectionInv'
<1> SUFFICES ASSUME TypeOK, SelectionInv, [Next]_vars PROVE SelectionInv'
  OBVIOUS
<1>1. CASE Draw
  BY <1>1, DrawSelection
<1>2. CASE Start \/ Quit \/ SwitchPage \/ Help \/ CloseHelp \/ ToolsChange \/ UNCHANGED vars
  <2>1. /\ UNCHANGED tables
        /\ \/ pc' \in {"frame", "done", "crashed"}
           \/ UNCHANGED page /\ pc \notin {"frame", "done", "crashed"}
           \/ UNCHANGED <<page, pc>>
    BY <1>2 DEF Start, Quit, SwitchPage, Help, CloseHelp, ToolsChange, ReadKey, vars
  <2> QED BY <2>1, TablesUnchangedSelection
<1>3. CASE Handler
  BY <1>3, HandlerSelection
<1> QED BY <1>1, <1>2, <1>3 DEF Next, Exited

LEMMA SelectionInit == Init => SelectionInv
<1> SUFFICES ASSUME Init PROVE SelectionInv
  OBVIOUS
<1>1. VisibleRows(fitted) \in Nat /\ VisibleRows(fitted) >= 1
  BY VisibleRowsPositive, LinesAssumption DEF Init
<1>2. Fits
  BY <1>1 DEF Init, Fits, InWindow
<1>3. Page = "Overview"
  BY DEF Init, Page, PageMeta
<1> QED BY <1>2, <1>3 DEF Init, SelectionInv, FirstListings, SelectionInRange, Tables

(* In every table but the user table, the selection denotes a row, however the *)
(* lists change behind it.                                                     *)
THEOREM SelectionStaysInRange == Spec => []SelectionInRange
<1>1. SelectionInv => SelectionInRange
  BY DEF SelectionInv
<1> QED BY <1>1, SelectionInit, SelectionStep, TypeCorrect, PTL DEF Spec

(* The row a handler would act on is one the user sees, unless the height      *)
(* changed since the offsets were computed.                                    *)
THEOREM SelectionIsOnScreen == Spec => []SelectedOnScreen
<1>1. TypeOK /\ SelectionInv => SelectedOnScreen
  <2> SUFFICES ASSUME TypeOK, SelectionInv, Page \in Tables \ {"Users"},
                      records[Page] # <<>>, lines = fitted
               PROVE  /\ selected[Page] < Len(records[Page])
                      /\ InWindow(selected[Page], offset[Page], VisibleRows(lines))
    BY DEF SelectedOnScreen
  <2>1. records[Page] \in Seq(Records) /\ selected[Page] \in Nat
    BY DEF TypeOK
  <2>2. Len(records[Page]) \in Nat /\ Len(records[Page]) # 0
    BY <2>1
  <2>3. selected[Page] < Len(records[Page])
    BY <2>1, <2>2 DEF SelectionInv, SelectionInRange
  <2>4. InWindow(selected[Page], offset[Page], VisibleRows(lines))
    BY DEF SelectionInv, Fits
  <2> QED BY <2>3, <2>4
<1> QED BY <1>1, SelectionInit, SelectionStep, TypeCorrect, PTL DEF Spec

(* The scrollbar tells where the window is, for lists and windows of any size. *)
THEOREM ScrollbarIsRight == Spec => []ScrollbarShowsPosition
<1>1. TypeOK => ScrollbarShowsPosition
  <2> SUFFICES ASSUME TypeOK, Page \in Tables, lines >= MinLines PROVE ScrollbarShowsPosition
    BY DEF ScrollbarShowsPosition
  <2> DEFINE count   == Len(records[Page])
             visible == VisibleRows(lines)
             off     == offset[Page]
             start   == ThumbStart(count, visible, off)
             length  == ThumbLength(count, visible)
  <2>1. count \in Nat /\ off \in Nat
    BY DEF TypeOK
  <2>2. visible \in Nat /\ visible >= 2
    BY LinesAssumption DEF TypeOK, VisibleRows, Greater, MinLines, ChromeLines
  <2>3. CASE count > visible /\ off + visible <= count
    <3> HIDE DEF count, visible, off
    <3>1. /\ length \in Nat /\ length >= 1 /\ start \in Nat /\ start + length <= visible
          /\ off = 0 => start = 0
          /\ off + visible = count => start + length = visible
      BY <2>1, <2>2, <2>3, ThumbInsideTrack
    <3>2. ThumbRows(count, visible, off) = start .. start + length - 1
      <4> HIDE DEF start, length
      <4>1. \A row \in start .. start + length - 1 : row < visible
        BY <2>2, <3>1
      <4>2. ThumbRows(count, visible, off) = {row \in start .. start + length - 1 : row < visible}
        BY DEF ThumbRows, start, length
      <4> QED BY <4>1, <4>2
    <3>3. /\ start .. start + length - 1 \subseteq ThumbRows(count, visible, off)
          /\ off = 0 => 0 \in ThumbRows(count, visible, off)
          /\ off + visible = count => visible - 1 \in ThumbRows(count, visible, off)
      <4> HIDE DEF start, length
      <4> QED BY <2>2, <3>1, <3>2
    <3> QED BY <3>3 DEF ScrollbarShowsPosition, count, visible, off
  <2> HIDE DEF start, length
  <2>4. CASE ~(count > visible /\ off + visible <= count)
    BY <2>4 DEF ScrollbarShowsPosition
  <2> QED BY <2>3, <2>4
<1> QED BY <1>1, TypeCorrect, PTL
--------------------------------------------------------------------------------
(* Why only what was confirmed is done: the label and the call belong to the   *)
(* same key, and no step between the question and the call touches the table.  *)
Answered ==
  /\ pc \in {"confirm", "act"} =>
       /\ ask.op = Called[Page][key]
       /\ ask.op \in RowOperations => ask.target = SelectedRecord(Page)
  /\ pc = "act" => yes

LEMMA AskAnswered ==
  ASSUME NEW p \in DOMAIN Announced, NEW k \in DOMAIN Announced[p], Page = p,
         NEW target, Ask(k, target),
         target = SelectedRecord(p) \/ Announced[p][k] \notin RowOperations
  PROVE  Answered'
<1>1. /\ pc' = "confirm" /\ key' = k
      /\ UNCHANGED <<page, records, selected>>
      /\ ask' = [op |-> Announced[p][k], target |-> target]
  BY DEF Ask, OwnKey, ReadKey, tables
<1>2. Page' = p /\ SelectedRecord(p)' = SelectedRecord(p)
  BY <1>1 DEF Page, SelectedRecord
<1>3. Announced[p][k] = Called[p][k]
  BY AnnouncedType
<1> QED BY <1>1, <1>2, <1>3 DEF Answered

LEMMA AnsweredStep == TypeInv /\ Answered /\ [Next]_vars => Answered'
<1> SUFFICES ASSUME TypeInv, Answered, [Next]_vars PROVE Answered'
  OBVIOUS
<1>1. CASE pc' \notin {"confirm", "act"}
  BY <1>1 DEF Answered
<1>2. CASE UNCHANGED vars \/ Accept \/ ToolsChange
  <2>1. /\ UNCHANGED <<key, page, records, selected, ask>>
        /\ pc' = "act" => yes' = TRUE \/ (pc = "act" /\ yes' = yes)
        /\ pc' \in {"confirm", "act"} => pc \in {"confirm", "act"}
    BY <1>2 DEF vars, tables, dialog, Accept, ToolsChange
  <2>2. Page' = Page /\ SelectedRecord(Page)' = SelectedRecord(Page)
    BY <2>1 DEF Page, SelectedRecord
  <2> QED BY <2>1, <2>2 DEF Answered
<1>3. CASE AskLock \/ AskPackages \/ AskSignal \/ AskService
  <2>1. PICK k : /\ Page \in DOMAIN Announced /\ k \in DOMAIN Announced[Page]
                 /\ \E target : /\ Ask(k, target)
                                /\ \/ target = SelectedRecord(Page)
                                   \/ Announced[Page][k] \notin RowOperations
    <3>1. CASE AskLock
      BY <3>1 DEF AskLock, Announced
    <3>2. CASE AskPackages
      <4>1. Page = "Packages"
        BY <3>2 DEF AskPackages
      <4>2. \/ \E k \in {"u", "U"} : Ask(k, None)
            \/ \E k \in {"i", "d"} : Ask(k, SelectedRecord(Page))
        BY <3>2, <4>1 DEF AskPackages
      <4>3. \A k \in {"u", "U", "i", "d"} : k \in DOMAIN Announced["Packages"]
        BY DEF Announced
      <4>4. \A k \in {"u", "U"} : Announced["Packages"][k] \notin RowOperations
        BY DEF Announced, RowOperations
      <4>5. "Packages" \in DOMAIN Announced
        BY DEF Announced
      <4> QED BY <4>1, <4>2, <4>3, <4>4, <4>5
    <3>3. CASE AskSignal
      BY <3>3 DEF AskSignal, Announced
    <3>4. CASE AskService
      BY <3>4 DEF AskService, Announced
    <3> QED BY <1>3, <3>1, <3>2, <3>3, <3>4
  <2> QED BY <2>1, AskAnswered
<1>4. CASE AskCreateUser
  <2>1. /\ Page = "Users" /\ key = "a" /\ UNCHANGED <<page, key>> /\ pc' = "confirm"
        /\ ask'.op = Announced["Users"][key]
    BY <1>4 DEF AskCreateUser, TypeInv, KeyFits
  <2>2. Page' = "Users" /\ key' = "a"
    BY <2>1 DEF Page
  <2>3. Announced["Users"]["a"] = "create" /\ Called["Users"]["a"] = "create"
        /\ "create" \notin RowOperations
    BY DEF Announced, Called, RowOperations
  <2> QED BY <2>1, <2>2, <2>3 DEF Answered
<1>5. CASE /\ ~(UNCHANGED vars \/ Accept \/ ToolsChange)
           /\ ~(AskLock \/ AskPackages \/ AskSignal \/ AskService \/ AskCreateUser)
  <2>1. pc' \notin {"confirm", "act"}
    BY <1>5 DEF Next, Handler, Exited, Start, Draw, Quit, SwitchPage, Help, CloseHelp,
         IgnoredKey, Navigate, RefreshSnapshot, RefreshTable, ShowPackages, OpenPrompt,
         InvalidUserName, EmptySearch, SearchPackages, CrashOnBadIndex,
         RemoveNotInstalled, Refuse, SignalOrServiceDone, PackageDone, CreateUserDone,
         LockDone, Relisted, LoadPackageView, EndOfHandler
  <2> QED BY <1>1, <2>1
<1> QED BY <1>2, <1>3, <1>4, <1>5

(* The question that is asked stays the one the handler will answer.           *)
THEOREM StaysAnswered == Spec => [](TypeInv /\ Answered)
<1>1. Init => TypeInv /\ Answered
  BY TypeInit DEF Init, Answered
<1>2. TypeInv /\ Answered /\ [Next]_vars => (TypeInv /\ Answered)'
  BY TypeStep, AnsweredStep
<1> QED BY <1>1, <1>2, PTL DEF Spec

(* A mutation that is performed was confirmed, with that operation and target. *)
THEOREM OnlyConfirmedIsDone == Spec => OnlyConfirmed
<1> DEFINE Confirmed == ran' # ran /\ ran'.op \in Mutations
                          => yes /\ ask = [op |-> ran'.op, target |-> ran'.target]
<1>1. TypeInv /\ Answered /\ [Next]_vars => [Confirmed]_vars
  <2> SUFFICES ASSUME TypeInv, Answered, Next, ran' # ran, ran'.op \in Mutations
               PROVE  yes /\ ask = [op |-> ran'.op, target |-> ran'.target]
    OBVIOUS
  <2>1. PICK ok \in BOOLEAN : Perform(ok)
    <3>1. \/ ran' = ran \/ ran' = NoRun
          \/ \E ok \in BOOLEAN : Perform(ok)
          \/ \E ok \in BOOLEAN : ran' = [op |-> "list", target |-> None, ok |-> ok]
      BY DEF Next, Handler, Exited, Start, Draw, Quit, SwitchPage, Help, CloseHelp, ToolsChange,
         IgnoredKey, Navigate, RefreshSnapshot, RefreshTable, ShowPackages, OpenPrompt,
         InvalidUserName, AskCreateUser, EmptySearch, SearchPackages, AskLock,
         CrashOnBadIndex, AskPackages, RemoveNotInstalled, AskSignal, AskService, Ask,
         Refuse, Accept, SignalOrServiceDone, PackageDone, CreateUserDone, LockDone, vars
    <3>2. NoRun.op \notin Mutations /\ "list" \notin Mutations
      BY DEF NoRun, Mutations, RowOperations
    <3> QED BY <3>1, <3>2
  <2>2. pc = "act" /\ ran' = [op |-> Called[Page][key], target |-> CallTarget, ok |-> ok]
    BY <2>1 DEF Perform
  <2>3. yes /\ ask.op = Called[Page][key]
    BY <2>2 DEF Answered, TypeInv, TypeOK
  <2>4. CallTarget = ask.target
    BY <2>2, <2>3 DEF Answered, CallTarget, RowOperations
  <2>5. ask = [op |-> ask.op, target |-> ask.target]
    BY DEF TypeInv, TypeOK
  <2> QED BY <2>2, <2>3, <2>4, <2>5
<1> QED BY <1>1, StaysAnswered, PTL DEF Spec, OnlyConfirmed
--------------------------------------------------------------------------------
(* Why it is the highlighted row: from the frame to the call, the selected     *)
(* record of the page stays the one the frame highlighted.                     *)
Waiting == {"getch", "prompt", "confirm", "act"}

Sees ==
  /\ pc \in Waiting /\ shown # None =>
       Page \in Tables /\ SelectedRecord(Page) = shown
  /\ ActsOnHighlighted

LEMMA SeesStep == TypeInv /\ Answered /\ Sees /\ [Next]_vars => Sees'
<1> SUFFICES ASSUME TypeInv, Answered, Sees, [Next]_vars PROVE Sees'
  OBVIOUS
<1>1. CASE Draw
  <2>1. shown' = Highlighted(records', selected', offset') /\ page' = page
        /\ ran' = NoRun /\ Page' = Page
    BY <1>1 DEF Draw, Page
  <2>2. shown' # None => Page \in Tables /\ SelectedRecord(Page)' = shown'
    BY <2>1 DEF Highlighted, SelectedRecord
  <2>3. ActsOnHighlighted'
    BY <2>1 DEF ActsOnHighlighted, NoRun, RowOperations
  <2> QED BY <2>1, <2>2, <2>3 DEF Sees
<1>2. CASE UNCHANGED <<shown, ran, page, records, selected>> /\ (pc' \in Waiting => pc \in Waiting)
  <2>1. Page' = Page /\ SelectedRecord(Page)' = SelectedRecord(Page)
    BY <1>2 DEF Page, SelectedRecord
  <2> QED BY <1>2, <2>1 DEF Sees, ActsOnHighlighted
<1>3. CASE UNCHANGED <<shown, ran>> /\ pc' \notin Waiting
  BY <1>3 DEF Sees, ActsOnHighlighted
<1>4. CASE /\ UNCHANGED shown /\ pc' \notin Waiting
           /\ \E ok \in BOOLEAN : ran' = [op |-> "list", target |-> None, ok |-> ok]
  BY <1>4 DEF Sees, ActsOnHighlighted, RowOperations
<1>5. CASE (\E ok \in BOOLEAN : Perform(ok)) /\ pc' \notin Waiting
  <2>1. PICK ok \in BOOLEAN : Perform(ok)
    BY <1>5
  <2>2. /\ pc = "act" /\ UNCHANGED shown
        /\ ran' = [op |-> Called[Page][key], target |-> CallTarget, ok |-> ok]
    BY <2>1 DEF Perform
  <2>3. Called[Page][key] \in RowOperations => CallTarget = SelectedRecord(Page)
    BY <2>2 DEF Answered, CallTarget
  <2> QED BY <1>5, <2>2, <2>3 DEF Sees, ActsOnHighlighted, Waiting
<1> HIDE DEF Waiting
<1>6. CASE \/ Start \/ Quit \/ SwitchPage \/ Help \/ CloseHelp \/ IgnoredKey \/ Navigate
           \/ RefreshSnapshot \/ InvalidUserName \/ EmptySearch \/ CrashOnBadIndex
           \/ RemoveNotInstalled \/ Refuse
  <2>1. UNCHANGED <<shown, ran>> /\ pc' \notin Waiting
    BY <1>6 DEF Start, Quit, SwitchPage, Help, CloseHelp, IgnoredKey, Navigate, RefreshSnapshot,
         InvalidUserName, EmptySearch, CrashOnBadIndex, RemoveNotInstalled, Refuse,
         EndOfHandler, Waiting
  <2> QED BY <1>3, <2>1
<1>7. CASE RefreshTable \/ ShowPackages \/ SearchPackages
  <2>1. /\ UNCHANGED shown /\ pc' \notin Waiting
        /\ \E ok \in BOOLEAN : ran' = [op |-> "list", target |-> None, ok |-> ok]
    BY <1>7 DEF RefreshTable, ShowPackages, SearchPackages, LoadPackageView, EndOfHandler,
         Waiting
  <2> QED BY <1>4, <2>1
<1>8. CASE \/ OpenPrompt \/ AskCreateUser \/ AskLock \/ AskPackages \/ AskSignal
           \/ AskService \/ Accept \/ ToolsChange \/ UNCHANGED vars
  <2>1. /\ UNCHANGED <<shown, ran, page, records, selected>>
        /\ pc' \in Waiting => pc \in Waiting
    BY <1>8 DEF OpenPrompt, AskCreateUser, AskLock, AskPackages, AskSignal, AskService,
         Ask, OwnKey, ReadKey, Accept, ToolsChange, vars, tables, Waiting
  <2> QED BY <1>2, <2>1
<1>9. CASE SignalOrServiceDone \/ PackageDone \/ CreateUserDone \/ LockDone
  <2>1. pc' \notin Waiting /\ \E ok \in BOOLEAN : Perform(ok)
    BY <1>9 DEF SignalOrServiceDone, PackageDone, CreateUserDone, LockDone, Relisted,
         LoadPackageView, EndOfHandler, Waiting
  <2> QED BY <1>5, <2>1
<1> QED BY <1>1, <1>6, <1>7, <1>8, <1>9 DEF Next, Handler, Exited

(* A row operation acts on the record the last frame highlighted.              *)
THEOREM HighlightedIsTarget == Spec => []ActsOnHighlighted
<1>1. Init => TypeInv /\ Answered /\ Sees
  BY TypeInit DEF Init, Answered, Sees, ActsOnHighlighted
<1>2. TypeInv /\ Answered /\ Sees /\ [Next]_vars => (TypeInv /\ Answered /\ Sees)'
  BY TypeStep, AnsweredStep, SeesStep
<1>3. Sees => ActsOnHighlighted
  BY DEF Sees
<1> QED BY <1>1, <1>2, <1>3, PTL DEF Spec
--------------------------------------------------------------------------------
(* Children run outside curses mode, and the loop waits for keys inside it.    *)
THEOREM TerminalIsOwned == Spec => []TerminalOwner
<1>1. Init => TerminalOwner
  BY DEF Init, TerminalOwner
<1>2. TerminalOwner /\ [Next]_vars => TerminalOwner'
  <2> SUFFICES ASSUME TerminalOwner, [Next]_vars PROVE TerminalOwner'
    OBVIOUS
  <2>1. CASE Start \/ Draw \/ Quit \/ SwitchPage \/ Help \/ CloseHelp \/ ToolsChange
             \/ UNCHANGED vars
    BY <2>1 DEF Start, Draw, Quit, SwitchPage, Help, CloseHelp, ToolsChange, ReadKey, vars,
         TerminalOwner
  <2>2. CASE Handler
    BY <2>2 DEF Handler, IgnoredKey, Navigate, RefreshSnapshot, RefreshTable, ShowPackages,
         OpenPrompt, InvalidUserName, AskCreateUser, EmptySearch, SearchPackages, AskLock,
         CrashOnBadIndex, AskPackages, RemoveNotInstalled, AskSignal, AskService, Ask,
         OwnKey, ReadKey, Refuse, Accept, SignalOrServiceDone, PackageDone,
         CreateUserDone, LockDone, Relisted, Perform, LoadPackageView, EndOfHandler,
         TerminalOwner
  <2> QED BY <2>1, <2>2 DEF Next, Exited
<1> QED BY <1>1, <1>2, PTL DEF Spec
================================================================================
