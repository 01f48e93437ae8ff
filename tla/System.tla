---------------------------------- MODULE System ----------------------------------
(* The application as one process: the event loop calls the managers, and a    *)
(* manager looks for tools and executes a command while the loop waits for its *)
(* answer.  Names of accounts, packages and units are the names of             *)
(* PrivilegedActions; the package backend the loop sees is the one chosen at   *)
(* startup, present as long as all its tools are on PATH.                      *)
EXTENDS Integers, Sequences

CONSTANTS
  Names, HostTools, Locales, MaxChanges,  \* see PrivilegedActions
  Rows,       \* the rows of the tables of processes and file systems
  Listings, LineSizes, Garbage,      \* see Application
  MaxKeys     \* bound: keys read by the loop, the one that quits not counted

VARIABLES
  pc, key, page, lines, fitted, records, selected, offset, loaded, view,
  status, shown, term, ask, yes, ran,                   \* see Application
  tools, changes, euid, eightBit, blind, at, goal, plan, backend, op, name,
  command, through, executed, success, always, ever,    \* see PrivilegedActions
  keys        \* keys read

loop == <<pc, key, page, lines, fitted, records, selected, offset, loaded, view,
          status, shown, term, ask, yes, ran>>
act  == <<tools, changes, euid, eightBit, blind, at, goal, plan, backend, op, name,
          command, through, executed, success, always, ever>>
vars == <<loop, act, keys>>

Act == INSTANCE PrivilegedActionsProofs

(* The package backend as the loop sees it: package_backend == nullptr, and    *)
(* available().                                                                *)
SeenBackend ==
  IF backend = "none" THEN "null"
  ELSE IF Act!Required[backend] \subseteq tools THEN "present" ELSE "absent"

ValidNames == {n \in Names : Act!ValidUserName(n)}

App == INSTANCE ApplicationProofs WITH
  Records <- Names \cup Rows, UserNames <- ValidNames, None <- Act!NoName,
  backend <- SeenBackend

ASSUME NamesAssumption   == Act!NamesAssumption
ASSUME ChangesAssumption == Act!HostAssumption /\ MaxKeys \in Nat
ASSUME RowsAssumption ==
  /\ Act!NoName \notin Rows
  /\ Garbage \notin Names \cup Rows \cup {Act!NoName}
ASSUME ListingsAssumption ==
  /\ Listings \in [App!Tables -> SUBSET Seq(Names \cup Rows)]
  /\ \A t \in {"Users", "Packages", "Services"} : Listings[t] \subseteq Seq(Names)
ASSUME LinesAssumption == LineSizes \subseteq Nat

Page == App!Page
--------------------------------------------------------------------------------
Init == Act!Init /\ App!Init /\ keys = 0

(* The loop is not running while the managers work: at startup, when the       *)
(* backend is chosen, and while an action is under way.                        *)
Work ==
  /\ pc \in {"start", "act"}
  /\ Act!Look \/ Act!ChooseTool \/ Act!ChoosePrivilege \/ Act!NotAvailable \/ Act!Execute
  /\ UNCHANGED <<loop, keys>>

StartLoop ==
  /\ Act!ChooseBackend
  /\ App!Start
  /\ UNCHANGED keys

(* Everything the loop does by itself; it sends signals without a manager that *)
(* looks for tools.                                                            *)
Interface ==
  /\ pc \notin {"start", "act"}
  /\ UNCHANGED act
  /\ App!Next
  /\ pc' = "act" => Page = "Processes"
  /\ IF pc = "getch" /\ pc' # "done" THEN keys < MaxKeys /\ keys' = keys + 1
     ELSE UNCHANGED keys

(* The question was answered with y: the manager is called with the target the *)
(* handler has, which is any name if that was read beyond the end of a table.  *)
CallManager ==
  /\ pc = "confirm" /\ Page # "Processes"
  /\ \E o \in Act!Ops, n \in Names \cup {Act!NoName} :
        /\ o = App!Called[Page][key]
        /\ App!CallTarget \in {n, Garbage}
        /\ Act!Begin(o, n)
  /\ App!Accept
  /\ UNCHANGED keys

Done == App!SignalOrServiceDone \/ App!PackageDone \/ App!CreateUserDone \/ App!LockDone

(* Mutant of Answer: what the manager returned is not looked at.               *)
AnswerUnseen ==
  /\ pc = "act" /\ at = "idle"
  /\ UNCHANGED <<act, keys>>
  /\ Done

(* The manager returns, and the handler shows its result.                      *)
Answer ==
  /\ pc = "act" /\ at = "idle"
  /\ UNCHANGED <<act, keys>>
  /\ Done
  /\ Page # "Processes" => ran'.ok = success

(* The tools on the host change, and with them, perhaps, what the loop sees.   *)
HostChanges ==
  /\ pc \notin {"done", "crashed"}
  /\ Act!ToolsChange
  /\ IF SeenBackend' = SeenBackend THEN UNCHANGED loop ELSE App!ToolsChange
  /\ UNCHANGED keys

Next == Work \/ StartLoop \/ Interface \/ CallManager \/ Answer \/ HostChanges

Spec == Init /\ [][Next]_vars

(* The lookups are finite, and the child that was started ends: then the       *)
(* process, which has nothing else to do, goes on.                             *)
FairSpec == Spec /\ WF_vars(Work \/ StartLoop \/ Answer)
--------------------------------------------------------------------------------
(* The managers rely on what the loop checked before: a target exactly for the *)
(* operations that have one, a package backend, a valid name for a new account *)
(* (application.cpp:296-300, 320-322; package_manager.cpp has no check of its  *)
(* own for a missing backend).  The check and the call lie two dialogs apart.  *)
CallsAreLegal ==
  pc = "confirm" /\ Page # "Processes" =>
    LET o == App!Called[Page][key]
        t == App!CallTarget
    IN  /\ t = Act!NoName <=> o \in {"update", "upgrade"}
        /\ o \in Act!PackageOps => backend # "none"
        /\ o = "create" => Act!ValidUserName(t)

(* A command is executed, and a password asked for, only while the terminal is *)
(* out of curses mode, and nothing is looked for or executed while the loop    *)
(* draws or waits for a key (application.cpp:142-148, command.cpp:105-116).    *)
ChildHasTerminal ==
  /\ at = "execute" => term = "child"
  /\ pc \notin {"start", "act"} => at = "idle"

(* The promise of ConfirmedActions, and what its variables are here: the        *)
(* question is the one of the dialog, the commands are those of the manager,   *)
(* and the report is the status message that follows an operation.             *)
Signals == {"terminate", "kill"}

Phase == CASE pc = "confirm" -> "asked" [] pc = "act" -> "granted" [] OTHER -> "idle"

Commands ==
  IF pc = "act" /\ Page # "Processes"
  THEN [i \in DOMAIN executed |->
          [op |-> executed[i].op, target |-> executed[i].name, ok |-> executed[i].ok]]
  ELSE <<>>

Message ==
  IF ran.op \in App!Mutations
  THEN [op |-> ran.op, target |-> ran.target, ok |-> ran.ok, color |-> status]
  ELSE [op |-> "none", target |-> Act!NoName, ok |-> TRUE, color |-> "none"]

Confirmed == INSTANCE ConfirmedActions WITH
  Operations <- App!Mutations, Targets <- Names \cup Rows,
  Nothing <- Act!NoName, Unknown <- Garbage,
  phase <- Phase, question <- ask, done <- Commands, report <- Message

(* From the key to the status message, across the loop and the managers: only  *)
(* what was asked is done, once, and reported as it ended                      *)
(* (application.cpp:300-428, user_manager.cpp:77-119, command.cpp:90-117).     *)
ImplementsConfirmed == Confirmed!Spec

(* The interface comes up, and comes back from every action that was confirmed, *)
(* however the tools change while they are looked for, if the children that    *)
(* were started end.                                                           *)
ActionsAreAnswered == pc \in {"start", "act"} ~> pc = "frame"
================================================================================
