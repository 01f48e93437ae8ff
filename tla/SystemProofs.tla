------------------------------- MODULE SystemProofs -------------------------------
(* Proofs about the whole application: both components keep their promises     *)
(* when they are put together, and together they keep ConfirmedActions.        *)
EXTENDS System, TLAPS

LEMMA ActAssumptions == Act!NamesAssumption /\ Act!HostAssumption
BY NamesAssumption, ChangesAssumption

LEMMA NoNameIsNone == Act!NoName \notin Names
<1>1. \A n \in Act!Name : n.size # 0
  BY DEF Act!Name
<1> QED BY <1>1, NamesAssumption DEF Act!NamesAssumption, Act!NoName

LEMMA AppAssumptions ==
  App!ListingsAssumption /\ App!LinesAssumption /\ App!TargetsAssumption
<1>1. App!TargetsAssumption
  BY NoNameIsNone, RowsAssumption DEF App!TargetsAssumption, ValidNames
<1> QED BY <1>1, ListingsAssumption, LinesAssumption
        DEF App!ListingsAssumption, App!LinesAssumption
--------------------------------------------------------------------------------
(* Each step of the whole is a step of the loop, or leaves it alone.           *)
LEMMA LoopStep == [Next]_vars => [App!Next]_App!vars
<1> SUFFICES ASSUME [Next]_vars PROVE [App!Next]_App!vars
  OBVIOUS
<1>1. CASE Work \/ UNCHANGED vars
  <2>1. UNCHANGED <<loop, backend, tools>>
    BY <1>1 DEF Work, vars, act, Act!Look, Act!ChooseTool, Act!ChoosePrivilege,
         Act!NotAvailable, Act!Execute, Act!host
  <2>2. UNCHANGED SeenBackend
    BY <2>1 DEF SeenBackend
  <2> QED BY <2>1, <2>2 DEF loop, App!vars, App!tables, App!dialog
<1>2. CASE StartLoop
  BY <1>2 DEF StartLoop, App!Next
<1>3. CASE Interface
  BY <1>3 DEF Interface
<1>4. CASE CallManager
  BY <1>4 DEF CallManager, App!Next, App!Handler
<1>5. CASE Answer
  BY <1>5 DEF Answer, Done, App!Next, App!Handler
<1>6. CASE HostChanges
  BY <1>6 DEF HostChanges, App!Next, loop, App!vars, App!tables, App!dialog
<1> QED BY <1>1, <1>2, <1>3, <1>4, <1>5, <1>6 DEF Next

(* Each step of the whole is a step of the managers, or leaves them alone.     *)
LEMMA ActStep == [Next]_vars => [Act!Next]_Act!vars
<1> SUFFICES ASSUME [Next]_vars PROVE [Act!Next]_Act!vars
  OBVIOUS
<1>1. UNCHANGED act => UNCHANGED Act!vars
  BY DEF act, Act!vars, Act!host, Act!caller, Act!action, Act!outcome
<1>2. CASE Work \/ StartLoop \/ HostChanges
  BY <1>2 DEF Work, StartLoop, HostChanges, Act!Next
<1>3. CASE CallManager
  BY <1>3 DEF CallManager, Act!Next
<1>4. CASE Interface \/ Answer \/ UNCHANGED vars
  BY <1>1, <1>4 DEF Interface, Answer, vars
<1> QED BY <1>2, <1>3, <1>4 DEF Next

(* In the whole application the event loop still behaves as Application says,   *)
(* with the backend the managers chose: what is proved of it holds here.       *)
THEOREM LoopIsApplication == Spec => App!Spec
<1>1. Init => App!Init
  BY DEF Init
<1> QED BY <1>1, LoopStep, PTL DEF Spec, App!Spec

(* And the managers behave as PrivilegedActions says.                          *)
THEOREM ManagersAreActions == Spec => Act!Spec
<1>1. Init => Act!Init
  BY DEF Init
<1> QED BY <1>1, ActStep, PTL DEF Spec, Act!Spec

LEMMA LoopInvariant == Spec => [](App!TypeInv /\ App!Answered)
BY LoopIsApplication, App!StaysAnswered, AppAssumptions, PTL
--------------------------------------------------------------------------------
(* What a step of the loop outside of an action can do to the question and the *)
(* report: nothing, ask, grant, refuse, or forget.                             *)
Idles ==
  /\ pc # "confirm" /\ pc' \notin {"start", "confirm", "act"}
  /\ ask' \in {ask, App!NoAsk}
  /\ \/ ran'.op \notin App!Mutations
     \/ ran' = ran /\ pc # "frame"
     \/ UNCHANGED <<ran, status, pc>>

Asks ==
  /\ \/ App!AskCreateUser \/ App!AskLock \/ App!AskPackages \/ App!AskSignal
     \/ App!AskService
  /\ pc \in {"getch", "prompt"} /\ pc' = "confirm" /\ UNCHANGED <<ran, status>>

Refuses == pc = "confirm" /\ pc' = "frame" /\ ask' = App!NoAsk /\ UNCHANGED <<ran, status>>
Grants  == pc = "confirm" /\ pc' = "act" /\ UNCHANGED <<page, key, records, selected, ask, ran, status>>
Stays   == UNCHANGED <<pc, page, key, records, selected, ask, ran, status>>

LEMMA LoopMoves ==
  ASSUME App!Next, pc \notin {"start", "act"}
  PROVE  Idles \/ Asks \/ Refuses \/ Grants \/ Stays
<1>a. App!NoRun.op \notin App!Mutations /\ "list" \notin App!Mutations
  BY DEF App!NoRun, App!Mutations, App!RowOperations
<1>1. CASE App!Draw \/ App!Quit \/ App!SwitchPage \/ App!Help \/ App!CloseHelp
  BY <1>1, <1>a DEF App!Draw, App!Quit, App!SwitchPage, App!Help, App!CloseHelp,
       App!ReadKey, App!dialog, Idles
<1>2. CASE App!ToolsChange \/ App!Exited
  BY <1>2 DEF App!ToolsChange, App!Exited, App!vars, App!tables, App!dialog, Stays
<1>3. CASE App!Start \/ App!SignalOrServiceDone \/ App!PackageDone \/ App!CreateUserDone \/ App!LockDone
  BY <1>3 DEF App!Start, App!SignalOrServiceDone, App!PackageDone, App!CreateUserDone,
       App!LockDone, App!Perform
<1>4. CASE App!Refuse
  BY <1>4 DEF App!Refuse, App!EndOfHandler, Refuses
<1>5. CASE App!Accept
  BY <1>5 DEF App!Accept, App!tables, Grants
<1>6. CASE App!AskCreateUser \/ App!AskLock \/ App!AskPackages \/ App!AskSignal \/ App!AskService
  BY <1>6 DEF App!AskCreateUser, App!AskLock, App!AskPackages, App!AskSignal,
       App!AskService, App!Ask, App!OwnKey, App!ReadKey, Asks
<1>7. CASE App!OpenPrompt \/ App!CrashOnBadIndex \/ App!IgnoredKey \/ App!Navigate
           \/ App!RefreshSnapshot \/ App!RemoveNotInstalled
  BY <1>7 DEF App!OpenPrompt, App!CrashOnBadIndex, App!OwnKey, App!IgnoredKey,
       App!Navigate, App!RefreshSnapshot, App!RemoveNotInstalled, App!ReadKey,
       App!EndOfHandler, App!dialog, Idles
<1>8. CASE App!InvalidUserName \/ App!EmptySearch
  BY <1>8 DEF App!InvalidUserName, App!EmptySearch, App!EndOfHandler, Idles
<1>9. CASE App!RefreshTable \/ App!ShowPackages \/ App!SearchPackages
  <2>1. \E ok \in BOOLEAN : ran' = [op |-> "list", target |-> Act!NoName, ok |-> ok]
    BY <1>9 DEF App!RefreshTable, App!ShowPackages, App!SearchPackages
  <2>2. /\ pc \in {"getch", "prompt"} /\ pc' = "frame" /\ ask' = App!NoAsk
    BY <1>9 DEF App!RefreshTable, App!ShowPackages, App!SearchPackages, App!OwnKey,
         App!ReadKey, App!LoadPackageView, App!EndOfHandler
  <2> QED BY <1>a, <2>1, <2>2 DEF Idles
<1> QED BY <1>1, <1>2, <1>3, <1>4, <1>5, <1>6, <1>7, <1>8, <1>9 DEF App!Next, App!Handler
--------------------------------------------------------------------------------
(* How the loop and the manager stand to each other: outside of an action there *)
(* is none under way and no question; within one, the manager works on what    *)
(* the loop asked, has executed nothing yet, and in the end knows how it went. *)
Waits ==
  /\ pc \notin {"start", "act"} => at = "idle"
  /\ pc = "act" /\ Page = "Processes" => at = "idle"
  /\ pc \notin {"confirm", "act"} => ask = App!NoAsk
  /\ pc # "frame" => ran.op \notin App!Mutations

Ended ==
  \/ success = FALSE /\ executed = <<>>
  \/ \E ok \in BOOLEAN : success = (ok /\ ~blind) /\ executed = <<Act!Ran(ok)>>

WorksOnQuestion ==
  pc = "act" /\ Page # "Processes" =>
    /\ op \in Act!Ops /\ op = App!Called[Page][key]
    /\ name \in Names \cup {Act!NoName} /\ App!CallTarget \in {name, Garbage}
    /\ IF at = "idle" THEN Ended ELSE executed = <<>>

Linked == Waits /\ WorksOnQuestion

(* The end of an action brings the loop back to its top.                       *)
LEMMA DoneEnds ==
  ASSUME Done
  PROVE  /\ pc = "act" /\ pc' = "frame" /\ ask' = App!NoAsk
         /\ \E ok \in BOOLEAN :
              /\ ran' = [op |-> App!Called[Page][key], target |-> App!CallTarget, ok |-> ok]
              /\ status' = App!ResultColor(ok)
<1>1. /\ \E ok \in BOOLEAN : App!Perform(ok)
      /\ \E sel, off, height : App!EndOfHandler(sel, off, height)
  BY DEF Done, App!SignalOrServiceDone, App!PackageDone, App!CreateUserDone, App!LockDone,
       App!Relisted, App!LoadPackageView
<1> QED BY <1>1 DEF App!Perform, App!EndOfHandler, Page

LEMMA WorkKeeps ==
  ASSUME Work
  PROVE  /\ UNCHANGED <<loop, op, name, blind>> /\ at # "idle"
         /\ \/ UNCHANGED executed /\ at' # "idle"
            \/ UNCHANGED executed /\ at' = "idle" /\ success' = FALSE
            \/ \E ok \in BOOLEAN :
                 /\ at' = "idle" /\ success' = (ok /\ ~blind)
                 /\ executed' = Append(executed, Act!Ran(ok)) /\ Act!Ran(ok)' = Act!Ran(ok)
<1>1. CASE Act!Look \/ Act!ChoosePrivilege
  BY <1>1 DEF Work, Act!Look, Act!ChoosePrivilege, Act!Found, Act!caller, Act!action,
     Act!outcome
<1>2. CASE Act!ChooseTool \/ Act!NotAvailable
  BY <1>2 DEF Work, Act!ChooseTool, Act!NotAvailable, Act!Found, Act!Missing, Act!Fail,
       Act!caller, Act!action
<1>3. CASE Act!Execute
  BY <1>3 DEF Work, Act!Execute, Act!caller, Act!action, Act!Ran
<1> QED BY <1>1, <1>2, <1>3 DEF Work

LEMMA LinkedStep == Linked /\ [Next]_vars => Linked'
<1> SUFFICES ASSUME Linked, [Next]_vars PROVE Linked'
  OBVIOUS
<1> USE DEF Linked
<1>1. CASE Work
  <2>1. Page' = Page /\ App!CallTarget' = App!CallTarget /\ pc \in {"start", "act"}
    BY <1>1, WorkKeeps DEF loop, Page, App!Page, App!CallTarget, App!SelectedRecord, Work
  <2>2. Waits'
    BY <1>1, <2>1, WorkKeeps DEF Waits, loop
  <2>3. WorksOnQuestion'
    <3> SUFFICES ASSUME pc' = "act", Page' # "Processes" PROVE WorksOnQuestion'
      BY DEF WorksOnQuestion
    <3>1. executed = <<>> /\ UNCHANGED <<pc, key, op, name>> /\ WorksOnQuestion /\ pc = "act"
      BY <1>1, <2>1, WorkKeeps DEF WorksOnQuestion, loop
    <3>2. IF at' = "idle" THEN Ended' ELSE executed' = <<>>
      <4>1. CASE UNCHANGED executed /\ (at' = "idle" => success' = FALSE)
        BY <3>1, <4>1 DEF Ended
      <4>2. ASSUME NEW ok \in BOOLEAN, at' = "idle", success' = (ok /\ ~blind),
                   executed' = Append(executed, Act!Ran(ok)), Act!Ran(ok)' = Act!Ran(ok)
            PROVE  at' = "idle" /\ Ended'
        <5>1. executed' = <<Act!Ran(ok)'>> /\ success' = (ok /\ ~blind')
          BY <1>1, <3>1, <4>2, WorkKeeps
        <5> QED BY <4>2, <5>1 DEF Ended
      <4> QED BY <1>1, <3>1, <4>1, <4>2, WorkKeeps
    <3> QED BY <2>1, <3>1, <3>2 DEF WorksOnQuestion
  <2> QED BY <2>2, <2>3
<1>2. CASE StartLoop
  <2>1. pc = "start" /\ pc' = "frame" /\ at' = "idle" /\ ask' = ask /\ ran' = ran
    BY <1>2 DEF StartLoop, App!Start, Act!ChooseBackend, App!dialog
  <2> QED BY <2>1 DEF Waits, WorksOnQuestion
<1>3. CASE Interface
  <2>1. at' = at /\ pc \notin {"start", "act"} /\ (pc' = "act" => Page = "Processes")
    BY <1>3 DEF Interface, act
  <2>2. Idles \/ Asks \/ Refuses \/ Grants \/ Stays
    BY <1>3, <2>1, LoopMoves DEF Interface
  <2>3. pc' = "act" => Page' = "Processes"
    BY <2>1, <2>2 DEF Idles, Asks, Refuses, Grants, Stays, Page, App!Page
  <2>4. App!NoRun.op \notin App!Mutations
    BY DEF App!NoRun, App!Mutations, App!RowOperations
  <2>5. Waits'
    BY <2>1, <2>2, <2>3 DEF Idles, Asks, Refuses, Grants, Stays, Waits
  <2> QED BY <2>3, <2>5 DEF WorksOnQuestion
<1>4. CASE CallManager
  <2>1. /\ pc = "confirm" /\ pc' = "act" /\ Page # "Processes"
        /\ UNCHANGED <<page, key, records, selected, ask, ran>>
    BY <1>4 DEF CallManager, App!Accept, App!tables
  <2>2. PICK o \in Act!Ops, n \in Names \cup {Act!NoName} :
          o = App!Called[Page][key] /\ App!CallTarget \in {n, Garbage} /\ Act!Begin(o, n)
    BY <1>4 DEF CallManager
  <2>3. Page' = Page /\ App!CallTarget' = App!CallTarget
    BY <2>1 DEF Page, App!Page, App!CallTarget, App!SelectedRecord
  <2>4. /\ op' = o /\ name' = n /\ executed' = <<>>
        /\ at' = "idle" => success' = FALSE
    BY <2>2 DEF Act!Begin, Act!Fail
  <2>5. Waits'
    BY <2>1, <2>3 DEF Waits
  <2>6. WorksOnQuestion'
    BY <2>1, <2>2, <2>3, <2>4 DEF WorksOnQuestion, Ended
  <2> QED BY <2>5, <2>6
<1>5. CASE Answer
  <2>1. pc' = "frame" /\ ask' = App!NoAsk /\ at' = "idle"
    BY <1>5, DoneEnds DEF Answer, act
  <2> QED BY <2>1 DEF Waits, WorksOnQuestion
<1>6. CASE HostChanges \/ UNCHANGED vars
  <2>1. /\ UNCHANGED <<pc, page, key, records, selected, ask, ran>>
        /\ UNCHANGED <<at, op, name, success, executed, euid, blind, through, command>>
    BY <1>6 DEF HostChanges, App!ToolsChange, App!tables, App!dialog, loop, vars, act,
         Act!ToolsChange, Act!caller, Act!action, Act!outcome
  <2>2. /\ Page' = Page /\ App!CallTarget' = App!CallTarget
        /\ \A ok : Act!Ran(ok)' = Act!Ran(ok)
    BY <2>1 DEF Page, App!Page, App!CallTarget, App!SelectedRecord, Act!Ran
  <2>3. Ended' = Ended
    BY <2>1, <2>2 DEF Ended
  <2> QED BY <2>1, <2>2, <2>3 DEF Waits, WorksOnQuestion
<1> QED BY <1>1, <1>2, <1>3, <1>4, <1>5, <1>6 DEF Next

LEMMA LinkedInit == Init => Linked
BY DEF Init, App!Init, Linked, Waits, WorksOnQuestion, App!NoRun, App!Mutations,
     App!RowOperations

LEMMA LinkedInvariant == Spec => []Linked
BY LinkedInit, LinkedStep, PTL DEF Spec
--------------------------------------------------------------------------------
(* Each step of the whole is one step of the promise, or none.                 *)
LEMMA BlindStays == [Next]_vars => UNCHANGED blind
<1>1. Act!Next \/ UNCHANGED Act!vars => UNCHANGED blind
  BY DEF Act!Next, Act!vars, Act!caller, Act!Look, Act!ChooseBackend, Act!Begin,
     Act!ChooseTool, Act!ChoosePrivilege, Act!NotAvailable, Act!Execute,
     Act!ToolsChange, Act!Waiting
<1> QED BY <1>1, ActStep

LEMMA NoCommands ==
  ASSUME executed = <<>>
  PROVE  Commands = <<>>
<1>1. DOMAIN executed = {}
  OBVIOUS
<1>2. [i \in DOMAIN executed |->
         [op |-> executed[i].op, target |-> executed[i].name, ok |-> executed[i].ok]] = <<>>
  BY <1>1
<1> QED BY <1>2 DEF Commands

LEMMA OneCommand ==
  ASSUME pc = "act", Page # "Processes", NEW ok \in BOOLEAN, executed = <<Act!Ran(ok)>>
  PROVE  Commands = <<[op |-> op, target |-> name, ok |-> ok]>>
<1>1. DOMAIN executed = 1 .. 1 /\ executed[1] = Act!Ran(ok)
  OBVIOUS
<1>2. executed[1].op = op /\ executed[1].name = name /\ executed[1].ok = ok
  BY <1>1 DEF Act!Ran
<1>3. [i \in DOMAIN executed |->
         [op |-> executed[i].op, target |-> executed[i].name, ok |-> executed[i].ok]]
        = <<[op |-> op, target |-> name, ok |-> ok]>>
  BY <1>1, <1>2
<1> QED BY <1>3 DEF Commands

LEMMA CalledType ==
  ASSUME NEW p \in DOMAIN App!Announced, NEW k \in DOMAIN App!Announced[p]
  PROVE  /\ App!Called[p][k] \in App!Mutations
         /\ App!Called[p][k] \in Signals <=> p = "Processes"
BY DEF App!Announced, App!Called, App!Mutations, App!RowOperations, Signals

(* What the handler calls is what the dialog asks.                             *)
LEMMA CallIsQuestion ==
  ASSUME App!TypeInv, App!Answered, pc \in {"confirm", "act"}
  PROVE  /\ ask = [op |-> App!Called[Page][key], target |-> App!CallTarget]
         /\ ask.op \in Signals <=> Page = "Processes"
         /\ ask.op \in App!Mutations
<1>1. /\ Page \in DOMAIN App!Announced /\ key \in DOMAIN App!Announced[Page]
      /\ ask \in [op : App!Ops, target : App!Targets]
  BY DEF App!TypeInv, App!KeyFits, App!TypeOK, Page
<1>2. ask.op = App!Called[Page][key]
  BY DEF App!Answered, Page
<1>3. App!CallTarget = ask.target
  BY <1>2 DEF App!Answered, App!CallTarget, App!RowOperations, Page
<1>4. ask = [op |-> ask.op, target |-> ask.target]
  BY <1>1
<1> QED BY <1>1, <1>2, <1>3, <1>4, CalledType

LEMMA ConfirmedInit == Init => Confirmed!Init
<1> SUFFICES ASSUME Init PROVE Confirmed!Init
  OBVIOUS
<1>1. Phase = "idle" /\ Commands = <<>> /\ Message = Confirmed!NoReport
  BY DEF Init, App!Init, Phase, Commands, Message, App!NoRun, App!Mutations,
     App!RowOperations, Confirmed!NoReport
<1>2. ask = Confirmed!NoQuestion
  BY DEF Init, App!Init, App!NoAsk, Confirmed!NoQuestion
<1>3. blind \in BOOLEAN
  BY DEF Init, Act!Init
<1> QED BY <1>1, <1>2, <1>3 DEF Confirmed!Init

LEMMA ConfirmedStep ==
  App!TypeInv /\ App!Answered /\ Linked /\ (App!TypeInv /\ App!Answered)' /\ [Next]_vars
    => [Confirmed!Next]_Confirmed!vars
<1> SUFFICES ASSUME App!TypeInv, App!Answered, Linked, App!TypeInv', App!Answered', [Next]_vars
             PROVE  Confirmed!Next \/ UNCHANGED <<Phase, ask, Commands, Message, blind>>
  BY DEF Confirmed!vars
<1>b. UNCHANGED blind
  BY BlindStays
<1> USE DEF Linked
<1>1. CASE Work
  <2>1. /\ UNCHANGED <<Phase, ask, Message, pc>> /\ Page' = Page /\ pc \in {"start", "act"}
    BY <1>1, WorkKeeps DEF Phase, Message, loop, Page, App!Page, Work
  <2>2. CASE pc = "start" \/ UNCHANGED executed
    BY <1>b, <2>1, <2>2 DEF Commands
  <2>3. CASE pc = "act" /\ ~UNCHANGED executed
    <3>1. PICK ok \in BOOLEAN :
            executed' = Append(executed, Act!Ran(ok)) /\ Act!Ran(ok)' = Act!Ran(ok)
      BY <1>1, <2>3, WorkKeeps
    <3>2. Page # "Processes" /\ executed = <<>> /\ WorksOnQuestion
      BY <1>1, <2>3, WorkKeeps DEF Waits, WorksOnQuestion
    <3>3. executed' = <<Act!Ran(ok)>>
      BY <3>1, <3>2
    <3>4. Commands = <<>>
      BY <3>2, NoCommands
    <3>5. Commands' = <<[op |-> op, target |-> name, ok |-> ok]>>
      <4>1. DOMAIN executed' = 1 .. 1 /\ executed'[1] = Act!Ran(ok)
        BY <3>3
      <4>2. executed'[1].op = op /\ executed'[1].name = name /\ executed'[1].ok = ok
        BY <4>1 DEF Act!Ran
      <4>3. [i \in DOMAIN executed' |->
               [op |-> executed'[i].op, target |-> executed'[i].name, ok |-> executed'[i].ok]]
              = <<[op |-> op, target |-> name, ok |-> ok]>>
        BY <4>1, <4>2
      <4> QED BY <2>1, <2>3, <3>2, <4>3 DEF Commands
    <3>6. /\ ask.op = op /\ ask.op \notin Signals /\ ask.target \in {name, Garbage}
          /\ name \in Names \cup Rows \cup {Act!NoName}
      BY <2>3, <3>2, CallIsQuestion DEF WorksOnQuestion
    <3>7. Confirmed!Execute(name, ok)
      BY <1>b, <2>1, <2>3, <3>4, <3>5, <3>6 DEF Confirmed!Execute, Phase
    <3> QED BY <3>6, <3>7 DEF Confirmed!Next
  <2> QED BY <2>1, <2>2, <2>3
<1>2. CASE StartLoop
  <2>1. pc = "start" /\ pc' = "frame" /\ UNCHANGED <<ask, ran, status>>
    BY <1>2 DEF StartLoop, App!Start, App!dialog
  <2> QED BY <1>b, <2>1 DEF Phase, Commands, Message
<1>3. CASE Interface
  <2>1. /\ pc \notin {"start", "act"} /\ UNCHANGED act /\ (pc' = "act" => Page = "Processes")
    BY <1>3 DEF Interface
  <2>2. Idles \/ Asks \/ Refuses \/ Grants \/ Stays
    BY <1>3, <2>1, LoopMoves DEF Interface
  <2>3. Commands = <<>> /\ Commands' = <<>>
    <3>1. pc' = "act" => Page' = "Processes"
      BY <2>1, <2>2 DEF Idles, Asks, Refuses, Grants, Stays, Page, App!Page
    <3> QED BY <2>1, <3>1 DEF Commands
  <2>4. CASE Idles
    <3>1. Phase = "idle" /\ Phase' = "idle"
      BY <2>1, <2>4 DEF Idles, Phase
    <3>2. ask = App!NoAsk /\ ask' = ask
      BY <2>1, <2>4 DEF Idles, Waits
    <3>3. Message' = Message \/ Message' = Confirmed!NoReport
      BY <2>1, <2>4 DEF Idles, Waits, Message, Confirmed!NoReport
    <3> QED BY <1>b, <2>3, <3>1, <3>2, <3>3 DEF Confirmed!Next, Confirmed!Forget
  <2>5. CASE Asks
    <3>1. Phase = "idle" /\ Phase' = "asked" /\ Message' = Message
      BY <2>5 DEF Asks, Phase, Message
    <3>2. /\ ask' = [op |-> ask'.op, target |-> ask'.target]
          /\ ask'.target \in Names \cup Rows \cup {Act!NoName, Garbage}
      BY DEF App!TypeInv, App!TypeOK, App!Targets, ValidNames
    <3>3. ask'.op \in App!Mutations
      <4>1. /\ Page' \in DOMAIN App!Announced /\ key' \in DOMAIN App!Announced[Page']
            /\ ask'.op = App!Called[Page'][key']
        BY <2>5 DEF Asks, App!TypeInv, App!KeyFits, App!Answered, Page
      <4> QED BY <4>1, CalledType
    <3>4. Confirmed!AskFor(ask'.op, ask'.target)
      BY <1>b, <2>3, <3>1, <3>2 DEF Confirmed!AskFor
    <3> QED BY <3>2, <3>3, <3>4 DEF Confirmed!Next
  <2>6. CASE Refuses
    BY <1>b, <2>3, <2>6 DEF Refuses, Phase, Message, Confirmed!Next, Confirmed!Refuse,
       Confirmed!NoQuestion, App!NoAsk
  <2>7. CASE Grants
    BY <1>b, <2>3, <2>7 DEF Grants, Phase, Message, Confirmed!Next, Confirmed!Grant
  <2>8. CASE Stays
    BY <1>b, <2>3, <2>8 DEF Stays, Phase, Message
  <2> QED BY <2>2, <2>4, <2>5, <2>6, <2>7, <2>8
<1>4. CASE CallManager
  <2>1. /\ pc = "confirm" /\ pc' = "act" /\ UNCHANGED <<ask, ran, status>>
        /\ executed' = <<>>
    BY <1>4 DEF CallManager, App!Accept, Act!Begin
  <2>2. Commands = <<>>
    BY <2>1 DEF Commands
  <2>3. Commands' = <<>>
    <3>1. DOMAIN executed' = {}
      BY <2>1
    <3>2. [i \in DOMAIN executed' |->
             [op |-> executed'[i].op, target |-> executed'[i].name, ok |-> executed'[i].ok]] = <<>>
      BY <3>1
    <3> QED BY <3>2 DEF Commands
  <2> QED BY <1>b, <2>1, <2>2, <2>3 DEF Phase, Message, Confirmed!Next, Confirmed!Grant
<1>5. CASE Answer
  <2>1. /\ pc = "act" /\ pc' = "frame" /\ ask' = App!NoAsk /\ at = "idle"
        /\ Page # "Processes" => ran'.ok = success
    BY <1>5, DoneEnds DEF Answer
  <2>2. PICK ok \in BOOLEAN :
          /\ ran' = [op |-> App!Called[Page][key], target |-> App!CallTarget, ok |-> ok]
          /\ status' = App!ResultColor(ok)
    BY <1>5, DoneEnds DEF Answer
  <2>3. /\ ask = [op |-> App!Called[Page][key], target |-> App!CallTarget]
        /\ ask.op \in Signals <=> Page = "Processes"
        /\ ask.op \in App!Mutations
    BY <2>1, CallIsQuestion
  <2>4. Message' = [op |-> ask.op, target |-> ask.target, ok |-> ok,
                    color |-> Confirmed!Color(ok)]
    BY <2>2, <2>3 DEF Message, App!ResultColor, Confirmed!Color
  <2>5. ask.op \notin Signals =>
          /\ ok => Commands # <<>> /\ Commands[1].ok
          /\ Commands # <<>> /\ Commands[1].ok => ok \/ blind
    <3> SUFFICES ASSUME Page # "Processes"
                 PROVE  /\ ok => Commands # <<>> /\ Commands[1].ok
                        /\ Commands # <<>> /\ Commands[1].ok => ok \/ blind
      BY <2>3
    <3>1. ok = success /\ Ended
      BY <2>1, <2>2 DEF WorksOnQuestion
    <3>2. CASE success = FALSE /\ executed = <<>>
      BY <3>1, <3>2, NoCommands
    <3>3. ASSUME NEW done \in BOOLEAN, success = (done /\ ~blind),
                 executed = <<Act!Ran(done)>>
          PROVE  /\ ok => Commands # <<>> /\ Commands[1].ok
                 /\ Commands # <<>> /\ Commands[1].ok => ok \/ blind
      <4>1. Commands = <<[op |-> op, target |-> name, ok |-> done]>>
        BY <2>1, <3>3, OneCommand
      <4>2. Commands # <<>> /\ Commands[1].ok = done
        BY <4>1
      <4> QED BY <3>1, <3>3, <4>2
    <3> QED BY <3>1, <3>2, <3>3 DEF Ended
  <2>6. Phase = "granted" /\ Phase' = "idle" /\ Commands' = <<>> /\ ask' = Confirmed!NoQuestion
    BY <2>1 DEF Phase, Commands, Confirmed!NoQuestion, App!NoAsk
  <2>7. Confirmed!Report(ok)
    BY <1>b, <2>4, <2>5, <2>6 DEF Confirmed!Report
  <2> QED BY <2>7 DEF Confirmed!Next
<1>6. CASE HostChanges \/ UNCHANGED vars
  <2>1. UNCHANGED <<pc, page, ask, ran, status, executed>>
    BY <1>6 DEF HostChanges, App!ToolsChange, App!dialog, loop, vars, act,
         Act!ToolsChange, Act!outcome
  <2> QED BY <1>b, <2>1 DEF Phase, Commands, Message, Page, App!Page
<1> QED BY <1>1, <1>2, <1>3, <1>4, <1>5, <1>6 DEF Next

(* The whole application keeps the promise, for all names, tools, listings and  *)
(* terminals: it does what was asked, once, and reports it as it ended.        *)
THEOREM SystemKeepsPromise == Spec => ImplementsConfirmed
BY ConfirmedInit, ConfirmedStep, LoopInvariant, LinkedInvariant, PTL
   DEF Spec, ImplementsConfirmed, Confirmed!Spec
--------------------------------------------------------------------------------
(* The terminal: who works outside of the loop has taken it out of curses mode. *)
Suspended ==
  /\ pc = "start" => at = "look" /\ goal = "backend"
  /\ pc = "act" /\ Page # "Processes" => term = "child"

LEMMA SuspendedStep == Suspended /\ [Next]_vars => Suspended'
<1> SUFFICES ASSUME Suspended, [Next]_vars PROVE Suspended'
  OBVIOUS
<1>1. CASE Work
  <2>1. UNCHANGED loop /\ Page' = Page
    BY <1>1 DEF Work, loop, Page, App!Page
  <2>2. pc = "start" => UNCHANGED <<at, goal>>
    BY <1>1 DEF Work, Suspended, Act!Look, Act!ChooseTool, Act!ChoosePrivilege,
         Act!NotAvailable, Act!Execute, Act!Found, Act!Missing
  <2> QED BY <2>1, <2>2 DEF Suspended, loop
<1>2. CASE StartLoop
  BY <1>2 DEF StartLoop, App!Start, Suspended
<1>3. CASE Interface
  <2>1. pc \notin {"start", "act"} /\ (pc' = "act" => Page = "Processes")
    BY <1>3 DEF Interface
  <2>2. Idles \/ Asks \/ Refuses \/ Grants \/ Stays
    BY <1>3, <2>1, LoopMoves DEF Interface
  <2> QED BY <2>1, <2>2 DEF Idles, Asks, Refuses, Grants, Stays, Suspended, Page, App!Page
<1>4. CASE CallManager
  BY <1>4 DEF CallManager, App!Accept, Suspended, Page, App!Page
<1>5. CASE Answer
  BY <1>5, DoneEnds DEF Answer, Suspended
<1>6. CASE HostChanges \/ UNCHANGED vars
  <2>1. UNCHANGED <<pc, page, term, at, goal>>
    BY <1>6 DEF HostChanges, App!ToolsChange, loop, vars, act, Act!ToolsChange
  <2> QED BY <2>1 DEF Suspended, Page, App!Page
<1> QED BY <1>1, <1>2, <1>3, <1>4, <1>5, <1>6 DEF Next

(* No command runs inside curses mode, and none while the loop is running.     *)
THEOREM ChildrenOutsideCurses == Spec => []ChildHasTerminal
<1>1. Init => Suspended
  BY DEF Init, App!Init, Act!Init, Suspended
<1>2. Suspended /\ Linked => ChildHasTerminal
  BY DEF Suspended, Linked, Waits, ChildHasTerminal
<1> QED BY <1>1, <1>2, SuspendedStep, LinkedInvariant, PTL DEF Spec
--------------------------------------------------------------------------------
(* The calls: what a dialog asks is what a manager may be called with.         *)
LegalQuestion ==
  pc = "confirm" /\ Page # "Processes" =>
    /\ ask.target = Act!NoName <=> ask.op \in {"update", "upgrade"}
    /\ ask.op \in Act!PackageOps => backend # "none"
    /\ ask.op = "create" => Act!ValidUserName(ask.target)

LEMMA SelectedIsNamed ==
  ASSUME App!TypeOK, NEW t \in App!Tables
  PROVE  App!SelectedRecord(t) # Act!NoName
<1>1. records[t] \in Seq(Names \cup Rows) /\ selected[t] \in Nat
  BY DEF App!TypeOK
<1>2. CASE selected[t] < Len(records[t])
  <2>1. records[t][selected[t] + 1] \in Names \cup Rows
    BY <1>1, <1>2
  <2> QED BY <1>2, <2>1, NoNameIsNone, RowsAssumption DEF App!SelectedRecord
<1> QED BY <1>2, RowsAssumption DEF App!SelectedRecord

LEMMA AskedLegally ==
  ASSUME App!TypeInv, UNCHANGED act,
         \/ App!AskCreateUser \/ App!AskLock \/ App!AskPackages \/ App!AskSignal
         \/ App!AskService
  PROVE  LegalQuestion'
<1>a. "Users" \in App!Tables /\ "Packages" \in App!Tables /\ "Services" \in App!Tables
  BY DEF App!Tables
<1>b. \A t \in App!Tables : App!SelectedRecord(t) # Act!NoName
  BY SelectedIsNamed DEF App!TypeInv
<1>1. CASE App!AskCreateUser
  <2>1. key = "a"
    BY <1>1 DEF App!AskCreateUser, App!TypeInv, App!KeyFits
  <2>2. ask'.op = "create" /\ ask'.target \in ValidNames
    BY <1>1, <2>1 DEF App!AskCreateUser, App!Announced
  <2>3. ask'.target # Act!NoName /\ Act!ValidUserName(ask'.target)
    BY <2>2, NoNameIsNone DEF ValidNames
  <2> QED BY <2>2, <2>3 DEF LegalQuestion, Act!PackageOps
<1>2. CASE App!AskLock
  <2>1. ask'.op \in {"lock", "unlock"} /\ ask'.target # Act!NoName
    BY <1>2, <1>a, <1>b DEF App!AskLock, App!Ask, App!Announced
  <2> QED BY <2>1 DEF LegalQuestion, Act!PackageOps
<1>3. CASE App!AskPackages
  <2>1. SeenBackend = "present" /\ App!Page = "Packages"
    BY <1>3 DEF App!AskPackages
  <2>2. backend' # "none"
    BY <2>1 DEF SeenBackend, act
  <2>3. \/ ask'.op \in {"update", "upgrade"} /\ ask'.target = Act!NoName
        \/ ask'.op \in {"install", "remove"} /\ ask'.target # Act!NoName
    <3>1. \/ \E k \in {"u", "U"} : App!Ask(k, Act!NoName)
          \/ \E k \in {"i", "d"} : App!Ask(k, App!SelectedRecord("Packages"))
      BY <1>3 DEF App!AskPackages
    <3> QED BY <2>1, <3>1, <1>a, <1>b DEF App!Ask, App!Announced
  <2> QED BY <2>2, <2>3 DEF LegalQuestion
<1>4. CASE App!AskSignal
  <2>1. Page' = "Processes"
    BY <1>4 DEF App!AskSignal, App!Ask, Page, App!Page
  <2> QED BY <2>1 DEF LegalQuestion
<1>5. CASE App!AskService
  <2>1. /\ ask'.op \in {"start", "stop", "restart", "enable", "disable"}
        /\ ask'.target # Act!NoName
    BY <1>5, <1>a, <1>b DEF App!AskService, App!Ask, App!Announced
  <2> QED BY <2>1 DEF LegalQuestion, Act!PackageOps
<1> QED BY <1>1, <1>2, <1>3, <1>4, <1>5

LEMMA LegalStep ==
  App!TypeInv /\ LegalQuestion /\ [Next]_vars => LegalQuestion'
<1> SUFFICES ASSUME App!TypeInv, LegalQuestion, [Next]_vars PROVE LegalQuestion'
  OBVIOUS
<1>1. CASE pc' # "confirm"
  BY <1>1 DEF LegalQuestion
<1>2. CASE pc' = "confirm" /\ UNCHANGED <<pc, page, ask, backend>>
  BY <1>2 DEF LegalQuestion, Page, App!Page
<1>3. CASE Work \/ HostChanges \/ UNCHANGED vars
  <2>1. UNCHANGED <<pc, page, ask, backend>>
    BY <1>3 DEF Work, HostChanges, App!ToolsChange, App!dialog, loop, vars, act,
         Act!ToolsChange, Act!Look, Act!ChooseTool, Act!ChoosePrivilege,
         Act!NotAvailable, Act!Execute
  <2> QED BY <1>1, <1>2, <2>1
<1>4. CASE StartLoop \/ CallManager \/ Answer
  <2>1. pc' # "confirm"
    BY <1>4, DoneEnds DEF StartLoop, App!Start, CallManager, App!Accept, Answer
  <2> QED BY <1>1, <2>1
<1>5. CASE Interface
  <2>1. pc \notin {"start", "act"} /\ UNCHANGED act /\ App!Next
    BY <1>5 DEF Interface
  <2>2. CASE Asks
    BY <2>1, <2>2, AskedLegally DEF Asks
  <2>3. CASE Idles \/ Refuses \/ Grants
    BY <1>1, <2>3 DEF Idles, Refuses, Grants
  <2>4. CASE Stays
    BY <1>1, <1>2, <2>1, <2>4 DEF Stays, act
  <2> QED BY <2>1, <2>2, <2>3, <2>4, LoopMoves
<1> QED BY <1>3, <1>4, <1>5 DEF Next

(* Whatever the loop asks, the manager may be called with.                     *)
THEOREM ManagersAreCalledLegally == Spec => []CallsAreLegal
<1>1. Init => LegalQuestion
  BY DEF Init, App!Init, LegalQuestion
<1>2. LegalQuestion /\ App!TypeInv /\ App!Answered => CallsAreLegal
  BY CallIsQuestion DEF LegalQuestion, CallsAreLegal
<1> QED BY <1>1, <1>2, LegalStep, LoopInvariant, PTL DEF Spec
--------------------------------------------------------------------------------
(* What is proved of the parts holds of the whole: with the loop, the managers *)
(* and a host whose tools change, an action still means the row that is        *)
(* highlighted, the selection stays in its table and in its window, the        *)
(* terminal is where it should be, root stays unlocked, names reach a tool     *)
(* only when they were checked, and success is reported only of what was done. *)
THEOREM PartsStaySafe ==
  Spec => /\ [](App!SelectionInRange /\ App!SelectedOnScreen)
          /\ [](App!ActsOnHighlighted /\ App!TerminalOwner)
          /\ App!OnlyConfirmed
          /\ [](Act!RootStaysUnlocked /\ Act!NamesAreChecked /\ Act!SuccessMeansDone)
<1>1. App!Spec => /\ [](App!SelectionInRange /\ App!SelectedOnScreen)
                  /\ [](App!ActsOnHighlighted /\ App!TerminalOwner)
                  /\ App!OnlyConfirmed
  BY AppAssumptions, App!SelectionStaysInRange, App!SelectionIsOnScreen,
     App!HighlightedIsTarget, App!TerminalIsOwned, App!OnlyConfirmedIsDone, PTL
<1>2. Act!Spec => [](Act!RootStaysUnlocked /\ Act!NamesAreChecked /\ Act!SuccessMeansDone)
  BY ActAssumptions, Act!RootIsNeverLocked, Act!NamesStayChecked, Act!SuccessIsHonest, PTL
<1> QED BY <1>1, <1>2, LoopIsApplication, ManagersAreActions, PTL
==================================================================================
