------------------------ MODULE PrivilegedActionsProofs ------------------------
(* Proofs about privileged actions, for every set of names and of tools on the *)
(* host, and however often the tools change.                                   *)
EXTENDS PrivilegedActions, TLAPS

(* What an action in progress has established at each of its steps.            *)
Fresh == op \in Ops /\ executed = <<>> /\ success = FALSE

InProgress ==
  /\ at = "look" /\ goal = "backend" => executed = <<>> /\ success = FALSE
  /\ at = "look" /\ goal = "tool" => Fresh /\ (op \in ServiceOps \/ Valid(op, name))
  /\ at = "look" /\ goal = "privilege" => Fresh /\ Valid(op, name) /\ command \in Tool
  /\ at = "execute" =>
       /\ Fresh /\ Valid(op, name) /\ command \in Tool
       /\ euid = "root" \/ through # "nothing"

(* What the alternatives of the plan run.                                      *)
Running(set) == \A i \in 1 .. Len(plan) : plan[i].runs \in set

PlanFits ==
  /\ at = "look" /\ goal = "backend" => Running(Backends)
  /\ at = "look" /\ goal = "privilege" => Running({"sudo", "pkexec"})

(* What was executed was valid for the action.                                 *)
Executed ==
  /\ executed # <<>> => op \in Ops /\ Valid(op, name)
  /\ op \in Ops => (name = NoName <=> op \in {"update", "upgrade"})

(* Where the search for the package backend is: what was already found was on  *)
(* PATH in startup, and what was given up was missing at some time.            *)
Rest == [apt |-> <<Need("dnf", <<"dnf", "rpm">>), Need("pacman", <<"pacman">>)>>,
         dnf |-> <<Need("pacman", <<"pacman">>)>>, pacman |-> <<>>]

GivenUp(bs) == \A b \in bs : ~(Required[b] \subseteq always)

Searching ==
  StartingUp =>
    /\ always \subseteq tools /\ tools \subseteq ever
    /\ plan = <<>> => GivenUp(Backends)
    /\ plan # <<>> =>
         LET b == plan[1].runs  s == plan[1].needs
             left == {s[i] : i \in DOMAIN s} IN
         /\ b \in Backends /\ Tail(plan) = Rest[b]
         /\ GivenUp(Before[b])
         /\ left \subseteq Required[b] /\ Required[b] \subseteq ever \cup left

ActionInv == TypeOK /\ PlanFits /\ InProgress /\ Executed /\ SuccessMeansDone
--------------------------------------------------------------------------------
LEMMA PlanOf2 ==
  ASSUME NEW t \in Tool, NEW u \in Tool, NEW s \in Seq(Tool), NEW r \in Seq(Tool)
  PROVE  <<Need(t, s), Need(u, r)>> \in Plan /\ <<Need(t, s)>> \in Plan
BY DEF Need, Plan, Alternative

LEMMA PlanOf3 ==
  ASSUME NEW t \in Tool, NEW u \in Tool, NEW v \in Tool,
         NEW s \in Seq(Tool), NEW r \in Seq(Tool), NEW q \in Seq(Tool)
  PROVE  <<Need(t, s), Need(u, r), Need(v, q)>> \in Plan
BY DEF Need, Plan, Alternative

LEMMA NeedsType ==
  /\ \A t \in Tool : <<t>> \in Seq(Tool)
  /\ <<"dnf", "rpm">> \in Seq(Tool) /\ AptTools \in Seq(Tool)
BY DEF Tool, AptTools

LEMMA ToolPlanType ==
  ASSUME NEW o \in Ops
  PROVE  ToolPlan(o) \in Plan
<1>1. /\ "useradd" \in Tool /\ "usermod" \in Tool /\ "pw" \in Tool /\ "systemctl" \in Tool
      /\ "apt-get" \in Tool /\ "dnf" \in Tool /\ "pacman" \in Tool
  BY DEF Tool
<1>4. CASE o = "create"
  <2>1. <<Need("useradd", <<"useradd">>), Need("pw", <<"pw">>)>> \in Plan
    BY <1>1, NeedsType, PlanOf2
  <2> QED BY <2>1, <1>4 DEF ToolPlan, ServiceOps, PackageOps
<1>5. CASE o \in {"lock", "unlock"}
  <2>1. <<Need("usermod", <<"usermod">>), Need("pw", <<"pw">>)>> \in Plan
    BY <1>1, NeedsType, PlanOf2
  <2>2. o # "create" /\ o \notin ServiceOps /\ o \notin PackageOps
    BY <1>5 DEF ServiceOps, PackageOps
  <2>3. ToolPlan(o) = <<Need("usermod", <<"usermod">>), Need("pw", <<"pw">>)>>
    BY <1>5, <2>2 DEF ToolPlan
  <2> QED BY <2>1, <2>3
<1>6. CASE o \in ServiceOps
  <2>1. <<Need("systemctl", <<"systemctl">>)>> \in Plan
    BY <1>1, NeedsType, PlanOf2
  <2> QED BY <2>1, <1>6 DEF ToolPlan, ServiceOps, PackageOps
<1>7. CASE o \in PackageOps
  <2>1. /\ <<Need("apt-get", AptTools)>> \in Plan
        /\ <<Need("dnf", <<"dnf", "rpm">>)>> \in Plan
        /\ <<Need("pacman", <<"pacman">>)>> \in Plan
    BY <1>1, NeedsType, PlanOf2
  <2> QED BY <2>1, <1>7 DEF ToolPlan, PackageOps, ServiceOps
<1> QED BY <1>4, <1>5, <1>6, <1>7 DEF Ops, UserOps

LEMMA OtherPlans == BackendPlan \in Plan /\ PrivilegePlan \in Plan
<1>1. /\ "sudo" \in Tool /\ "pkexec" \in Tool /\ "apt" \in Tool /\ "dnf" \in Tool
      /\ "pacman" \in Tool
  BY DEF Tool
<1>2. PrivilegePlan \in Plan
  BY <1>1, NeedsType, PlanOf2 DEF PrivilegePlan
<1>3. BackendPlan \in Plan
  BY <1>1, NeedsType, PlanOf3 DEF BackendPlan
<1> QED BY <1>2, <1>3

(* The head of a plan loses a need, or goes.                                    *)
LEMMA PlanShrinks ==
  ASSUME NEW p \in Plan, p # <<>>, p[1].needs # <<>>
  PROVE  /\ Tail(p) \in Plan /\ Shorter(p) \in Plan
         /\ Len(Tail(p)) = Len(p) - 1 /\ Len(Shorter(p)) = Len(p)
         /\ \A i \in 1 .. Len(Tail(p)) : Tail(p)[i] = p[i + 1]
         /\ \A i \in 1 .. Len(p) : Shorter(p)[i].runs = p[i].runs
         /\ Shorter(p) # <<>> /\ Tail(Shorter(p)) = Tail(p)
         /\ Shorter(p)[1].needs = Tail(p[1].needs)
<1>1. Len(p) \in Nat /\ Len(p) > 0 /\ p[1] \in Alternative
  BY DEF Plan
<1>3. Tail(p[1].needs) \in Seq(Tool) /\ p[1].runs \in Tool
  BY <1>1 DEF Alternative
<1> DEFINE head == [runs |-> p[1].runs, needs |-> Tail(p[1].needs)]
<1>4. head \in Alternative /\ head.runs = p[1].runs /\ head.needs = Tail(p[1].needs)
  BY <1>3 DEF Alternative
<1>5. Shorter(p) = [p EXCEPT ![1] = head]
  BY DEF Shorter
<1> HIDE DEF head
<1>6. /\ Shorter(p) \in Seq(Alternative) /\ Len(Shorter(p)) = Len(p)
      /\ Shorter(p)[1] = head /\ \A i \in 2 .. Len(p) : Shorter(p)[i] = p[i]
  BY <1>1, <1>4, <1>5 DEF Plan
<1>7. Tail(Shorter(p)) = Tail(p)
  BY <1>1, <1>6 DEF Plan
<1>8. /\ Tail(p) \in Seq(Alternative) /\ Len(Tail(p)) = Len(p) - 1
      /\ \A i \in 1 .. Len(Tail(p)) : Tail(p)[i] = p[i + 1]
  BY <1>1 DEF Plan
<1>9. \A i \in 1 .. Len(p) : Shorter(p)[i].runs = p[i].runs
  BY <1>1, <1>4, <1>6
<1> QED BY <1>1, <1>4, <1>6, <1>7, <1>8, <1>9 DEF Plan

LEMMA PlanHead ==
  ASSUME TypeOK, plan # <<>>
  PROVE  plan[1].runs \in Tool /\ plan[1].needs \in Seq(Tool)
<1>1. plan[1] \in Alternative
  BY DEF TypeOK, Plan
<1> QED BY <1>1 DEF Alternative

LEMMA BackendPlanRuns == \A i \in 1 .. Len(BackendPlan) : BackendPlan[i].runs \in Backends
BY DEF BackendPlan, Need, Backends

LEMMA PrivilegePlanRuns ==
  \A i \in 1 .. Len(PrivilegePlan) : PrivilegePlan[i].runs \in {"sudo", "pkexec"}
BY DEF PrivilegePlan, Need

LEMMA LookShrinks ==
  ASSUME TypeOK, Look
  PROVE  /\ plan' = IF Head(plan[1].needs) \in tools THEN Shorter(plan) ELSE Tail(plan)
         /\ plan \in Plan /\ plan # <<>> /\ plan[1].needs # <<>>
         /\ plan' \in Plan
         /\ \A set : Running(set) => Running(set)'
<1>1. /\ plan' = IF Head(plan[1].needs) \in tools THEN Shorter(plan) ELSE Tail(plan)
      /\ plan \in Plan /\ plan # <<>> /\ plan[1].needs # <<>>
  BY DEF Look, TypeOK
<1>2. /\ Tail(plan) \in Plan /\ Shorter(plan) \in Plan
      /\ Len(Tail(plan)) = Len(plan) - 1 /\ Len(Shorter(plan)) = Len(plan)
      /\ \A i \in 1 .. Len(Tail(plan)) : Tail(plan)[i] = plan[i + 1]
      /\ \A i \in 1 .. Len(plan) : Shorter(plan)[i].runs = plan[i].runs
  BY <1>1, PlanShrinks
<1>3. ASSUME NEW set, Running(set) PROVE Running(set)'
  <2>1. \A i \in 1 .. Len(plan) : plan[i].runs \in set
    BY <1>3 DEF Running
  <2>2. \A i \in 1 .. Len(plan') : plan'[i].runs \in set
    <3>1. CASE plan' = Shorter(plan)
      BY <1>2, <2>1, <3>1
    <3>2. CASE plan' = Tail(plan)
      <4>1. Len(plan) \in Nat
        BY <1>1 DEF Plan
      <4> QED BY <1>2, <2>1, <3>2, <4>1
    <3> QED BY <1>1, <3>1, <3>2
  <2> QED BY <2>2 DEF Running
<1> QED BY <1>1, <1>2, <1>3

LEMMA HeadRuns ==
  ASSUME TypeOK, plan # <<>>, NEW set, Running(set)
  PROVE  plan[1].runs \in set
BY DEF TypeOK, Plan, Running

LEMMA ActionInit == Init => ActionInv
<1> SUFFICES ASSUME Init PROVE ActionInv
  OBVIOUS
<1>1. TypeOK
  <2>1. plan \in Plan /\ executed \in Seq(Execution)
    BY OtherPlans DEF Init
  <2>2. changes \in Nat /\ eightBit \in BOOLEAN /\ tools \in SUBSET HostTools /\ always \in SUBSET HostTools
        /\ ever \in SUBSET HostTools
    BY HostAssumption DEF Init
  <2> QED BY <2>1, <2>2 DEF Init, TypeOK
<1>2. InProgress /\ Executed /\ SuccessMeansDone
  BY DEF Init, InProgress, Executed, SuccessMeansDone, Ops, UserOps, PackageOps, ServiceOps
<1>3. PlanFits
  BY BackendPlanRuns DEF Init, PlanFits, Running
<1> QED BY <1>1, <1>2, <1>3 DEF ActionInv

LEMMA TypeStep == ActionInv /\ [Next]_vars => TypeOK'
<1> SUFFICES ASSUME ActionInv, [Next]_vars PROVE TypeOK'
  OBVIOUS
<1>0. TypeOK /\ PlanFits /\ InProgress
  BY DEF ActionInv
<1> USE DEF host, caller, action, outcome
<1>1. CASE Look
  <2>1. plan' \in Plan
    BY <1>0, <1>1, LookShrinks
  <2> QED BY <1>0, <1>1, <2>1 DEF Look, TypeOK
<1>2. CASE ChooseBackend
  <2>1. backend' \in Backends \cup {"none"}
    BY <1>0, <1>2, HeadRuns DEF ChooseBackend, Found, PlanFits
  <2> QED BY <1>0, <1>2, <2>1 DEF ChooseBackend, TypeOK
<1>3. ASSUME NEW o \in Ops, NEW n \in Names \cup {NoName}, Begin(o, n) PROVE TypeOK'
  <2>1. plan' \in Plan
    BY <1>0, <1>3, ToolPlanType DEF Begin, Fail, TypeOK
  <2>2. executed' = <<>> /\ success' = FALSE
    BY <1>3 DEF Begin, Fail
  <2>3. at' \in {"idle", "look"} /\ goal' \in {"backend", "tool", "privilege"}
    BY <1>0, <1>3 DEF Begin, Fail, TypeOK
  <2>4. /\ op' = o /\ name' = n /\ command' = "none" /\ through' = "nothing"
        /\ UNCHANGED <<tools, changes, always, ever, euid, eightBit, blind, backend>>
    BY <1>3 DEF Begin
  <2>5. executed' \in Seq(Execution)
    BY <2>2
  <2> QED BY <1>0, <1>3, <2>1, <2>2, <2>3, <2>4, <2>5 DEF TypeOK
<1>4. CASE ChooseTool
  <2>1. command' \in Tool \cup {"none"}
    BY <1>0, <1>4, PlanHead DEF ChooseTool, Found, TypeOK
  <2>2. plan' \in Plan /\ success' \in BOOLEAN
    BY <1>0, <1>4, OtherPlans DEF ChooseTool, Fail, TypeOK
  <2> QED BY <1>0, <1>4, <2>1, <2>2 DEF ChooseTool, Fail, TypeOK
<1>5. CASE ChoosePrivilege
  <2>1. through' \in {"sudo", "pkexec"}
    BY <1>0, <1>5, HeadRuns DEF ChoosePrivilege, Found, PlanFits
  <2> QED BY <1>0, <1>5, <2>1 DEF ChoosePrivilege, TypeOK
<1>6. CASE NotAvailable
  BY <1>0, <1>6 DEF NotAvailable, Fail, TypeOK
<1>7. CASE Execute
  <2>1. executed' \in Seq(Execution)
    <3>1. \A ok \in BOOLEAN : Ran(ok) \in Execution
      BY <1>0, <1>7 DEF Execute, Ran, InProgress, Fresh, TypeOK, Execution
    <3> QED BY <1>0, <1>7, <3>1 DEF Execute, TypeOK
  <2>2. success' \in BOOLEAN
    BY <1>7 DEF Execute
  <2> QED BY <1>0, <1>7, <2>1, <2>2 DEF Execute, TypeOK
<1>8. CASE ToolsChange
  BY <1>0, <1>8, HostAssumption DEF ToolsChange, TypeOK
<1>9. CASE Waiting \/ UNCHANGED vars
  BY <1>0, <1>9 DEF Waiting, vars, TypeOK
<1> QED
  BY <1>1, <1>2, <1>3, <1>4, <1>5, <1>6, <1>7, <1>8, <1>9 DEF Next

LEMMA PlanFitsStep == ActionInv /\ [Next]_vars => PlanFits'
<1> SUFFICES ASSUME ActionInv, [Next]_vars PROVE PlanFits'
  OBVIOUS
<1>0. TypeOK /\ PlanFits
  BY DEF ActionInv
<1> USE DEF host, caller, action, outcome
<1>1. CASE Look
  BY <1>0, <1>1, LookShrinks DEF Look, PlanFits
<1>2. CASE ChooseBackend \/ NotAvailable \/ Execute
  BY <1>2 DEF ChooseBackend, NotAvailable, Execute, Fail, PlanFits
<1>3. ASSUME NEW o \in Ops, NEW n \in Names \cup {NoName}, Begin(o, n) PROVE PlanFits'
  BY <1>3 DEF Begin, Fail, PlanFits
<1>4. CASE ChooseTool
  <2>1. CASE goal' = "privilege" /\ plan' = PrivilegePlan
    BY <2>1, PrivilegePlanRuns DEF PlanFits, Running
  <2>2. CASE at' # "look"
    BY <2>2 DEF PlanFits
  <2> QED BY <1>4, <2>1, <2>2 DEF ChooseTool, Fail
<1>5. CASE ChoosePrivilege
  BY <1>5 DEF ChoosePrivilege, PlanFits
<1>6. CASE ToolsChange \/ Waiting \/ UNCHANGED vars
  BY <1>0, <1>6 DEF ToolsChange, Waiting, vars, PlanFits, Running
<1> QED
  BY <1>1, <1>2, <1>3, <1>4, <1>5, <1>6 DEF Next

(* Only the choice of the backend changes what a valid package name is.        *)
Checked(o, n) ==
  /\ n.first # "-" /\ "other" \notin Chars(n)
  /\ Chars(n) \cap HighLetters # {} => eightBit /\ o \notin UserOps

LEMMA ValidNames ==
  ASSUME NEW o \in Ops \ {"update", "upgrade"}, NEW n \in Names, Valid(o, n)
  PROVE  Checked(o, n) /\ (o = "lock" => ~n.root)
<1> USE DEF Checked, HighLetters
<1>0. ValidUserName(n) => Checked(o, n)
  BY DEF ValidUserName, Chars
<1>1. CASE o = "create"
  BY <1>0, <1>1 DEF Valid, ServiceOps
<1>2. CASE o = "lock"
  BY <1>0, <1>2 DEF Valid, ServiceOps
<1>3. CASE o = "unlock"
  <2>1. ValidUserName(n) \/ n.root
    BY <1>3 DEF Valid, ServiceOps
  <2>2. n.root => n.first = "lower" /\ n.rest = {"lower"}
    BY NamesAssumption
  <2>3. ASSUME n.root PROVE Checked(o, n)
    <3>1. Chars(n) = {"lower"} /\ n.first = "lower"
      BY <2>2, <2>3 DEF Chars
    <3> QED BY <3>1
  <2> QED BY <1>0, <1>3, <2>1, <2>3
<1>4. CASE o \in ServiceOps
  <2>1. o # "create" /\ o # "lock" /\ o # "unlock"
    BY <1>4 DEF ServiceOps
  <2>2. ValidServiceName(n)
    BY <1>4, <2>1 DEF Valid, ServiceOps
  <2>3. o \notin UserOps /\ (LocaleLetters \cap HighLetters # {} => eightBit)
    BY <1>4 DEF ServiceOps, UserOps, LocaleLetters
  <2> QED BY <2>1, <2>2, <2>3 DEF ValidServiceName, LocaleLetters
<1>5. CASE o \in {"install", "remove"}
  <2>1. o \notin ServiceOps /\ o # "create" /\ o # "lock" /\ o # "unlock"
    BY <1>5 DEF ServiceOps
  <2>2. ValidPackageName(backend, n)
    BY <1>5, <2>1 DEF Valid
  <2>3. o \notin UserOps /\ (LocaleLower \cap HighLetters # {} => eightBit)
    BY <1>5 DEF UserOps, LocaleLower
  <2> QED BY <2>1, <2>2, <2>3 DEF ValidPackageName, LocaleLower, LocaleLetters
<1> QED
  BY <1>1, <1>2, <1>3, <1>4, <1>5 DEF Ops, UserOps, PackageOps

LEMMA InProgressStep == ActionInv /\ [Next]_vars => InProgress' /\ Executed'
<1> SUFFICES ASSUME ActionInv, [Next]_vars PROVE InProgress' /\ Executed'
  OBVIOUS
<1>0. TypeOK /\ PlanFits /\ InProgress /\ Executed
  BY DEF ActionInv
<1> USE DEF host, caller, action, outcome
<1>a. UNCHANGED backend => \A o, n : Valid(o, n)' = Valid(o, n)
  BY DEF Valid, ValidPackageName
<1>1. CASE Look \/ ToolsChange \/ Waiting \/ UNCHANGED vars
  BY <1>0, <1>1, <1>a
     DEF Look, ToolsChange, Waiting, vars, InProgress, Executed, Fresh
<1>2. CASE ChooseBackend
  BY <1>0, <1>2 DEF ChooseBackend, Found, Missing, InProgress, Executed
<1>3. ASSUME NEW o \in Ops, NEW n \in Names \cup {NoName}, Begin(o, n)
      PROVE  InProgress' /\ Executed'
  <2>1. /\ op' = o /\ name' = n /\ executed' = <<>> /\ success' = FALSE
        /\ Valid(o, n)' = Valid(o, n)
    BY <1>3, <1>a DEF Begin, Fail
  <2>2. \/ at' = "idle"
        \/ at' = "look" /\ goal' = "tool" /\ (Valid(o, n) \/ o \in ServiceOps)
    BY <1>3 DEF Begin, Fail
  <2>3. n = NoName <=> o \in {"update", "upgrade"}
    BY <1>3 DEF Begin
  <2> QED BY <2>1, <2>2, <2>3 DEF InProgress, Executed, Fresh
<1>4. CASE ChooseTool
  <2>1. /\ Fresh /\ UNCHANGED <<op, name, executed, backend, euid>>
        /\ Valid(op, name)' = Valid(op, name)
    BY <1>0, <1>4, <1>a DEF ChooseTool, Found, InProgress
  <2>2. CASE Valid(op, name)
    <3>1. command' \in Tool /\ success' = FALSE
      BY <1>0, <1>4, <2>1, <2>2, PlanHead DEF ChooseTool, Found, Fresh
    <3>2. \/ at' = "execute" /\ euid = "root"
          \/ at' = "look" /\ goal' = "privilege"
      BY <1>4, <2>2 DEF ChooseTool, Found
    <3> QED BY <1>0, <2>1, <2>2, <3>1, <3>2 DEF InProgress, Executed, Fresh
  <2>3. CASE ~Valid(op, name)
    BY <1>0, <1>4, <2>1, <2>3 DEF ChooseTool, Fail, InProgress, Executed, Fresh
  <2> QED BY <2>2, <2>3
<1>5. CASE ChoosePrivilege
  <2>1. through' \in {"sudo", "pkexec"}
    BY <1>0, <1>5, HeadRuns DEF ChoosePrivilege, Found, PlanFits
  <2> QED
    BY <1>0, <1>5, <1>a, <2>1 DEF ChoosePrivilege, Found, InProgress, Executed, Fresh
<1>6. CASE NotAvailable
  BY <1>0, <1>6, <1>a DEF NotAvailable, Missing, Fail, InProgress, Executed, Fresh
<1>7. CASE Execute
  BY <1>0, <1>7, <1>a DEF Execute, InProgress, Executed, Fresh
<1> QED
  BY <1>1, <1>2, <1>3, <1>4, <1>5, <1>6, <1>7 DEF Next

LEMMA SuccessStep == ActionInv /\ [Next]_vars => SuccessMeansDone'
<1> SUFFICES ASSUME ActionInv, [Next]_vars PROVE SuccessMeansDone'
  OBVIOUS
<1>0. TypeOK /\ InProgress /\ SuccessMeansDone
  BY DEF ActionInv
<1> USE DEF host, caller, action, outcome
<1>1. CASE Look \/ ToolsChange \/ Waiting \/ UNCHANGED vars \/ ChoosePrivilege
  BY <1>0, <1>1 DEF Look, ToolsChange, Waiting, vars, ChoosePrivilege, SuccessMeansDone
<1>2. CASE ChooseBackend
  BY <1>0, <1>2 DEF ChooseBackend, Found, Missing, InProgress, SuccessMeansDone
<1>3. ASSUME NEW o \in Ops, NEW n \in Names \cup {NoName}, Begin(o, n)
      PROVE  SuccessMeansDone'
  BY <1>3 DEF Begin, Fail, SuccessMeansDone
<1>4. CASE ChooseTool \/ NotAvailable
  BY <1>0, <1>4
     DEF ChooseTool, NotAvailable, Found, Missing, Fail, InProgress, Fresh, SuccessMeansDone
<1>5. CASE Execute
  <2>1. executed = <<>> /\ success = FALSE
    BY <1>0, <1>5 DEF Execute, InProgress, Fresh
  <2>2. CASE \E ok \in BOOLEAN :
               executed' = Append(executed, Ran(ok)) /\ success' = (ok /\ ~blind)
    <3>1. PICK ok \in BOOLEAN :
            executed' = Append(executed, Ran(ok)) /\ success' = (ok /\ ~blind)
      BY <2>2
    <3>2. executed' = <<Ran(ok)>>
      BY <2>1, <3>1
    <3>3. Len(executed') = 1 /\ executed'[1] = Ran(ok) /\ executed' # <<>>
      BY <3>2
    <3>4. Ran(ok).op = op /\ Ran(ok).name = name /\ Ran(ok).ok = ok /\ Ran(ok).as = "root"
      BY <1>0, <1>5 DEF Ran, Execute, InProgress
    <3> QED BY <1>5, <3>1, <3>3, <3>4 DEF Execute, SuccessMeansDone
  <2>3. CASE success' = FALSE /\ UNCHANGED executed
    BY <2>1, <2>3 DEF SuccessMeansDone
  <2> QED BY <1>5, <2>2, <2>3 DEF Execute
<1> QED
  BY <1>1, <1>2, <1>3, <1>4, <1>5 DEF Next
--------------------------------------------------------------------------------
(* Every state has the types of TypeOK.                                        *)
THEOREM TypeCorrect == Spec => []TypeOK
<1>1. ActionInv /\ [Next]_vars => ActionInv'
  BY TypeStep, PlanFitsStep, InProgressStep, SuccessStep DEF ActionInv
<1>2. ActionInv => TypeOK
  BY DEF ActionInv
<1> QED BY ActionInit, <1>1, <1>2, PTL DEF Spec

(* A tool is run at most once for an action, for that action, and the action   *)
(* succeeds only if the tool did, as root; it fails after a tool that did only *)
(* if exit statuses are lost: see SuccessMeansDone.                            *)
THEOREM SuccessIsHonest == Spec => []SuccessMeansDone
<1>1. ActionInv /\ [Next]_vars => ActionInv'
  BY TypeStep, PlanFitsStep, InProgressStep, SuccessStep DEF ActionInv
<1>2. ActionInv => SuccessMeansDone
  BY DEF ActionInv
<1> QED BY ActionInit, <1>1, <1>2, PTL DEF Spec

(* Whatever names the listings return and whatever the locale is, no tool is   *)
(* given one that starts with a dash or has a byte no check allows, and no     *)
(* letter beyond ASCII outside of an 8-bit locale: see NamesAreChecked.        *)
THEOREM NamesStayChecked == Spec => []NamesAreChecked
<1>1. ActionInv /\ [Next]_vars => ActionInv'
  BY TypeStep, PlanFitsStep, InProgressStep, SuccessStep DEF ActionInv
<1>2. ActionInv => NamesAreChecked
  <2> SUFFICES ASSUME ActionInv, NEW i \in DOMAIN executed, executed[i].name # NoName
               PROVE  Checked(executed[i].op, executed[i].name)
    BY DEF NamesAreChecked, Checked
  <2>1. i = 1 /\ executed # <<>> /\ executed[1].name = name /\ executed[1].op = op
    BY DEF ActionInv, TypeOK, SuccessMeansDone
  <2>2. Valid(op, name) /\ op \in Ops
    BY <2>1 DEF ActionInv, Executed
  <2>3. op \in Ops \ {"update", "upgrade"} /\ name \in Names
    BY <2>1, <2>2 DEF ActionInv, Executed, TypeOK
  <2> QED BY <2>1, <2>2, <2>3, ValidNames
<1> QED BY ActionInit, <1>1, <1>2, PTL DEF Spec

(* No command that locks root is ever run: see RootStaysUnlocked.              *)
THEOREM RootIsNeverLocked == Spec => []RootStaysUnlocked
<1>1. ActionInv /\ [Next]_vars => ActionInv'
  BY TypeStep, PlanFitsStep, InProgressStep, SuccessStep DEF ActionInv
<1>2. ActionInv => RootStaysUnlocked
  <2> SUFFICES ASSUME ActionInv, NEW i \in DOMAIN executed, executed[i].op = "lock"
               PROVE  ~executed[i].name.root
    BY DEF RootStaysUnlocked
  <2>1. i = 1 /\ executed # <<>> /\ executed[1].name = name /\ executed[1].op = op
    BY DEF ActionInv, TypeOK, SuccessMeansDone
  <2>2. op \in Ops \ {"update", "upgrade"} /\ name \in Names /\ Valid(op, name)
    BY <2>1 DEF ActionInv, Executed, TypeOK
  <2> QED BY <2>1, <2>2, ValidNames
<1> QED BY ActionInit, <1>1, <1>2, PTL DEF Spec
--------------------------------------------------------------------------------
LEMMA SearchingInit == Init => Searching
<1> SUFFICES ASSUME Init PROVE Searching
  OBVIOUS
<1>1. plan = BackendPlan /\ always = tools /\ ever = tools
  BY DEF Init
<1>2. BackendPlan[1] = Need("apt", AptTools) /\ Tail(BackendPlan) = Rest["apt"]
  BY DEF BackendPlan, Rest
<1>3. BackendPlan # <<>>
  BY DEF BackendPlan
<1>4. /\ plan[1].runs = "apt" /\ plan[1].needs = AptTools
  BY <1>1, <1>2 DEF Need
<1>5. {AptTools[i] : i \in DOMAIN AptTools} = Required["apt"]
  BY DEF AptTools, Required
<1>6. GivenUp(Before["apt"]) /\ "apt" \in Backends
  BY DEF GivenUp, Before, Backends
<1> QED BY <1>1, <1>2, <1>3, <1>4, <1>5, <1>6 DEF Searching

(* The next alternative starts with everything its backend requires.           *)
LEMMA NextBackend ==
  ASSUME NEW b \in Backends, Rest[b] # <<>>
  PROVE  LET c == Rest[b][1].runs  s == Rest[b][1].needs IN
         /\ c \in Backends /\ Tail(Rest[b]) = Rest[c]
         /\ Before[c] = Before[b] \cup {b}
         /\ {s[i] : i \in DOMAIN s} = Required[c]
<1>1. CASE b = "apt"
  <2>1. Rest[b][1] = Need("dnf", <<"dnf", "rpm">>) /\ Tail(Rest[b]) = Rest["dnf"]
    BY <1>1 DEF Rest
  <2>2. Before["dnf"] = Before["apt"] \cup {"apt"}
    BY DEF Before
  <2>3. LET s == <<"dnf", "rpm">> IN {s[i] : i \in DOMAIN s} = Required["dnf"]
    BY DEF Required
  <2> QED BY <1>1, <2>1, <2>2, <2>3 DEF Need, Backends
<1>2. CASE b = "dnf"
  <2>1. Rest[b][1] = Need("pacman", <<"pacman">>) /\ Tail(Rest[b]) = Rest["pacman"]
    BY <1>2 DEF Rest
  <2>2. Before["pacman"] = Before["dnf"] \cup {"dnf"}
    BY DEF Before
  <2>3. LET s == <<"pacman">> IN {s[i] : i \in DOMAIN s} = Required["pacman"]
    BY DEF Required
  <2>4. Rest[b][1].runs = "pacman" /\ Rest[b][1].needs = <<"pacman">>
    BY <2>1 DEF Need
  <2> QED BY <1>2, <2>1, <2>2, <2>3, <2>4 DEF Backends
<1>3. b # "pacman"
  BY DEF Rest
<1> QED BY <1>1, <1>2, <1>3 DEF Backends

LEMMA HeadAndRest ==
  ASSUME NEW s \in Seq(Tool), s # <<>>
  PROVE  {s[i] : i \in DOMAIN s} = {Tail(s)[i] : i \in DOMAIN Tail(s)} \cup {Head(s)}
<1> DEFINE n == Len(s)
<1>1. n \in Nat /\ n >= 1 /\ DOMAIN s = 1 .. n /\ DOMAIN Tail(s) = 1 .. n - 1
  OBVIOUS
<1>2. Head(s) = s[1] /\ \A i \in 1 .. n - 1 : Tail(s)[i] = s[i + 1]
  OBVIOUS
<1>3. \A i \in 1 .. n : i = 1 \/ (i - 1 \in 1 .. n - 1 /\ s[i] = Tail(s)[i - 1])
  BY <1>1, <1>2
<1>4. \A i \in 1 .. n - 1 : i + 1 \in 1 .. n
  BY <1>1
<1>5. 1 \in 1 .. n
  BY <1>1
<1> HIDE DEF n
<1>6. ASSUME NEW x \in {s[i] : i \in DOMAIN s}
      PROVE  x \in {Tail(s)[i] : i \in DOMAIN Tail(s)} \cup {Head(s)}
  BY <1>1, <1>2, <1>3
<1>7. ASSUME NEW x \in {Tail(s)[i] : i \in DOMAIN Tail(s)} \cup {Head(s)}
      PROVE  x \in {s[i] : i \in DOMAIN s}
  BY <1>1, <1>2, <1>4, <1>5
<1> QED BY <1>6, <1>7

LEMMA LastBackend ==
  ASSUME NEW b \in Backends, Rest[b] = <<>>
  PROVE  Backends = Before[b] \cup {b}
BY DEF Backends, Rest, Before

LEMMA SearchingStep ==
  ActionInv /\ Searching /\ FirstAvailable /\ [Next]_vars => Searching' /\ FirstAvailable'
<1> SUFFICES ASSUME ActionInv, Searching, FirstAvailable, [Next]_vars
             PROVE  Searching' /\ FirstAvailable'
  OBVIOUS
<1>0. TypeOK
  BY DEF ActionInv
<1> USE DEF host, caller, action, outcome
<1>1. CASE Look
  <2>1. StartingUp' <=> StartingUp
    BY <1>1 DEF Look, StartingUp
  <2>2. UNCHANGED <<always, ever, tools, backend>>
    BY <1>1 DEF Look
  <2>3. FirstAvailable'
    BY <2>1, <2>2 DEF FirstAvailable
  <2>4. ASSUME StartingUp PROVE Searching'
    <3> DEFINE Left(q) == {q[i] : i \in DOMAIN q}
    <3>1. /\ plan' = IF Head(plan[1].needs) \in tools THEN Shorter(plan) ELSE Tail(plan)
          /\ plan \in Plan /\ plan # <<>> /\ plan[1].needs # <<>>
      BY <1>0, <1>1, LookShrinks
    <3>0. /\ plan[1].runs \in Backends /\ Tail(plan) = Rest[plan[1].runs]
          /\ GivenUp(Before[plan[1].runs])
          /\ Left(plan[1].needs) \subseteq Required[plan[1].runs]
          /\ Required[plan[1].runs] \subseteq ever \cup Left(plan[1].needs)
          /\ always \subseteq tools /\ tools \subseteq ever
      BY <2>4, <3>1 DEF Searching
    <3>9. PICK b \in Backends : b = plan[1].runs
      BY <3>0
    <3>3. PICK s \in Seq(Tool) : s = plan[1].needs
      BY <1>0, <3>1, PlanHead
    <3>2. /\ Tail(plan) = Rest[b] /\ GivenUp(Before[b])
          /\ Left(s) \subseteq Required[b] /\ Required[b] \subseteq ever \cup Left(s)
          /\ always \subseteq tools /\ tools \subseteq ever /\ s # <<>>
      BY <3>0, <3>1, <3>3, <3>9
    <3>8. Left(s) = Left(Tail(s)) \cup {Head(s)}
      BY <3>2, HeadAndRest
    <3> HIDE DEF Left
    <3>4. CASE Head(s) \in tools
      <4>1. /\ Shorter(plan) # <<>> /\ Tail(Shorter(plan)) = Rest[b]
            /\ Shorter(plan)[1].needs = Tail(s) /\ Shorter(plan)[1].runs = b
        <5>1. Len(plan) \in Nat /\ Len(plan) >= 1
          BY <3>1 DEF Plan
        <5> QED BY <3>1, <3>2, <3>3, <3>9, <5>1, PlanShrinks
      <4>2. Left(Tail(s)) \subseteq Required[b] /\ Required[b] \subseteq ever \cup Left(Tail(s))
        BY <3>2, <3>4, <3>8
      <4>3. /\ plan' # <<>> /\ plan'[1].runs = b /\ plan'[1].needs = Tail(s)
            /\ Tail(plan') = Rest[b]
        BY <3>1, <3>3, <3>4, <4>1
      <4>4. GivenUp(Before[b])'
        BY <2>2, <3>2 DEF GivenUp
      <4>5. Left(plan'[1].needs) = Left(Tail(s))
        BY <4>3
      <4> QED BY <2>2, <3>2, <4>2, <4>3, <4>4, <4>5 DEF Searching, Left
    <3>5. CASE Head(s) \notin tools
      <4>1. Head(s) \in Left(s)
        BY <3>8
      <4>2. ~(Required[b] \subseteq always)
        BY <3>2, <3>5, <4>1
      <4>3. plan' = Rest[b]
        BY <3>1, <3>2, <3>3, <3>5
      <4>4. GivenUp(Before[b] \cup {b})
        BY <3>2, <4>2 DEF GivenUp
      <4>5. CASE Rest[b] = <<>>
        BY <2>2, <3>2, <4>3, <4>4, <4>5, LastBackend DEF Searching, GivenUp
      <4>6. CASE Rest[b] # <<>>
        <5>1. /\ Rest[b][1].runs \in Backends /\ Tail(Rest[b]) = Rest[Rest[b][1].runs]
              /\ Before[Rest[b][1].runs] = Before[b] \cup {b}
              /\ Left(Rest[b][1].needs) = Required[Rest[b][1].runs]
          BY <4>6, NextBackend DEF Left
        <5>2. PICK c \in Backends : c = Rest[b][1].runs
          BY <5>1
        <5>3. GivenUp(Before[c])'
          BY <2>2, <4>4, <5>1, <5>2 DEF GivenUp
        <5>4. /\ plan' # <<>> /\ plan'[1].runs = c /\ Tail(plan') = Rest[c]
              /\ Left(plan'[1].needs) = Required[c]
          BY <4>3, <4>6, <5>1, <5>2
        <5> QED BY <2>2, <3>2, <5>3, <5>4 DEF Searching, Left
      <4> QED BY <4>5, <4>6
    <3> QED BY <3>4, <3>5
  <2>5. ~StartingUp => Searching'
    BY <2>1 DEF Searching
  <2> QED BY <2>3, <2>4, <2>5
<1>2. CASE ChooseBackend
  <2>1. ~StartingUp' /\ StartingUp /\ UNCHANGED <<always, ever, plan>>
    BY <1>2 DEF ChooseBackend, StartingUp, Found, Missing
  <2>2. CASE Found("backend") /\ backend' = plan[1].runs
    <3> DEFINE b == plan[1].runs  s == plan[1].needs
    <3>1. /\ b \in Backends /\ GivenUp(Before[b])
          /\ Required[b] \subseteq ever \cup {s[i] : i \in DOMAIN s}
      BY <2>1, <2>2 DEF Searching, Found
    <3>2. {s[i] : i \in DOMAIN s} = {}
      BY <2>2 DEF Found
    <3> QED BY <2>1, <2>2, <3>1, <3>2 DEF Searching, FirstAvailable, GivenUp
  <2>3. CASE Missing("backend") /\ backend' = "none"
    BY <2>1, <2>3 DEF Searching, FirstAvailable, GivenUp, Missing, Before
  <2> QED BY <1>2, <2>2, <2>3 DEF ChooseBackend
<1>3. ASSUME NEW o \in Ops, NEW n \in Names \cup {NoName}, Begin(o, n)
      PROVE  Searching' /\ FirstAvailable'
  BY <1>3 DEF Begin, Fail, StartingUp, Searching, FirstAvailable
<1>4. CASE ChooseTool \/ ChoosePrivilege \/ NotAvailable \/ Execute
  BY <1>4 DEF ChooseTool, ChoosePrivilege, NotAvailable, Execute, Found, Missing, Fail,
              StartingUp, Searching, FirstAvailable
<1>5. CASE ToolsChange
  <2>1. CASE StartingUp
    <3>1. /\ always' = always \cap tools' /\ ever' = ever \cup tools'
          /\ UNCHANGED <<at, goal, plan, backend>>
      BY <1>5, <2>1 DEF ToolsChange
    <3>2. \A bs : GivenUp(bs) => GivenUp(bs)'
      BY <3>1 DEF GivenUp
    <3>3. Searching'
      BY <2>1, <3>1, <3>2 DEF Searching, StartingUp
    <3> QED BY <2>1, <3>1, <3>3 DEF FirstAvailable, StartingUp
  <2>2. CASE ~StartingUp
    BY <1>5, <2>2 DEF ToolsChange, StartingUp, Searching, FirstAvailable
  <2> QED BY <2>1, <2>2
<1>6. CASE Waiting \/ UNCHANGED vars
  BY <1>6 DEF Waiting, vars, StartingUp, Searching, FirstAvailable, GivenUp
<1> QED
  BY <1>1, <1>2, <1>3, <1>4, <1>5, <1>6 DEF Next

(* Whatever changes on PATH while the application starts, its backend is one   *)
(* that was complete, and all before it were incomplete: see FirstAvailable.   *)
THEOREM BackendIsFirstAvailable == Spec => []FirstAvailable
<1>1. Init => ActionInv /\ Searching /\ FirstAvailable
  BY ActionInit, SearchingInit DEF Init, FirstAvailable, StartingUp
<1>2. ActionInv /\ Searching /\ FirstAvailable /\ [Next]_vars
        => ActionInv' /\ Searching' /\ FirstAvailable'
  BY TypeStep, PlanFitsStep, InProgressStep, SuccessStep, SearchingStep DEF ActionInv
<1> QED BY <1>1, <1>2, PTL DEF Spec
================================================================================
