--------------------------- MODULE PrivilegedActions ---------------------------
(* What happens between the confirmation of a mutation and the child process:  *)
(* the managers check the name, look for a tool on PATH, look for a way to     *)
(* become root, and execute.  Every lookup is a step of its own, because tools *)
(* are installed and removed while the application runs; the choice of the     *)
(* package backend at startup is made of the same lookups.                     *)
(* Characters matter by the classes the name checks tell apart.                *)
EXTENDS Integers, Sequences

CONSTANTS
  Names,       \* the names an action may be called with
  HostTools,   \* the tools that may be on PATH
  Locales,     \* the locales of the user: TRUE for an 8-bit character set
  MaxChanges   \* bound: tools installed or removed over time

(* "high lower" and "high letter" are bytes above 127 that the locale of an     *)
(* 8-bit character set counts as lowercase letters and as other letters; no    *)
(* other locale does.  No locale counts an "other" as a letter or a digit.     *)
HighLetters == {"high lower", "high letter"}
CharClass == HighLetters \cup
  {"lower", "upper", "digit", "-", "_", ".", ":", "+", "@", "\\", "other"}
Name == [first : CharClass, rest : SUBSET CharClass, size : Nat \ {0},
         service : BOOLEAN, root : BOOLEAN]

NoName == [first |-> "lower", rest |-> {}, size |-> 0, service |-> FALSE, root |-> FALSE]

ASSUME NamesAssumption ==
  /\ Names \subseteq Name
  /\ \A n \in Names :
        n.root => n.first = "lower" /\ n.rest = {"lower"} /\ n.size = 4 /\ ~n.service
ASSUME HostAssumption  == MaxChanges \in Nat /\ Locales \subseteq BOOLEAN

UserOps    == {"create", "lock", "unlock"}
PackageOps == {"update", "upgrade", "install", "remove"}
ServiceOps == {"start", "stop", "restart", "enable", "disable"}
Ops == UserOps \cup PackageOps \cup ServiceOps
Backends == {"apt", "dnf", "pacman"}

VARIABLES
  tools,     \* the tools on PATH
  changes,   \* how often that changed
  euid,      \* "root" or "user"
  eightBit,  \* the user's locale has an 8-bit character set (widgets.cpp:20)
  blind,     \* SIGCHLD was ignored when the application started
  at,        \* what the application does: "idle", "look" or "execute"
  goal,      \* what it looks for: "backend", "tool" or "privilege"
  plan,      \* the alternatives it has still to try
  backend,   \* the package backend
  op, name,  \* the action in progress
  command,   \* the alternative chosen for it
  through,   \* how it becomes root: "nothing", "sudo" or "pkexec"
  executed,  \* history: the commands executed since the action began
  success,   \* ActionResult::success of the last action
  always,    \* history: tools that were on PATH all through startup
  ever       \* history: tools that were on PATH at some time in startup

host    == <<tools, changes, always, ever>>
caller  == <<euid, eightBit, blind>>
action  == <<op, name>>
outcome == <<executed, success>>
vars == <<host, caller, at, goal, plan, backend, action, command, through, outcome>>

(* An alternative: the executables looked for, in order, and what is run.      *)
Need(runs, needs) == [runs |-> runs, needs |-> needs]

AptTools == <<"apt", "apt-get", "apt-cache", "dpkg-query">>

(* Mutant of BackendPlan: pacman is looked for first.                          *)
PacmanFirst ==
  <<Need("pacman", <<"pacman">>), Need("apt", AptTools), Need("dnf", <<"dnf", "rpm">>)>>

BackendPlan ==
  <<Need("apt", AptTools), Need("dnf", <<"dnf", "rpm">>), Need("pacman", <<"pacman">>)>>

ToolPlan(o) ==
  CASE o = "create"             -> <<Need("useradd", <<"useradd">>), Need("pw", <<"pw">>)>>
    [] o \in {"lock", "unlock"} -> <<Need("usermod", <<"usermod">>), Need("pw", <<"pw">>)>>
    [] o \in ServiceOps         -> <<Need("systemctl", <<"systemctl">>)>>
    [] o \in PackageOps         ->
         CASE backend = "apt" -> <<Need("apt-get", AptTools)>>
           [] backend = "dnf" -> <<Need("dnf", <<"dnf", "rpm">>)>>
           [] OTHER           -> <<Need("pacman", <<"pacman">>)>>

PrivilegePlan == <<Need("sudo", <<"sudo">>), Need("pkexec", <<"pkexec">>)>>

(* The name checks.  isalnum and islower follow the locale of the user; the    *)
(* names of accounts are compared with ASCII letters.                          *)
LocaleLower   == {"lower"} \cup IF eightBit THEN {"high lower"} ELSE {}
LocaleLetters == {"lower", "upper"} \cup IF eightBit THEN HighLetters ELSE {}

Chars(n) == n.rest \cup {n.first}

ValidUserName(n) ==
  /\ n.size \in 1 .. 32
  /\ n.first \in {"lower", "_"} /\ n.rest \subseteq {"lower", "digit", "_", "-"}

(* Mutant of ValidPackageName: the first character is checked like the others. *)
AnyFirst(b, n) ==
  /\ n.size \in 1 .. 255
  /\ Chars(n) \subseteq LocaleLower \cup {"digit", "+", "-", ".", ":"} \cup
                        (IF b = "apt" THEN {} ELSE {"_"})

ValidPackageName(b, n) ==
  /\ n.size \in 1 .. 255
  /\ n.first \in LocaleLetters \cup {"digit"}
  /\ Chars(n) \subseteq LocaleLower \cup {"digit", "+", "-", ".", ":"} \cup
                        (IF b = "apt" THEN {} ELSE {"_"})

ValidServiceName(n) ==
  /\ n.size \in 1 .. 255 /\ n.service
  /\ n.first # "-"
  /\ Chars(n) \subseteq LocaleLetters \cup {"digit", "-", "_", ".", ":", "@", "\\"}

(* Mutant of Valid: locking makes no exception for root.                       *)
RootLikeOthers(o, n) ==
  CASE o \in UserOps -> ValidUserName(n)
    [] o \in ServiceOps -> ValidServiceName(n)
    [] o \in {"install", "remove"} -> ValidPackageName(backend, n)
    [] OTHER -> TRUE

Valid(o, n) ==
  CASE o = "create"                -> ValidUserName(n)
    [] o = "lock"                  -> ValidUserName(n) /\ ~n.root
    [] o = "unlock"                -> ValidUserName(n) \/ n.root
    [] o \in ServiceOps            -> ValidServiceName(n)
    [] o \in {"install", "remove"} -> ValidPackageName(backend, n)
    [] o \in {"update", "upgrade"} -> TRUE
--------------------------------------------------------------------------------
(* The application starts, and chooses its package backend.                    *)
Init ==
  /\ tools \in SUBSET HostTools /\ changes = 0 /\ always = tools /\ ever = tools
  /\ euid \in {"root", "user"} /\ eightBit \in Locales /\ blind \in BOOLEAN
  /\ at = "look" /\ goal = "backend" /\ plan = BackendPlan
  /\ backend = "none" /\ op = "none" /\ name = NoName
  /\ command = "none" /\ through = "nothing"
  /\ executed = <<>> /\ success = FALSE

StartingUp == at = "look" /\ goal = "backend"

(* The first alternative with one executable less to look for.                 *)
Shorter(p) ==
  [p EXCEPT ![1] = [runs |-> p[1].runs, needs |-> Tail(p[1].needs)]]

(* Mutant of Look: what is missing is looked for again.                        *)
LookAgain ==
  /\ at = "look" /\ plan # <<>> /\ plan[1].needs # <<>>
  /\ plan' = IF Head(plan[1].needs) \in tools THEN Shorter(plan) ELSE plan
  /\ UNCHANGED <<host, caller, at, goal, backend, action, command, through, outcome>>

(* executable_on_path for the next executable of the alternative; && stops at  *)
(* the first that is missing, and the next alternative is tried.               *)
Look ==
  /\ at = "look" /\ plan # <<>> /\ plan[1].needs # <<>>
  /\ plan' = IF Head(plan[1].needs) \in tools
             THEN Shorter(plan) ELSE Tail(plan)
  /\ UNCHANGED <<host, caller, at, goal, backend, action, command, through, outcome>>

Found(g) == at = "look" /\ goal = g /\ plan # <<>> /\ plan[1].needs = <<>>
Missing(g) == at = "look" /\ goal = g /\ plan = <<>>

ChooseBackend ==
  /\ \/ Found("backend") /\ backend' = plan[1].runs
     \/ Missing("backend") /\ backend' = "none"
  /\ at' = "idle"
  /\ UNCHANGED <<host, caller, goal, plan, action, command, through, outcome>>

Fail == at' = "idle" /\ success' = FALSE

(* The user confirmed an action.  A new account has a name that was checked    *)
(* before the confirmation; the other names come from a listing.               *)
Begin(o, n) ==
  /\ at = "idle"
  /\ n = NoName <=> o \in {"update", "upgrade"}
  /\ o \in PackageOps => backend # "none"
  /\ o = "create" => ValidUserName(n)
  /\ op' = o /\ name' = n
  /\ executed' = <<>> /\ command' = "none" /\ through' = "nothing"
  /\ IF Valid(o, n) \/ o \in ServiceOps
     THEN /\ at' = "look" /\ goal' = "tool" /\ plan' = ToolPlan(o)
          /\ success' = FALSE
     ELSE Fail /\ UNCHANGED <<goal, plan>>
  /\ UNCHANGED <<host, caller, backend>>

(* A tool was found.  Unit names are checked only now.  Root needs no help.    *)
ChooseTool ==
  /\ Found("tool")
  /\ IF Valid(op, name)
     THEN /\ command' = plan[1].runs
          /\ IF euid = "root" THEN at' = "execute" /\ UNCHANGED <<goal, plan>>
             ELSE goal' = "privilege" /\ plan' = PrivilegePlan /\ UNCHANGED at
          /\ UNCHANGED success
     ELSE Fail /\ UNCHANGED <<command, goal, plan>>
  /\ UNCHANGED <<host, caller, backend, action, through, executed>>

(* Mutant of ChoosePrivilege: the command line does not begin with the prefix. *)
PrefixForgotten ==
  /\ Found("privilege")
  /\ through' = command
  /\ at' = "execute"
  /\ UNCHANGED <<host, caller, goal, plan, backend, action, command, outcome>>

ChoosePrivilege ==
  /\ Found("privilege")
  /\ through' = plan[1].runs
  /\ at' = "execute"
  /\ UNCHANGED <<host, caller, goal, plan, backend, action, command, outcome>>

NotAvailable ==
  /\ Missing("tool") \/ Missing("privilege")
  /\ Fail
  /\ UNCHANGED <<host, caller, goal, plan, backend, action, command, through, executed>>

Ran(ok) ==
  [tool |-> command, op |-> op, name |-> name, ok |-> ok,
   as |-> IF euid = "root" \/ through # "nothing" THEN "root" ELSE "user"]

(* Mutant of Execute: a command that failed is tried again.                    *)
TryAgain ==
  /\ at = "execute"
  /\ \/ /\ command \in tools
        /\ \E ok \in BOOLEAN :
              /\ executed' = Append(executed, Ran(ok)) /\ success' = (ok /\ ~blind)
              /\ at' = IF ok \/ Len(executed) = 1 THEN "idle" ELSE at
     \/ success' = FALSE /\ at' = "idle" /\ UNCHANGED executed
  /\ UNCHANGED <<host, caller, goal, plan, backend, action, command, through>>

(* fork, exec and wait.  A command that ran has an exit status, which is lost  *)
(* when SIGCHLD is ignored: the failed wait is reported as a failure, whatever *)
(* the command did.  The command does not run when fork fails, when it, or     *)
(* what makes it root, is not on PATH any more, or when the password is        *)
(* refused.                                                                    *)
Execute ==
  /\ at = "execute"
  /\ \/ /\ command \in tools /\ (through = "nothing" \/ through \in tools)
        /\ \E ok \in BOOLEAN :
              executed' = Append(executed, Ran(ok)) /\ success' = (ok /\ ~blind)
     \/ success' = FALSE /\ UNCHANGED executed
  /\ at' = "idle"
  /\ UNCHANGED <<host, caller, goal, plan, backend, action, command, through>>

(* A tool is installed or removed by somebody else.                            *)
ToolsChange ==
  /\ changes < MaxChanges /\ changes' = changes + 1
  /\ \E t \in HostTools :
        tools' = IF t \in tools THEN tools \ {t} ELSE tools \cup {t}
  /\ IF StartingUp THEN always' = always \cap tools' /\ ever' = ever \cup tools'
     ELSE UNCHANGED <<always, ever>>
  /\ UNCHANGED <<caller, at, goal, plan, backend, action, command, through, outcome>>

(* Nothing is asked for: the application waits for a key.                      *)
Waiting == at = "idle" /\ UNCHANGED vars

Next ==
  \/ Look \/ ChooseBackend
  \/ \E o \in Ops, n \in Names \cup {NoName} : Begin(o, n)
  \/ ChooseTool \/ ChoosePrivilege \/ NotAvailable \/ Execute
  \/ ToolsChange \/ Waiting

Spec == Init /\ [][Next]_vars
--------------------------------------------------------------------------------
(* Types.                                                                      *)
Tool == {"apt", "apt-get", "apt-cache", "dpkg-query", "dnf", "rpm", "pacman",
         "useradd", "usermod", "pw", "systemctl", "sudo", "pkexec"}
Alternative == [runs : Tool, needs : Seq(Tool)]
Plan == Seq(Alternative)
Execution == [tool : Tool, op : Ops, name : Names \cup {NoName}, ok : BOOLEAN,
              as : {"root", "user"}]

TypeOK ==
  /\ tools \in SUBSET HostTools /\ always \in SUBSET HostTools /\ ever \in SUBSET HostTools
  /\ changes \in Nat
  /\ euid \in {"root", "user"} /\ eightBit \in BOOLEAN /\ blind \in BOOLEAN
  /\ at \in {"idle", "look", "execute"} /\ goal \in {"backend", "tool", "privilege"}
  /\ plan \in Plan /\ backend \in Backends \cup {"none"}
  /\ op \in Ops \cup {"none"} /\ name \in Names \cup {NoName}
  /\ command \in Tool \cup {"none"} /\ through \in {"nothing", "sudo", "pkexec"}
  /\ executed \in Seq(Execution)
  /\ success \in BOOLEAN

(* README.md:13 "the first available backend is selected automatically": the   *)
(* backend chosen had every one of its tools on PATH at some time of startup,  *)
(* and every one before it was incomplete at some time (package_manager.cpp:   *)
(* 496-507), whatever was installed or removed between two lookups.            *)
Required == [apt |-> {"apt", "apt-get", "apt-cache", "dpkg-query"},
             dnf |-> {"dnf", "rpm"}, pacman |-> {"pacman"}]
Before   == [apt |-> {}, dnf |-> {"apt"}, pacman |-> {"apt", "dnf"}, none |-> Backends]

FirstAvailable ==
  ~StartingUp =>
    /\ backend # "none" => Required[backend] \subseteq ever
    /\ \A b \in Before[backend] : ~(Required[b] \subseteq always)

(* At most one command is executed for an action, and it is the action that    *)
(* was asked for.  Success is reported only when that command ran as root and  *)
(* exited with 0; a tool that disappeared since the lookup, a refused password,*)
(* a fork that fails and a failing tool are all reported as a failure, and     *)
(* none leads to a second attempt with the other tool.  A failure is reported  *)
(* of a command that did what was asked only when its exit status was lost     *)
(* (user_manager.cpp:77-119, command.cpp:25-36, 90-117).                       *)
SuccessMeansDone ==
  /\ Len(executed) <= 1
  /\ executed # <<>> => executed[1].op = op /\ executed[1].name = name
  /\ at = "idle" =>
       LET worked == executed # <<>> /\ executed[1].ok /\ executed[1].as = "root"
       IN  (success => worked) /\ (worked => success \/ blind)

(* No command line gets a name that could be read as an option or that holds a *)
(* byte no check allows (core_tests.cpp:52,56,57,88,138,139): some tools are   *)
(* called without "--", so the name checks of three managers carry this        *)
(* alone, each with its own set.  Letters beyond ASCII pass only where the     *)
(* locale of the user has them in its 8-bit set, and never in the name of an   *)
(* account (user_manager.cpp:65-75).                                           *)
NamesAreChecked ==
  \A i \in DOMAIN executed :
     LET n == executed[i].name IN
     n # NoName =>
       /\ n.first # "-" /\ "other" \notin Chars(n)
       /\ Chars(n) \cap HighLetters # {} => eightBit /\ executed[i].op \notin UserOps

(* README.md:92 "Root-account locking is intentionally blocked": no command    *)
(* that locks root is executed (user_manager.cpp:91), by no tool and for no    *)
(* caller, while unlocking root stays possible.                                *)
RootStaysUnlocked ==
  \A i \in DOMAIN executed : executed[i].op = "lock" => ~executed[i].name.root
================================================================================
