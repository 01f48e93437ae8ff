---------------------------- MODULE ProcessControl ----------------------------
(* ProcessManager between the process table of the kernel, which changes all   *)
(* the time, and the process page: a listing reads /proc one file at a time,   *)
(* and a signal is sent by PID to a process chosen from an older listing.      *)
(* Processes are numbered in the order in which they start, so that two        *)
(* processes that had the same PID one after the other can be told apart.      *)
EXTENDS Integers, FiniteSets

CONSTANTS
  Pids,       \* the PIDs that can be in use
  Self,       \* the PID of the application
  PidReuse,   \* may the kernel give a freed PID to a new process?
  MaxBorn     \* bound: processes started over time

ASSUME PidsAssumption ==
  /\ Pids \subseteq Nat \ {0} /\ IsFiniteSet(Pids)
  /\ Self \in Pids /\ 1 \in Pids /\ Self # 1
ASSUME BoundsAssumption == PidReuse \in BOOLEAN /\ MaxBorn \in Nat

VARIABLES
  running,    \* for each PID, the process that has it, 0 when none has
  born,       \* processes started so far
  used,       \* PIDs that were ever in use
  hidden,     \* PIDs whose stat file cannot be read, or does not parse
  at,         \* what the application does: see TypeOK
  left,       \* PIDs the directory iterator has still to visit
  entry,      \* the record being read from /proc/<pid>
  table,      \* the records of the last listing (their order is not modelled)
  target,     \* the record a confirmation names
  sent,       \* the process meant by the last signal, the one it reached, and
              \* (history) how many had started when the listing used was begun
  startBorn,  \* history: processes started before the running scan began
  ended,      \* history: processes that ended since the last scan began
  veiled      \* history: PIDs that were hidden at some time since then

host == <<running, born, used, hidden>>
scan == <<left, entry, table, startBorn>>
past == <<ended, veiled>>
vars == <<host, at, scan, target, sent, past>>

Nobody   == 0
NoRecord == [pid |-> 0, stat |-> Nobody, user |-> Nobody, cmd |-> Nobody]
NotSent  == [meant |-> Nobody, hit |-> Nobody, since |-> 0]
Alive    == {p \in Pids : running[p] # Nobody}
--------------------------------------------------------------------------------
(* init and the application run from the start; the first listing is read when *)
(* the page is first shown.                                                    *)
Init ==
  /\ running = [p \in Pids |-> IF p = 1 THEN 1 ELSE IF p = Self THEN 2 ELSE Nobody]
  /\ born = 2 /\ used = {1, Self}
  /\ at = "scan" /\ left = Pids /\ entry = NoRecord /\ table = {}
  /\ target = NoRecord /\ sent = NotSent
  /\ startBorn = 2 /\ ended = {} /\ hidden = {} /\ veiled = {}

(* Mutant of StartScan: the new records are appended to the old ones.          *)
AppendRecords ==
  /\ at' = "scan" /\ left' = Pids
  /\ entry' = NoRecord /\ table' = table
  /\ startBorn' = born /\ ended' = {} /\ veiled' = hidden

(* list_processes starts: the records of the page are replaced by its result.  *)
StartScan ==
  /\ at' = "scan" /\ left' = Pids
  /\ entry' = NoRecord /\ table' = {}
  /\ startBorn' = born /\ ended' = {} /\ veiled' = hidden

(* The directory is read in PID order.                                         *)
NextEntry(p) == at = "scan" /\ p \in left /\ \A q \in left : p <= q

(* Mutant of Skip: a process that is gone ends the loop (break for continue).  *)
BreakOff ==
  /\ \E p \in Pids :
        NextEntry(p) /\ (running[p] = Nobody \/ running[p] > startBorn \/ p \in hidden)
  /\ left' = {}
  /\ UNCHANGED <<host, at, entry, table, startBorn, target, sent, past>>

(* The process is gone, or it started after the iterator buffered the names,   *)
(* or its stat cannot be read or does not parse: continue with the next entry. *)
Skip ==
  /\ \E p \in Pids :
        /\ NextEntry(p)
        /\ running[p] = Nobody \/ running[p] > startBorn \/ p \in hidden
        /\ left' = left \ {p}
  /\ UNCHANGED <<host, at, entry, table, startBorn, target, sent, past>>

ReadStat ==
  /\ \E p \in Alive \ hidden :
        /\ NextEntry(p)
        /\ left' = left \ {p}
        /\ entry' = [NoRecord EXCEPT !.pid = p, !.stat = running[p]]
  /\ at' = "user"
  /\ UNCHANGED <<host, table, startBorn, target, sent, past>>

(* Mutant of ReadUser: the path of the status file is that of the application. *)
StatusOfSelf ==
  /\ at = "user"
  /\ entry' = [entry EXCEPT !.user = running[Self]]
  /\ at' = "comm"
  /\ UNCHANGED <<host, left, table, startBorn, target, sent, past>>

(* The status file, and then comm and cmdline, are opened by path: they belong *)
(* to whoever has the PID by then, and read empty when nobody has.             *)
ReadUser ==
  /\ at = "user"
  /\ entry' = [entry EXCEPT !.user = running[entry.pid]]
  /\ at' = "comm"
  /\ UNCHANGED <<host, left, table, startBorn, target, sent, past>>

(* The name of the program is kept in case there is no command line.           *)
ReadFallback ==
  /\ at = "comm"
  /\ entry' = [entry EXCEPT !.cmd = running[entry.pid]]
  /\ at' = "command"
  /\ UNCHANGED <<host, left, table, startBorn, target, sent, past>>

(* The command line of a process, also of a running one, may be empty.         *)
ReadCommand ==
  /\ at = "command"
  /\ \E cmd \in {entry.cmd} \cup ({running[entry.pid]} \ {Nobody}) :
        table' = table \cup {[entry EXCEPT !.cmd = cmd]}
  /\ at' = "scan"
  /\ UNCHANGED <<host, left, entry, startBorn, target, sent, past>>

EndScan ==
  /\ at = "scan" /\ left = {}
  /\ at' = "idle"
  /\ UNCHANGED <<host, scan, target, sent, past>>

Refresh ==
  /\ at = "idle" /\ StartScan
  /\ UNCHANGED <<host, target, sent>>
--------------------------------------------------------------------------------
(* t or K on a record: the confirmation names its PID and command.             *)
Ask ==
  /\ at = "idle"
  /\ \E r \in table : target' = r
  /\ at' = "ask" /\ sent' = NotSent
  /\ UNCHANGED <<host, scan, past>>

Refuse ==
  /\ at = "ask" /\ at' = "idle"
  /\ UNCHANGED <<host, scan, target, sent, past>>

(* terminate: the protected processes are refused; kill fails when nobody has  *)
(* the PID, or when the process belongs to another user.                       *)
Protected(pid) == pid <= 1 \/ pid = Self

Signal(r, hit) == [meant |-> r.stat, hit |-> hit, since |-> startBorn]

(* Mutant of Terminate: the row is looked up again instead of being copied.     *)
TerminateOtherRow ==
  /\ at = "ask"
  /\ \E r \in table :
        sent' = Signal(target, IF Protected(r.pid) THEN Nobody ELSE running[r.pid])
  /\ StartScan
  /\ UNCHANGED <<host, target>>

Terminate ==
  /\ at = "ask"
  /\ \/ sent' = Signal(target, Nobody)
     \/ ~Protected(target.pid) /\ sent' = Signal(target, running[target.pid])
  /\ StartScan
  /\ UNCHANGED <<host, target>>
--------------------------------------------------------------------------------
(* The rest of the system.  A signalled process may also catch the signal and  *)
(* go on, so its end is no step of its own.                                    *)
ProcessStarts ==
  /\ born < MaxBorn
  /\ \E p \in Pids \ Alive :
        /\ PidReuse \/ p \notin used
        /\ running' = [running EXCEPT ![p] = born + 1]
        /\ used' = used \cup {p}
        /\ hidden' \in {hidden, hidden \cup {p}} /\ veiled' = veiled \cup hidden'
  /\ born' = born + 1
  /\ UNCHANGED <<at, scan, target, sent, ended>>

ProcessEnds ==
  /\ \E p \in Alive \ {1, Self} :
        /\ running' = [running EXCEPT ![p] = Nobody]
        /\ ended' = ended \cup {running[p]} /\ hidden' = hidden \ {p}
  /\ UNCHANGED <<born, used, at, scan, target, sent, veiled>>

(* A process gives itself a name with a line break in it, with which its stat  *)
(* does not parse (see StatSurvivesNames of Formats), or another again; or it  *)
(* changes its credentials where /proc shows everybody only what is his.       *)
StatChanges ==
  /\ \E p \in Alive \ {Self} :
        hidden' = IF p \in hidden THEN hidden \ {p} ELSE hidden \cup {p}
  /\ veiled' = veiled \cup hidden'
  /\ UNCHANGED <<running, born, used, at, scan, target, sent, ended>>

Next ==
  \/ Skip \/ ReadStat \/ ReadUser \/ ReadFallback \/ ReadCommand \/ EndScan
  \/ Refresh \/ Ask \/ Refuse \/ Terminate
  \/ ProcessStarts \/ ProcessEnds \/ StatChanges

Spec == Init /\ [][Next]_vars
--------------------------------------------------------------------------------
(* Types.                                                                      *)
Process == Nat
Record  == [pid : Pids, stat : Process, user : Process, cmd : Process]

TypeOK ==
  /\ running \in [Pids -> Process] /\ born \in Nat /\ used \in SUBSET Pids
  /\ at \in {"idle", "scan", "user", "comm", "command", "ask"}
  /\ left \in SUBSET Pids /\ entry \in Record \cup {NoRecord}
  /\ table \in SUBSET Record /\ target \in Record \cup {NoRecord}
  /\ sent \in [meant : Process, hit : Process, since : Nat]
  /\ startBorn \in Nat /\ ended \in SUBSET Process
  /\ hidden \in SUBSET Pids /\ veiled \in SUBSET Pids

(* A finished listing has every process that lived through the whole of it and *)
(* whose stat could be read all that time, although others end, or cannot be   *)
(* read, while it reads their files (process_manager.cpp:110-134).             *)
ListingIsComplete ==
  at = "idle" =>
    \A p \in Alive \ veiled :
       running[p] <= startBorn => \E r \in table : r.stat = running[p]

(* No two records of a listing have the same PID, and none describes a process *)
(* that had ended before the listing began.                                    *)
ListingIsCurrent ==
  /\ \A r, s \in table : r.pid = s.pid => r = s
  /\ \A r \in table : \/ r.stat \in ended \/ running[r.pid] = r.stat

(* The files of a process are opened one after the other (process_manager.cpp:  *)
(* 127-159), yet a record never mixes it with another process the listing has, *)
(* or had: what is not its own is empty, or, if the kernel uses PIDs again, of *)
(* a process that started after the listing began.  The confirmation of a      *)
(* signal names the command of the record.                                     *)
RecordsAreWhole ==
  \A r \in table : \A p \in {r.user, r.cmd} :
     p \in {Nobody, r.stat} \/ (PidReuse /\ p > startBorn)

(* A signal reaches the process whose record was selected and confirmed, or     *)
(* none, however old the listing is; if the kernel uses PIDs again it may reach *)
(* a process that started after the listing, but never another one that ran    *)
(* already when the user looked (process_manager.cpp:171-179,                  *)
(* application.cpp:388-396).  README.md:80 "t: send SIGTERM to the selected    *)
(* process" is therefore true only until the kernel uses its PID again.        *)
SignalSparesOthers ==
  sent.hit \in {Nobody, sent.meant} \/ (PidReuse /\ sent.hit > sent.since)
================================================================================
