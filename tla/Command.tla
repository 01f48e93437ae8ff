-------------------------------- MODULE Command --------------------------------
(* run_command_capture and run_command_interactive: the calling thread, the    *)
(* child it forks, a background process the child may leave behind with a copy *)
(* of its output, and the pipe between them, one system call at a time.        *)
EXTENDS Integers

CONSTANTS
  PipeCapacity,   \* bytes the kernel buffers in a pipe
  ReadMax,        \* size of the buffer of one read
  MaxOutput,      \* bound: bytes the processes of one call write
  MaxCalls        \* bound: calls

ASSUME CommandAssumption ==
  /\ PipeCapacity \in Nat \ {0} /\ ReadMax \in Nat \ {0}
  /\ MaxOutput \in Nat /\ MaxCalls \in Nat

VARIABLES
  caller,     \* the system call the calling thread is about to make
  mode,       \* which of the two functions runs
  callerFds,  \* the ends of the pipe the caller holds open
  child,      \* the life of the child
  code,       \* its exit code, -1 when it has none
  childFds,   \* the ends of the pipe the child holds: "out" is its stdout/stderr
  todo,       \* bytes the child still writes before it exits
  helper,     \* a background process that inherited the child's "out"
  sent,       \* bytes written to the pipe so far
  got,        \* bytes read from it: got+1 .. sent are in the pipe
  readFailed, \* read failed with an error other than EINTR
  result,     \* CommandResult of the last call
  calls,      \* calls made
  autoReap    \* SIGCHLD is ignored: the kernel reaps children itself

pipeVars  == <<todo, helper, sent, got, readFailed>>
childVars == <<child, code, childFds>>
vars == <<caller, mode, callerFds, childVars, pipeVars, result, calls, autoReap>>

Modes == {"capture", "interactive"}
Messages == {"none", "no command", "pipe", "privilege", "fork", "wait",
             "signal", "status", "completed"}
Failed(message) == [success |-> FALSE, message |-> message]

Readers == "r" \in callerFds \/ "r" \in childFds
Writers == "w" \in callerFds \/ childFds \cap {"w", "out"} # {} \/ helper = "running"
--------------------------------------------------------------------------------
Init ==
  /\ caller = "idle" /\ mode \in Modes /\ callerFds = {}
  /\ child = "none" /\ code = -1 /\ childFds = {}
  /\ todo = 0 /\ helper = "none" /\ sent = 0 /\ got = 0 /\ readFailed = FALSE
  /\ result = Failed("none")
  /\ calls = 0 /\ autoReap \in BOOLEAN

Return(r) == caller' = "idle" /\ result' = r

(* Entry of either function.                                                   *)
Call ==
  /\ caller = "idle" /\ calls < MaxCalls
  /\ calls' = calls + 1
  /\ mode' \in Modes
  /\ caller' = IF mode' = "capture" THEN "pipe" ELSE "elevate"
  /\ child' = "none" /\ code' = -1
  /\ helper' = "none" /\ sent' = 0 /\ got' = 0 /\ readFailed' = FALSE
  /\ result' = Failed("none")
  /\ UNCHANGED <<callerFds, childFds, todo, autoReap>>

(* No arguments: both functions return at once.                                *)
NoArguments ==
  /\ caller \in {"pipe", "elevate"}
  /\ Return(Failed("no command"))
  /\ UNCHANGED <<mode, callerFds, childVars, pipeVars, calls, autoReap>>

OpenPipe ==
  /\ caller = "pipe"
  /\ \/ caller' = "fork" /\ callerFds' = {"r", "w"} /\ UNCHANGED result
     \/ Return(Failed("pipe")) /\ UNCHANGED callerFds
  /\ UNCHANGED <<mode, childVars, pipeVars, calls, autoReap>>

(* Root, sudo or pkexec is needed; otherwise nothing is started.               *)
Elevate ==
  /\ caller = "elevate"
  /\ \/ caller' = "fork" /\ UNCHANGED result
     \/ Return(Failed("privilege"))
  /\ UNCHANGED <<mode, callerFds, childVars, pipeVars, calls, autoReap>>

(* Mutant of ForkFails: the early return forgets the pipe.                      *)
ForkFailsPipeOpen ==
  /\ caller = "fork"
  /\ Return(Failed("fork"))
  /\ UNCHANGED <<mode, callerFds, childVars, pipeVars, calls, autoReap>>

ForkFails ==
  /\ caller = "fork"
  /\ callerFds' = {}
  /\ Return(Failed("fork"))
  /\ UNCHANGED <<mode, childVars, pipeVars, calls, autoReap>>

Fork ==
  /\ caller = "fork"
  /\ child' = "forked" /\ childFds' = callerFds
  /\ caller' = IF mode = "capture" THEN "close" ELSE "wait"
  /\ UNCHANGED <<mode, callerFds, code, pipeVars, result, calls, autoReap>>

(* Mutant of CloseWriteEnd: the caller keeps its own write end.                 *)
WriteEndKept ==
  /\ caller = "close"
  /\ caller' = "read"
  /\ UNCHANGED <<mode, callerFds, childVars, pipeVars, result, calls, autoReap>>

(* Mutant of CloseWriteEnd: the child is waited for before its output is read.  *)
WaitsBeforeReading ==
  /\ caller = "close"
  /\ callerFds' = callerFds \ {"w"}
  /\ caller' = "wait"
  /\ UNCHANGED <<mode, childVars, pipeVars, result, calls, autoReap>>

CloseWriteEnd ==
  /\ caller = "close"
  /\ callerFds' = callerFds \ {"w"}
  /\ caller' = "read"
  /\ UNCHANGED <<mode, childVars, pipeVars, result, calls, autoReap>>

(* read returns what the pipe holds, as much as fits the buffer.               *)
ReadData ==
  /\ caller = "read" /\ got < sent
  /\ got' = IF sent - got < ReadMax THEN sent ELSE got + ReadMax
  /\ UNCHANGED <<caller, mode, callerFds, childVars, todo, helper, sent, readFailed,
                 result, calls, autoReap>>

(* read returns 0 once the pipe is empty and nobody can write to it any more.  *)
ReadEnd ==
  /\ caller = "read" /\ got = sent /\ ~Writers
  /\ caller' = "closeRead"
  /\ UNCHANGED <<mode, callerFds, childVars, pipeVars, result, calls, autoReap>>

(* Mutant of ReadInterrupted: EINTR ends the loop like an error.                *)
ReadGivesUp ==
  /\ caller = "read"
  /\ caller' = "closeRead"
  /\ UNCHANGED <<mode, callerFds, childVars, pipeVars, result, calls, autoReap>>

ReadInterrupted == caller = "read" /\ UNCHANGED vars

ReadError ==
  /\ caller = "read"
  /\ readFailed' = TRUE
  /\ caller' = "closeRead"
  /\ UNCHANGED <<mode, callerFds, childVars, todo, helper, sent, got, result, calls,
                 autoReap>>

CloseReadEnd ==
  /\ caller = "closeRead"
  /\ callerFds' = callerFds \ {"r"}
  /\ caller' = "wait"
  /\ UNCHANGED <<mode, childVars, pipeVars, result, calls, autoReap>>

(* wait_for_child: the status of the child, which is gone afterwards.          *)
Wait ==
  /\ caller = "wait" /\ child \in {"exited", "killed"}
  /\ child' = "reaped"
  /\ Return(IF child = "killed" THEN Failed("signal")
            ELSE IF code = 0 THEN [success |-> TRUE, message |-> "completed"]
            ELSE Failed("status"))
  /\ UNCHANGED <<mode, callerFds, code, childFds, pipeVars, calls, autoReap>>

(* Mutant of WaitInterrupted: waitpid is not retried.                           *)
WaitGivesUp ==
  /\ caller = "wait"
  /\ Return(Failed("wait"))
  /\ UNCHANGED <<mode, callerFds, childVars, pipeVars, calls, autoReap>>

WaitInterrupted == caller = "wait" /\ UNCHANGED vars

(* The kernel reaped the child already: waitpid fails with ECHILD.             *)
WaitError ==
  /\ caller = "wait" /\ child = "reaped"
  /\ Return(Failed("wait"))
  /\ UNCHANGED <<mode, callerFds, childVars, pipeVars, calls, autoReap>>
--------------------------------------------------------------------------------
(* The end of the child, by exit or by a signal, closes its descriptors.       *)
ChildEnds(how, c) ==
  /\ child' = IF autoReap THEN "reaped" ELSE how
  /\ code' = c
  /\ childFds' = {}
  /\ todo' = 0

(* Between fork and exec the child redirects its output; 127 if exec fails.    *)
Exec ==
  /\ child = "forked"
  /\ \/ /\ child' = "running"
        /\ childFds' = IF mode = "capture" THEN {"out"} ELSE {}
        /\ todo' \in IF mode = "capture" THEN 0 .. MaxOutput ELSE {0}
        /\ UNCHANGED code
     \/ ChildEnds("exited", 127)
  /\ UNCHANGED <<caller, mode, callerFds, helper, sent, got, readFailed, result, calls,
                 autoReap>>

(* A write goes into the pipe when there is room, blocks while it is full, and *)
(* kills the writer when nobody can read any more.                             *)
ChildWrites ==
  /\ child = "running" /\ todo > 0
  /\ \/ /\ Readers /\ sent - got < PipeCapacity
        /\ sent' = sent + 1 /\ todo' = todo - 1
        /\ UNCHANGED childVars
     \/ ~Readers /\ ChildEnds("killed", -1) /\ UNCHANGED sent
  /\ UNCHANGED <<caller, mode, callerFds, helper, got, readFailed, result, calls, autoReap>>

ChildExits ==
  /\ child = "running" /\ todo = 0
  /\ \E c \in {0, 1} : ChildEnds("exited", c)
  /\ UNCHANGED <<caller, mode, callerFds, helper, sent, got, readFailed, result, calls,
                 autoReap>>

ChildKilled ==
  /\ child \in {"forked", "running"}
  /\ ChildEnds("killed", -1)
  /\ UNCHANGED <<caller, mode, callerFds, helper, sent, got, readFailed, result, calls,
                 autoReap>>

(* The child starts a background process that keeps its stdout and stderr.     *)
StartHelper ==
  /\ child = "running" /\ "out" \in childFds /\ helper = "none"
  /\ helper' = "running"
  /\ UNCHANGED <<caller, mode, callerFds, childVars, todo, sent, got, readFailed, result,
                 calls, autoReap>>

HelperWrites ==
  /\ helper = "running" /\ sent < MaxOutput
  /\ Readers /\ sent - got < PipeCapacity
  /\ sent' = sent + 1
  /\ UNCHANGED <<caller, mode, callerFds, childVars, todo, helper, got, readFailed, result,
                 calls, autoReap>>

HelperEnds ==
  /\ helper = "running"
  /\ helper' = "gone"
  /\ UNCHANGED <<caller, mode, callerFds, childVars, todo, sent, got, readFailed, result,
                 calls, autoReap>>
--------------------------------------------------------------------------------
Caller ==
  \/ NoArguments \/ OpenPipe \/ Elevate \/ ForkFails \/ Fork \/ CloseWriteEnd
  \/ ReadData \/ ReadEnd \/ ReadError \/ CloseReadEnd \/ Wait \/ WaitError
Child == Exec \/ ChildWrites \/ ChildExits

(* The application has made its last call of the run.                          *)
Finished == caller = "idle" /\ calls = MaxCalls /\ UNCHANGED vars

Next ==
  \/ Call \/ Caller \/ ReadInterrupted \/ WaitInterrupted
  \/ Child \/ ChildKilled \/ StartHelper \/ HelperWrites \/ HelperEnds
  \/ Finished

Spec == Init /\ [][Next]_vars

(* The system calls return when they can: nothing here relies on a failure to  *)
(* get a blocked read out of its wait, and signals do not interrupt for ever.  *)
Progress ==
  \/ OpenPipe \/ Elevate \/ Fork \/ CloseWriteEnd
  \/ ReadData \/ ReadEnd \/ CloseReadEnd \/ Wait \/ WaitError

(* The program writes what it has to and then exits, and what it left behind   *)
(* lets go of the output: the functions have no timeout, so without these no   *)
(* call needs to end.                                                          *)
FairSpec == Spec /\ WF_vars(Progress) /\ WF_vars(Child) /\ WF_vars(HelperEnds)
--------------------------------------------------------------------------------
(* Types.                                                                      *)
TypeOK ==
  /\ caller \in {"idle", "pipe", "elevate", "fork", "close", "read", "closeRead", "wait"}
  /\ mode \in Modes /\ autoReap \in BOOLEAN
  /\ callerFds \in SUBSET {"r", "w"} /\ childFds \in SUBSET {"r", "w", "out"}
  /\ child \in {"none", "forked", "running", "exited", "killed", "reaped"}
  /\ code \in {-1, 0, 1, 127}
  /\ helper \in {"none", "running", "gone"}
  /\ todo \in Nat /\ sent \in Nat /\ got \in Nat /\ calls \in Nat
  /\ readFailed \in BOOLEAN
  /\ result \in [success : BOOLEAN, message : Messages]

(* A call returns with both ends of its pipe closed, whatever failed in between *)
(* (command.cpp:49-59, 70, 83): an interface that stays open for days lists     *)
(* packages and services through this function and must not run out of          *)
(* descriptors.                                                                *)
NoDescriptorLeak == caller = "idle" => callerFds = {}

(* A call returns only when its child is gone and reaped (command.cpp:24-39,    *)
(* 85, 116): interrupted or not, it leaves neither a zombie nor a running child.*)
NoChildLeft == caller = "idle" => child \in {"none", "reaped"} /\ childFds = {}

(* Whoever the caller waits for does not wait for the caller (command.cpp:70-85):*)
(* while a read finds the pipe empty, some other process holds its write end,  *)
(* and a child that is waited for is not stopped by a full pipe that only the  *)
(* caller could empty.                                                         *)
NoCircularWait ==
  /\ caller = "read" /\ got = sent /\ Writers =>
       child \in {"forked", "running"} \/ helper = "running"
  /\ caller = "wait" /\ child = "running" =>
       todo = 0 \/ ~Readers \/ sent - got < PipeCapacity

(* Every call returns: the caller never waits for a child that waits for room   *)
(* in the pipe, nor for an end of file it withholds itself by keeping the       *)
(* write end (command.cpp:70-85).                                              *)
CallsReturn == caller # "idle" ~> caller = "idle"

(* A call is atomic for its caller, who gets what CommandPromise says: success *)
(* only of a program that was executed and exited with status 0, not of a      *)
(* failed exec, a signal or a lost status (command.cpp:31-38, 66-67), and the  *)
(* whole output, also of processes that outlive the child (command.cpp:70-87). *)
Fate ==
  IF child = "none" THEN "not run"
  ELSE IF code = -1 THEN "killed" ELSE IF code = 0 THEN "exit 0" ELSE "exit nonzero"

ReportOf(fate, wrote, read, lost, blind, success) ==
  [fate |-> fate, wrote |-> wrote, got |-> read, lost |-> lost, blind |-> blind,
   success |-> success]

Report ==
  IF caller = "idle"
  THEN ReportOf(Fate, sent, got, readFailed, autoReap /\ child # "none", result.success)
  ELSE ReportOf("not run", 0, 0, FALSE, FALSE, FALSE)

Promise == INSTANCE CommandPromise WITH
  phase <- IF caller = "idle" THEN "idle" ELSE "busy", report <- Report

ImplementsPromise == Promise!Spec
================================================================================
