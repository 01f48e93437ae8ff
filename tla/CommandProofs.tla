----------------------------- MODULE CommandProofs -----------------------------
(* Proofs about running commands, for every pipe, buffer and output size.      *)
EXTENDS Command, TLAPS

(* Which ends of the pipe the caller holds at each of its system calls.        *)
CallerHolds ==
  /\ caller \in {"idle", "pipe", "elevate", "wait"} => callerFds = {}
  /\ caller = "pipe" => mode = "capture"
  /\ caller = "elevate" => mode = "interactive"
  /\ caller = "fork" => callerFds = IF mode = "capture" THEN {"r", "w"} ELSE {}
  /\ caller = "close" => mode = "capture" /\ callerFds = {"r", "w"}
  /\ caller \in {"read", "closeRead"} => mode = "capture" /\ callerFds = {"r"}

(* The life of the child, seen from the caller's position.                     *)
ChildLife ==
  /\ caller \in {"pipe", "elevate", "fork"} => child = "none"
  /\ caller \in {"close", "read", "closeRead", "wait"} => child # "none"
  /\ caller = "idle" => child \in {"none", "reaped"}
  /\ child = "reaped" /\ caller # "idle" => autoReap
  /\ child \in {"exited", "killed"} => ~autoReap
  /\ child \in {"none", "forked", "running", "killed"} => code = -1
  /\ child = "exited" => code # -1
  /\ childFds = IF mode # "capture" THEN {}
                ELSE IF child = "forked" THEN {"r", "w"}
                ELSE IF child = "running" THEN {"out"} ELSE {}
  /\ mode # "capture" \/ child # "running" => todo = 0

(* Where the bytes are: what was not read is in the pipe, and once the caller  *)
(* saw the end of the file nobody is left who could write.                     *)
Bytes ==
  /\ got <= sent
  /\ caller \in {"pipe", "elevate", "fork"} =>
       sent = 0 /\ ~readFailed /\ helper = "none"
  /\ caller \in {"closeRead", "wait", "idle"} /\ ~readFailed =>
       /\ got = sent /\ helper # "running"
       /\ mode = "capture" => child \notin {"forked", "running"}

CommandInv == TypeOK /\ CallerHolds /\ ChildLife /\ Bytes

LEMMA FailedType ==
  ASSUME NEW m \in Messages
  PROVE  Failed(m) \in [success : BOOLEAN, message : Messages]
BY DEF Failed

LEMMA CommandInit == Init => CommandInv
<1> SUFFICES ASSUME Init PROVE CommandInv
  OBVIOUS
<1>1. TypeOK
  BY FailedType DEF Init, TypeOK, Modes, Messages
<1>2. CallerHolds /\ ChildLife /\ Bytes
  BY DEF Init, CallerHolds, ChildLife, Bytes
<1> QED BY <1>1, <1>2 DEF CommandInv

LEMMA TypeStep == CommandInv /\ [Next]_vars => TypeOK'
<1> SUFFICES ASSUME CommandInv, [Next]_vars PROVE TypeOK'
  OBVIOUS
<1> USE DEF CommandInv, TypeOK, Modes, childVars, pipeVars
<1>1. CASE Call
  <2>1. result' \in [success : BOOLEAN, message : Messages]
    BY <1>1, FailedType DEF Call, Messages
  <2>2. caller' \in {"pipe", "elevate"} /\ mode' \in Modes
    BY <1>1 DEF Call
  <2>3. /\ child' = "none" /\ code' = -1 /\ helper' = "none" /\ readFailed' = FALSE
        /\ sent' = 0 /\ got' = 0 /\ calls' \in Nat
        /\ UNCHANGED <<callerFds, childFds, todo, autoReap>>
    BY <1>1 DEF Call
  <2> QED BY <2>1, <2>2, <2>3
<1>2. CASE NoArguments
  BY <1>2, FailedType DEF NoArguments, Return, Messages
<1>3. CASE OpenPipe
  BY <1>3, FailedType DEF OpenPipe, Return, Messages
<1>4. CASE Elevate
  BY <1>4, FailedType DEF Elevate, Return, Messages
<1>5. CASE ForkFails
  BY <1>5, FailedType DEF ForkFails, Return, Messages
<1>6. CASE Fork
  BY <1>6 DEF Fork
<1>7. CASE CloseWriteEnd
  BY <1>7 DEF CloseWriteEnd
<1>8. CASE ReadData
  BY <1>8, CommandAssumption DEF ReadData
<1>9. CASE ReadEnd
  BY <1>9 DEF ReadEnd
<1>10. CASE ReadError
  BY <1>10 DEF ReadError
<1>11. CASE CloseReadEnd
  BY <1>11 DEF CloseReadEnd
<1>12. CASE Wait
  BY <1>12, FailedType DEF Wait, Return, Messages
<1>13. CASE WaitError
  BY <1>13, FailedType DEF WaitError, Return, Messages
<1>14. CASE Exec
  BY <1>14, CommandAssumption DEF Exec, ChildEnds
<1>15. CASE ChildWrites
  <2>1. todo - 1 \in Nat /\ sent + 1 \in Nat
    BY <1>15 DEF ChildWrites
  <2>2. todo' \in Nat /\ sent' \in Nat
    BY <1>15, <2>1 DEF ChildWrites, ChildEnds
  <2>3. /\ child' \in {"none", "forked", "running", "exited", "killed", "reaped"}
        /\ code' \in {-1, 0, 1, 127} /\ childFds' \in SUBSET {"r", "w", "out"}
    BY <1>15 DEF ChildWrites, ChildEnds
  <2> QED BY <1>15, <2>2, <2>3 DEF ChildWrites
<1>16. CASE ChildExits
  BY <1>16 DEF ChildExits, ChildEnds
<1>17. CASE ChildKilled
  BY <1>17 DEF ChildKilled, ChildEnds
<1>18. CASE StartHelper
  BY <1>18 DEF StartHelper
<1>19. CASE HelperWrites
  BY <1>19 DEF HelperWrites
<1>20. CASE HelperEnds
  BY <1>20 DEF HelperEnds
<1>21. CASE UNCHANGED vars
  BY <1>21 DEF vars
<1> QED BY <1>1, <1>2, <1>3, <1>4, <1>5, <1>6, <1>7, <1>8, <1>9, <1>10, <1>11, <1>12, <1>13, <1>14, <1>15, <1>16, <1>17, <1>18, <1>19, <1>20, <1>21
     DEF Next, Caller, Child, ReadInterrupted, WaitInterrupted, Finished

LEMMA CallerHoldsStep == CommandInv /\ [Next]_vars => CallerHolds'
<1> SUFFICES ASSUME CommandInv, [Next]_vars PROVE CallerHolds'
  OBVIOUS
<1> USE DEF CommandInv, TypeOK, Modes, CallerHolds, Return, childVars, pipeVars
<1>1. CASE Call
  BY <1>1 DEF Call
<1>2. CASE NoArguments
  BY <1>2 DEF NoArguments
<1>3. CASE OpenPipe
  BY <1>3 DEF OpenPipe
<1>4. CASE Elevate
  BY <1>4 DEF Elevate
<1>5. CASE ForkFails
  BY <1>5 DEF ForkFails
<1>6. CASE Fork
  BY <1>6 DEF Fork
<1>7. CASE CloseWriteEnd
  BY <1>7 DEF CloseWriteEnd
<1>8. CASE ReadData
  BY <1>8 DEF ReadData
<1>9. CASE ReadEnd
  BY <1>9 DEF ReadEnd
<1>10. CASE ReadError
  BY <1>10 DEF ReadError
<1>11. CASE CloseReadEnd
  BY <1>11 DEF CloseReadEnd
<1>12. CASE Wait
  BY <1>12 DEF Wait
<1>13. CASE WaitError
  BY <1>13 DEF WaitError
<1>14. CASE Exec
  BY <1>14 DEF Exec, ChildEnds
<1>15. CASE ChildWrites
  BY <1>15 DEF ChildWrites, ChildEnds
<1>16. CASE ChildExits
  BY <1>16 DEF ChildExits, ChildEnds
<1>17. CASE ChildKilled
  BY <1>17 DEF ChildKilled, ChildEnds
<1>18. CASE StartHelper
  BY <1>18 DEF StartHelper
<1>19. CASE HelperWrites
  BY <1>19 DEF HelperWrites
<1>20. CASE HelperEnds
  BY <1>20 DEF HelperEnds
<1>21. CASE UNCHANGED vars
  BY <1>21 DEF vars
<1> QED BY <1>1, <1>2, <1>3, <1>4, <1>5, <1>6, <1>7, <1>8, <1>9, <1>10, <1>11, <1>12, <1>13, <1>14, <1>15, <1>16, <1>17, <1>18, <1>19, <1>20, <1>21
     DEF Next, Caller, Child, ReadInterrupted, WaitInterrupted, Finished

LEMMA ChildLifeStep == CommandInv /\ [Next]_vars => ChildLife'
<1> SUFFICES ASSUME CommandInv, [Next]_vars PROVE ChildLife'
  OBVIOUS
<1> USE DEF CommandInv, TypeOK, CallerHolds, ChildLife, Return, childVars, pipeVars
<1>1. CASE Call
  BY <1>1 DEF Call
<1>2. CASE NoArguments
  BY <1>2 DEF NoArguments
<1>3. CASE OpenPipe
  BY <1>3 DEF OpenPipe
<1>4. CASE Elevate
  BY <1>4 DEF Elevate
<1>5. CASE ForkFails
  BY <1>5 DEF ForkFails
<1>6. CASE Fork
  BY <1>6 DEF Fork
<1>7. CASE CloseWriteEnd
  BY <1>7 DEF CloseWriteEnd
<1>8. CASE ReadData
  BY <1>8 DEF ReadData
<1>9. CASE ReadEnd
  BY <1>9 DEF ReadEnd
<1>10. CASE ReadError
  BY <1>10 DEF ReadError
<1>11. CASE CloseReadEnd
  BY <1>11 DEF CloseReadEnd
<1>12. CASE Wait
  BY <1>12 DEF Wait
<1>13. CASE WaitError
  BY <1>13 DEF WaitError
<1>14. CASE Exec
  BY <1>14 DEF Exec, ChildEnds
<1>15. CASE ChildWrites
  BY <1>15 DEF ChildWrites, ChildEnds
<1>16. CASE ChildExits
  BY <1>16 DEF ChildExits, ChildEnds
<1>17. CASE ChildKilled
  BY <1>17 DEF ChildKilled, ChildEnds
<1>18. CASE StartHelper
  BY <1>18 DEF StartHelper
<1>19. CASE HelperWrites
  BY <1>19 DEF HelperWrites
<1>20. CASE HelperEnds
  BY <1>20 DEF HelperEnds
<1>21. CASE UNCHANGED vars
  BY <1>21 DEF vars
<1> QED BY <1>1, <1>2, <1>3, <1>4, <1>5, <1>6, <1>7, <1>8, <1>9, <1>10, <1>11, <1>12, <1>13, <1>14, <1>15, <1>16, <1>17, <1>18, <1>19, <1>20, <1>21
     DEF Next, Caller, Child, ReadInterrupted, WaitInterrupted, Finished

LEMMA BytesStep == CommandInv /\ [Next]_vars => Bytes'
<1> SUFFICES ASSUME CommandInv, [Next]_vars PROVE Bytes'
  OBVIOUS
<1> USE DEF CommandInv, TypeOK, CallerHolds, ChildLife, Bytes, Return, childVars, pipeVars
<1>1. CASE Call
  BY <1>1 DEF Call
<1>2. CASE NoArguments
  <2>1. got = 0 /\ sent = 0 /\ child = "none" /\ helper = "none"
    <3>1. sent = 0 /\ child = "none" /\ helper = "none"
      BY <1>2 DEF NoArguments
    <3>2. got \in Nat /\ got <= sent
      OBVIOUS
    <3> QED BY <3>1, <3>2
  <2> QED BY <1>2, <2>1 DEF NoArguments
<1>3. CASE OpenPipe
  BY <1>3 DEF OpenPipe
<1>4. CASE Elevate
  BY <1>4 DEF Elevate
<1>5. CASE ForkFails
  BY <1>5 DEF ForkFails
<1>6. CASE Fork
  BY <1>6 DEF Fork
<1>7. CASE CloseWriteEnd
  BY <1>7 DEF CloseWriteEnd
<1>8. CASE ReadData
  BY <1>8, CommandAssumption DEF ReadData
<1>9. CASE ReadEnd
  BY <1>9 DEF ReadEnd, Writers
<1>10. CASE ReadError
  BY <1>10 DEF ReadError
<1>11. CASE CloseReadEnd
  BY <1>11 DEF CloseReadEnd
<1>12. CASE Wait
  BY <1>12 DEF Wait
<1>13. CASE WaitError
  BY <1>13 DEF WaitError
<1>14. CASE Exec
  BY <1>14 DEF Exec, ChildEnds
<1>15. CASE ChildWrites
  BY <1>15 DEF ChildWrites, ChildEnds, Readers
<1>16. CASE ChildExits
  BY <1>16 DEF ChildExits, ChildEnds
<1>17. CASE ChildKilled
  BY <1>17 DEF ChildKilled, ChildEnds
<1>18. CASE StartHelper
  BY <1>18 DEF StartHelper
<1>19. CASE HelperWrites
  BY <1>19 DEF HelperWrites, Readers
<1>20. CASE HelperEnds
  BY <1>20 DEF HelperEnds
<1>21. CASE UNCHANGED vars
  BY <1>21 DEF vars
<1> QED BY <1>1, <1>2, <1>3, <1>4, <1>5, <1>6, <1>7, <1>8, <1>9, <1>10, <1>11, <1>12, <1>13, <1>14, <1>15, <1>16, <1>17, <1>18, <1>19, <1>20, <1>21
     DEF Next, Caller, Child, ReadInterrupted, WaitInterrupted, Finished

LEMMA CommandInvariant == Spec => []CommandInv
<1>1. CommandInv /\ [Next]_vars => CommandInv'
  BY TypeStep, CallerHoldsStep, ChildLifeStep, BytesStep DEF CommandInv
<1> QED BY <1>1, CommandInit, PTL DEF Spec

(* Every variable keeps its type.                                              *)
THEOREM TypeCorrect == Spec => []TypeOK
<1>1. CommandInv => TypeOK
  BY DEF CommandInv
<1> QED BY <1>1, CommandInvariant, PTL

(* No call leaves a descriptor open.                                           *)
THEOREM DescriptorsAreClosed == Spec => []NoDescriptorLeak
<1>1. CommandInv => NoDescriptorLeak
  BY DEF CommandInv, CallerHolds, NoDescriptorLeak
<1> QED BY <1>1, CommandInvariant, PTL

(* No call leaves a child running or unreaped.                                 *)
THEOREM ChildrenAreReaped == Spec => []NoChildLeft
<1>1. CommandInv => NoChildLeft
  BY DEF CommandInv, ChildLife, NoChildLeft
<1> QED BY <1>1, CommandInvariant, PTL
(* No call waits for itself: what CallsReturn owes to the order of the system   *)
(* calls, whatever the size of the pipe and of the output.                     *)
THEOREM CallsDoNotBlockThemselves == Spec => []NoCircularWait
<1>1. CommandInv => NoCircularWait
  <2> SUFFICES ASSUME CommandInv PROVE NoCircularWait
    OBVIOUS
  <2>1. ASSUME caller = "read", Writers PROVE child \in {"forked", "running"} \/ helper = "running"
    BY <2>1 DEF CommandInv, CallerHolds, ChildLife, Writers
  <2>2. ASSUME caller = "wait", child = "running" PROVE todo = 0 \/ ~Readers
    BY <2>2 DEF CommandInv, TypeOK, Modes, CallerHolds, ChildLife, Readers
  <2> QED BY <2>1, <2>2 DEF NoCircularWait
<1> QED BY <1>1, CommandInvariant, PTL
--------------------------------------------------------------------------------
(* The refinement: every step of the system calls is a Call, a Return, or      *)
(* invisible to the caller of the function.                                    *)
USE DEF Promise!NoReport, ReportOf

(* A call that returns before it started a child has nothing to report.        *)
LEMMA NothingRan ==
  ASSUME CommandInv, caller \in {"pipe", "elevate", "fork"}, NEW message \in Messages,
         Return(Failed(message)), UNCHANGED <<child, sent, got, readFailed>>
  PROVE  Promise!Return
<1>1. child = "none" /\ sent = 0 /\ got = 0 /\ readFailed = FALSE
  <2>1. got \in Nat /\ got <= sent /\ sent = 0 /\ child = "none" /\ readFailed \in BOOLEAN
        /\ ~readFailed
    BY DEF CommandInv, TypeOK, ChildLife, Bytes
  <2> QED BY <2>1
<1>2. caller' = "idle" /\ result'.success = FALSE
  BY DEF Return, Failed
<1>3. Report' = Promise!NoReport
  BY <1>1, <1>2 DEF Report, Fate
<1>4. Promise!NoReport \in Promise!Reports /\ Promise!Honest(Promise!NoReport)
  BY DEF Promise!Reports, Promise!Honest
<1> QED BY <1>2, <1>3, <1>4 DEF Promise!Return

(* A call whose child is gone tells what became of it.                         *)
LEMMA WaitReturns == CommandInv /\ (Wait \/ WaitError) => Promise!Return
<1> SUFFICES ASSUME CommandInv, Wait \/ WaitError PROVE Promise!Return
  OBVIOUS
<1>1. /\ caller = "wait" /\ caller' = "idle" /\ child' = "reaped"
      /\ UNCHANGED <<code, sent, got, readFailed, autoReap>>
  BY DEF Wait, WaitError, Return, pipeVars, childVars
<1>2. /\ sent \in Nat /\ got \in Nat /\ readFailed \in BOOLEAN /\ autoReap \in BOOLEAN
      /\ code \in {-1, 0, 1, 127}
      /\ got <= sent /\ (~readFailed => got = sent)
  BY <1>1 DEF CommandInv, TypeOK, Bytes
<1>3. result'.success \in BOOLEAN /\ (result'.success <=> code = 0 /\ ~autoReap)
  <2>1. CASE Wait
    BY <1>2, <2>1 DEF Wait, Return, Failed, CommandInv, ChildLife
  <2>2. CASE WaitError
    BY <1>1, <2>2 DEF WaitError, Return, Failed, CommandInv, ChildLife
  <2> QED BY <2>1, <2>2
<1>4. /\ Fate' \in {"not run", "exit 0", "exit nonzero", "killed"}
      /\ Fate' = "exit 0" <=> code = 0
  BY <1>1, <1>2 DEF Fate
<1>5. Report' = [fate |-> Fate', wrote |-> sent, got |-> got, lost |-> readFailed,
                 blind |-> autoReap, success |-> result'.success]
  BY <1>1, <1>2 DEF Report
<1>6. Report' \in Promise!Reports
  BY <1>2, <1>3, <1>4, <1>5 DEF Promise!Reports
<1>7. Promise!Honest(Report')
  BY <1>2, <1>3, <1>4, <1>5 DEF Promise!Honest
<1> QED BY <1>1, <1>6, <1>7 DEF Promise!Return

LEMMA PromiseStep ==
  CommandInv /\ [Next]_vars =>
    \/ Promise!Call \/ Promise!Return
    \/ UNCHANGED <<IF caller = "idle" THEN "idle" ELSE "busy", Report>>
<1> SUFFICES ASSUME CommandInv, [Next]_vars
             PROVE  \/ Promise!Call \/ Promise!Return
                    \/ UNCHANGED <<IF caller = "idle" THEN "idle" ELSE "busy", Report>>
  OBVIOUS
<1>1. CASE Call
  BY <1>1 DEF Call, Promise!Call, Report
<1>2. CASE NoArguments
  BY <1>2, NothingRan DEF NoArguments, childVars, pipeVars, Messages
<1>3. CASE OpenPipe /\ caller' = "idle"
  BY <1>3, NothingRan DEF OpenPipe, childVars, pipeVars, Messages
<1>4. CASE Elevate /\ caller' = "idle"
  BY <1>4, NothingRan DEF Elevate, childVars, pipeVars, Messages
<1>5. CASE ForkFails
  BY <1>5, NothingRan DEF ForkFails, childVars, pipeVars, Messages
<1>6. CASE Wait \/ WaitError
  BY <1>6, WaitReturns
<1>7. CASE caller # "idle" /\ caller' # "idle"
  BY <1>7 DEF Report
<1>8. CASE caller = "idle" /\ UNCHANGED <<caller, child, code, sent, got, readFailed, autoReap, result>>
  BY <1>8 DEF Report, Fate
<1>9. CASE Fork \/ CloseWriteEnd \/ ReadData \/ ReadEnd \/ ReadError \/ CloseReadEnd
  BY <1>7, <1>9 DEF Fork, CloseWriteEnd, ReadData, ReadEnd, ReadError, CloseReadEnd
<1>10. CASE OpenPipe /\ caller' # "idle"
  BY <1>7, <1>10 DEF OpenPipe
<1>11. CASE Elevate /\ caller' # "idle"
  BY <1>7, <1>11 DEF Elevate
<1>12. CASE Exec \/ ChildWrites \/ ChildExits \/ ChildKilled
  <2>1. caller # "idle" /\ UNCHANGED caller
    BY <1>12 DEF Exec, ChildWrites, ChildExits, ChildKilled, CommandInv, ChildLife
  <2> QED BY <1>7, <2>1
<1>13. CASE StartHelper \/ HelperWrites \/ HelperEnds
  <2>1. UNCHANGED <<caller, child, code, got, readFailed, autoReap, result>>
    BY <1>13 DEF StartHelper, HelperWrites, HelperEnds, childVars
  <2>2. caller = "idle" => UNCHANGED sent
    BY <1>13 DEF StartHelper, HelperWrites, HelperEnds, Readers, CommandInv, CallerHolds,
                 ChildLife
  <2> QED BY <1>7, <1>8, <2>1, <2>2
<1>14. CASE UNCHANGED vars
  BY <1>7, <1>8, <1>14 DEF vars, childVars, pipeVars
<1> QED BY <1>1, <1>2, <1>3, <1>4, <1>5, <1>6, <1>9, <1>10, <1>11, <1>12, <1>13, <1>14
     DEF Next, Caller, Child, ReadInterrupted, WaitInterrupted, Finished

(* To its callers, running a command is one honest step, however the caller,   *)
(* the child and a background process interleave.                              *)
THEOREM CommandKeepsPromise == Spec => ImplementsPromise
<1>1. Init => Promise!Init
  <2> SUFFICES ASSUME Init PROVE Promise!Init
    OBVIOUS
  <2>1. (autoReap /\ child # "none") = FALSE
    BY DEF Init
  <2>2. Report = Promise!NoReport
    BY <2>1 DEF Init, Report, Fate, Failed
  <2> QED BY <2>2 DEF Init, Promise!Init
<1>2. CommandInv /\ [Next]_vars =>
        [Promise!Call \/ Promise!Return]_<<IF caller = "idle" THEN "idle" ELSE "busy", Report>>
  BY PromiseStep
<1> QED BY <1>1, <1>2, CommandInvariant, PTL DEF Spec, ImplementsPromise, Promise!Spec
================================================================================
