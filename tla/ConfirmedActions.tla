--------------------------- MODULE ConfirmedActions ---------------------------
(* What the application promises about everything it changes on the host: it   *)
(* asks first, it does at most one thing for a question that was answered with *)
(* y, that is the operation and the target the question named, and it reports  *)
(* how that ended and not how something else did.                              *)
EXTENDS Integers, Sequences

CONSTANTS
  Operations,  \* what can be asked for
  Signals,     \* the operations that are a system call and no command
  Targets,     \* what an operation can be applied to
  Nothing,     \* the target of an operation on the whole host
  Unknown      \* a target the question does not name properly

VARIABLES
  phase,     \* "idle", "asked" or "granted"
  question,  \* the operation and the target asked about
  done,      \* the commands executed since the question was granted
  report,    \* what the status message says
  blind      \* exit statuses are lost, from the start to the end

vars == <<phase, question, done, report, blind>>

NoQuestion == [op |-> "none", target |-> Nothing]
NoReport   == [op |-> "none", target |-> Nothing, ok |-> TRUE, color |-> "none"]
Color(ok)  == IF ok THEN "Success" ELSE "Danger"

Init ==
  /\ phase = "idle" /\ question = NoQuestion /\ done = <<>> /\ report = NoReport
  /\ blind \in BOOLEAN

AskFor(o, t) ==
  /\ phase = "idle"
  /\ phase' = "asked" /\ question' = [op |-> o, target |-> t]
  /\ UNCHANGED <<done, report, blind>>

Refuse ==
  /\ phase = "asked"
  /\ phase' = "idle" /\ question' = NoQuestion
  /\ UNCHANGED <<done, report, blind>>

Grant ==
  /\ phase = "asked" /\ phase' = "granted"
  /\ UNCHANGED <<question, done, report, blind>>

(* The one command of an operation, on the target that was named.              *)
Execute(t, ok) ==
  /\ phase = "granted" /\ question.op \notin Signals /\ done = <<>>
  /\ question.target \in {t, Unknown}
  /\ done' = <<[op |-> question.op, target |-> t, ok |-> ok]>>
  /\ UNCHANGED <<phase, question, report, blind>>

(* Success means that the command was executed and succeeded, and failure that *)
(* it was not or did not, unless its exit status was lost.                     *)
Report(ok) ==
  /\ phase = "granted"
  /\ question.op \notin Signals =>
       LET worked == done # <<>> /\ done[1].ok
       IN  (ok => worked) /\ (worked => ok \/ blind)
  /\ phase' = "idle" /\ question' = NoQuestion /\ done' = <<>>
  /\ report' = [op |-> question.op, target |-> question.target, ok |-> ok,
                color |-> Color(ok)]
  /\ UNCHANGED blind

Forget ==
  /\ phase = "idle" /\ report' = NoReport
  /\ UNCHANGED <<phase, question, done, blind>>

Next ==
  \/ \E o \in Operations, t \in Targets \cup {Nothing, Unknown} : AskFor(o, t)
  \/ Refuse \/ Grant
  \/ \E t \in Targets \cup {Nothing}, ok \in BOOLEAN : Execute(t, ok)
  \/ \E ok \in BOOLEAN : Report(ok)
  \/ Forget

Spec == Init /\ [][Next]_vars
================================================================================
