---------------------------- MODULE CommandPromise ----------------------------
(* What a caller of run_command_capture and run_command_interactive may rely   *)
(* on: a result says success exactly when a program ran, exited with status 0  *)
(* and could be waited for, and the output handed back is all that was written *)
(* unless reading it failed.  Output is represented by its length: the bytes   *)
(* of one call are numbered in the order in which they were written.           *)
EXTENDS Integers

VARIABLES
  phase,    \* "idle" or "busy": is a call in progress?
  report    \* what the last call did, and what it told its caller

(* fate: what became of the program; wrote, got: bytes written, and returned;   *)
(* lost: reading failed; blind: the status of a child cannot be waited for.    *)
Reports ==
  [fate : {"not run", "exit 0", "exit nonzero", "killed"}, wrote : Nat, got : Nat,
   lost : BOOLEAN, blind : BOOLEAN, success : BOOLEAN]

NoReport ==
  [fate |-> "not run", wrote |-> 0, got |-> 0, lost |-> FALSE, blind |-> FALSE,
   success |-> FALSE]

Honest(r) ==
  /\ r.success <=> r.fate = "exit 0" /\ ~r.blind
  /\ r.got <= r.wrote
  /\ ~r.lost => r.got = r.wrote

Init == phase = "idle" /\ report = NoReport

Call   == phase = "idle" /\ phase' = "busy" /\ report' = NoReport
Return == phase = "busy" /\ phase' = "idle" /\ report' \in Reports /\ Honest(report')

Spec == Init /\ [][Call \/ Return]_<<phase, report>>
================================================================================
