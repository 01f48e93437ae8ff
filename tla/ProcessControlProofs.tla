------------------------- MODULE ProcessControlProofs -------------------------
(* Proofs about listing and signalling processes, for any set of PIDs.         *)
EXTENDS ProcessControl, TLAPS

(* A record is there while its files are read, and while it is confirmed.      *)
Reading == at \in {"user", "comm", "command"}

InHand ==
  /\ Reading => entry \in Record
  /\ at = "ask" => target \in Record

TypeInv == TypeOK /\ InHand

LEMMA TypeInit == Init => TypeInv
<1> SUFFICES ASSUME Init PROVE TypeInv
  OBVIOUS
<1>1. running \in [Pids -> Process] /\ used \in SUBSET Pids
  BY PidsAssumption DEF Init, Nobody, Process
<1>2. sent \in [meant : Process, hit : Process, since : Nat]
  BY DEF Init, NotSent, Nobody, Process
<1> QED BY <1>1, <1>2 DEF Init, TypeInv, TypeOK, InHand, Reading

LEMMA StartScanType ==
  ASSUME TypeInv, StartScan, UNCHANGED <<host, target>>,
         sent' \in [meant : Process, hit : Process, since : Nat]
  PROVE  TypeInv'
BY DEF TypeInv, TypeOK, InHand, Reading, StartScan, host, Process

LEMMA TypeStep == TypeInv /\ [Next]_vars => TypeInv'
<1> SUFFICES ASSUME TypeInv, [Next]_vars PROVE TypeInv'
  OBVIOUS
<1>a. TypeOK /\ InHand
  BY DEF TypeInv
<1> USE DEF TypeInv, Reading
<1>1. CASE Skip
  BY <1>1, <1>a DEF Skip, NextEntry, host, past, TypeOK, InHand
<1>2. CASE ReadStat
  <2>1. PICK p \in Alive : entry' = [NoRecord EXCEPT !.pid = p, !.stat = running[p]]
                           /\ left' = left \ {p}
    BY <1>2 DEF ReadStat
  <2>2. p \in Pids /\ running[p] \in Process
    BY <1>a DEF TypeOK, Alive
  <2>3. entry' \in Record
    BY <2>1, <2>2 DEF NoRecord, Nobody, Record, Process
  <2> QED BY <1>2, <1>a, <2>1, <2>3 DEF ReadStat, host, past, TypeOK, InHand
<1>3. CASE ReadUser
  <2>1. entry \in Record /\ running[entry.pid] \in Process
    BY <1>3, <1>a DEF ReadUser, InHand, TypeOK, Record
  <2>2. entry' \in Record
    BY <1>3, <2>1 DEF ReadUser, Record
  <2> QED BY <1>3, <1>a, <2>2 DEF ReadUser, host, past, TypeOK, InHand
<1>12. CASE ReadFallback
  <2>1. entry \in Record /\ running[entry.pid] \in Process
    BY <1>12, <1>a DEF ReadFallback, InHand, TypeOK, Record
  <2>2. entry' \in Record
    BY <1>12, <2>1 DEF ReadFallback, Record
  <2> QED BY <1>12, <1>a, <2>2 DEF ReadFallback, host, past, TypeOK, InHand
<1>4. CASE ReadCommand
  <2>1. entry \in Record /\ running[entry.pid] \in Process /\ entry.cmd \in Process
    BY <1>4, <1>a DEF ReadCommand, InHand, TypeOK, Record
  <2>2. \A cmd \in Process : [entry EXCEPT !.cmd = cmd] \in Record
    BY <2>1 DEF Record
  <2>3. table' \in SUBSET Record
    BY <1>4, <1>a, <2>1, <2>2 DEF ReadCommand, TypeOK
  <2> QED BY <1>4, <1>a, <2>3 DEF ReadCommand, host, past, TypeOK, InHand
<1>5. CASE EndScan \/ Refuse
  BY <1>5, <1>a DEF EndScan, Refuse, host, scan, past, TypeOK, InHand
<1>6. CASE Refresh
  BY <1>6, <1>a, StartScanType DEF Refresh, TypeOK
<1>7. CASE Ask
  BY <1>7, <1>a DEF Ask, NotSent, Nobody, Process, host, scan, past, TypeOK, InHand
<1>8. CASE Terminate
  <2>1. target \in Record /\ running[target.pid] \in Process
    BY <1>8, <1>a DEF Terminate, InHand, TypeOK, Record
  <2>2. sent' \in [meant : Process, hit : Process, since : Nat]
    BY <1>8, <1>a, <2>1 DEF Terminate, Signal, Record, Nobody, Process, TypeOK
  <2> QED BY <1>8, <2>2, StartScanType DEF Terminate
<1>9. CASE ProcessStarts
  BY <1>9, <1>a DEF ProcessStarts, scan, TypeOK, InHand, Process
<1>13. CASE StatChanges
  BY <1>13, <1>a DEF StatChanges, Alive, scan, TypeOK, InHand
<1>10. CASE ProcessEnds
  <2>1. PICK p \in Alive : /\ running' = [running EXCEPT ![p] = Nobody]
                           /\ ended' = ended \cup {running[p]}
    BY <1>10 DEF ProcessEnds
  <2>2. running[p] \in Nat
    BY <1>a DEF TypeOK, Alive, Process
  <2>3. running' \in [Pids -> Process] /\ ended' \in SUBSET Process
    BY <1>a, <2>1, <2>2 DEF TypeOK, Process, Nobody
  <2> QED BY <1>10, <1>a, <2>3 DEF ProcessEnds, scan, TypeOK, InHand
<1>11. CASE UNCHANGED vars
  BY <1>11, <1>a DEF vars, host, scan, past, TypeOK, InHand
<1> QED BY <1>1, <1>2, <1>3, <1>4, <1>5, <1>6, <1>7, <1>8, <1>9, <1>10, <1>11, <1>12, <1>13 DEF Next

(* Every variable keeps its type.                                              *)
THEOREM TypeCorrect == Spec => []TypeOK
<1>1. TypeInv => TypeOK
  BY DEF TypeInv
<1> QED BY <1>1, TypeInit, TypeStep, PTL DEF Spec
--------------------------------------------------------------------------------
(* Signals.  A PID that was in use belongs to the process that had it, to      *)
(* nobody, or, if PIDs are used again, to one that started after the listing.  *)
Owned(r) ==
  /\ r.pid \in used
  /\ running[r.pid] \in {Nobody, r.stat} \/ (PidReuse /\ running[r.pid] > startBorn)

PidsStayOwned ==
  /\ Alive \subseteq used
  /\ startBorn <= born
  /\ \A r \in table : Owned(r)
  /\ Reading => Owned(entry)
  /\ at = "ask" => Owned(target)
  /\ SignalSparesOthers

LEMMA OwnedStays ==
  ASSUME TypeInv, Alive \subseteq used, startBorn <= born, startBorn' = startBorn,
         ProcessStarts \/ ProcessEnds \/ UNCHANGED <<running, born, used>>,
         NEW r \in Record, Owned(r)
  PROVE  Owned(r)'
<1>1. r.pid \in Pids /\ running \in [Pids -> Process]
  BY DEF Record, TypeInv, TypeOK
<1>2. CASE ProcessStarts
  <2>1. PICK p \in Pids \ Alive : /\ PidReuse \/ p \notin used
                                  /\ running' = [running EXCEPT ![p] = born + 1]
                                  /\ used' = used \cup {p}
    BY <1>2 DEF ProcessStarts
  <2>2. born + 1 > startBorn
    BY DEF TypeInv, TypeOK
  <2>3. r.pid \in used'
    BY <2>1 DEF Owned
  <2>4. CASE r.pid = p
    BY <1>1, <2>1, <2>2, <2>3, <2>4 DEF Owned
  <2>5. CASE r.pid # p
    BY <1>1, <2>1, <2>3, <2>5 DEF Owned
  <2> QED BY <2>4, <2>5
<1>3. CASE ProcessEnds
  BY <1>1, <1>3 DEF ProcessEnds, Owned
<1>4. CASE UNCHANGED <<running, born, used>>
  BY <1>4 DEF Owned
<1> QED BY <1>2, <1>3, <1>4

LEMMA PidsStayOwnedStep == TypeInv /\ PidsStayOwned /\ [Next]_vars => PidsStayOwned'
<1> SUFFICES ASSUME TypeInv, PidsStayOwned, [Next]_vars PROVE PidsStayOwned'
  OBVIOUS
<1>a. /\ running \in [Pids -> Process] /\ table \in SUBSET Record
      /\ (Reading => entry \in Record)
      /\ (at = "ask" => target \in Record)
      /\ Alive \subseteq used
      /\ startBorn <= born /\ born \in Nat /\ startBorn \in Nat
  BY DEF TypeInv, TypeOK, InHand, PidsStayOwned
<1>b. ProcessStarts \/ ProcessEnds \/ UNCHANGED <<running, born, used>>
  BY DEF Next, Skip, ReadStat, ReadUser, ReadFallback, ReadCommand, EndScan, Refresh, Ask,
         Refuse, Terminate, StatChanges, vars, host
<1>c. Alive' \subseteq used'
  BY <1>a, <1>b DEF ProcessStarts, ProcessEnds, Alive, Nobody
<1>d. startBorn' = startBorn => \A r \in table : Owned(r)'
  BY <1>a, <1>b, OwnedStays DEF PidsStayOwned
<1>e. startBorn' = startBorn => startBorn' <= born'
  BY <1>a, <1>b DEF ProcessStarts, ProcessEnds
<1>1. CASE Skip \/ EndScan \/ Refuse
  <2>1. UNCHANGED <<table, sent, startBorn>> /\ ~Reading' /\ at' # "ask"
    BY <1>1 DEF Skip, EndScan, Refuse, NextEntry, scan, Reading
  <2> QED BY <1>c, <1>d, <1>e, <2>1 DEF PidsStayOwned, SignalSparesOthers, Owned
<1>2. CASE ReadStat
  <2>1. PICK p \in Alive : entry' = [NoRecord EXCEPT !.pid = p, !.stat = running[p]]
    BY <1>2 DEF ReadStat
  <2>2. entry'.pid = p /\ entry'.stat = running[p]
    BY <2>1 DEF NoRecord
  <2>3. UNCHANGED <<host, table, sent, startBorn>> /\ at' = "user"
    BY <1>2 DEF ReadStat
  <2>4. Owned(entry)'
    BY <1>a, <2>2, <2>3 DEF Owned, host
  <2> QED BY <1>c, <1>d, <1>e, <2>3, <2>4 DEF PidsStayOwned, SignalSparesOthers, Owned
<1>3. CASE ReadUser
  <2>1. /\ entry \in Record /\ Owned(entry)
        /\ UNCHANGED <<host, table, sent, startBorn>> /\ at' = "comm"
    BY <1>3, <1>a DEF ReadUser, PidsStayOwned, Reading
  <2>2. entry'.pid = entry.pid /\ entry'.stat = entry.stat
    BY <1>3, <2>1 DEF ReadUser, Record
  <2>3. Owned(entry)'
    BY <2>1, <2>2 DEF Owned, host
  <2> QED BY <1>c, <1>d, <1>e, <2>1, <2>3 DEF PidsStayOwned, SignalSparesOthers, Owned
<1>9. CASE ReadFallback
  <2>1. /\ entry \in Record /\ Owned(entry)
        /\ UNCHANGED <<host, table, sent, startBorn>> /\ at' = "command"
    BY <1>9, <1>a DEF ReadFallback, PidsStayOwned, Reading
  <2>2. entry'.pid = entry.pid /\ entry'.stat = entry.stat
    BY <1>9, <2>1 DEF ReadFallback, Record
  <2>3. Owned(entry)'
    BY <2>1, <2>2 DEF Owned, host
  <2> QED BY <1>c, <1>d, <1>e, <2>1, <2>3 DEF PidsStayOwned, SignalSparesOthers, Owned
<1>4. CASE ReadCommand
  <2>1. entry \in Record /\ Owned(entry) /\ UNCHANGED <<host, sent, startBorn>> /\ at' = "scan"
    BY <1>4, <1>a DEF ReadCommand, PidsStayOwned, Reading
  <2>2. PICK r : r.pid = entry.pid /\ r.stat = entry.stat /\ table' = table \cup {r}
    BY <1>4, <2>1 DEF ReadCommand, Record
  <2>3. running' = running /\ used' = used
    BY <2>1 DEF host
  <2>4. \A s \in table' :
          /\ s.pid \in used'
          /\ running'[s.pid] \in {Nobody, s.stat} \/ (PidReuse /\ running'[s.pid] > startBorn)
    BY <1>d, <2>1, <2>2, <2>3 DEF Owned
  <2> QED BY <1>c, <1>e, <2>1, <2>4 DEF PidsStayOwned, SignalSparesOthers, Owned, Reading
<1>5. CASE Refresh
  BY <1>a, <1>c, <1>5 DEF Refresh, StartScan, PidsStayOwned, SignalSparesOthers, host, Reading
<1>6. CASE Ask
  <2>1. /\ UNCHANGED <<host, table, startBorn>> /\ target' \in table /\ at' = "ask"
        /\ sent' = NotSent
    BY <1>6 DEF Ask, scan
  <2>2. Owned(target)'
    BY <2>1 DEF PidsStayOwned, Owned, host
  <2>3. SignalSparesOthers'
    BY <2>1 DEF SignalSparesOthers, NotSent
  <2> QED BY <1>c, <1>d, <1>e, <2>1, <2>2, <2>3 DEF PidsStayOwned, Owned, Reading
<1>7. CASE Terminate
  <2>1. Owned(target) /\ at' = "scan" /\ table' = {} /\ startBorn' = born /\ born' = born
    BY <1>7 DEF Terminate, StartScan, PidsStayOwned, host
  <2>2. \/ sent' = Signal(target, Nobody)
        \/ sent' = Signal(target, running[target.pid])
    BY <1>7 DEF Terminate
  <2>3. SignalSparesOthers'
    BY <2>1, <2>2 DEF SignalSparesOthers, Signal, Owned
  <2> QED BY <1>a, <1>c, <2>1, <2>3 DEF PidsStayOwned, Reading
<1>8. CASE ProcessStarts \/ ProcessEnds \/ StatChanges \/ UNCHANGED vars
  <2>1. UNCHANGED <<at, table, entry, target, sent, startBorn>>
    BY <1>8 DEF ProcessStarts, ProcessEnds, StatChanges, vars, scan
  <2>2. \A r \in Record : Owned(r) => Owned(r)'
    BY <1>a, <1>b, <2>1, OwnedStays
  <2>3. \A r \in Record : Owned(r) =>
          /\ r.pid \in used'
          /\ running'[r.pid] \in {Nobody, r.stat} \/ (PidReuse /\ running'[r.pid] > startBorn)
    BY <2>1, <2>2 DEF Owned
  <2>4. Reading => Owned(entry)'
    BY <1>a, <2>1, <2>3 DEF PidsStayOwned, Owned
  <2>5. at = "ask" => Owned(target)'
    BY <1>a, <2>1, <2>3 DEF PidsStayOwned, Owned
  <2> QED BY <1>c, <1>d, <1>e, <2>1, <2>4, <2>5 DEF PidsStayOwned, SignalSparesOthers, Owned, Reading
<1> QED BY <1>1, <1>2, <1>3, <1>4, <1>5, <1>6, <1>7, <1>8, <1>9 DEF Next

(* A signal reaches the selected process, nobody, or one that is newer than    *)
(* the listing; it never hits a process the user could have seen beside it.    *)
THEOREM SignalsSpareOthers == Spec => []SignalSparesOthers
<1>1. Init => PidsStayOwned
  BY PidsAssumption DEF Init, PidsStayOwned, SignalSparesOthers, Alive, NotSent, Nobody, Reading
<1>2. TypeInv /\ PidsStayOwned /\ [Next]_vars => (TypeInv /\ PidsStayOwned)'
  BY TypeStep, PidsStayOwnedStep
<1>3. PidsStayOwned => SignalSparesOthers
  BY DEF PidsStayOwned
<1> QED BY <1>1, <1>2, <1>3, TypeInit, PTL DEF Spec
--------------------------------------------------------------------------------
(* Listings.  A process that lives through the scan, and has been readable, is *)
(* still to be visited, is being read, or has its record; and a record in the  *)
(* table, or being read, is of a process that was there during the scan.       *)
Seen(p) ==
  \/ p \in left
  \/ Reading /\ entry.stat = running[p]
  \/ \E r \in table : r.stat = running[p]

Current(r) == r.stat # Nobody /\ (r.stat \in ended \/ running[r.pid] = r.stat)

ScanInv ==
  /\ startBorn <= born
  /\ at \in {"idle", "ask"} => left = {}
  /\ hidden \subseteq veiled
  /\ \A p \in Alive \ veiled : running[p] <= startBorn => Seen(p)
  /\ \A r \in table : Current(r) /\ r.pid \notin left
  /\ Reading => /\ Current(entry) /\ entry.pid \notin left
                /\ \A r \in table : r.pid # entry.pid
  /\ \A r, s \in table : r.pid = s.pid => r = s

LEMMA ScanStarts ==
  ASSUME TypeInv, StartScan, UNCHANGED host
  PROVE  ScanInv'
BY DEF TypeInv, TypeOK, StartScan, host, ScanInv, Seen, Reading, Alive

LEMMA ScanStep == TypeInv /\ ScanInv /\ [Next]_vars => ScanInv'
<1> SUFFICES ASSUME TypeInv, ScanInv, [Next]_vars PROVE ScanInv'
  OBVIOUS
<1>a. /\ running \in [Pids -> Nat] /\ left \in SUBSET Pids /\ table \in SUBSET Record
      /\ (Reading => entry \in Record) /\ startBorn \in Nat /\ born \in Nat
  BY DEF TypeInv, TypeOK, InHand, Process, Reading
<1>1. CASE Skip
  <2>1. PICK p \in Pids : /\ running[p] = Nobody \/ running[p] > startBorn \/ p \in hidden
                          /\ left' = left \ {p}
    BY <1>1 DEF Skip
  <2>2. /\ UNCHANGED <<running, born, at, entry, table, startBorn, ended, hidden, veiled>>
        /\ at = "scan"
    BY <1>1 DEF Skip, NextEntry, host, past
  <2>3. \A q \in (Alive \ veiled)' : running'[q] <= startBorn' => Seen(q)'
    BY <1>a, <2>1, <2>2 DEF ScanInv, Seen, Alive, Reading
  <2> QED BY <2>1, <2>2, <2>3 DEF ScanInv, Reading, Current
<1>2. CASE ReadStat
  <2>1. PICK p \in Alive : /\ entry' = [NoRecord EXCEPT !.pid = p, !.stat = running[p]]
                           /\ left' = left \ {p} /\ p \in left /\ at = "scan"
    BY <1>2 DEF ReadStat, NextEntry
  <2>2. UNCHANGED <<running, born, table, startBorn, ended, hidden, veiled>> /\ at' = "user"
    BY <1>2 DEF ReadStat, host, past
  <2>3. entry'.pid = p /\ entry'.stat = running[p] /\ running[p] # Nobody
    BY <2>1 DEF NoRecord, Alive
  <2>4. \A q \in (Alive \ veiled)' : running'[q] <= startBorn' => Seen(q)'
    BY <1>a, <2>1, <2>2, <2>3 DEF ScanInv, Seen, Alive, Reading
  <2>5. Current(entry)' /\ entry'.pid \notin left' /\ \A r \in table' : r.pid # entry'.pid
    BY <2>1, <2>2, <2>3 DEF Current, ScanInv
  <2> QED BY <2>1, <2>2, <2>4, <2>5 DEF ScanInv, Reading, Current
<1>3. CASE ReadUser
  <2>1. /\ UNCHANGED <<running, born, left, table, startBorn, ended, hidden, veiled>>
        /\ at = "user" /\ at' = "comm"
    BY <1>3 DEF ReadUser, host, past
  <2>2. entry'.pid = entry.pid /\ entry'.stat = entry.stat
    BY <1>3, <1>a DEF ReadUser, Record, Reading
  <2> QED BY <2>1, <2>2 DEF ScanInv, Reading, Current, Seen, Alive
<1>9. CASE ReadFallback
  <2>1. /\ UNCHANGED <<running, born, left, table, startBorn, ended, hidden, veiled>>
        /\ at = "comm" /\ at' = "command"
    BY <1>9 DEF ReadFallback, host, past
  <2>2. entry'.pid = entry.pid /\ entry'.stat = entry.stat
    BY <1>9, <1>a DEF ReadFallback, Record, Reading
  <2> QED BY <2>1, <2>2 DEF ScanInv, Reading, Current, Seen, Alive
<1>4. CASE ReadCommand
  <2>1. /\ UNCHANGED <<running, born, left, startBorn, ended, hidden, veiled>>
        /\ Reading /\ at' = "scan"
    BY <1>4 DEF ReadCommand, host, past, Reading
  <2>2. PICK r : r.pid = entry.pid /\ r.stat = entry.stat /\ table' = table \cup {r}
    BY <1>4, <1>a, <2>1 DEF ReadCommand, Record
  <2>3. \A q \in (Alive \ veiled)' : running'[q] <= startBorn' => Seen(q)'
    BY <2>1, <2>2 DEF ScanInv, Seen, Alive
  <2>4. \A s \in table' : Current(s)' /\ s.pid \notin left'
    BY <2>1, <2>2 DEF ScanInv, Current
  <2>5. \A s, t \in table' : s.pid = t.pid => s = t
    BY <2>1, <2>2 DEF ScanInv
  <2> QED BY <2>1, <2>3, <2>4, <2>5 DEF ScanInv, Reading
<1>5. CASE EndScan \/ Refuse \/ Ask \/ UNCHANGED vars
  <2>1. /\ UNCHANGED <<running, born, left, entry, table, startBorn, ended, hidden, veiled>>
        /\ Reading' <=> Reading
        /\ at' \in {"idle", "ask"} => left = {}
    BY <1>5 DEF EndScan, Refuse, Ask, vars, host, scan, past, ScanInv, Reading
  <2> QED BY <2>1 DEF ScanInv, Seen, Alive, Current
<1>6. CASE Refresh \/ Terminate
  BY <1>6, ScanStarts DEF Refresh, Terminate, host
<1>10. CASE StatChanges
  <2>1. UNCHANGED <<running, born, at, left, entry, table, startBorn, ended>>
    BY <1>10 DEF StatChanges, scan
  <2>2. hidden' \subseteq veiled' /\ veiled \subseteq veiled'
    BY <1>10 DEF StatChanges
  <2> QED BY <2>1, <2>2 DEF ScanInv, Seen, Alive, Reading, Current
<1>7. CASE ProcessStarts
  <2>1. PICK p \in Pids \ Alive : running' = [running EXCEPT ![p] = born + 1]
    BY <1>7 DEF ProcessStarts
  <2>2. /\ UNCHANGED <<at, left, entry, table, startBorn, ended>> /\ born' = born + 1
        /\ hidden' \subseteq veiled' /\ veiled \subseteq veiled'
    BY <1>7 DEF ProcessStarts, scan
  <2>3. \A q \in Pids : q # p => running'[q] = running[q]
    BY <1>a, <2>1
  <2>4. running'[p] = born + 1 /\ running[p] = Nobody
    BY <1>a, <2>1 DEF Alive
  <2>5. \A q \in (Alive \ veiled)' : running'[q] <= startBorn' => Seen(q)'
    BY <1>a, <2>2, <2>3, <2>4 DEF ScanInv, Seen, Alive, Reading
  <2>6. \A r \in table : r.pid \in Pids /\ Current(r)
    BY <1>a DEF ScanInv, Record
  <2>7. \A r \in table' : Current(r)'
    BY <2>2, <2>3, <2>4, <2>6 DEF Current
  <2>8. Reading' => Current(entry)'
    BY <1>a, <2>2, <2>3, <2>4 DEF ScanInv, Reading, Current, Record
  <2> QED BY <1>a, <2>2, <2>5, <2>7, <2>8 DEF ScanInv, Reading
<1>8. CASE ProcessEnds
  <2>1. PICK p \in Alive : /\ running' = [running EXCEPT ![p] = Nobody]
                           /\ ended' = ended \cup {running[p]}
    BY <1>8 DEF ProcessEnds
  <2>2. /\ UNCHANGED <<born, at, left, entry, table, startBorn, veiled>>
        /\ hidden' \subseteq hidden
    BY <1>8 DEF ProcessEnds, scan
  <2>3. \A q \in Alive' : q # p /\ running'[q] = running[q] /\ q \in Alive
    BY <1>a, <2>1 DEF Alive, Nobody
  <2>4. \A q \in (Alive \ veiled)' : running'[q] <= startBorn' => Seen(q)'
    BY <2>2, <2>3 DEF ScanInv, Seen, Reading
  <2>5. \A q \in Pids : running'[q] = running[q] \/ (q = p /\ running[q] \in ended')
    BY <1>a, <2>1 DEF Alive
  <2>6. \A r \in table : r.pid \in Pids /\ Current(r)
    BY <1>a DEF ScanInv, Record
  <2>7. \A r \in table' : Current(r)'
    BY <2>1, <2>2, <2>5, <2>6 DEF Current
  <2>8. Reading' => Current(entry)'
    BY <1>a, <2>1, <2>2, <2>5 DEF ScanInv, Reading, Current, Record
  <2> QED BY <2>2, <2>4, <2>7, <2>8 DEF ScanInv, Reading
<1> QED BY <1>1, <1>2, <1>3, <1>4, <1>5, <1>6, <1>7, <1>8, <1>9, <1>10 DEF Next

LEMMA ScanInvariant == Spec => []ScanInv
<1>1. Init => ScanInv
  BY DEF Init, ScanInv, Seen, Reading, Alive
<1>2. TypeInv /\ ScanInv /\ [Next]_vars => (TypeInv /\ ScanInv)'
  BY TypeStep, ScanStep
<1> QED BY <1>1, <1>2, TypeInit, PTL DEF Spec

(* No process that lives through a listing, and can be read all that time, is  *)
(* missing from it.                                                            *)
THEOREM ListingsAreComplete == Spec => []ListingIsComplete
<1>1. ScanInv => ListingIsComplete
  BY DEF ScanInv, Seen, Reading, ListingIsComplete
<1> QED BY <1>1, ScanInvariant, PTL

(* One record per PID, and none of a process that was gone before.             *)
THEOREM ListingsAreCurrent == Spec => []ListingIsCurrent
<1>1. ScanInv => ListingIsCurrent
  BY DEF ScanInv, Current, ListingIsCurrent
<1> QED BY <1>1, ScanInvariant, PTL
--------------------------------------------------------------------------------
(* Records.  Whatever was read by the path of a process came from the owner of *)
(* its PID at that time.                                                       *)
Own(r, p) == p \in {Nobody, r.stat} \/ (PidReuse /\ p > startBorn)
Whole(r)  == Own(r, r.user) /\ Own(r, r.cmd)

RecordInv ==
  /\ \A r \in table : Whole(r)
  /\ Reading => Whole(entry)

LEMMA RecordStep == TypeInv /\ PidsStayOwned /\ RecordInv /\ [Next]_vars => RecordInv'
<1> SUFFICES ASSUME TypeInv, PidsStayOwned, RecordInv, [Next]_vars PROVE RecordInv'
  OBVIOUS
<1>a. (Reading => entry \in Record) /\ (Reading => Owned(entry))
  BY DEF TypeInv, InHand, PidsStayOwned
<1>1. CASE ReadStat
  <2>1. PICK p \in Alive : entry' = [NoRecord EXCEPT !.pid = p, !.stat = running[p]]
    BY <1>1 DEF ReadStat
  <2>2. entry'.user = Nobody /\ entry'.cmd = Nobody
    BY <2>1 DEF NoRecord
  <2>3. UNCHANGED <<table, startBorn>>
    BY <1>1 DEF ReadStat
  <2> QED BY <2>2, <2>3 DEF RecordInv, Whole, Own
<1>2. CASE ReadUser
  <2>1. entry \in Record /\ Reading
    BY <1>2, <1>a DEF ReadUser, Reading
  <2>2. /\ entry'.user = running[entry.pid] /\ entry'.cmd = entry.cmd
        /\ entry'.stat = entry.stat
    BY <1>2, <2>1 DEF ReadUser, Record
  <2>3. UNCHANGED <<table, startBorn>>
    BY <1>2 DEF ReadUser
  <2> QED BY <1>a, <2>1, <2>2, <2>3 DEF RecordInv, Whole, Own, Owned
<1>3. CASE ReadFallback
  <2>1. entry \in Record /\ Reading
    BY <1>3, <1>a DEF ReadFallback, Reading
  <2>2. /\ entry'.user = entry.user /\ entry'.cmd = running[entry.pid]
        /\ entry'.stat = entry.stat
    BY <1>3, <2>1 DEF ReadFallback, Record
  <2>3. UNCHANGED <<table, startBorn>>
    BY <1>3 DEF ReadFallback
  <2> QED BY <1>a, <2>1, <2>2, <2>3 DEF RecordInv, Whole, Own, Owned
<1>4. CASE ReadCommand
  <2>1. entry \in Record /\ Reading
    BY <1>4, <1>a DEF ReadCommand, Reading
  <2>2. PICK cmd \in {entry.cmd} \cup ({running[entry.pid]} \ {Nobody}) :
           table' = table \cup {[entry EXCEPT !.cmd = cmd]}
    BY <1>4 DEF ReadCommand
  <2>3. Own(entry, cmd)
    BY <1>a, <2>1, <2>2 DEF RecordInv, Whole, Own, Owned
  <2>4. PICK r : /\ r.user = entry.user /\ r.cmd = cmd /\ r.stat = entry.stat
                 /\ table' = table \cup {r}
    BY <2>1, <2>2 DEF Record
  <2>5. startBorn' = startBorn /\ ~Reading'
    BY <1>4 DEF ReadCommand, Reading
  <2> QED BY <2>1, <2>3, <2>4, <2>5 DEF RecordInv, Whole, Own
<1>5. CASE Refresh \/ Terminate
  BY <1>5 DEF Refresh, Terminate, StartScan, RecordInv, Reading
<1>6. CASE \/ Skip \/ EndScan \/ Ask \/ Refuse \/ ProcessStarts \/ ProcessEnds
           \/ StatChanges \/ UNCHANGED vars
  <2>1. UNCHANGED <<table, entry, startBorn>> /\ (Reading' => Reading)
    BY <1>6 DEF Skip, EndScan, Ask, Refuse, ProcessStarts, ProcessEnds, StatChanges, vars, scan, NextEntry,
                Reading
  <2> QED BY <2>1 DEF RecordInv, Whole, Own
<1> QED BY <1>1, <1>2, <1>3, <1>4, <1>5, <1>6 DEF Next

(* No record mixes two processes of one listing, or of the ones before it.      *)
THEOREM RecordsStayWhole == Spec => []RecordsAreWhole
<1>1. Init => PidsStayOwned /\ RecordInv
  BY PidsAssumption DEF Init, PidsStayOwned, SignalSparesOthers, Alive, NotSent, Nobody,
                        RecordInv, Reading
<1>2. TypeInv /\ PidsStayOwned /\ RecordInv /\ [Next]_vars
        => (TypeInv /\ PidsStayOwned /\ RecordInv)'
  BY TypeStep, PidsStayOwnedStep, RecordStep
<1>3. RecordInv => RecordsAreWhole
  BY DEF RecordInv, Whole, Own, RecordsAreWhole
<1> QED BY <1>1, <1>2, <1>3, TypeInit, PTL DEF Spec
================================================================================
