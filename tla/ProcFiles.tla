------------------------------- MODULE ProcFiles -------------------------------
(* The parsers of the files of /proc: the mount table, a process, the memory   *)
(* and the network.  Each takes the text of a file and returns what the        *)
(* application keeps of it.                                                    *)
EXTENDS Text

(* /proc/self/mounts.                                                          *)
PseudoFilesystems == {<<80>>}       \* one name stands for the 27

OctalDigit == 48 .. 55

Escape(s, i) ==
  /\ s[i] = Backslash /\ i + 3 <= Len(s)
  /\ s[i + 1] = 48 /\ s[i + 2] \in OctalDigit /\ s[i + 3] \in OctalDigit

DecodeMountPath(s) ==
  LET From[i \in 1 .. Len(s) + 1] ==
        IF i > Len(s) THEN <<>>
        ELSE IF Escape(s, i) THEN <<8 * (s[i + 2] - 48) + s[i + 3] - 48>> \o From[i + 4]
        ELSE <<s[i]>> \o From[i + 1]
  IN  From[1]

(* The entries of the lines kept, in order: device and mount point.            *)
RealMounts(words, kept) ==
  [i \in 1 .. Cardinality(kept) |->
     LET w == words[Nth(kept, i)]
     IN  [device |-> DecodeMountPath(w[1]), point |-> DecodeMountPath(w[2])]]

(* Mutant of ParseMounts: the first pseudo file system ends the table.         *)
UpToPseudo(file) ==
  LET lines == GetLines(file, Newline)
      words == [k \in DOMAIN lines |-> Words(lines[k])]
  IN  RealMounts(words, {k \in DOMAIN lines :
                           \A j \in 1 .. k : words[j][3] \notin PseudoFilesystems})

ParseMounts(file) ==
  LET lines == GetLines(file, Newline)
      words == [k \in DOMAIN lines |-> Words(lines[k])]
  IN  RealMounts(words, {k \in DOMAIN lines : words[k][3] \notin PseudoFilesystems})
--------------------------------------------------------------------------------
(* /proc/<pid>/stat and cmdline.                                               *)
NoStat == [ok |-> FALSE]

StatFields(line, close) ==
  LET values == Words(SubSeq(line, close + 2, Len(line)))
  IN  IF close = 0 \/ close + 2 >= Len(line) \/ Len(values) < 22 THEN NoStat
      ELSE IF ~(IsNumber(values[12]) /\ IsNumber(values[13]) /\ IsNumber(values[22]))
      THEN NoStat
      ELSE [ok |-> TRUE, state |-> values[1][1],
            ticks |-> ValueOf(values[12]) + ValueOf(values[13]), pages |-> ValueOf(values[22])]

(* Mutant of ParseProcStat: find for rfind.                                    *)
FirstParenthesis(line) == StatFields(line, SelectInSeq(line, LAMBDA c : c = Close))

ParseProcStat(line) == StatFields(line, SelectLastInSeq(line, LAMBDA c : c = Close))

(* Mutant of ReadProcessCommand: the text is trimmed before it is cleaned.     *)
TrimsFirst(commandLine, fallback) ==
  LET kept == Trim(commandLine)
      line == [i \in DOMAIN kept |-> IF kept[i] \in Control THEN Space ELSE kept[i]]
  IN  IF line = <<>> THEN fallback ELSE line

ReadProcessCommand(commandLine, fallback) ==
  LET line == Trim([i \in DOMAIN commandLine |->
                      IF commandLine[i] \in Control THEN Space ELSE commandLine[i]])
  IN  IF line = <<>> THEN fallback ELSE line
--------------------------------------------------------------------------------
(* /proc/meminfo is read as a stream of key, number and unit, until one of     *)
(* them is not what it should be.                                              *)
MemTotal     == <<84, Colon>>
MemAvailable == <<65, Colon>>

Figure(w, read, key) ==
  LET of == {k \in read : w[3 * k - 2] = key}
  IN  IF of = {} THEN 0 ELSE ValueOf(w[3 * Max(of) - 1])

ReadMemoryInfo(file) ==
  LET w    == Words(file)
      read == {k \in 1 .. Len(w) \div 3 : \A j \in 1 .. k : IsNumber(w[3 * j - 1])}
  IN  [total |-> Figure(w, read, MemTotal), available |-> Figure(w, read, MemAvailable)]
--------------------------------------------------------------------------------
(* /proc/net/dev, with the interfaces that have a carrier.                     *)
Loopback == <<76>>

NameOf(line) == Trim(Between(line, 1, SelectInSeq(line, LAMBDA c : c = Colon)))

Column(line, n) ==
  LET fields == Words(SubSeq(line, SelectInSeq(line, LAMBDA c : c = Colon) + 1, Len(line)))
  IN  IF n <= Len(fields) /\ IsNumber(fields[1]) /\ IsNumber(fields[n])
      THEN ValueOf(fields[n]) ELSE 0

Interfaces(lines) ==
  {k \in DOMAIN lines : /\ Contains(lines[k], Colon)
                        /\ NameOf(lines[k]) \notin {<<>>, Loopback}}

(* Mutant of ReadNetworkInfo: one column too few is skipped.                   *)
EighthColumn(file, carrier) ==
  LET lines == GetLines(file, Newline)
      found == Interfaces(lines)
  IN  [count       |-> Cardinality(found),
       active      |-> Cardinality({k \in found : NameOf(lines[k]) \in carrier}),
       received    |-> MapThenSumSet(LAMBDA k : Column(lines[k], 1), found),
       transmitted |-> MapThenSumSet(LAMBDA k : Column(lines[k], 8), found)]

ReadNetworkInfo(file, carrier) ==
  LET lines == GetLines(file, Newline)
      found == Interfaces(lines)
  IN  [count       |-> Cardinality(found),
       active      |-> Cardinality({k \in found : NameOf(lines[k]) \in carrier}),
       received    |-> MapThenSumSet(LAMBDA k : Column(lines[k], 1), found),
       transmitted |-> MapThenSumSet(LAMBDA k : Column(lines[k], 9), found)]
================================================================================
