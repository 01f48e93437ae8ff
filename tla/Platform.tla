-------------------------------- MODULE Platform --------------------------------
(* Identification of the host by /etc/os-release, and the lookup of an         *)
(* executable on PATH.                                                         *)
EXTENDS Text

Quoted(s) == Len(s) >= 2 /\ s[1] = s[Len(s)] /\ s[1] \in {Quote, Apostrophe}

(* escaped[i] is the flag of the loop after character i.                       *)
Unescaped(s) ==
  LET escaped[i \in 0 .. Len(s)] == i # 0 /\ s[i] = Backslash /\ ~escaped[i - 1]
      kept == {i \in DOMAIN s : s[i] # Backslash \/ escaped[i - 1]}
  IN  [k \in 1 .. Cardinality(kept) |-> s[Nth(kept, k)]]
        \o (IF escaped[Len(s)] THEN <<Backslash>> ELSE <<>>)

UnquoteOsReleaseValue(value) ==
  LET s == Trim(value)
  IN  Unescaped(IF Quoted(s) THEN Between(s, 2, Len(s)) ELSE s)

PrettyName == <<80>>
Name       == <<78>>
Unknown    == <<85>>     \* the name of the operating system, by uname

EqualsAt(line)     == SelectInSeq(line, LAMBDA c : c = Equals)
IsAssignment(line) == line # <<>> /\ line[1] # 35 /\ Contains(line, Equals)
KeyOf(line)        == Trim(Between(line, 1, EqualsAt(line)))

(* Mutant of Assigned: the first assignment of a key is kept.                  *)
FirstAssigned(lines, key) == {Min({k \in DOMAIN lines :
                                    IsAssignment(lines[k]) /\ KeyOf(lines[k]) = key} \cup {99})}
                               \cap DOMAIN lines

(* The line whose value the map has for a key in the end.                      *)
Assigned(lines, key) ==
  LET assignments == {k \in DOMAIN lines : IsAssignment(lines[k]) /\ KeyOf(lines[k]) = key}
  IN  {k \in assignments : \A j \in assignments : j <= k}

(* parse_os_release and detect_platform: the distribution.                     *)
Distribution(file) ==
  LET raw   == GetLines(file, Newline)
      lines == [k \in DOMAIN raw |-> Trim(raw[k])]
      key   == IF Assigned(lines, PrettyName) # {} THEN PrettyName ELSE Name
      value == {UnquoteOsReleaseValue(SubSeq(lines[k], EqualsAt(lines[k]) + 1, Len(lines[k]))) :
                  k \in Assigned(lines, key)}
  IN  IF value \subseteq {<<>>} THEN Unknown ELSE CHOOSE v \in value : TRUE
--------------------------------------------------------------------------------
(* Mutant of ExecutableOnPath: an empty entry leads nowhere.                   *)
EmptyIsNowhere(path, place) ==
  \E k \in DOMAIN GetLines(path, Colon) :
     LET entry == GetLines(path, Colon)[k]
     IN  entry \in DOMAIN place /\ place[entry] \in {"program", "directory"}

(* place says what has the name that is looked for in each directory; access   *)
(* finds a directory executable like a program.                                *)
ExecutableOnPath(path, place) ==
  \E k \in DOMAIN GetLines(path, Colon) :
     LET entry     == GetLines(path, Colon)[k]
         directory == IF entry = <<>> THEN <<46>> ELSE entry
     IN  directory \in DOMAIN place /\ place[directory] \in {"program", "directory"}
================================================================================
