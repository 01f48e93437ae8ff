--------------------------------- MODULE Formats ---------------------------------
(* What the kernel, a distribution or the environment may write, grown one     *)
(* character or one line at a time, and what the parsers of the application    *)
(* make of it; and the sizes a terminal may have, and what each page makes of  *)
(* them.                                                                       *)
EXTENDS ProcFiles, Platform, Screen

CONSTANTS
  MaxName,     \* bound: characters of a name or a value
  MaxLines,    \* bound: lines of a file
  Heights,     \* lines and columns a terminal may have
  Widths

ASSUME MaxAssumption == MaxName \in Nat /\ MaxLines \in Nat
ASSUME SizeAssumption == Heights \subseteq Nat /\ Widths \subseteq Nat

VARIABLES
  kind,     \* what is being written
  text,     \* what was written so far: characters or lines
  place     \* for PATH: what has the name that is looked for in each directory;
            \* for a frame: the page, the terminal, and what the page has to show

vars == <<kind, text, place>>

A == 97
Dot == 46
Here == <<Dot>>
Directories == {Here, <<A>>, <<66>>}
Comm == <<107>>

(* The characters that matter in a name or value of each kind.                 *)
Letters ==
  [mount   |-> {A, 48, 52, Space, Backslash},
   comm    |-> {A, 82, Space, Newline, Open, Close},
   cmdline |-> {A, Nul, Newline, Space, Delete},
   value   |-> {A, Space, Quote, Apostrophe, Backslash, Dollar},
   path    |-> {A, 66, Dot, Colon}]

(* The lines that matter in a file of each kind.                               *)
Lines ==
  [mounts  |-> [device : {<<>>, <<A>>, <<A, Space>>}, pseudo : BOOLEAN],
   release |-> {<<>>, <<35, 80, Equals>>, Name, Name \o <<Equals>>, Name \o <<Space, Equals>>,
                PrettyName \o <<Equals>>, <<Space>> \o PrettyName \o <<Equals, Quote>>},
   meminfo |-> [key : {MemTotal, MemAvailable}, unit : {TRUE}]
                 \cup [key : {<<79, Colon>>}, unit : BOOLEAN],
   network |-> [name : {Loopback, <<69>>, <<87>>}, padded : BOOLEAN, up : BOOLEAN]]

Init ==
  /\ kind \in DOMAIN Letters \cup DOMAIN Lines \cup {"frame"}
  /\ text = <<>>
  /\ CASE kind = "path"  -> place \in [Directories -> {"nothing", "plain", "program", "directory"}]
       [] kind = "frame" ->
            place = [page |-> 1, lines |-> 24, cols |-> 80, rows |-> 0, available |-> TRUE,
                     loaded |-> TRUE, message |-> FALSE]
       [] OTHER          -> place = <<>>

WriteCharacter ==
  /\ kind \in DOMAIN Letters /\ Len(text) < MaxName
  /\ \E c \in Letters[kind] : text' = Append(text, c)
  /\ UNCHANGED <<kind, place>>

(* The kernel has one line for each interface and each figure of the memory.   *)
New(line) ==
  CASE kind = "meminfo" -> line.key = <<79, Colon>> \/ \A k \in DOMAIN text : text[k].key # line.key
    [] kind = "network" -> \A k \in DOMAIN text : text[k].name # line.name
    [] OTHER            -> TRUE

WriteLine ==
  /\ kind \in DOMAIN Lines /\ Len(text) < MaxLines
  /\ \E line \in Lines[kind] : New(line) /\ text' = Append(text, line)
  /\ UNCHANGED <<kind, place>>

(* The terminal gets another size; another page is drawn; the table of the     *)
(* page, its manager, or the message of the last action, changes.  A table     *)
(* that is not loaded has no rows.                                             *)
Resize ==
  /\ kind = "frame"
  /\ \E lines \in Heights, cols \in Widths : place' = [place EXCEPT !.lines = lines, !.cols = cols]
  /\ UNCHANGED <<kind, text>>

SwitchPage ==
  /\ kind = "frame"
  /\ \E page \in DOMAIN Pages : place' = [place EXCEPT !.page = page]
  /\ UNCHANGED <<kind, text>>

Refresh ==
  /\ kind = "frame"
  /\ \E rows \in {0, 1, 100}, available, loaded, message \in BOOLEAN :
        /\ loaded \/ rows = 0
        /\ place' = [place EXCEPT !.rows = rows, !.available = available, !.loaded = loaded,
                                 !.message = message]
  /\ UNCHANGED <<kind, text>>

Next ==
  \/ WriteCharacter \/ WriteLine
  \/ Resize \/ SwitchPage \/ Refresh

Spec == Init /\ [][Next]_vars
--------------------------------------------------------------------------------
(* How the writers write.                                                      *)
Mangled(name) ==
  FlattenSeq([i \in DOMAIN name |->
    CASE name[i] = Space     -> <<Backslash, 48, 52, 48>>
      [] name[i] = Backslash -> <<Backslash, 49, 51, 52>>
      [] OTHER               -> <<name[i]>>])

MountLine(device, point, type) ==
  Mangled(device) \o <<Space>> \o Mangled(point) \o <<Space>> \o type
    \o <<Space, A, Space, 48, Space, 48>>

StatLine(comm) ==
  <<Number(7), Space, Open>> \o comm \o <<Close, Space, 82>>
    \o [i \in 1 .. 42 |-> IF i % 2 = 1 THEN Space ELSE Number(i \div 2 + 3)]

DoubleQuoted(value) ==
  <<Quote>> \o FlattenSeq([i \in DOMAIN value |->
                 IF value[i] \in {Quote, Backslash, Dollar} THEN <<Backslash, value[i]>>
                 ELSE <<value[i]>>]) \o <<Quote>>
SingleQuoted(value) == <<Apostrophe>> \o value \o <<Apostrophe>>

(* Line k assigns the number k, if it assigns anything.                        *)
ReleaseFile ==
  FlattenSeq([k \in DOMAIN text |->
    text[k] \o (IF Contains(text[k], Quote) THEN <<Number(k), Quote>>
                ELSE IF Contains(text[k], Equals) THEN <<Number(k)>> ELSE <<>>)
            \o <<Newline>>])

MeminfoFile ==
  FlattenSeq([k \in DOMAIN text |->
    text[k].key \o <<Space, Number(k)>> \o (IF text[k].unit THEN <<Space, 107>> ELSE <<>>)
      \o <<Newline>>])

(* Column c of line k is 100 * k + c; a long number leaves no space before it. *)
InterfaceLine(interface, k) ==
  <<Space>> \o interface.name \o <<Colon>> \o (IF interface.padded THEN <<Space>> ELSE <<>>)
    \o FlattenSeq([c \in 1 .. 16 |-> <<Number(100 * k + c), Space>>])

(* Two lines of headings, and one for each interface.                          *)
NetworkFile ==
  FlattenSeq([k \in 1 .. Len(text) + 2 |->
    (IF k <= 2 THEN <<73>> ELSE InterfaceLine(text[k - 2], k)) \o <<Newline>>])

Carriers == {text[k].name : k \in {j \in DOMAIN text : text[j].up}}
--------------------------------------------------------------------------------
(* The mount point a file system is listed and asked about by is its own,       *)
(* whatever its name looks like in the table (storage_manager.cpp:18-36): spaces*)
(* and digits after them are decoded.  The exact limit is the backslash, which *)
(* the kernel writes as \134 and the decoder leaves so.  And the table gives   *)
(* one entry for each real file system, in order, and none for a pseudo file   *)
(* system (lines 44-65).  The columns of a line without a device are one to    *)
(* the left: its file system is listed, under its type, whether it is pseudo   *)
(* or not, and nothing else in the table is changed by it.                     *)
MountTableIsRead ==
  /\ kind = "mount" /\ text # <<>> =>
       LET mounts == ParseMounts(MountLine(<<A>>, text, <<A>>) \o <<Newline>>)
       IN  Len(mounts) = 1 /\ (mounts[1].point = text <=> ~Contains(text, Backslash))
  /\ kind = "mounts" =>
       LET point(k) == <<A, Number(k)>>
           type(k)  == IF text[k].pseudo THEN <<80>> ELSE <<A>>
           real     == {k \in DOMAIN text : ~text[k].pseudo \/ text[k].device = <<>>}
           entry(k) == IF text[k].device = <<>> THEN [device |-> point(k), point |-> type(k)]
                       ELSE [device |-> text[k].device, point |-> point(k)]
       IN  ParseMounts(FlattenSeq([k \in DOMAIN text |->
                         MountLine(text[k].device, point(k), type(k)) \o <<Newline>>]))
             = [i \in 1 .. Cardinality(real) |-> entry(Nth(real, i))]

(* State, processor time and memory of a process are found behind any name it   *)
(* gave itself, with spaces and parentheses (process_manager.cpp:37-61), except *)
(* one with a newline.  The kernel writes it as it is, list_processes looks at  *)
(* the first line alone (line 129), and nothing in a name as short as the       *)
(* kernel allows is taken for the figures: the process is left out, never       *)
(* listed with figures that are not its own.                                    *)
CommSize == 15

StatSurvivesNames ==
  kind = "comm" =>
    LET stat == ParseProcStat(FirstLine(StatLine(text) \o <<Newline>>))
    IN  /\ ~Contains(text, Newline)
             => stat = [ok |-> TRUE, state |-> 82, ticks |-> 14 + 15, pages |-> 24]
        /\ Contains(text, Newline) /\ Len(text) <= CommSize => stat = NoStat

(* process_manager.cpp:66 "Control characters (newlines, tabs, NUL) would       *)
(* corrupt single-line rendering": the command of a process begins and ends    *)
(* with something visible, has all that is visible between, where it was, and  *)
(* a space for each other character; and it is the name of the program exactly *)
(* when nothing is visible.                                                    *)
CommandIsOneLine ==
  kind = "cmdline" =>
    LET command == ReadProcessCommand(text, Comm)
        seen    == {i \in DOMAIN text : text[i] \notin Control \cup {Space}}
    IN  IF seen = {} THEN command = Comm
        ELSE \E before \in 0 .. Len(text) :
               /\ \A i \in seen : i - before \in DOMAIN command
               /\ \A j \in DOMAIN command :
                    command[j] = IF j + before \in seen THEN text[j + before] ELSE Space
               /\ 1 + before \in seen /\ Len(command) + before \in seen

(* The name of the distribution is read as the shell reads os-release: a value  *)
(* in quotes is unquoted, with double quotes any value, with single quotes any *)
(* without quote or backslash (platform.cpp:24-47); and the last PRETTY_NAME   *)
(* of the file counts, else the last NAME, and there is never nothing          *)
(* (lines 49-71, 116-118).                                                     *)
DistributionIsRead ==
  /\ kind = "value" =>
       /\ UnquoteOsReleaseValue(DoubleQuoted(text)) = text
       /\ ~Contains(text, Apostrophe) /\ ~Contains(text, Backslash)
            => UnquoteOsReleaseValue(SingleQuoted(text)) = text
  /\ kind = "release" =>
       LET last(lines) == {k \in DOMAIN text : text[k] \in lines /\
                             \A j \in DOMAIN text : text[j] \in lines => j <= k}
           pretty == last({PrettyName \o <<Equals>>, <<Space>> \o PrettyName \o <<Equals, Quote>>})
           plain  == last({Name \o <<Equals>>, Name \o <<Space, Equals>>})
           source == IF pretty # {} THEN pretty ELSE plain
       IN  IF source = {} THEN Distribution(ReleaseFile) = Unknown
           ELSE \A k \in source : Distribution(ReleaseFile) = <<Number(k)>>

(* One of the directories in PATH has what by the name that is looked for; if   *)
(* it is a program, execvp finds it.                                            *)
InPath(what) ==
  \E k \in DOMAIN Pieces(text, {Colon}) :
     LET entry     == Pieces(text, {Colon})[k]
         directory == IF entry = <<>> THEN Here ELSE entry
     IN  directory \in Directories /\ place[directory] = what

(* What the lookup finds can be executed by that name, and what can be executed *)
(* is found (platform.cpp:73-90 against execvp, command.cpp:68,112), with two  *)
(* exceptions: a directory of that name is found, and what is in the current   *)
(* directory is not when the entry for it is the last and empty.               *)
LookupFindsExecutables ==
  kind = "path" =>
    /\ ExecutableOnPath(text, place) => InPath("program") \/ InPath("directory")
    /\ InPath("program") => \/ ExecutableOnPath(text, place)
                            \/ place[Here] = "program" /\ Last(Pieces(text, {Colon})) = <<>>

(* The total and the available memory are read wherever they stand in the file, *)
(* as long as no line before them is without a unit (system_info.cpp:17-31), as *)
(* the counts of huge pages are.  The traffic is the sum of the right columns   *)
(* over all interfaces but the loopback, with or without a space before the     *)
(* first number (lines 48-77).                                                 *)
FiguresAreRead ==
  /\ kind = "meminfo" =>
       LET memory == ReadMemoryInfo(MeminfoFile)
           figure(key) == {k \in DOMAIN text : text[k].key = key /\ \A j \in 1 .. k : text[j].unit}
           is(value, lines) == IF lines = {} THEN value = 0 ELSE value \in lines
       IN  is(memory.total, figure(MemTotal)) /\ is(memory.available, figure(MemAvailable))
  /\ kind = "network" =>
       LET others == {k \in 3 .. Len(text) + 2 : text[k - 2].name # Loopback}
       IN  ReadNetworkInfo(NetworkFile, Carriers) =
             [count       |-> Cardinality(others),
              active      |-> Cardinality({k \in others : text[k - 2].up}),
              received    |-> MapThenSumSet(LAMBDA k : 100 * k + 1, others),
              transmitted |-> MapThenSumSet(LAMBDA k : 100 * k + 9, others)]

(* The size from which on each page of PageMeta is whole, with its manager and  *)
(* without it.                                                                 *)
EnoughLines == <<25, 19, 19, 19, 19, 19, 22>>
EnoughCols(available) ==
  IF available THEN <<85, 83, 122, 90, 99, 121, 98>> ELSE <<85, 83, 95, 78, 72, 72, 98>>

(* application.cpp:49 "Resize to at least 72x18": above that size a page is     *)
(* drawn, but it is whole, each label shown in full, something of each value,  *)
(* and nothing written over, exactly from its own size on; the keys of the     *)
(* last line want 73 columns.  At 80 by 24 no page is whole whose manager is    *)
(* there: on the overview the line under the name of the host is cut and the   *)
(* hints lie over the security line, and the usage of the file systems is      *)
(* beyond the right edge.  The help shows all of its lines, and the first key  *)
(* never in full.                                                              *)
FramesAreWhole ==
  kind = "frame" /\ place.lines >= MinLines /\ place.cols >= 72 =>
    LET frame == Frame(place.page, place.lines, place.cols, place.rows, place.available,
                       place.loaded, place.message)
        help  == Help(place.page, place.lines, place.cols)
    IN  /\ IsWhole(frame, place.lines, place.cols)
             <=> /\ place.lines >= EnoughLines[place.page]
                 /\ place.cols >= EnoughCols(place.available)[place.page]
                 /\ place.message \/ place.cols >= 73
        /\ \A i \in DOMAIN help : IsShown(help, i, place.lines, place.cols) <=> i # 2
================================================================================
