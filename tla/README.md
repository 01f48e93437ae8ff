# Apadana: models, checks and proofs

Apadana is a system manager for the terminal: one C++ process with one thread,
an ncurses interface, and managers that read the state of the host from files
and from the output of tools, and change it by running tools as root.  This
directory holds TLA+ models of it, the TLC runs that check them on small
instances, and proofs by TLAPS of what the checks found true.  All paths below
are relative to the root of the repository, which `PROJECT.json` calls `src`.

## 1. The system

### Components

| Component | State it keeps | Operations | What makes it correct |
|---|---|---|---|
| Event loop (`src/tui/application.cpp`) | page, seven pages' tables with selection and offset, lazily loaded flags, package view, status message | draw, read a key, one handler per page and key | acts on what the user saw, does only what was confirmed, indexes inside its lists |
| Widgets (`src/tui/widgets.*`) | terminal mode | `confirm`, `prompt_text`, `show_help`, `suspend_terminal`, `resume_terminal`, `keep_visible`, `draw_table` | terminal owned by one party at a time; the selected row is drawn |
| Commands (`src/core/command.cpp`) | none between calls; a pipe and a child during one | `run_command_capture`, `run_command_interactive` | no leak, no zombie, no false success, no lost output, returns |
| Processes (`src/core/process_manager.cpp`) | none (the page keeps the last listing) | `list_processes`, `terminate` | listing complete and current; signals reach who was selected |
| Users (`src/core/user_manager.cpp`) | none | list, create, lock, unlock | names checked, root never locked, one attempt, honest result |
| Packages (`src/core/package_manager.cpp`) | the backend chosen at startup | three listings and four actions for APT, DNF and pacman | first available backend; names checked; listings show what the tool said |
| Services (`src/core/service_manager.cpp`) | none | list, five actions | names checked; each unit with its own state |
| Lookup of executables, platform (`src/core/platform.cpp`) | none | `executable_on_path`, `detect_platform`, parsers | what is found is what is executed |
| Storage (`src/core/storage_manager.cpp`) | none | `parse_mounts`, `list_filesystems` | every real mount once, decoded |
| System snapshot (`src/core/system_info.cpp`) | none | `collect_system_snapshot`, formatting | the right figure of the right line |
| Drawing (`src/tui/pages.cpp`), theme | none | one function per page, `draw_chrome` | what a page has to show is on the screen |
| `main.cpp` | none | arguments, exit status | |

### How they interact

Everything is a function call on one thread.  `Application::run` calls a manager
and waits; a manager calls `executable_on_path` and then one of the two command
functions, which fork a child and wait for it.  There is no timer, no callback
and no other thread, so while a call runs no key is read.  What makes the
program hard all the same is what happens *around* that thread:

* it waits inside handlers (confirmation, prompt, help, a child), and the
  terminal may be resized during each wait;
* the host changes between any two looks at it: processes, PIDs, tools on
  `PATH`, accounts, packages;
* a table is as old as its last listing, and an action refers to it;
* a command is several system calls, with a child and possibly its own
  children writing at the same time, and signals interrupting;
* a tool may fail, break off, or mix warnings into its output.

The hazards that follow from this are listed in `PROJECT.json`, each with its
line and the properties that look for it.

## 2. Modules

| Module | Models | State and actions against the code |
|---|---|---|
| `Table` | arithmetic of all tables | operators for `handle_table_key`, the clamp of refreshes, `visible_rows`, `keep_visible`, the scrollbar of `draw_table`; rows count from 0 as in the code |
| `Application` | `Application::run` | `pc` is where the loop waits; `Draw` is the top of the loop up to `getch`; one action per handler, split where the handler waits (`AskLock`, `Refuse` or `Accept`, `LockDone`); `EndOfHandler` is the `keep_visible` block, which paths with `continue` skip |
| `Command` | the two command functions | `caller` is the system call to be made next; `Exec`, `ChildWrites`, `ChildExits`, `ChildKilled` are the child, `StartHelper`, `HelperWrites`, `HelperEnds` what it leaves behind |
| `CommandPromise` | what callers rely on | a call and a return, with an honest result |
| `ProcessControl` | the process manager and the kernel's process table | one step per file read in `list_processes`; `Ask`, `Terminate` as in the handler of `t` and `K`; processes start, end and hide their stat at any time |
| `PrivilegedActions` | all eleven kinds of mutation that run a tool, and `create_package_backend` | one step per `executable_on_path`; the name checks of the three managers; `Execute` is fork to wait, with a fork that fails and a status that is lost; tools come and go |
| `Listings` | the eleven listing commands and their parsers | `PrintItem`, `PrintNotice`, `End` are the tool; `PrintNotice` puts a warning after any line; one step per line of `getline` in the parser; the rows are sorted where the code sorts them |
| `Storage` | `StorageManager::list_filesystems`, and the host's mount table | one step per line of the table and per `statvfs`; file systems are mounted, covered and unmounted at any time |
| `Text` | characters, `trim`, `getline`, `operator>>` | what the parsers are written with |
| `ProcFiles` | `parse_mounts`, `decode_mount_path`, `parse_proc_stat`, `read_process_command`, `read_memory_info`, `read_network_info` | operators from the text of a file to what is kept of it |
| `Platform` | `parse_os_release` with its unquoting, the name of the distribution, `executable_on_path` | operators, as above |
| `Screen` | `draw_chrome`, the page functions, `draw_table`, `show_help` | a frame is the sequence of texts it writes, each with line, column, size and limit; `CellsOf` is `text_at` |
| `Formats` | the writers of those files, and the terminal | grows a text character by character or line by line, and resizes; the properties compare each parser with its writer |
| `System` | the event loop with the managers of `PrivilegedActions` | instances of both; `CallManager` and `Answer` are call and return, `Work` is the manager while the loop waits, `HostChanges` is everybody else |
| `ConfirmedActions` | what the application promises | a question, an answer, at most one command, an honest report |

`MCApplication`, `MCPrivilegedActions` and `MCSystem` hold the values for TLC;
the other modules need none.  `*Proofs` hold the proofs.

How they fit: `Application` takes a listing for any member of `Listings` and an
action for any result; what these can be is the subject of `Listings`,
`ProcessControl`, `Storage` and `PrivilegedActions`.  These take a command for
one step with a result, which `Command` justifies by implementing
`CommandPromise`, and the text of a file for an entry, which `Formats` checks.
`System` joins `Application` and `PrivilegedActions`: the free choices of the
event loop (which result, which backend) become what the managers do, and the
whole is shown to implement `ConfirmedActions`.

### Abstractions

* In `Application` rows are model values; text, columns, colours other than
  success, warning and danger, and the width of the terminal are left out.  The
  minimum height of 18 lines is kept, because it decides what a frame shows.
* In `Screen` a text has a size and no content.  What comes from the host is
  longer than any line: a page is whole when something of each such text is
  seen.  Colours, icons in front of rows and the bar of the selected row are
  left out; labels have the sizes of the source.
* In `Text` a character is its code, and a number that a program prints is one
  character, so that the parsers of digits are left to the C++ library.  One
  name stands for the 27 pseudo file systems, and keys of a file have one
  letter.
* In `Storage` mounts are numbered in the order in which they are made, and a
  mount point is a number; those whose name has a backslash are a set, because
  the decoder does not give their path back.
* A name is the class of its first character, the classes of the others, its
  size, and whether it ends in `.service` or is `root`: what the checks look at.
  Packages and units are checked with `std::isalnum` and `std::islower`, which
  follow the locale of the user (`setlocale` at `widgets.cpp:20`): bytes above
  127 that an 8-bit character set counts as letters are classes of their own,
  and pass only if `eightBit`.  Accounts are compared with ASCII.
* `blind` says that SIGCHLD was ignored when the application started, so that
  `waitpid` has no status to give and every command is reported as failed.
* A line of output is what its parser tells apart.  Output is cut between
  lines; cut inside a line, the last row would have a shorter name.  A warning
  comes between any two lines, those of one entry too, and is one that the
  parser passes over, or takes for an entry, or for a description.  Left out
  are a warning inside a line, which a tool that writes its buffer in the
  middle of one can have, and an empty one in the output of systemctl.  The six
  properties of a unit are three here.
* A process is `hidden` while its stat file cannot be read (`hidepid`), or does
  not parse because its name has a newline; which names those are is the
  subject of `StatSurvivesNames`.
* Indexing past the end of a vector is undefined: it yields `Garbage`, which is
  no record, or the process ends (`CrashOnBadIndex`).
* Output of a command is a count of bytes, numbered in the order they are
  written, so that what is lost is the difference of two numbers.
* What is not in the repository (kernel, tools) is modelled as the code uses it
  and marked external in the map.

## 3. Runs

| Run | Properties | Bounds |
|---|---|---|
| `app_selection` | `TypeOK`, `SelectionInRange`, `SelectedOnScreen`, `ScrollbarShowsPosition` | one table with lists of 0, 1, 8 and 20 rows; 12, 18 or 20 lines |
| `app_dialogs` | `OnlyConfirmed`, `ActsOnHighlighted`, `TerminalOwner` | all tables, with lists of up to 2 rows that are reordered, replaced and emptied |
| `command` | `NoCircularWait`, `NoDescriptorLeak`, `NoChildLeft`, `ImplementsPromise`, `CallsReturn` | pipe of 2, reads of 2, 5 bytes, 2 calls |
| `processes` | `ListingIsComplete`, `ListingIsCurrent`, `RecordsAreWhole`, `SignalSparesOthers` | 4 PIDs, used again, by 5 processes |
| `actions` | `TypeOK`, `SuccessMeansDone`, `NamesAreChecked`, `RootStaysUnlocked`, `FirstAvailable` | 6 names, every subset of 6 tools, 1 change, with and without an 8-bit locale |
| `listings` | `TypeOK`, `OwnDetails`, `ListsWhatWasPrinted`, `NothingFromFailure` | 3 items in any order, 1 warning of any kind after any line |
| `storage` | `TypeOK`, `MountsAreListed`, `EachMountOnce`, `OwnCapacity` | 2 directories besides the root, 4 mounts, sizes of 0 to 2 |
| `formats` | `MountTableIsRead`, `StatSurvivesNames`, `CommandIsOneLine`, `DistributionIsRead`, `LookupFindsExecutables`, `FiguresAreRead`, `FramesAreWhole` | 5 characters, 4 lines; terminals of 17 to 40 lines and 71 to 160 columns |
| `system` | `CallsAreLegal`, `ChildHasTerminal`, `ImplementsConfirmed`, `ActionsAreAnswered` | 3 names, every subset of 4 tools, 1 change, 4 keys before the one that quits |

What they show:

* `SelectionInRange`: in every table but that of the users the selection
  denotes a row, however the list shrank.  `SelectedOnScreen`: that row is one
  the frame drew, unless the height changed since the offsets were fitted.
  `ScrollbarShowsPosition`: the thumb lies whole on its track, and at an end of
  it when the window is at that end of the list, unless a list that shrank left
  the offset behind.
* `OnlyConfirmed`: what is done is what the last question named, after a yes,
  although label, call and target come from separate code.
  `ActsOnHighlighted`: and it is the row the user saw highlighted.
  `TerminalOwner`: the children of `run_privileged` run outside curses mode,
  keys are read inside.  Commands whose output is captured run inside it; they
  have a pipe for the terminal.
* `NoDescriptorLeak`, `NoChildLeft`: nothing of a call outlives it.
  `ImplementsPromise`: its result is `CommandPromise`'s, success exactly of a
  program that exited with 0, and all of the output unless a read failed.
  `NoCircularWait`: the caller never waits for a child that waits for it, or
  for an end of file that it withholds itself; with the fairness below, every
  call returns (`CallsReturn`).
* `ListingIsComplete`, `ListingIsCurrent`: a listing has each process that
  lived through it and could be read all that time, no PID twice, nobody who
  ended before it.
  `SignalSparesOthers`: a signal by an old listing reaches the selected
  process, nobody, or one that started after the listing.  `RecordsAreWhole`:
  a row is read from three files, and mixes two processes only when the PID
  changed hands while the listing ran.
* `SuccessMeansDone`: an action runs at most one command, and is a success
  only if that ran as root and exited with 0.  The converse has one exception:
  where the exit status is lost, what was done is reported as a failure.
  `NamesAreChecked`, `RootStaysUnlocked`: on no command line is there a name
  like an option, one with bytes that no check allows, or, but for packages and
  units in an 8-bit locale, one with letters beyond ASCII; none locks root.
  `FirstAvailable`: the backend had all its tools and each one before it lacked
  one, at some time of startup.
* `OwnDetails`: no row has details of another entry, even when the output
  breaks off.  `ListsWhatWasPrinted`: the rows are the entries printed, each
  once and in order, and besides them only warnings that look like entries; a
  warning within a search result of pacman can take its description.
  `NothingFromFailure`: a failed command shows none, where its status counts.
* `MountsAreListed`, `EachMountOnce`, `OwnCapacity`: every real file system that
  stays mounted has one row with its own figures, although the table is read
  first and each path is asked about later.  The exceptions are stated: a
  mount that lies under another, one that `statvfs` refuses, and one
  whose name has a backslash.
* `MountTableIsRead`: the decoder undoes what the kernel writes, except `\134`.
  `StatSurvivesNames`: the figures of a process are found behind any name it
  gave itself; a newline in it drops the process from the listing, and never
  lists it with false figures.
  `CommandIsOneLine`: a command line is drawn on one line and loses nothing
  visible.  `DistributionIsRead`: as a shell reads `os-release`, but for a
  backslash in single quotes, which the shell would leave.
  `LookupFindsExecutables`: what is found can be executed and the other way
  round, but for a directory of that name in an entry of `PATH`, and for an
  empty entry at the end.
  `FiguresAreRead`: memory up to the first line without a unit, traffic of all
  interfaces but the loopback.
* `FramesAreWhole`: the exact size from which a page shows all it has: the
  overview 85x25, users 83x19, packages 122x19 (95 without a backend),
  processes 90x19 (78 without /proc), services 99x19 and storage 121x19 (72
  where they are not available), diagnostics 98x22; and 73 columns for the keys
  in the last line, unless it has a message.  Below 85 columns the line under
  the name of the host is cut on the overview, and on 24 lines the hints
  lie over its security line.  The help is whole on each of them except its
  first key, which is always cut.
* `CallsAreLegal`: what the loop checked at a key still holds when the manager
  that relies on it is called two dialogs later.  `ChildHasTerminal`: the
  managers work only while the loop waits outside curses mode.
  `ImplementsConfirmed`: from key to message, at most the one command that was
  asked for is run, and the message has the colour of how it ended, or of a
  failure where that is not known.  `ActionsAreAnswered`: the interface comes
  back from every action whose command ends, through whatever lookups fail.

Why these bounds are enough to be interesting.  A window of 18 lines has 7
rows, so lists of 8 and 20 rows scroll, PageDown of 10 rows jumps over a window,
and 20 lines change the window; 12 lines are below the minimum.  Five bytes are
more than a pipe and a read take together, so writers block and reads are
partial; the second call finds what the first left.  With four PIDs, two
of them fixed, three processes share the other two.  One change of the tools is
enough to remove a tool between its lookup and the execution, or to complete a
backend that was given up; the theorem has any number of them.  The names hold
one of an account, root, a unit, a unit like an option, one with a blank, and
one that begins beyond ASCII.  Three
items give an order, a last one, and one that its parser leaves out.  Four
mounts on three directories cover each other, return at the same place and end
in the middle of a listing; with size 0 there is a file system without
capacity, with 2 two that sort by size.  Five characters hold an escape and its
neighbours, a quoted quote, or a parenthesis on either side of another; four
lines hold a key twice and a line of another kind before, between and after.
The sizes of terminals are each page's smallest whole one, one less, and the
usual ones.  In `system` a service action takes three keys to reach its
question, which leaves one for its answer; the lock of a row that is no longer
there happens in three.

The runs with `expect: violation` show where the code does something else than
a line of the repository says; `PROJECT.json` quotes each line.

| Run | What happens |
|---|---|
| `app_g_key` | `g` goes to the first row and never shows upgrades |
| `app_lock_target` | lock, the list shrinks, lock again: index past the end |
| `listings_version` | DNF upgrades without a version, or with the repository for one |

Other divergences met on the way, which are in the models and mostly listed as
hazards but have no run of their own:

* refreshing a view is announced in the colour of success whatever its command
  did, and a message is forgotten after a frame too small for it;
* with `useradd` and no `usermod` the page says "read-only" and accounts can be
  created;
* search results are never marked as installed, so `d` refuses them
  (`tests/core_tests.cpp` line 91 has such a line; `README.md` line 67 offers
  the key), and results of DNF with `=` in the summary are dropped;
* a reused PID is signalled for the selected process, where `README.md` line 80
  says the selected process;
* a process whose name has a newline is in no listing;
* a command that did its work is reported as failed where SIGCHLD is ignored;
* a warning that looks like an entry is shown as a package, for `pacman -Ss` any
  with a slash and a blank behind it;
* a resize closes the help and leaves the selection outside the window until
  the next key, and after a list shrank the thumb may be off the track;
* pages are cut on terminals that pass the test for 72x18;
* the name of a program that stands in for an empty command line is not cleaned
  of control characters, as command lines are; `text_at` then draws spaces.

Every property of a passing run has a mutant: a definition of the model changed
the way a plausible bug would change the code, under which TLC finds the
property violated.  The mutated forms stand beside the originals and say so.

### Fairness

`CallsReturn` and `ActionsAreAnswered` need some.

`FairSpec` of `Command`: the caller's next system call returns when it can
(`WF(Progress)`, which leaves out the interrupted calls, as signals do not
arrive without end, and the failing ones, as no failure is owed to a blocked
read).  The program that was started writes what it has to and exits
(`WF(Child)`), and what it leaves behind ends (`WF(HelperEnds)`).  The last two
are assumptions on the tools, not on the code: the code has no timeout, and a
tool that never ends, or a daemon that keeps its output, holds the interface.
`ChildKilled` has no fairness.

`FairSpec` of `System`: `WF(Work \/ StartLoop \/ Answer)`.  The process has one
thread, and while a manager is at work that thread does nothing else; a lookup
returns, and a command ends by `CallsReturn` and its assumptions.
`HostChanges` has none: nobody owes the application a change of its tools.

The user owes no key to the event loop, so `Application` alone has no liveness.

## 4. Proofs

All theorems are of the form `Spec => []P` or `Spec => [][A]_vars` for every
value of the constants that satisfies the named assumptions.

* `ApplicationProofs` begins with the lemmas about the operators of `Table`: a
  clamped selection is in range, `KeepVisible` brings the selection into the
  window; the thumb of the scrollbar is at least one row high, no longer than
  its track, and at its ends with the window.  Its theorems: `TypeCorrect`,
  `SelectionStaysInRange`, `SelectionIsOnScreen`, `OnlyConfirmedIsDone`,
  `HighlightedIsTarget`, `TerminalIsOwned`, `ScrollbarIsRight`.
  `SelectedOnScreen` speaks of one `pc` only and is not inductive; the
  strengthening says it of every table at every place of the loop, relative to
  the height the offsets were last fitted to.  `OnlyConfirmed` needs that
  between the question and the answer neither the table nor the selection moves,
  so that the reference of `lock` and `remove` still denotes the row that was
  named.
* `CommandProofs`: `TypeCorrect`, `DescriptorsAreClosed`, `ChildrenAreReaped`,
  `CallsDoNotBlockThemselves`, `CommandKeepsPromise`.  The invariant adds to the
  types which descriptors the caller holds at each system call, which lives of
  the child are possible there, and that the end of file came only when all
  writers were gone.  The last theorem is the refinement: every step of
  `Command` is a call, a return with an honest report, or a stutter of
  `CommandPromise`.
* `ProcessControlProofs`: `TypeCorrect`, `ListingsAreComplete`,
  `ListingsAreCurrent`, `RecordsStayWhole`, `SignalsSpareOthers`.  `ScanInv`
  says what the part of the directory already visited has contributed, of
  everybody who was not hidden since; `PidsStayOwned` says that the PID
  of a record or a target belongs to its process, to nobody, or to a newer
  process.
* `PrivilegedActionsProofs`: `TypeCorrect`, `SuccessIsHonest`,
  `NamesStayChecked`, `RootIsNeverLocked`, `BackendIsFirstAvailable`.  The
  invariant ties the plan of lookups to the action in progress; for the backend
  it keeps, for each alternative given up, the tool that was missing at the
  time.
* `ListingsProofs`: `TypeCorrect`, `DetailsAreOwn`, `FailureShowsNothing`,
  `PrintedIsListed`.  The invariant says that the lines of a unit stand together
  (`Grouped`), that the details of a package follow its own line
  (`DetailsFollow`), with nothing between them but warnings (`OnlyWarnings`),
  and that the record under construction has details of one unit only, the one
  the current line is in (`FromUnit`, `LastRowIsLastEntry`).  That a warning
  inserted anywhere keeps all this is `InsertedIsWellFormed`, by the place each
  line moves to.
  For what is listed, `ListInv` adds that the lines which begin an entry are the
  printed items in their order (`Matches`), that no entry is broken off unless
  output was lost (`Whole`), and that the rows are the entries seen so far
  (`RowsFollow`), where a unit is a row or the record under construction
  (`UnitsFollow`).  No item is counted: the rows and the lines are matched, in
  both directions, by what they are about.
* `StorageProofs`: `TypeCorrect`, `RealMountsAreListed`, `MountsAppearOnce`,
  `RowsHaveOwnCapacity`.  The entries are the real mounts up to the cursor in
  their order (`MountsAreDistinct`, `EntriesFollowMounts`), and each one asked
  about has its own figures, unless `statvfs` refused it or it was undone or
  covered since (`EntriesHaveFigures`).
* `SystemProofs`: `LoopIsApplication` and `ManagersAreActions` show that every
  step of `System` is a step or a stutter of both parts, so that the theorems
  about these hold in the whole, the main ones of which `PartsStaySafe` states;
  `SystemKeepsPromise` is the refinement of `ConfirmedActions`;
  `ChildrenOutsideCurses` and `ManagersAreCalledLegally` are the invariants on
  which the calls between the parts rest.  `Linked` ties the two states
  together: the question that was granted, the goal of the manager, the command
  it has run and the report.
* `FormatsProofs`: `LookupIsExecution`, `NamesDoNotHideStat`,
  `CommandsAreOneLine`, `MountTablesAreRead`, `DistributionsAreRead`,
  `FiguresAreFound`: texts of every length and files of any number of lines,
  where the run stops at `MaxName` characters and `MaxLines` lines.  Of the
  reachable texts they need the alphabet of each kind (`WrittenText`), the lines
  of each kind (`WrittenLines`) and that an interface has one line in `net/dev`
  (`OneLineEach`), which are invariants.  The argument has three layers:
  * Positions.  `Trim`, `Pieces` and `Words` choose positions by what stands
    there, so the proofs ask which positions those are.  `MinimumExists` and
    `MaximumExists`, from the well-foundedness of the numbers, give the first
    and the last; `Enumerated` counts those below a position.
  * Files.  A writer concatenates parts: `PartsFound` says where each of them
    stands in the whole, `LinesOfParts` that parts with one newline at their end
    are its lines, and `FileIsRead` that `getline` returns these.  `WordBehind`
    and `BlanksBehind` say which words a text has after another piece is written
    to it, and `WordsFound` that `operator>>` returns them.  The recursion of
    `FlattenSeq` is opened once, in `FlattenIs`.
  * Loops.  `decode_mount_path` and the unquoting of a value go through a text
    and keep a state.  `DecodingExists` and `FlagExists` show that their
    recursive functions have a solution, from the least position without one
    (`SmallestCounterexample`); `LiteralRead`, `BackslashRead` and
    `InsideIsText` follow it through what the kernel and the shell write, so
    that a mount point is its own name exactly when it has no backslash, and a
    quoted value is itself.

Only model-checked:

* `CallsReturn` and `ActionsAreAnswered`, which are liveness; of the first,
  `NoCircularWait` is the part a proof reaches.
* `FramesAreWhole`: the layout of seven pages, each a list of dozens of places.
  Its proof would be a comparison of every two texts of a page, by arithmetic
  alone, and no argument that a reader could check better than the run does.

The types of `ProcessControl` and `Command` are proved and in no run. The
violations are counterexamples and need no proof.

## 5. Not modelled

* Colours, icons, the theme and the bar of the selected row; `main.cpp`; the
  tests and build files.
* Of the system snapshot, the figures that are one number copied from one place
  (load average, uptime, counts of processors and processes, the ASLR setting)
  and `format_bytes`, `format_duration`, `format_percent`.  Its count of
  installed packages asks APT only.
* Of `os-release`, `ID` and the version, which are read like the name; of a
  process, the columns of processor time and memory and the order they are
  sorted in.
* `list_users`: an entry of the password database is a row of `Application`.

## 6. Plan

Done, in this order: `Table` and `Application`; `Command` with its promise;
`ProcessControl`; `PrivilegedActions`; `Listings`; `Storage`; the parsers
(`Text`, `ProcFiles`, `Platform`) and the pages (`Screen`) with `Formats`;
`System` with `ConfirmedActions`; and the proofs of each.

Next:

1. `System` with more than one change of the tools, which the theorems already
   have, and with the signals of `ProcessControl` in place of one result.
2. A composition of `Listings` with `Command`: which rows are left when reading
   the output failed, beyond what `OwnDetails` says of output that breaks off.
3. The columns of a process that are left out (section 5), with the order they
   are sorted in.
