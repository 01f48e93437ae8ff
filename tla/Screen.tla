--------------------------------- MODULE Screen ---------------------------------
(* What a frame writes where: draw_chrome and the page functions, as the       *)
(* texts they put on the screen in order.  A text has a line, a first column,  *)
(* a size and the most columns it may take; what it says is left out, and a     *)
(* text that has something the host says, or a figure, in it is taken to be    *)
(* longer than any line.  All others are labels: heights, sizes of labels and  *)
(* columns are those of the source.                                            *)
EXTENDS Table, Sequences, SequencesExt, FiniteSetsExt

Long == 1000          \* the size of a text that comes from the host
Unlimited == -1       \* text_at takes a negative width for no limit

SidebarWidth == 22
ContentLeft == SidebarWidth + 2
ContentWidth(cols) == Greater(10, cols - SidebarWidth - 4)

AtMost(line, from, size, most) == [line |-> line, from |-> from, size |-> size, most |-> most]
Label(line, from, size) == AtMost(line, from, size, Unlimited)

(* text_at: the columns that are written, none of them outside of the screen.  *)
CellsOf(t, lines, cols) ==
  LET room == IF t.most >= 0 THEN Lesser(t.most, cols - t.from) ELSE cols - t.from
  IN  IF t.line \in 0 .. lines - 1 /\ t.from \in 0 .. cols - 1
      THEN t.from .. t.from + Lesser(t.size, room) - 1 ELSE {}

(* For each page of PageMeta: the label with its icon, and the tagline.  The    *)
(* last line has the message of an action, or the keys.                        *)
Pages == <<"Overview", "Users", "Packages", "Processes", "Services", "Storage", "Diagnostics">>
SidebarLabels == <<10, 7, 10, 11, 10, 9, 13>>
Taglines == <<18, 25, 24, 24, 20, 24, 20>>

Chrome(page, lines, cols, message) ==
  <<Label(0, 2, 9), Label(0, 13, 21), Label(0, cols - Taglines[page] - 3, Taglines[page]),
    Label(2, 2, 9)>>
  \o [i \in DOMAIN Pages |-> AtMost(2 + 2 * i, 2, SidebarLabels[i], SidebarWidth - 3)]
  \o <<Label(lines - 2, 2, 6),
       IF message THEN AtMost(lines - 1, 2, Long, cols - 4) ELSE Label(lines - 1, 2, 71)>>

Heading(title, subtitle, cols) ==
  <<Label(2, ContentLeft, title), AtMost(3, ContentLeft, subtitle, cols - ContentLeft - 2)>>
Hints(size, lines, cols) == <<AtMost(lines - 2, ContentLeft, size, cols - ContentLeft - 2)>>

Overview(lines, cols) ==
  LET info == ContentLeft + 23
  IN  [i \in 1 .. 7 |-> AtMost(3 + i, ContentLeft, 17, 20)]
      \o <<Label(4, info, Long), Label(5, info, 38)>>
      \o FlattenSeq([i \in 1 .. 7 |-> <<Label(6 + i, info, 9),
                                        AtMost(6 + i, info + 10, Long, cols - info - 12)>>])
      \o <<Label(15, ContentLeft, 13)>>
      \o FlattenSeq([i \in 1 .. 2 |-> <<Label(15 + 2 * i, ContentLeft, 6),
                                        Label(15 + 2 * i, ContentLeft + 8, 24),
                                        Label(15 + 2 * i, ContentLeft + 33, Long)>>])
      \o <<Label(21, ContentLeft, Long), Label(22, ContentLeft, 48), Label(lines - 2, ContentLeft, 27)>>

Diagnostics(lines, cols) ==
  Heading(11, 38, cols)
  \o <<Label(5, ContentLeft, 15)>>
  \o FlattenSeq([i \in 1 .. 4 |-> <<Label(6 + i, ContentLeft, 11), Label(6 + i, ContentLeft + 13, Long)>>])
  \o <<Label(13, ContentLeft, 16), Label(15, ContentLeft, 24), Label(16, ContentLeft, 28),
       Label(19, ContentLeft, 74)>>
  \o Hints(21, lines, cols)
--------------------------------------------------------------------------------
(* The columns of the tables: width (0 for the rest of the line), the title,   *)
(* and what a row has there.                                                   *)
Col(width, title) == [width |-> width, title |-> title, text |-> Long]
UsageBar == [width |-> 24, title |-> 5, text |-> 24]

Columns ==
  [Users     |-> <<Col(20, 8), Col(7, 3), Col(8, 4), Col(8, 5), Col(0, 4)>>,
   Packages  |-> <<Col(28, 7), Col(22, 7), Col(0, 11)>>,
   Processes |-> <<Col(7, 3), Col(11, 4), Col(9, 5), Col(7, 3), Col(9, 6), Col(0, 7)>>,
   Services  |-> <<Col(25, 7), Col(9, 6), Col(9, 3), Col(9, 7), Col(0, 11)>>,
   Storage   |-> <<Col(16, 6), Col(24, 11), Col(9, 4), UsageBar, Col(0, 12)>>]

HintSizes == [Users |-> 42, Packages |-> 96, Processes |-> 64, Services |-> 58, Storage |-> 9]

Fixed(columns) ==
  FoldLeft(LAMBDA sum, c : IF c.width > 0 THEN sum + c.width + 2 ELSE sum, 0, columns)

(* Mutant of FlexWidth: the column of the scrollbar is not left free.          *)
WholeLine(columns, width) == width - Fixed(columns)

FlexWidth(columns, width) == width - Fixed(columns) - 2

(* draw_table: titles, a line, the rows that fit, and the scrollbar over them. *)
DrawTable(columns, lines, cols, count) ==
  LET width   == ContentWidth(cols)
      visible == VisibleRows(lines)
      room(c) == IF columns[c].width > 0 THEN columns[c].width ELSE FlexWidth(columns, width)
      x(c)    == ContentLeft + Fixed(SubSeq(columns, 1, c - 1))
  IN  [c \in DOMAIN columns |-> AtMost(5, x(c), columns[c].title, room(c))]
      \o <<Label(6, ContentLeft, width - 2)>>
      \o FlattenSeq([row \in 1 .. Lesser(count, visible) |->
            [c \in DOMAIN columns |-> AtMost(6 + row, x(c), columns[c].text, room(c))]])
      \o (IF count > visible /\ width > 3
          THEN [row \in 1 .. visible |-> Label(6 + row, ContentLeft + width - 2, 1)] ELSE <<>>)

(* The titles of the pages; what a page says below, in place of the counts,    *)
(* when its manager is not there, and what it says when its table is empty.    *)
(* The packages are not loaded yet when their tool came between the two looks  *)
(* at it, of the loop and of the page.                                         *)
Titles == [Users |-> 13, Packages |-> Long, Processes |-> 9, Services |-> 8, Storage |-> 7]

AbsentTitles    == [Titles EXCEPT !.Packages = 8]
AbsentSubtitles == [Packages |-> 41, Processes |-> 52, Services |-> 41, Storage |-> 46]
AbsentNotes     == [Packages |-> <<28, 71>>, Processes |-> <<27>>, Services |-> <<19>>,
                    Storage |-> <<27>>]

EmptyNotes(loaded) ==
  [Users |-> 24, Packages |-> IF loaded THEN 18 ELSE 30, Processes |-> 0, Services |-> 62,
   Storage |-> 48]

TablePage(name, lines, cols, count, available, loaded) ==
  IF available \/ name = "Users"
  THEN Heading(Titles[name], Long, cols)
       \o DrawTable(Columns[name], lines, cols, count)
       \o (IF count = 0 /\ EmptyNotes(loaded)[name] > 0
           THEN <<Label(8, ContentLeft, EmptyNotes(loaded)[name])>> ELSE <<>>)
       \o Hints(HintSizes[name], lines, cols)
  ELSE Heading(AbsentTitles[name], AbsentSubtitles[name], cols)
       \o [i \in DOMAIN AbsentNotes[name] |-> Label(4 + 2 * i, ContentLeft, AbsentNotes[name][i])]

(* The frame of a page; of a smaller terminal than 72 by 18, only a notice.    *)
Frame(page, lines, cols, count, available, loaded, message) ==
  IF lines < MinLines \/ cols < 72 THEN <<Label(1, 2, 18), Label(3, 2, 42)>>
  ELSE Chrome(page, lines, cols, message) \o
       CASE Pages[page] = "Overview"    -> Overview(lines, cols)
         [] Pages[page] = "Diagnostics" -> Diagnostics(lines, cols)
         [] OTHER                       -> TablePage(Pages[page], lines, cols, count, available, loaded)
--------------------------------------------------------------------------------
(* The help overlay: the sizes of its keys and of what they do, on every page  *)
(* and on each page; all in a box in the middle.                               *)
CommonEntries ==
  <<<<15, 13>>, <<12, 14>>, <<9, 12>>, <<5, 24>>, <<1, 9>>, <<1, 12>>>>
PageEntries ==
  <<<<<<1, 7>>>>,
    <<<<1, 19>>, <<5, 21>>, <<1, 16>>>>,
    <<<<1, 15>>, <<5, 27>>, <<5, 26>>, <<5, 26>>, <<1, 12>>>>,
    <<<<1, 12>>, <<1, 12>>, <<1, 12>>>>,
    <<<<5, 17>>, <<1, 12>>, <<5, 24>>, <<1, 13>>>>,
    <<<<1, 14>>>>,
    <<<<1, 7>>>>>>

Help(page, lines, cols) ==
  LET entries == CommonEntries \o PageEntries[page]
      width   == 56
      height  == Len(entries) + 6
      top     == Greater(0, (lines - height) \div 2)
      left    == Greater(0, (cols - width) \div 2)
  IN  <<AtMost(top + 1, left + 3, 20, width - 6)>>
      \o FlattenSeq([i \in DOMAIN entries |->
            <<AtMost(top + 2 + i, left + 3, entries[i][1], 12),
              AtMost(top + 2 + i, left + 16, entries[i][2], width - 20)>>])
      \o <<Label(top + height - 2, left + 3, 22)>>
--------------------------------------------------------------------------------
(* A text is shown when at least its beginning is, all of it if it is a label, *)
(* and no later text of the frame lies over it.                                *)
IsShown(frame, i, lines, cols) ==
  LET cells == CellsOf(frame[i], lines, cols)
  IN  /\ cells # {}
      /\ frame[i].size < Long => Cardinality(cells) = frame[i].size
      /\ \A j \in i + 1 .. Len(frame) :
            frame[j].line = frame[i].line => cells \cap CellsOf(frame[j], lines, cols) = {}

IsWhole(frame, lines, cols) == \A i \in DOMAIN frame : IsShown(frame, i, lines, cols)
================================================================================
