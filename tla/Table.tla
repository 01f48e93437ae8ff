--------------------------------- MODULE Table ---------------------------------
(* The arithmetic every table page of the interface shares: moving the         *)
(* selection, clamping it to a refreshed list, scrolling so that it stays on   *)
(* screen, and placing the thumb of the scrollbar.  Row indices count from 0,  *)
(* as the std::size_t indices of the source do; no operator subtracts below 0, *)
(* so the unsigned arithmetic of the source never wraps here.                  *)
EXTENDS Integers

PageStep == 10        \* rows that PageUp and PageDown move
MinLines == 18        \* below this height only "Terminal too small" is drawn
ChromeLines == 11     \* lines of the screen that are not table rows

Lesser(a, b)  == IF a < b THEN a ELSE b
MaxWrittenAsMin(a, b) == IF a < b THEN a ELSE b      \* mutant of Greater
Greater(a, b) == IF a < b THEN b ELSE a

(* The keys the table handler consumes.  "up" and "down" stand also for 'k'    *)
(* and 'j', and "end" for 'G', which no page binds to anything else; 'g' is    *)
(* kept apart from KEY_HOME because the package page binds it again.           *)
TableKeys == {"up", "down", "ppage", "npage", "home", "g", "end"}

(* The selection after a table key, in a table of count rows.                  *)
HandleTableKey(key, selected, count) ==
  CASE key = "up"            -> Greater(selected - 1, 0)
    [] key = "down"          -> IF selected + 1 < count THEN selected + 1 ELSE selected
    [] key = "ppage"         -> Greater(selected - PageStep, 0)
    [] key = "npage"         -> IF count = 0 THEN selected
                                ELSE Lesser(count - 1, selected + PageStep)
    [] key \in {"home", "g"} -> 0
    [] key = "end"           -> IF count = 0 THEN selected ELSE count - 1

(* Mutant of ClampSelection: the list is replaced and the selection kept.      *)
SelectionKept(selected, count) == selected

(* What every refresh but one does to the selection.                           *)
ClampSelection(selected, count) ==
  IF count = 0 THEN 0 ELSE Lesser(selected, count - 1)

VisibleRows(lines) == Greater(1, lines - ChromeLines)

(* Mutant of KeepVisible: the row just below the window counts as visible.     *)
OneRowTooMany(selected, offset, visible) ==
  IF selected < offset THEN selected
  ELSE IF selected > offset + visible THEN selected - visible + 1
  ELSE offset

(* The offset (first row drawn) that keeps the selected row on screen.         *)
KeepVisible(selected, offset, visible) ==
  IF selected < offset THEN selected
  ELSE IF selected >= offset + visible THEN selected - visible + 1
  ELSE offset

(* Row i of the table is drawn when it is inside the window.                   *)
InWindow(i, offset, visible) == offset <= i /\ i < offset + visible

(* The scrollbar of a table with more rows than fit: thumb length, its first   *)
(* row, and the rows of the track it is drawn on.                              *)
ThumbLength(count, visible) == Greater(1, (visible * visible) \div count)

(* Mutant of ThumbStart: the thumb may start on every row of the track.        *)
WholeTrack(count, visible, offset) == (offset * visible) \div Greater(count - visible, 1)

ThumbStart(count, visible, offset) ==
  (offset * Greater(1, visible - ThumbLength(count, visible)))
     \div Greater(count - visible, 1)
ThumbRows(count, visible, offset) ==
  LET start == ThumbStart(count, visible, offset)
  IN  {row \in start .. start + ThumbLength(count, visible) - 1 : row < visible}

================================================================================
