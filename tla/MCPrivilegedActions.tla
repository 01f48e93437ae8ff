-------------------------- MODULE MCPrivilegedActions --------------------------
(* Values for model-checking PrivilegedActions: names that pass the check of   *)
(* one manager, of several or of none.                                         *)
EXTENDS PrivilegedActions

Plain(first, rest, size) ==
  [first |-> first, rest |-> rest, size |-> size, service |-> FALSE, root |-> FALSE]

Unit(first, rest, size) == [Plain(first, rest, size) EXCEPT !.service = TRUE]

Account  == Plain("lower", {"lower"}, 5)
Root     == [Plain("lower", {"lower"}, 4) EXCEPT !.root = TRUE]
Instance == Unit("lower", {"lower", "@", "."}, 18)
Option   == Unit("-", {"lower", "-", "."}, 13)
Blank    == Unit("lower", {"lower", "other", "."}, 19)
Accented == Unit("high lower", {"lower", "."}, 12)

MCNames == {Account, Root, Instance, Option, Blank, Accented}
================================================================================
