--------------------------------- MODULE MCSystem ---------------------------------
(* Values for model-checking System: three names, of which an account list may *)
(* lose one, and one row in each other table.                                  *)
EXTENDS System

Plain(rest, size) ==
  [first |-> "lower", rest |-> rest, size |-> size, service |-> FALSE, root |-> FALSE]

Account == Plain({"lower"}, 5)
Root    == [Plain({"lower"}, 4) EXCEPT !.root = TRUE]
Unit    == [Plain({"lower", "@", "."}, 18) EXCEPT !.service = TRUE]
Process == [first |-> "other", rest |-> {}, size |-> 0, service |-> FALSE, root |-> FALSE]

MCNames == {Account, Root, Unit}
MCRows  == {Process}
MCGarbage == [first |-> "other", rest |-> {}, size |-> 1, service |-> FALSE, root |-> FALSE]

MCListings ==
  [Users |-> {<<Account>>, <<Account, Root>>}, Packages |-> {<<Account>>},
   Processes |-> {<<Process>>}, Services |-> {<<Unit>>}, Storage |-> {<<>>}]
================================================================================
