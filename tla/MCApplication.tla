----------------------------- MODULE MCApplication -----------------------------
(* Values for model-checking Application.                                      *)
EXTENDS Application

Row(i) == <<"row", i>>
Rows(n) == [i \in 1 .. n |-> Row(i)]

MCRecords   == {Row(i) : i \in 1 .. 20}
MCUserNames == {<<"typed", 1>>}

(* Only the named tables ever have rows.                                       *)
Focus(ts, lists) == [t \in Tables |-> IF t \in ts THEN lists ELSE {<<>>}]

(* Lists long enough to scroll in 7 visible rows, and shorter ones to shrink to *)
LongListings == Focus({"Services"}, {Rows(0), Rows(1), Rows(8), Rows(20)})

(* Every table changes by reordering, growing and shrinking to nothing.         *)
ShortListings ==
  [Focus({"Users", "Packages"}, {<<>>, <<Row(1)>>, <<Row(1), Row(2)>>, <<Row(2), Row(1)>>})
     EXCEPT !["Processes"] = {<<Row(1), Row(2)>>, <<Row(2)>>},
            !["Services"]  = {<<>>, <<Row(2), Row(3)>>},
            !["Storage"]   = {<<Row(4)>>}]

UserListings == Focus({"Users"}, {Rows(1), Rows(2)})
PackageListings == Focus({"Packages"}, {<<>>, Rows(1)})
================================================================================
