---------------------------------- MODULE Text ----------------------------------
(* Text as the parsers of the application see it: a sequence of characters,    *)
(* each given by its code.  A number that a program prints is one character    *)
(* here, with a code beyond all others.                                        *)
EXTENDS Integers, Sequences, FiniteSetsExt, SequencesExt

Nul == 0
Tab == 9
Newline == 10
Space == 32
Quote == 34
Dollar == 36
Apostrophe == 39
Open == 40
Close == 41
Colon == 58
Equals == 61
Backslash == 92
Delete == 127

Blank   == {Tab, Newline, 13, Space}
Control == 0 .. 31 \cup {Delete}

Number(n)   == 1000 + n
IsNumber(w) == Len(w) = 1 /\ w[1] >= 1000
ValueOf(w)  == w[1] - 1000

(* The text from character i up to, and without, character j.                  *)
Between(s, i, j) == SubSeq(s, i, j - 1)

(* trim                                                                        *)
Trim(s) ==
  LET kept == {i \in DOMAIN s : s[i] \notin Blank}
  IN  IF kept = {} THEN <<>> ELSE SubSeq(s, Min(kept), Max(kept))

(* The k-th number of a set, in ascending order.                               *)
Nth(S, k) == CHOOSE i \in S : Cardinality({j \in S : j < i}) = k - 1

(* The text from character i up to the next separator or the end.              *)
PieceAt(s, separators, i) ==
  Between(s, i, Min({j \in i .. Len(s) + 1 : j > Len(s) \/ s[j] \in separators}))

PiecesAt(s, separators, starts) ==
  [k \in 1 .. Cardinality(starts) |-> PieceAt(s, separators, Nth(starts, k))]

(* What lies between the separators, empty pieces too.                         *)
Pieces(s, separators) ==
  PiecesAt(s, separators, {1} \cup {i + 1 : i \in {j \in DOMAIN s : s[j] \in separators}})

(* What the first std::getline returns.                                        *)
FirstLine(s) == PieceAt(s, {Newline}, 1)

(* What std::getline returns one after the other: nothing follows a separator  *)
(* that ends the text.                                                         *)
GetLines(s, separator) ==
  LET pieces == Pieces(s, {separator})
  IN  IF Last(pieces) = <<>> THEN Front(pieces) ELSE pieces

(* What operator>> returns one after the other.                                *)
Words(s) ==
  PiecesAt(s, Blank, {i \in DOMAIN s : s[i] \notin Blank /\ (i = 1 \/ s[i - 1] \in Blank)})
================================================================================
