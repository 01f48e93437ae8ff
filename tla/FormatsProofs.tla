------------------------------ MODULE FormatsProofs ------------------------------
(* Proofs about the parsers, for texts of every length.                        *)
EXTENDS Formats, FunctionTheorems, FiniteSetTheorems, SequenceTheorems, WellFoundedInduction,
        TLAPS

(* Sets of numbers have a least element, and bounded ones a greatest.          *)
Less == {pair \in Nat \X Nat : pair[1] < pair[2]}

LEMMA LessIsWellFounded == IsWellFoundedOn(Less, Nat)
BY NatLessThanWellFounded, Zenon DEF Less, OpToRel

LEMMA MinimumExists ==
  ASSUME NEW S \in SUBSET Nat, S # {}
  PROVE  Min(S) \in S /\ \A y \in S : Min(S) <= y
<1>1. PICK x \in S : \A y \in S : ~ (<<y, x>> \in Less)
  BY LessIsWellFounded, WFMin
<1>2. \A y \in S : ~ (y < x)
  BY <1>1 DEF Less
<1>3. \A y \in S : x <= y
  BY <1>2
<1> QED BY <1>3 DEF Min

LEMMA MaximumExists ==
  ASSUME NEW n \in Nat, NEW S \in SUBSET (0 .. n), S # {}
  PROVE  Max(S) \in S /\ \A y \in S : Max(S) >= y
<1> DEFINE T == {m \in Nat : \A y \in S : y <= m}
<1>1. n \in T /\ T \in SUBSET Nat
  OBVIOUS
<1>2. PICK m \in T : \A y \in T : m <= y
  BY <1>1, MinimumExists
<1>3. m \in S
  <2>1. CASE m = 0
    <3>1. PICK y \in S : y \in 0 .. n /\ y <= m
      BY <1>2
    <3> QED BY <2>1, <3>1
  <2>2. CASE m > 0 /\ m \notin S
    <3>1. m - 1 \in Nat /\ \A y \in S : y <= m - 1
      BY <1>2, <2>2
    <3> QED BY <1>2, <3>1
  <2> QED BY <1>2, <2>1, <2>2
<1>4. \A y \in S : m >= y
  BY <1>2
<1> QED BY <1>3, <1>4 DEF Max
--------------------------------------------------------------------------------
(* A text has at least one piece, and getline returns all but an empty last.   *)
LEMMA PiecesAreFunction ==
  ASSUME NEW s, Len(s) \in Nat, DOMAIN s = 1 .. Len(s), NEW separators
  PROVE  \E n \in Nat \ {0} : \E S : Pieces(s, separators) \in [1 .. n -> S]
<1> DEFINE starts == {1} \cup {i + 1 : i \in {j \in DOMAIN s : s[j] \in separators}}
<1>1. starts \in SUBSET (1 .. Len(s) + 1) /\ 1 \in starts
  OBVIOUS
<1>2. IsFiniteSet(starts) /\ Cardinality(starts) \in Nat /\ Cardinality(starts) # 0
  <2>1. IsFiniteSet(1 .. Len(s) + 1)
    BY FS_Interval
  <2>2. IsFiniteSet(starts)
    BY <1>1, <2>1, FS_Subset
  <2> QED BY <1>1, <2>2, FS_CardinalityType, FS_EmptySet
<1> DEFINE n == Cardinality(starts)
           e(k) == PieceAt(s, separators, Nth(starts, k))
<1>3. Pieces(s, separators) = [k \in 1 .. n |-> e(k)]
  BY DEF Pieces, PiecesAt
<1>4. [k \in 1 .. n |-> e(k)] \in [1 .. n -> {e(k) : k \in 1 .. n}]
  BY Zenon
<1> QED BY <1>2, <1>3, <1>4

LEMMA FrontAndLast ==
  ASSUME NEW n \in Nat \ {0}, NEW S, NEW p \in [1 .. n -> S]
  PROVE  /\ DOMAIN p = 1 .. n /\ DOMAIN Front(p) = 1 .. n - 1
         /\ \A k \in 1 .. n - 1 : Front(p)[k] = p[k]
         /\ Last(p) = p[n]
<1>1. p \in Seq(S)
  BY Z3
<1>2. Len(p) = n
  BY <1>1
<1>3. Last(p) = p[n]
  BY <1>2 DEF Last
<1>4. n - 1 \in Nat /\ Front(p) = SubSeq(p, 1, n - 1)
  BY <1>2 DEF Front
<1>5. Len(SubSeq(p, 1, n - 1)) = n - 1 /\ SubSeq(p, 1, n - 1) \in Seq(S)
  BY <1>1, <1>2, <1>4
<1>6. \A k \in 1 .. n - 1 : SubSeq(p, 1, n - 1)[k] = p[k]
  BY <1>1, <1>2, <1>4
<1> QED BY <1>3, <1>4, <1>5, <1>6

LEMMA AllButEmptyLast ==
  ASSUME NEW n \in Nat \ {0}, NEW S, NEW pieces \in [1 .. n -> S], NEW lines,
         lines = IF Last(pieces) = <<>> THEN Front(pieces) ELSE pieces
  PROVE  /\ DOMAIN lines \subseteq DOMAIN pieces
         /\ \A k \in DOMAIN lines : lines[k] = pieces[k]
         /\ \A k \in DOMAIN pieces \ DOMAIN lines : pieces[k] = <<>> /\ Last(pieces) = <<>>
<1>1. /\ DOMAIN pieces = 1 .. n /\ DOMAIN Front(pieces) = 1 .. n - 1
      /\ \A k \in 1 .. n - 1 : Front(pieces)[k] = pieces[k]
      /\ Last(pieces) = pieces[n]
  BY FrontAndLast
<1>2. CASE Last(pieces) = <<>>
  <2>1. lines = Front(pieces) /\ pieces[n] = <<>>
    BY <1>1, <1>2, Zenon
  <2>2. \A k \in 1 .. n : k \notin 1 .. n - 1 => k = n
    OBVIOUS
  <2>3. 1 .. n - 1 \subseteq 1 .. n
    OBVIOUS
  <2> QED BY <1>1, <1>2, <2>1, <2>2, <2>3, Zenon
<1>3. CASE Last(pieces) # <<>>
  BY <1>3, Zenon
<1> QED BY <1>2, <1>3

LEMMA LinesArePieces ==
  ASSUME NEW s, Len(s) \in Nat, DOMAIN s = 1 .. Len(s), NEW separator
  PROVE  \A pieces, lines :
           pieces = Pieces(s, {separator}) /\ lines = GetLines(s, separator) =>
             /\ DOMAIN lines \subseteq DOMAIN pieces
             /\ \A k \in DOMAIN lines : lines[k] = pieces[k]
             /\ \A k \in DOMAIN pieces \ DOMAIN lines : pieces[k] = <<>> /\ Last(pieces) = <<>>
<1>1. PICK p : p = Pieces(s, {separator})
  OBVIOUS
<1>2. PICK n, S : n \in Nat \ {0} /\ p \in [1 .. n -> S]
  BY <1>1, PiecesAreFunction
<1>3. PICK l : l = GetLines(s, separator) /\ l = IF Last(p) = <<>> THEN Front(p) ELSE p
  BY <1>1 DEF GetLines
<1>4. /\ DOMAIN l \subseteq DOMAIN p
      /\ \A k \in DOMAIN l : l[k] = p[k]
      /\ \A k \in DOMAIN p \ DOMAIN l : p[k] = <<>> /\ Last(p) = <<>>
  BY <1>2, <1>3, AllButEmptyLast
<1> QED BY <1>1, <1>3, <1>4, Zenon
--------------------------------------------------------------------------------
(* What the writers have written.                                              *)
WrittenText ==
  /\ kind \in DOMAIN Letters => text \in Seq(Letters[kind])
  /\ kind = "path" =>
       place \in [Directories -> {"nothing", "plain", "program", "directory"}]

LEMMA WrittenInvariant == Spec => []WrittenText
<1>1. Init => WrittenText
  BY DEF Init, WrittenText, Letters
<1>2. WrittenText /\ [Next]_vars => WrittenText'
  <2> SUFFICES ASSUME WrittenText, [Next]_vars PROVE WrittenText'
    OBVIOUS
  <2>1. CASE WriteCharacter
    BY <2>1 DEF WriteCharacter, WrittenText
  <2>2. CASE WriteLine
    BY <2>2 DEF WriteLine, WrittenText, Letters, Lines
  <2>3. CASE Resize \/ SwitchPage \/ Refresh
    BY <2>3 DEF Resize, SwitchPage, Refresh, WrittenText, Letters
  <2>4. CASE UNCHANGED vars
    BY <2>4 DEF vars, WrittenText
  <2> QED BY <2>1, <2>2, <2>3, <2>4 DEF Next
<1> QED BY <1>1, <1>2, PTL DEF Spec
--------------------------------------------------------------------------------
(* The lookup finds what execvp executes, but for the two exceptions, for every *)
(* PATH and whatever its directories hold.                                     *)
LEMMA LookupIs ==
  WrittenText => LookupFindsExecutables
<1> SUFFICES ASSUME WrittenText, kind = "path"
             PROVE  LookupFindsExecutables
  BY DEF LookupFindsExecutables
<1> DEFINE pieces == Pieces(text, {Colon})
           lines  == GetLines(text, Colon)
           Place(entry) == IF entry = <<>> THEN Here ELSE entry
<1>1. place \in [Directories -> {"nothing", "plain", "program", "directory"}]
      /\ text \in Seq(Letters["path"])
  BY DEF WrittenText, Letters
<1>2. /\ DOMAIN lines \subseteq DOMAIN pieces
      /\ \A k \in DOMAIN lines : lines[k] = pieces[k]
      /\ \A k \in DOMAIN pieces \ DOMAIN lines : pieces[k] = <<>> /\ Last(pieces) = <<>>
  <2>1. Len(text) \in Nat /\ DOMAIN text = 1 .. Len(text)
    BY <1>1
  <2> QED BY <2>1, LinesArePieces
<1>3. ExecutableOnPath(text, place)
        <=> \E k \in DOMAIN lines : /\ Place(lines[k]) \in Directories
                                    /\ place[Place(lines[k])] \in {"program", "directory"}
  BY <1>1, Zenon DEF ExecutableOnPath, Here, Dot
<1>4. \A what : InPath(what) <=> \E k \in DOMAIN pieces : /\ Place(pieces[k]) \in Directories
                                                         /\ place[Place(pieces[k])] = what
  BY DEF InPath
<1> HIDE DEF pieces, lines
<1>5. ASSUME ExecutableOnPath(text, place)
      PROVE  InPath("program") \/ InPath("directory")
  BY <1>2, <1>3, <1>4, <1>5
<1>6. ASSUME InPath("program")
      PROVE  ExecutableOnPath(text, place) \/ (place[Here] = "program" /\ Last(pieces) = <<>>)
  BY <1>2, <1>3, <1>4, <1>6
<1> QED BY <1>5, <1>6 DEF LookupFindsExecutables, pieces

THEOREM LookupIsExecution == Spec => []LookupFindsExecutables
BY WrittenInvariant, LookupIs, PTL
--------------------------------------------------------------------------------
(* The numbers a[1] < ... < a[n] are n, and the k-th of them is a[k].           *)
LEMMA Counted ==
  ASSUME NEW n \in Nat, NEW a \in [1 .. n -> Nat],
         \A i, j \in 1 .. n : i < j => a[i] < a[j],
         NEW m \in 0 .. n
  PROVE  Cardinality({a[i] : i \in 1 .. m}) = m
<1> DEFINE S == {a[i] : i \in 1 .. m}
           f == [i \in 1 .. m |-> a[i]]
<1>1. f \in [1 .. m -> S]
  OBVIOUS
<1>2. \A i, j \in 1 .. m : f[i] = f[j] => i = j
  <2> SUFFICES ASSUME NEW i \in 1 .. m, NEW j \in 1 .. m, i < j PROVE f[i] # f[j]
    OBVIOUS
  <2>1. a[i] < a[j] /\ a[i] \in Nat /\ a[j] \in Nat
    OBVIOUS
  <2> QED BY <2>1
<1>3. \A s \in S : \E i \in 1 .. m : f[i] = s
  OBVIOUS
<1>4. f \in Bijection(1 .. m, S)
  <2> HIDE DEF f, S
  <2>1. f \in Injection(1 .. m, S)
    BY <1>1, <1>2, Fun_IsInj
  <2>2. f \in Surjection(1 .. m, S)
    BY <1>1, <1>3, Fun_IsSurj
  <2> QED BY <2>1, <2>2 DEF Bijection
<1>5. ExistsBijection(1 .. m, S)
  BY <1>4, Fun_ExistsBij
<1> QED BY <1>5, FS_CountingElements

LEMMA Enumerated ==
  ASSUME NEW n \in Nat, NEW a \in [1 .. n -> Nat],
         \A i, j \in 1 .. n : i < j => a[i] < a[j],
         NEW S, S = {a[i] : i \in 1 .. n}
  PROVE  Cardinality(S) = n /\ \A k \in 1 .. n : Nth(S, k) = a[k]
<1>1. Cardinality(S) = n
  BY Counted
<1>2. ASSUME NEW k \in 1 .. n PROVE Cardinality({j \in S : j < a[k]}) = k - 1
  <2>1. {j \in S : j < a[k]} = {a[i] : i \in 1 .. k - 1}
    <3>1. ASSUME NEW i \in 1 .. n PROVE a[i] < a[k] <=> i \in 1 .. k - 1
      <4>1. i < k => a[i] < a[k]
        BY <1>2
      <4>2. k < i => a[k] < a[i]
        BY <1>2
      <4>3. a[i] \in Nat /\ a[k] \in Nat
        BY <1>2
      <4> QED BY <1>2, <4>1, <4>2, <4>3
    <3>2. 1 .. k - 1 \subseteq 1 .. n
      BY <1>2
    <3> QED BY <3>1, <3>2
  <2>2. k - 1 \in 0 .. n
    BY <1>2
  <2> QED BY <2>1, <2>2, Counted
<1>3. ASSUME NEW k \in 1 .. n PROVE Nth(S, k) = a[k]
  <2>1. a[k] \in S /\ Cardinality({j \in S : j < a[k]}) = k - 1
    BY <1>2, <1>3
  <2>2. ASSUME NEW i \in S, Cardinality({j \in S : j < i}) = k - 1 PROVE i = a[k]
    <3>1. PICK m \in 1 .. n : i = a[m]
      BY <2>2
    <3>2. m - 1 = k - 1
      BY <1>2, <2>2, <3>1
    <3> QED BY <3>1, <3>2
  <2> QED BY <2>1, <2>2 DEF Nth
<1> QED BY <1>1, <1>3

LEMMA OneCharacter ==
  ASSUME NEW C, NEW s \in Seq(C), NEW i \in 1 .. Len(s)
  PROVE  SubSeq(s, i, i) = <<s[i]>>
<1>1. SubSeq(s, i, i) \in Seq(C) /\ Len(SubSeq(s, i, i)) = 1 /\ SubSeq(s, i, i)[1] = s[i]
  BY SubSeqProperties
<1>2. <<s[i]>> \in Seq(C) /\ Len(<<s[i]>>) = 1 /\ <<s[i]>>[1] = s[i]
  OBVIOUS
<1>3. PICK t, u : t = SubSeq(s, i, i) /\ u = <<s[i]>>
  OBVIOUS
<1>4. t \in Seq(C) /\ u \in Seq(C) /\ Len(t) = Len(u) /\ \A k \in 1 .. Len(t) : t[k] = u[k]
  BY <1>1, <1>2, <1>3
<1>5. t = u
  BY <1>4, SeqEqual
<1> QED BY <1>3, <1>5

(* A piece of one character, and the words of a text that alternates between a  *)
(* character and a blank.                                                      *)
LEMMA PieceOfOne ==
  ASSUME NEW C, NEW s \in Seq(C), NEW separators, NEW i \in 1 .. Len(s),
         s[i] \notin separators, i < Len(s) => s[i + 1] \in separators
  PROVE  PieceAt(s, separators, i) = <<s[i]>>
<1> DEFINE ends == {j \in i .. Len(s) + 1 : j > Len(s) \/ s[j] \in separators}
<1>1. i + 1 \in ends /\ i \notin ends /\ \A j \in ends : j >= i /\ j \in Nat
  OBVIOUS
<1>2. \A j \in ends : i + 1 <= j
  BY <1>1
<1>3. Min(ends) = i + 1
  <2>1. Min(ends) \in ends /\ \A y \in ends : Min(ends) <= y
    <3>1. ends \in SUBSET Nat /\ ends # {}
      BY <1>1
    <3> QED BY <3>1, MinimumExists
  <2> QED BY <1>1, <1>2, <2>1
<1>4. PieceAt(s, separators, i) = SubSeq(s, i, i)
  <2>1. (i + 1) - 1 = i
    OBVIOUS
  <2> HIDE DEF ends
  <2>2. PieceAt(s, separators, i) = SubSeq(s, i, (i + 1) - 1)
    BY <1>3, Zenon DEF PieceAt, Between, ends
  <2> QED BY <2>1, <2>2
<1>5. SubSeq(s, i, i) = <<s[i]>>
  BY OneCharacter
<1> QED BY <1>4, <1>5

LEMMA OddNumbers ==
  \A n \in Nat : \A S : S = {2 * k - 1 : k \in 1 .. n} =>
    Cardinality(S) = n /\ \A k \in 1 .. n : Nth(S, k) = 2 * k - 1
<1> SUFFICES ASSUME NEW n \in Nat
             PROVE  LET S == {2 * k - 1 : k \in 1 .. n}
                    IN  Cardinality(S) = n /\ \A k \in 1 .. n : Nth(S, k) = 2 * k - 1
  BY Zenon
<1> DEFINE S == {2 * k - 1 : k \in 1 .. n}
<1>1. PICK a : a = [k \in 1 .. n |-> 2 * k - 1]
  OBVIOUS
<1>2. /\ a \in [1 .. n -> Nat] /\ \A i, j \in 1 .. n : i < j => a[i] < a[j]
      /\ \A k \in 1 .. n : a[k] = 2 * k - 1
  BY <1>1
<1>3. S = {a[k] : k \in 1 .. n}
  BY <1>2
<1> HIDE DEF S
<1>4. Cardinality(S) = n /\ \A k \in 1 .. n : Nth(S, k) = a[k]
  BY <1>2, <1>3, Enumerated
<1>5. Cardinality(S) = n /\ \A k \in 1 .. n : Nth(S, k) = 2 * k - 1
  BY <1>2, <1>4, Zenon
<1> QED BY <1>5 DEF S

LEMMA AlternatingWords ==
  ASSUME NEW C, NEW s \in Seq(C), NEW n \in Nat \ {0}, Len(s) = 2 * n - 1,
         \A k \in 1 .. n : s[2 * k - 1] \notin Blank,
         \A k \in 1 .. n - 1 : s[2 * k] \in Blank
  PROVE  Words(s) = [k \in 1 .. n |-> <<s[2 * k - 1]>>]
<1> DEFINE a == [k \in 1 .. n |-> 2 * k - 1]
           starts == {i \in DOMAIN s : s[i] \notin Blank /\ (i = 1 \/ s[i - 1] \in Blank)}
<1>1. a \in [1 .. n -> Nat] /\ \A i, j \in 1 .. n : i < j => a[i] < a[j]
  OBVIOUS
<1>2. starts = {a[k] : k \in 1 .. n}
  <2>1. ASSUME NEW k \in 1 .. n PROVE a[k] \in starts
    <3>1. a[k] \in DOMAIN s /\ s[a[k]] \notin Blank
      BY <2>1
    <3>2. CASE k = 1
      BY <3>1, <3>2
    <3>3. CASE k # 1
      <4>1. k - 1 \in 1 .. n - 1 /\ a[k] - 1 = 2 * (k - 1)
        BY <2>1, <3>3
      <4>2. s[2 * (k - 1)] \in Blank
        BY <4>1
      <4> QED BY <3>1, <4>1, <4>2
    <3> QED BY <3>2, <3>3
  <2>2. ASSUME NEW i \in starts PROVE \E k \in 1 .. n : i = a[k]
    <3>1. i \in 1 .. 2 * n - 1 /\ s[i] \notin Blank
      BY <2>2
    <3>2. \E k \in 1 .. n : i = 2 * k - 1 \/ (i = 2 * k /\ k \in 1 .. n - 1)
      <4>1. CASE i % 2 = 0
        <5>1. PICK h \in Int : i = 2 * h
          BY <3>1, <4>1
        <5>2. h \in 1 .. n - 1
          BY <3>1, <5>1
        <5> QED BY <5>1, <5>2
      <4>2. CASE i % 2 = 1
        <5>1. PICK h \in Int : i = 2 * h + 1
          BY <3>1, <4>2
        <5>2. h + 1 \in 1 .. n /\ i = 2 * (h + 1) - 1
          BY <3>1, <5>1
        <5> QED BY <5>2
      <4> QED BY <3>1, <4>1, <4>2
    <3> QED BY <3>1, <3>2
  <2> QED BY <2>1, <2>2
<1>3. Cardinality(starts) = n /\ \A k \in 1 .. n : Nth(starts, k) = a[k]
  <2>1. starts = {2 * k - 1 : k \in 1 .. n}
    BY <1>2
  <2>2. \A k \in 1 .. n : a[k] = 2 * k - 1
    OBVIOUS
  <2> HIDE DEF a, starts
  <2>3. PICK S : S = starts
    OBVIOUS
  <2>4. Cardinality(S) = n /\ \A k \in 1 .. n : Nth(S, k) = 2 * k - 1
    BY <2>1, <2>3, OddNumbers
  <2> QED BY <2>2, <2>3, <2>4, Zenon
<1>4. ASSUME NEW k \in 1 .. n PROVE PieceAt(s, Blank, a[k]) = <<s[2 * k - 1]>>
  <2>1. 2 * k - 1 \in 1 .. Len(s) /\ a[k] = 2 * k - 1
    BY <1>4
  <2>2. 2 * k - 1 < Len(s) => k \in 1 .. n - 1 /\ (2 * k - 1) + 1 = 2 * k
    BY <1>4
  <2>3. 2 * k - 1 < Len(s) => s[(2 * k - 1) + 1] \in Blank
    BY <2>2
  <2>4. s[2 * k - 1] \notin Blank
    BY <1>4
  <2> QED BY <2>1, <2>3, <2>4, PieceOfOne
<1>5. Words(s) = [k \in 1 .. Cardinality(starts) |-> PieceAt(s, Blank, Nth(starts, k))]
  BY DEF Words, PiecesAt
<1> HIDE DEF a, starts
<1> QED BY <1>3, <1>4, <1>5
--------------------------------------------------------------------------------
(* The line of a process around its name.                                      *)
LEMMA Joined ==
  ASSUME NEW s \in Seq(Int), NEW t \in Seq(Int)
  PROVE  \E u \in Seq(Int) :
           /\ u = s \o t /\ Len(u) = Len(s) + Len(t)
           /\ \A i \in 1 .. Len(s) : u[i] = s[i]
           /\ \A i \in 1 .. Len(t) : u[Len(s) + i] = t[i]
<1>1. /\ s \o t \in Seq(Int) /\ Len(s \o t) = Len(s) + Len(t)
      /\ \A i \in 1 .. Len(s) : (s \o t)[i] = s[i]
      /\ \A i \in 1 .. Len(t) : (s \o t)[Len(s) + i] = t[i]
  OBVIOUS
<1> QED BY <1>1, Zenon

LEMMA IsText ==
  \A n \in Nat : \A S : \A f \in [1 .. n -> S] : f \in Seq(S) /\ Len(f) = n
<1> SUFFICES ASSUME NEW n \in Nat, NEW S, NEW f \in [1 .. n -> S]
             PROVE  f \in Seq(S) /\ Len(f) = n
  OBVIOUS
<1>1. f \in Seq(S)
  BY Z3
<1> QED BY <1>1

(* The line has q and t behind the name c.                                     *)
StandsBehind(line, c, q, t) ==
  /\ line \in Seq(Int) /\ Len(line) = Len(c) + 48
  /\ \A i \in 1 .. 3 : line[Len(c) + 3 + i] = q[i]
  /\ \A i \in 1 .. 42 : line[Len(c) + 6 + i] = t[i]

LEMMA FourParts ==
  ASSUME NEW p \in Seq(Int), NEW c \in Seq(Int), NEW q \in Seq(Int), NEW t \in Seq(Int),
         Len(p) = 3, Len(q) = 3, Len(t) = 42
  PROVE  StandsBehind(p \o c \o q \o t, c, q, t)
<1>1. PICK pc \in Seq(Int) : pc = p \o c /\ Len(pc) = Len(p) + Len(c)
  BY Joined
<1>2. PICK pcq \in Seq(Int) :
        /\ pcq = pc \o q /\ Len(pcq) = Len(pc) + Len(q)
        /\ \A i \in 1 .. Len(q) : pcq[Len(pc) + i] = q[i]
  BY Joined
<1>3. PICK line \in Seq(Int) :
        /\ line = pcq \o t /\ Len(line) = Len(pcq) + Len(t)
        /\ \A i \in 1 .. Len(pcq) : line[i] = pcq[i]
        /\ \A i \in 1 .. Len(t) : line[Len(pcq) + i] = t[i]
  BY Joined
<1>4. line = p \o c \o q \o t
  BY <1>1, <1>2, <1>3, Zenon
<1>5. PICK n \in Nat : n = Len(c)
  OBVIOUS
<1>6. Len(pc) = n + 3
  <2>1. Len(pc) = Len(p) + Len(c)
    BY <1>1, Zenon
  <2> QED BY <1>5, <2>1
<1>7. Len(pcq) = n + 6
  <2>1. Len(pcq) = Len(pc) + Len(q)
    BY <1>2, Zenon
  <2> QED BY <1>6, <2>1
<1>8. Len(line) = n + 48
  <2>1. Len(line) = Len(pcq) + Len(t)
    BY <1>3, Zenon
  <2> QED BY <1>7, <2>1
<1>9. \A i \in 1 .. 3 : line[n + 3 + i] = q[i]
  <2>1. \A i \in 1 .. 3 : n + 3 + i \in 1 .. n + 6
    OBVIOUS
  <2>2. \A i \in 1 .. n + 6 : line[i] = pcq[i]
    BY <1>3, <1>7, Zenon
  <2>3. \A i \in 1 .. 3 : pcq[n + 3 + i] = q[i]
    BY <1>2, <1>6, Zenon
  <2> QED BY <2>1, <2>2, <2>3, Zenon
<1>10. \A i \in 1 .. 42 : line[n + 6 + i] = t[i]
  BY <1>3, <1>7, Zenon
<1>11. StandsBehind(line, c, q, t)
  BY <1>5, <1>8, <1>9, <1>10, Zenon DEF StandsBehind
<1> QED BY <1>4, <1>11, Zenon

(* The text from the state on: the state, then a blank and a number in turns.    *)
RestAt(j) == IF j = 1 THEN 82 ELSE IF j % 2 = 0 THEN 32 ELSE j \div 2 + 1003

LEMMA NothingCloses == \A j \in 1 .. 43 : RestAt(j) \in Int /\ RestAt(j) # Close
BY DEF RestAt, Close

LEMMA OddAreVisible == \A k \in 1 .. 22 : RestAt(2 * k - 1) \notin Blank
BY DEF RestAt, Blank, Tab, Newline, Space

LEMMA EvenAreBlank == \A k \in 1 .. 22 - 1 : RestAt(2 * k) \in Blank
BY DEF RestAt, Blank, Space

LEMMA FieldsAre ==
  RestAt(1) = 82 /\ RestAt(23) = Number(14) /\ RestAt(25) = Number(15) /\ RestAt(43) = Number(24)
BY DEF RestAt, Number

LEMMA NumbersAfterName ==
  \E t \in Seq(Int) :
    /\ t = [i \in 1 .. 42 |-> IF i % 2 = 1 THEN Space ELSE Number(i \div 2 + 3)]
    /\ Len(t) = 42
    /\ \A i \in 1 .. 42 : t[i] = RestAt(i + 1)
<1> DEFINE e(i) == IF i % 2 = 1 THEN Space ELSE Number(i \div 2 + 3)
           t == [i \in 1 .. 42 |-> e(i)]
<1>1. \A i \in 1 .. 42 : e(i) \in Int
  BY DEF Space, Number
<1>2. t \in Seq(Int) /\ Len(t) = 42
  <2>1. t \in [1 .. 42 -> Int] /\ 42 \in Nat
    BY <1>1
  <2> HIDE DEF t
  <2> QED BY <2>1, IsText, Zenon
<1>3. \A i \in 1 .. 42 : e(i) = RestAt(i + 1)
  BY DEF Space, Number, RestAt
<1>4. \A i \in 1 .. 42 : t[i] = e(i)
  BY Zenon
<1>5. PICK u : u = t
  OBVIOUS
<1> HIDE DEF e
<1>6. u \in Seq(Int) /\ Len(u) = 42 /\ \A i \in 1 .. 42 : u[i] = RestAt(i + 1)
  <2>1. \A i \in 1 .. 42 : t[i] = RestAt(i + 1)
    BY <1>3, <1>4, Zenon
  <2> HIDE DEF t
  <2> QED BY <1>2, <1>5, <2>1, Zenon
<1>7. u = [i \in 1 .. 42 |-> IF i % 2 = 1 THEN Space ELSE Number(i \div 2 + 3)]
  BY <1>5, Zenon DEF e
<1> QED BY <1>6, <1>7, Zenon

LEMMA Indices ==
  \A n \in Nat :
    /\ n + 3 + 1 = n + 4 /\ n + 3 + 2 = n + 5 /\ n + 3 + 3 = n + 6 /\ n + 5 + 1 = n + 6
    /\ \A j \in 1 .. 43 : j # 1 => /\ j - 1 \in 1 .. 42 /\ (j - 1) + 1 = j
                                   /\ n + 6 + (j - 1) = n + 5 + j
OBVIOUS

(* What is written before and behind the name.                                *)
BeforeName == <<Number(7), Space, Open>>
BehindName == <<Close, Space, 82>>

LEMMA Around ==
  /\ BeforeName \in Seq(Int) /\ Len(BeforeName) = 3
  /\ BehindName \in Seq(Int) /\ Len(BehindName) = 3
  /\ BehindName[1] = Close /\ BehindName[2] = Space /\ BehindName[3] = 82
<1>1. BeforeName \in Seq(Int) /\ Len(BeforeName) = 3
  BY DEF BeforeName, Number, Space, Open
<1>2. /\ BehindName \in Seq(Int) /\ Len(BehindName) = 3
      /\ BehindName[1] = Close /\ BehindName[2] = Space /\ BehindName[3] = 82
  BY DEF BehindName, Space, Close
<1> QED BY <1>1, <1>2, Zenon

LEMMA StatLineIs ==
  ASSUME NEW comm \in Seq(Int)
  PROVE  \E n \in Nat : \E line \in Seq(Int) :
           /\ line = StatLine(comm) /\ Len(line) = n + 48 /\ line[n + 4] = Close
           /\ line[n + 5] = Space /\ \A j \in 1 .. 43 : line[n + 5 + j] = RestAt(j)
<1>1. PICK t \in Seq(Int) :
        /\ t = [i \in 1 .. 42 |-> IF i % 2 = 1 THEN Space ELSE Number(i \div 2 + 3)]
        /\ Len(t) = 42
        /\ \A i \in 1 .. 42 : t[i] = RestAt(i + 1)
  BY NumbersAfterName, Zenon
<1>2. StatLine(comm) = BeforeName \o comm \o BehindName \o t
  BY <1>1, Zenon DEF StatLine, BeforeName, BehindName
<1>3. Len(t) = 42
  BY <1>1, Zenon
<1>4. PICK line : /\ line = BeforeName \o comm \o BehindName \o t
                  /\ StandsBehind(line, comm, BehindName, t)
  BY <1>3, Around, FourParts, Zenon
<1>5. PICK n \in Nat : n = Len(comm)
  OBVIOUS
<1>6. /\ \A i \in 1 .. 3 : line[n + 3 + i] = BehindName[i]
      /\ \A i \in 1 .. 42 : line[n + 6 + i] = t[i]
      /\ Len(line) = n + 48
  BY <1>4, <1>5, Zenon DEF StandsBehind
<1>7. line[n + 4] = Close /\ line[n + 5] = Space /\ line[n + 6] = 82
  <2>1. 1 \in 1 .. 3 /\ 2 \in 1 .. 3 /\ 3 \in 1 .. 3
    OBVIOUS
  <2>2. /\ line[n + 3 + 1] = BehindName[1] /\ line[n + 3 + 2] = BehindName[2]
        /\ line[n + 3 + 3] = BehindName[3]
    BY <1>6, <2>1, Zenon
  <2> QED BY <2>2, Around, Indices, Zenon
<1>8. \A j \in 1 .. 43 : line[n + 5 + j] = RestAt(j)
  <2> TAKE j \in 1 .. 43
  <2>1. CASE j = 1
    <3>1. line[n + 5 + 1] = 82 /\ RestAt(1) = 82
      BY <1>7, FieldsAre, Indices, Zenon
    <3> QED BY <2>1, <3>1, Zenon
  <2>2. CASE j # 1
    <3>1. /\ j - 1 \in 1 .. 42 /\ (j - 1) + 1 = j /\ n + 6 + (j - 1) = n + 5 + j
      BY <2>2, Indices, Zenon
    <3>2. line[n + 6 + (j - 1)] = t[j - 1] /\ t[j - 1] = RestAt((j - 1) + 1)
      BY <1>1, <1>6, <3>1, Zenon
    <3> QED BY <3>1, <3>2, Zenon
  <2> QED BY <2>1, <2>2, Zenon
<1>9. line \in Seq(Int)
  BY <1>4, Zenon DEF StandsBehind
<1> QED BY <1>2, <1>4, <1>6, <1>7, <1>8, <1>9, Zenon

LEMMA BehindParenthesis ==
  \A n \in Nat : \A i \in 1 .. n + 48 :
    i > n + 4 => i = n + 5 \/ \E j \in 1 .. 43 : i = n + 5 + j
<1> SUFFICES ASSUME NEW n \in Nat, NEW i \in 1 .. n + 48, i > n + 4, i # n + 5
             PROVE  \E j \in 1 .. 43 : i = n + 5 + j
  OBVIOUS
<1>1. i - (n + 5) \in 1 .. 43 /\ i = n + 5 + (i - (n + 5))
  OBVIOUS
<1> QED BY <1>1

LEMMA IsMaximum ==
  \A n \in Nat : \A I \in SUBSET (1 .. n + 48) :
    n + 4 \in I /\ (\A i \in I : ~(i > n + 4)) => I # {} /\ Max(I) = n + 4
<1> SUFFICES ASSUME NEW n \in Nat, NEW I \in SUBSET (1 .. n + 48), n + 4 \in I,
                    \A i \in I : ~(i > n + 4)
             PROVE  Max(I) = n + 4
  OBVIOUS
<1>1. n + 48 \in Nat /\ I \in SUBSET (0 .. n + 48) /\ I # {}
  OBVIOUS
<1>2. Max(I) \in I /\ \A y \in I : Max(I) >= y
  BY <1>1, MaximumExists
<1>3. PICK m \in 1 .. n + 48 : m = Max(I)
  BY <1>2
<1>4. m >= n + 4 /\ ~(m > n + 4)
  BY <1>2, <1>3
<1>5. m = n + 4
  BY <1>4
<1> QED BY <1>3, <1>5

LEMMA LastParenthesis ==
  ASSUME NEW n \in Nat, NEW line \in Seq(Int), Len(line) = n + 48,
         line[n + 4] = Close, line[n + 5] = Space,
         \A j \in 1 .. 43 : line[n + 5 + j] = RestAt(j)
  PROVE  SelectLastInSeq(line, LAMBDA c : c = Close) = n + 4
<1> DEFINE I == {i \in 1 .. n + 48 : line[i] = Close}
<1>1. DOMAIN line = 1 .. n + 48
  OBVIOUS
<1>2. n + 4 \in I
  <2>1. n + 4 \in 1 .. n + 48
    OBVIOUS
  <2> QED BY <2>1, Zenon
<1>3. ASSUME NEW i \in I PROVE ~(i > n + 4)
  <2>1. i \in 1 .. n + 48 /\ line[i] = Close
    BY <1>3, Zenon
  <2>2. Space # Close
    BY DEF Space, Close
  <2>3. i # n + 5
    BY <2>1, <2>2, Zenon
  <2>4. \A j \in 1 .. 43 : i # n + 5 + j
    BY <2>1, NothingCloses, Zenon
  <2> QED BY <2>1, <2>3, <2>4, BehindParenthesis, Zenon
<1>4. I \in SUBSET (1 .. n + 48)
  BY Zenon
<1>5. SelectLastInSeq(line, LAMBDA c : c = Close) = IF I # {} THEN Max(I) ELSE 0
  BY <1>1, Zenon DEF SelectLastInSeq
<1> HIDE DEF I
<1>6. I # {} /\ Max(I) = n + 4
  BY <1>2, <1>3, <1>4, IsMaximum, Zenon
<1> QED BY <1>5, <1>6, Zenon

(* The text of one character.                                                  *)
Alone(c) == <<c>>

LEMMA WordIndices ==
  /\ \A k \in 1 .. 22 : 2 * k - 1 \in 1 .. 43
  /\ \A k \in 1 .. 22 - 1 : 2 * k \in 1 .. 43
  /\ 2 * 1 - 1 = 1 /\ 2 * 12 - 1 = 23 /\ 2 * 13 - 1 = 25 /\ 2 * 22 - 1 = 43
  /\ 1 \in 1 .. 22 /\ 12 \in 1 .. 22 /\ 13 \in 1 .. 22 /\ 22 \in 1 .. 22
  /\ 43 = 2 * 22 - 1 /\ 22 \in Nat \ {0} /\ 22 \in Nat
  /\ 1 \in 1 .. 43 /\ 23 \in 1 .. 43 /\ 25 \in 1 .. 43 /\ 43 \in 1 .. 43
OBVIOUS

LEMMA WordsAfterName ==
  ASSUME NEW rest \in Seq(Int), Len(rest) = 43, \A j \in 1 .. 43 : rest[j] = RestAt(j)
  PROVE  /\ Len(Words(rest)) = 22
         /\ Words(rest)[1] = Alone(82) /\ Words(rest)[12] = Alone(Number(14))
         /\ Words(rest)[13] = Alone(Number(15)) /\ Words(rest)[22] = Alone(Number(24))
<1>1. \A k \in 1 .. 22 : rest[2 * k - 1] \notin Blank
  BY WordIndices, OddAreVisible, Zenon
<1>2. \A k \in 1 .. 22 - 1 : rest[2 * k] \in Blank
  BY WordIndices, EvenAreBlank, Zenon
<1>3. Len(rest) = 2 * 22 - 1 /\ 22 \in Nat \ {0}
  BY WordIndices, Zenon
<1>4. Words(rest) = [k \in 1 .. 22 |-> <<rest[2 * k - 1]>>]
  BY <1>1, <1>2, <1>3, AlternatingWords, Zenon
<1>5. PICK values : values = Words(rest)
  OBVIOUS
<1>6. Len(values) = 22
  <2>1. values \in [1 .. 22 -> {<<rest[2 * k - 1]>> : k \in 1 .. 22}]
    BY <1>4, <1>5, Zenon
  <2> QED BY <2>1, IsText, WordIndices, Zenon
<1>7. \A k \in 1 .. 22 : values[k] = Alone(rest[2 * k - 1])
  BY <1>4, <1>5, Zenon DEF Alone
<1>8. /\ values[1] = Alone(rest[1]) /\ values[12] = Alone(rest[23])
      /\ values[13] = Alone(rest[25]) /\ values[22] = Alone(rest[43])
  <2>1. /\ values[1] = Alone(rest[2 * 1 - 1]) /\ values[12] = Alone(rest[2 * 12 - 1])
        /\ values[13] = Alone(rest[2 * 13 - 1]) /\ values[22] = Alone(rest[2 * 22 - 1])
    BY <1>7, WordIndices, Zenon
  <2> QED BY <2>1, WordIndices, Zenon
<1>9. rest[1] = 82 /\ rest[23] = Number(14) /\ rest[25] = Number(15) /\ rest[43] = Number(24)
  <2>1. /\ rest[1] = RestAt(1) /\ rest[23] = RestAt(23)
        /\ rest[25] = RestAt(25) /\ rest[43] = RestAt(43)
    BY WordIndices, Zenon
  <2> QED BY <2>1, FieldsAre, Zenon
<1>10. /\ values[1] = Alone(82) /\ values[12] = Alone(Number(14))
       /\ values[13] = Alone(Number(15)) /\ values[22] = Alone(Number(24))
  BY <1>8, <1>9, Zenon
<1> QED BY <1>5, <1>6, <1>10, Zenon

LEMMA TextBehind ==
  ASSUME NEW n \in Nat, NEW line \in Seq(Int), Len(line) = n + 48
  PROVE  \E rest \in Seq(Int) :
           /\ rest = SubSeq(line, n + 4 + 2, Len(line)) /\ Len(rest) = 43
           /\ \A j \in 1 .. 43 : rest[j] = line[n + 5 + j]
<1>1. /\ SubSeq(line, n + 4 + 2, Len(line)) \in Seq(Int)
      /\ Len(SubSeq(line, n + 4 + 2, Len(line))) = 43
      /\ \A j \in 1 .. 43 : SubSeq(line, n + 4 + 2, Len(line))[j] = line[n + 5 + j]
  OBVIOUS
<1> QED BY <1>1, Zenon

LEMMA FieldValues ==
  /\ IsNumber(Alone(Number(14))) /\ IsNumber(Alone(Number(15))) /\ IsNumber(Alone(Number(24)))
  /\ ValueOf(Alone(Number(14))) = 14 /\ ValueOf(Alone(Number(15))) = 15
  /\ ValueOf(Alone(Number(24))) = 24
  /\ Alone(82)[1] = 82 /\ ~(22 < 22)
BY DEF IsNumber, ValueOf, Alone, Number

(* What is read of it is what the kernel wrote after the name, whatever the    *)
(* name is.                                                                    *)
LEMMA StatIsRead ==
  ASSUME NEW comm \in Seq(Int)
  PROVE  ParseProcStat(StatLine(comm))
           = [ok |-> TRUE, state |-> 82, ticks |-> 14 + 15, pages |-> 24]
<1>1. PICK n \in Nat : \E line \in Seq(Int) :
        /\ line = StatLine(comm) /\ Len(line) = n + 48 /\ line[n + 4] = Close
        /\ line[n + 5] = Space /\ \A j \in 1 .. 43 : line[n + 5 + j] = RestAt(j)
  BY StatLineIs, Zenon
<1>2. PICK line \in Seq(Int) :
        /\ line = StatLine(comm) /\ Len(line) = n + 48 /\ line[n + 4] = Close
        /\ line[n + 5] = Space /\ \A j \in 1 .. 43 : line[n + 5 + j] = RestAt(j)
  BY <1>1, Zenon
<1>3. SelectLastInSeq(line, LAMBDA c : c = Close) = n + 4
  BY <1>2, LastParenthesis, Zenon
<1>4. PICK rest \in Seq(Int) :
        /\ rest = SubSeq(line, n + 4 + 2, Len(line)) /\ Len(rest) = 43
        /\ \A j \in 1 .. 43 : rest[j] = line[n + 5 + j]
  BY <1>2, TextBehind, Zenon
<1>5. Len(rest) = 43 /\ \A j \in 1 .. 43 : rest[j] = RestAt(j)
  BY <1>2, <1>4, Zenon
<1>6. /\ Len(Words(rest)) = 22
      /\ Words(rest)[1] = Alone(82) /\ Words(rest)[12] = Alone(Number(14))
      /\ Words(rest)[13] = Alone(Number(15)) /\ Words(rest)[22] = Alone(Number(24))
  BY <1>5, WordsAfterName, Zenon
<1>7. n + 4 # 0 /\ ~(n + 4 + 2 >= Len(line))
  <2>1. Len(line) = n + 48
    BY <1>2, Zenon
  <2> QED BY ONLY n \in Nat, <2>1
<1>8. ParseProcStat(line) = StatFields(line, n + 4)
  BY <1>3, Zenon DEF ParseProcStat
<1>9. PICK values : values = Words(SubSeq(line, n + 4 + 2, Len(line)))
  OBVIOUS
<1>10. /\ Len(values) = 22 /\ values[1] = Alone(82) /\ values[12] = Alone(Number(14))
       /\ values[13] = Alone(Number(15)) /\ values[22] = Alone(Number(24))
  <2>1. values = Words(rest)
    BY <1>4, <1>9, Zenon
  <2> QED BY <1>6, <2>1, Zenon
<1>11. /\ ~(Len(values) < 22) /\ values[1][1] = 82
       /\ IsNumber(values[12]) /\ IsNumber(values[13]) /\ IsNumber(values[22])
  BY <1>10, FieldValues, Zenon
<1>12. ValueOf(values[12]) = 14 /\ ValueOf(values[13]) = 15 /\ ValueOf(values[22]) = 24
  BY <1>10, FieldValues, Zenon
<1>13. StatFields(line, n + 4) = [ok |-> TRUE, state |-> 82, ticks |-> 14 + 15, pages |-> 24]
  BY <1>7, <1>9, <1>11, <1>12, Zenon DEF StatFields
<1> QED BY <1>2, <1>8, <1>13, Zenon

(* The first line ends before the first newline.                               *)
LEMMA FirstLineIs ==
  ASSUME NEW s \in Seq(Int), NEW n \in 1 .. Len(s), s[n] = Newline,
         \A i \in 1 .. n - 1 : s[i] # Newline
  PROVE  FirstLine(s) = SubSeq(s, 1, n - 1)
<1> DEFINE S == {j \in 1 .. Len(s) + 1 : j > Len(s) \/ s[j] \in {Newline}}
<1>1. S \in SUBSET Nat /\ n \in S
  OBVIOUS
<1>2. \A j \in S : n <= j
  <2> SUFFICES ASSUME NEW j \in S, j < n PROVE FALSE
    OBVIOUS
  <2>1. j \in 1 .. n - 1 /\ ~(j > Len(s))
    OBVIOUS
  <2> QED BY <2>1
<1> DEFINE m == Min(S)
<1>3. m \in S /\ \A j \in S : m <= j
  BY <1>1, MinimumExists, Zenon
<1>4. FirstLine(s) = SubSeq(s, 1, m - 1)
  BY Zenon DEF FirstLine, PieceAt, Between
<1> HIDE DEF S, m
<1>5. m = n
  BY <1>1, <1>2, <1>3
<1> QED BY <1>4, <1>5, Zenon

(* There are no more words in a text than characters.                          *)
LEMMA FewWords ==
  ASSUME NEW s \in Seq(Int)
  PROVE  Len(Words(s)) \in Nat /\ Len(Words(s)) <= Len(s)
<1> DEFINE starts == {i \in DOMAIN s : s[i] \notin Blank /\ (i = 1 \/ s[i - 1] \in Blank)}
           c == Cardinality(starts)
           e(k) == PieceAt(s, Blank, Nth(starts, k))
<1>1. PICK n \in Nat : n = Len(s) /\ DOMAIN s = 1 .. n
  OBVIOUS
<1>2. starts \in SUBSET (1 .. n)
  BY <1>1
<1>3. IsFiniteSet(1 .. n) /\ Cardinality(1 .. n) = n
  BY FS_Interval
<1>4. IsFiniteSet(starts) /\ c <= Cardinality(1 .. n)
  BY <1>2, <1>3, FS_Subset
<1>5. c \in Nat /\ c <= n
  BY <1>3, <1>4, FS_CardinalityType
<1>6. Words(s) = [k \in 1 .. c |-> e(k)]
  BY Zenon DEF Words, PiecesAt
<1>7. [k \in 1 .. c |-> e(k)] \in [1 .. c -> {e(k) : k \in 1 .. c}]
  BY Zenon
<1> HIDE DEF c, e, starts
<1>8. Len(Words(s)) = c
  BY <1>5, <1>6, <1>7, IsText, Zenon
<1> QED BY <1>1, <1>5, <1>8

(* A line without that many characters has not the figures.                    *)
LEMMA ShortLineHasNoStat ==
  ASSUME NEW line \in Seq(Int), Len(line) < 22
  PROVE  ParseProcStat(line) = NoStat
<1> DEFINE I == {i \in 1 .. Len(line) : line[i] = Close}
           close == SelectLastInSeq(line, LAMBDA c : c = Close)
           rest == SubSeq(line, close + 2, Len(line))
<1>1. I \in SUBSET (0 .. Len(line)) /\ Len(line) \in Nat
  OBVIOUS
<1>2. close = IF I # {} THEN Max(I) ELSE 0
  BY Zenon DEF SelectLastInSeq
<1>3. close \in 0 .. Len(line)
  <2>1. CASE I = {}
    BY <1>1, <1>2, <2>1
  <2>2. CASE I # {}
    <3>1. Max(I) \in I
      BY <1>1, <2>2, MaximumExists, Zenon
    <3> QED BY <1>1, <1>2, <2>2, <3>1
  <2> QED BY <2>1, <2>2
<1> HIDE DEF I, close
<1>4. rest \in Seq(Int) /\ Len(rest) <= Len(line)
  BY <1>3
<1> HIDE DEF rest
<1>5. PICK values : values = Words(rest)
  OBVIOUS
<1>6. Len(values) < 22
  BY <1>1, <1>4, <1>5, FewWords
<1>7. ParseProcStat(line) = StatFields(line, close)
  BY Zenon DEF ParseProcStat, close
<1>8. StatFields(line, close) = NoStat
  BY <1>5, <1>6, Zenon DEF StatFields, rest
<1> QED BY <1>7, <1>8, Zenon

(* The name is in the line, and before and behind it is no newline.            *)
LEMMA NameInLine ==
  ASSUME NEW comm \in Seq(Int)
  PROVE  \E line \in Seq(Int) :
           /\ line = StatLine(comm) /\ Len(line) = Len(comm) + 48
           /\ \A i \in 1 .. Len(comm) : line[3 + i] = comm[i]
           /\ \A i \in 1 .. Len(line) :
                i \notin 3 + 1 .. 3 + Len(comm) => line[i] # Newline
<1>1. PICK n \in Nat : n = Len(comm)
  OBVIOUS
<1>2. PICK t \in Seq(Int) :
        /\ t = [i \in 1 .. 42 |-> IF i % 2 = 1 THEN Space ELSE Number(i \div 2 + 3)]
        /\ Len(t) = 42
        /\ \A i \in 1 .. 42 : t[i] = RestAt(i + 1)
  BY NumbersAfterName, Zenon
<1>3. PICK pc \in Seq(Int) :
        /\ pc = BeforeName \o comm /\ Len(pc) = Len(BeforeName) + Len(comm)
        /\ \A i \in 1 .. Len(BeforeName) : pc[i] = BeforeName[i]
        /\ \A i \in 1 .. Len(comm) : pc[Len(BeforeName) + i] = comm[i]
  BY Joined, Around
<1>4. PICK pcq \in Seq(Int) :
        /\ pcq = pc \o BehindName /\ Len(pcq) = Len(pc) + Len(BehindName)
        /\ \A i \in 1 .. Len(pc) : pcq[i] = pc[i]
        /\ \A i \in 1 .. Len(BehindName) : pcq[Len(pc) + i] = BehindName[i]
  BY Joined, Around
<1>5. PICK line \in Seq(Int) :
        /\ line = pcq \o t /\ Len(line) = Len(pcq) + Len(t)
        /\ \A i \in 1 .. Len(pcq) : line[i] = pcq[i]
        /\ \A i \in 1 .. Len(t) : line[Len(pcq) + i] = t[i]
  BY Joined
<1>6. line = StatLine(comm)
  <2>1. line = BeforeName \o comm \o BehindName \o t
    BY <1>3, <1>4, <1>5, Zenon
  <2> QED BY <1>2, <2>1, Zenon DEF StatLine, BeforeName, BehindName
<1>7. Len(BeforeName) = 3 /\ Len(BehindName) = 3 /\ Len(t) = 42
  BY <1>2, Around, Zenon
<1>8. Len(pc) = n + 3 /\ Len(pcq) = n + 6 /\ Len(line) = n + 48
  <2>1. Len(pc) = 3 + n
    BY <1>1, <1>3, <1>7, Zenon
  <2>2. Len(pcq) = Len(pc) + 3
    BY <1>4, <1>7, Zenon
  <2>3. Len(line) = Len(pcq) + 42
    BY <1>5, <1>7, Zenon
  <2> QED BY <2>1, <2>2, <2>3
<1>0. /\ \A i \in 1 .. 3 : pc[i] = BeforeName[i]
      /\ \A i \in 1 .. n : pc[3 + i] = comm[i]
      /\ \A i \in 1 .. n + 3 : pcq[i] = pc[i]
      /\ \A i \in 1 .. 3 : pcq[n + 3 + i] = BehindName[i]
      /\ \A i \in 1 .. n + 6 : line[i] = pcq[i]
      /\ \A i \in 1 .. 42 : line[n + 6 + i] = t[i]
  <2>1. \A i \in 1 .. 3 : pc[i] = BeforeName[i]
    BY <1>3, <1>7, Zenon
  <2>2. \A i \in 1 .. n : pc[3 + i] = comm[i]
    BY <1>1, <1>3, <1>7, Zenon
  <2>3. \A i \in 1 .. n + 3 : pcq[i] = pc[i]
    BY <1>4, <1>8, Zenon
  <2>4. \A i \in 1 .. 3 : pcq[n + 3 + i] = BehindName[i]
    BY <1>4, <1>7, <1>8, Zenon
  <2>5. \A i \in 1 .. n + 6 : line[i] = pcq[i]
    BY <1>5, <1>8, Zenon
  <2>6. \A i \in 1 .. 42 : line[n + 6 + i] = t[i]
    BY <1>5, <1>7, <1>8, Zenon
  <2> QED BY <2>1, <2>2, <2>3, <2>4, <2>5, <2>6, Zenon
<1>9. \A i \in 1 .. n : line[3 + i] = comm[i]
  <2> TAKE i \in 1 .. n
  <2>1. 3 + i \in 1 .. n + 3 /\ 3 + i \in 1 .. n + 6
    OBVIOUS
  <2> QED BY <1>0, <2>1, Zenon
<1>10. /\ \A i \in 1 .. 3 : BeforeName[i] # Newline
       /\ \A i \in 1 .. 3 : BehindName[i] # Newline
  BY DEF BeforeName, BehindName, Newline, Number, Space, Open, Close
<1>11. \A i \in 1 .. 42 : t[i] # Newline
  <2>1. \A i \in 1 .. 42 : RestAt(i + 1) # Newline
    BY DEF RestAt, Newline
  <2> QED BY <1>2, <2>1, Zenon
<1>12. ASSUME NEW i \in 1 .. n + 48, i \notin 3 + 1 .. 3 + n PROVE line[i] # Newline
  <2>1. CASE i <= 3
    <3>1. i \in 1 .. 3 /\ i \in 1 .. n + 3 /\ i \in 1 .. n + 6
      BY <2>1
    <3> QED BY <1>0, <1>10, <3>1, Zenon
  <2>2. CASE i > n + 3 /\ i <= n + 6
    <3>1. PICK j \in 1 .. 3 : i = n + 3 + j /\ i \in 1 .. n + 6
      <4>1. i - (n + 3) \in 1 .. 3 /\ i = n + 3 + (i - (n + 3)) /\ i \in 1 .. n + 6
        BY <2>2
      <4> QED BY <4>1
    <3> QED BY <1>0, <1>10, <3>1, Zenon
  <2>3. CASE i > n + 6
    <3>1. PICK j \in 1 .. 42 : i = n + 6 + j
      <4>1. i - (n + 6) \in 1 .. 42 /\ i = n + 6 + (i - (n + 6))
        BY <2>3
      <4> QED BY <4>1
    <3> QED BY <1>0, <1>11, <3>1, Zenon
  <2> QED BY <1>12, <2>1, <2>2, <2>3
<1> QED BY <1>1, <1>6, <1>8, <1>9, <1>12, Zenon

(* The first line of the file is all of it, unless there is a newline in the   *)
(* name: then it ends with the part of the name before the first.              *)
LEMMA FirstLineOfStat ==
  ASSUME NEW comm \in Seq(Int)
  PROVE  /\ ~Contains(comm, Newline)
              => FirstLine(StatLine(comm) \o <<Newline>>) = StatLine(comm)
         /\ Contains(comm, Newline) =>
              \E n \in 1 .. Len(comm) : \E line \in Seq(Int) :
                /\ line = FirstLine(StatLine(comm) \o <<Newline>>)
                /\ Len(line) = 2 + n
<1>1. PICK n \in Nat : n = Len(comm)
  OBVIOUS
<1>2. PICK line \in Seq(Int) :
        /\ line = StatLine(comm) /\ Len(line) = n + 48
        /\ \A i \in 1 .. n : line[3 + i] = comm[i]
        /\ \A i \in 1 .. n + 48 : i \notin 3 + 1 .. 3 + n => line[i] # Newline
  BY <1>1, NameInLine, Zenon
<1>3. PICK file \in Seq(Int) :
        /\ file = line \o <<Newline>> /\ Len(file) = n + 49
        /\ \A i \in 1 .. n + 48 : file[i] = line[i]
        /\ file[n + 49] = Newline
  <2>1. <<Newline>> \in Seq(Int) /\ Len(<<Newline>>) = 1 /\ <<Newline>>[1] = Newline
    BY DEF Newline
  <2>2. PICK file \in Seq(Int) :
          /\ file = line \o <<Newline>> /\ Len(file) = Len(line) + Len(<<Newline>>)
          /\ \A i \in 1 .. Len(line) : file[i] = line[i]
          /\ \A i \in 1 .. Len(<<Newline>>) : file[Len(line) + i] = <<Newline>>[i]
    BY <2>1, Joined
  <2>3. Len(line) = n + 48
    BY <1>2, Zenon
  <2>4. Len(file) = n + 49 /\ file[n + 49] = Newline
    BY <2>1, <2>2, <2>3
  <2>5. \A i \in 1 .. n + 48 : file[i] = line[i]
    BY <2>2, <2>3
  <2> QED BY <2>2, <2>4, <2>5, Zenon
<1>4. CASE ~Contains(comm, Newline)
  <2>1. \A i \in 1 .. n : comm[i] # Newline
    BY <1>1, <1>4 DEF Contains
  <2>2. \A i \in 1 .. n + 48 : file[i] # Newline
    <3> TAKE i \in 1 .. n + 48
    <3>1. CASE i \in 3 + 1 .. 3 + n
      <4>1. i - 3 \in 1 .. n /\ i = 3 + (i - 3)
        BY <3>1
      <4>2. PICK j \in 1 .. n : i = 3 + j
        BY <4>1, Zenon
      <4>3. line[i] = comm[j] /\ comm[j] # Newline
        BY <1>2, <2>1, <4>2, Zenon
      <4> QED BY <1>3, <4>3, Zenon
    <3>2. CASE i \notin 3 + 1 .. 3 + n
      BY <1>2, <1>3, <3>2, Zenon
    <3> QED BY <3>1, <3>2
  <2>3. PICK k \in 1 .. Len(file) : k = n + 49 /\ k - 1 = n + 48
    BY <1>3
  <2>6. file[k] = Newline /\ \A i \in 1 .. k - 1 : file[i] # Newline
    BY <1>3, <2>2, <2>3, Zenon
  <2>4. FirstLine(file) = SubSeq(file, 1, n + 48)
    BY <2>3, <2>6, FirstLineIs, Zenon
  <2>5. SubSeq(file, 1, n + 48) = line
    BY <1>2, <1>3
  <2> QED BY <1>2, <1>3, <1>4, <2>4, <2>5, Zenon
<1>5. CASE Contains(comm, Newline)
  <2> DEFINE P == {i \in 1 .. n : comm[i] = Newline}
  <2>1. P \in SUBSET Nat /\ P # {}
    <3>1. PICK i \in 1 .. n : comm[i] = Newline
      BY <1>1, <1>5, Zenon DEF Contains
    <3>2. i \in P
      BY <3>1, Zenon
    <3>3. P \in SUBSET Nat
      OBVIOUS
    <3> QED BY <3>2, <3>3, Zenon
  <2>2. PICK m \in P : \A i \in P : m <= i
    BY <2>1, MinimumExists
  <2>3. \A i \in 1 .. n : i < m => comm[i] # Newline
    BY <2>2
  <2>4. m \in 1 .. n /\ comm[m] = Newline
    BY <2>2
  <2> HIDE DEF P
  <2>5. 3 + m \in 1 .. Len(file) /\ (3 + m) - 1 = 2 + m /\ 3 + m \in 1 .. n + 48
    BY <1>3, <2>4
  <2>6. file[3 + m] = Newline
    BY <1>2, <1>3, <2>4, <2>5, Zenon
  <2>7. \A i \in 1 .. 2 + m : file[i] # Newline
    <3> TAKE i \in 1 .. 2 + m
    <3>0. i \in 1 .. n + 48
      BY <2>4
    <3>1. CASE i > 3
      <4>1. i - 3 \in 1 .. n /\ i = 3 + (i - 3) /\ i - 3 < m
        BY <2>4, <3>1
      <4>2. PICK j \in 1 .. n : i = 3 + j /\ j < m
        BY <4>1, Zenon
      <4>3. line[i] = comm[j] /\ comm[j] # Newline
        BY <1>2, <2>3, <4>2, Zenon
      <4> QED BY <1>3, <3>0, <4>3, Zenon
    <3>2. CASE i <= 3
      <4>1. i \notin 3 + 1 .. 3 + n
        BY <3>2
      <4> QED BY <1>2, <1>3, <3>0, <4>1, Zenon
    <3> QED BY <3>1, <3>2
  <2>8. FirstLine(file) = SubSeq(file, 1, 2 + m)
    BY <2>5, <2>6, <2>7, FirstLineIs
  <2>9. SubSeq(file, 1, 2 + m) \in Seq(Int) /\ Len(SubSeq(file, 1, 2 + m)) = 2 + m
    BY <1>3, <2>4
  <2> QED BY <1>1, <1>2, <1>3, <1>5, <2>4, <2>8, <2>9, Zenon
<1> QED BY <1>4, <1>5

(* State, time and memory are found behind the name, for names of every length; *)
(* and a process whose name has a newline is left out.                         *)
THEOREM NamesDoNotHideStat == Spec => []StatSurvivesNames
<1>1. WrittenText => StatSurvivesNames
  <2> SUFFICES ASSUME WrittenText, kind = "comm" PROVE StatSurvivesNames
    BY DEF StatSurvivesNames
  <2>1. text \in Seq(Int)
    <3>1. Letters["comm"] \subseteq Int
      BY DEF Letters, A, Space, Newline, Open, Close
    <3>2. text \in Seq(Letters["comm"])
      BY DEF WrittenText, Letters
    <3> QED BY <3>1, <3>2
  <2>2. PICK first : first = FirstLine(StatLine(text) \o <<Newline>>)
    OBVIOUS
  <2>3. ASSUME ~Contains(text, Newline)
        PROVE  ParseProcStat(first)
                 = [ok |-> TRUE, state |-> 82, ticks |-> 14 + 15, pages |-> 24]
    <3>1. first = StatLine(text)
      BY <2>1, <2>2, <2>3, FirstLineOfStat, Zenon
    <3> QED BY <2>1, <3>1, StatIsRead, Zenon
  <2>4. ASSUME Contains(text, Newline), Len(text) <= CommSize
        PROVE  ParseProcStat(first) = NoStat
    <3>1. PICK n \in 1 .. Len(text) : first \in Seq(Int) /\ Len(first) = 2 + n
      BY <2>1, <2>2, <2>4, FirstLineOfStat
    <3>2. Len(first) < 22
      BY <2>1, <2>4, <3>1 DEF CommSize
    <3> QED BY <3>1, <3>2, ShortLineHasNoStat, Zenon
  <2> QED BY <2>2, <2>3, <2>4, Zenon DEF StatSurvivesNames
<1> QED BY <1>1, WrittenInvariant, PTL
--------------------------------------------------------------------------------
(* Trimming keeps what is between the first and the last visible character.    *)
LEMMA Trimmed ==
  ASSUME NEW s \in Seq(Int), NEW kept, kept = {i \in DOMAIN s : s[i] \notin Blank}, kept # {}
  PROVE  \E lo, hi \in kept :
           /\ \A i \in kept : lo <= i /\ i <= hi
           /\ Trim(s) = SubSeq(s, lo, hi)
<1>1. kept \in SUBSET Nat /\ kept \in SUBSET (0 .. Len(s)) /\ Len(s) \in Nat
  OBVIOUS
<1>2. Min(kept) \in kept /\ \A i \in kept : Min(kept) <= i
  BY <1>1, MinimumExists
<1>3. Max(kept) \in kept /\ \A i \in kept : Max(kept) >= i
  BY <1>1, MaximumExists
<1>4. \A i \in kept : i <= Max(kept)
  BY <1>1, <1>3
<1>5. Trim(s) = SubSeq(s, Min(kept), Max(kept))
  BY Zenon DEF Trim
<1> QED BY <1>2, <1>3, <1>4, <1>5, Zenon

(* A part of a text.                                                           *)
LEMMA Part ==
  ASSUME NEW s \in Seq(Int), NEW lo \in 1 .. Len(s), NEW hi \in lo .. Len(s)
  PROVE  /\ SubSeq(s, lo, hi) \in Seq(Int) /\ Len(SubSeq(s, lo, hi)) = hi - lo + 1
         /\ DOMAIN SubSeq(s, lo, hi) = 1 .. hi - lo + 1
         /\ \A j \in 1 .. hi - lo + 1 : SubSeq(s, lo, hi)[j] = s[j + (lo - 1)]
OBVIOUS

(* Control characters become spaces.                                           *)
Cleaned(t) == [i \in DOMAIN t |-> IF t[i] \in Control THEN Space ELSE t[i]]

LEMMA CleanedIs ==
  ASSUME NEW t \in Seq(Int)
  PROVE  /\ Cleaned(t) \in Seq(Int) /\ Len(Cleaned(t)) = Len(t)
         /\ {i \in DOMAIN Cleaned(t) : Cleaned(t)[i] \notin Blank}
              = {i \in DOMAIN t : t[i] \notin Control \cup {Space}}
         /\ \A i \in DOMAIN t : t[i] \notin Control \cup {Space} => Cleaned(t)[i] = t[i]
         /\ \A i \in DOMAIN t : ~(t[i] \notin Control \cup {Space}) => Cleaned(t)[i] = Space
<1>1. \A c \in Int : (IF c \in Control THEN Space ELSE c) \in Int
  BY DEF Control, Space, Delete
<1>2. \A c \in Int : (IF c \in Control THEN Space ELSE c) \notin Blank
                       <=> c \notin Control \cup {Space}
  BY DEF Control, Space, Delete, Blank, Tab, Newline
<1>3. \A i \in DOMAIN t : t[i] \in Int
  OBVIOUS
<1>4. Cleaned(t) \in [1 .. Len(t) -> Int] /\ Len(t) \in Nat
  BY <1>1, <1>3 DEF Cleaned
<1>5. Cleaned(t) \in Seq(Int) /\ Len(Cleaned(t)) = Len(t)
  BY <1>4, IsText, Zenon
<1>6. DOMAIN Cleaned(t) = DOMAIN t
  BY Zenon DEF Cleaned
<1>7. \A i \in DOMAIN t : Cleaned(t)[i] = IF t[i] \in Control THEN Space ELSE t[i]
  BY Zenon DEF Cleaned
<1>8. \A i \in DOMAIN t : Cleaned(t)[i] \notin Blank <=> t[i] \notin Control \cup {Space}
  BY <1>2, <1>3, <1>7, Zenon
<1>9. {i \in DOMAIN Cleaned(t) : Cleaned(t)[i] \notin Blank}
        = {i \in DOMAIN t : t[i] \notin Control \cup {Space}}
  BY <1>6, <1>8, Zenon
<1>10. \A i \in DOMAIN t : t[i] \notin Control \cup {Space} => Cleaned(t)[i] = t[i]
  BY <1>7, Zenon
<1>11. \A i \in DOMAIN t : ~(t[i] \notin Control \cup {Space}) => Cleaned(t)[i] = Space
  BY <1>7, Zenon
<1> QED BY <1>5, <1>9, <1>10, <1>11, Zenon

(* What is left of a command line: from its first to its last visible          *)
(* character.                                                                  *)
LEMMA CommandIs ==
  ASSUME NEW t \in Seq(Int), NEW fallback
  PROVE  LET command == ReadProcessCommand(t, fallback)
             seen    == {i \in DOMAIN t : t[i] \notin Control \cup {Space}}
         IN  IF seen = {} THEN command = fallback
             ELSE \E before \in 0 .. Len(t) :
                    /\ \A i \in seen : i - before \in DOMAIN command
                    /\ \A j \in DOMAIN command :
                         command[j] = IF j + before \in seen THEN t[j + before] ELSE Space
                    /\ 1 + before \in seen /\ Len(command) + before \in seen
<1> DEFINE seen == {i \in DOMAIN t : t[i] \notin Control \cup {Space}}
           line == Trim(Cleaned(t))
           command == ReadProcessCommand(t, fallback)
<1>1. command = IF line = <<>> THEN fallback ELSE line
  BY Zenon DEF ReadProcessCommand, Cleaned
<1>2. seen = {i \in DOMAIN Cleaned(t) : Cleaned(t)[i] \notin Blank}
  BY CleanedIs, Zenon
<1>3. CASE seen = {}
  <2>1. line = <<>>
    BY <1>2, <1>3, Zenon DEF Trim
  <2> QED BY <1>1, <1>3, <2>1, Zenon
<1>4. CASE seen # {}
  <2>1. Cleaned(t) \in Seq(Int) /\ Len(Cleaned(t)) = Len(t)
    BY CleanedIs, Zenon
  <2>2. seen \in SUBSET (1 .. Len(t)) /\ Len(t) \in Nat
    OBVIOUS
  <2>3. \A i \in DOMAIN t : i \in seen => Cleaned(t)[i] = t[i]
    BY CleanedIs, Zenon
  <2>4. \A i \in DOMAIN t : i \notin seen => Cleaned(t)[i] = Space
    BY CleanedIs, Zenon
  <2> HIDE DEF seen
  <2>5. PICK lo, hi \in seen :
          /\ \A i \in seen : lo <= i /\ i <= hi
          /\ line = SubSeq(Cleaned(t), lo, hi)
    BY <1>2, <1>4, <2>1, Trimmed, Zenon
  <2>6. lo \in 1 .. Len(t) /\ hi \in lo .. Len(t)
    BY <2>2, <2>5
  <2> HIDE DEF line, command
  <2>7. PICK before \in 0 .. Len(t) : lo = before + 1
    <3>1. lo - 1 \in 0 .. Len(t) /\ lo = (lo - 1) + 1
      BY <2>2, <2>6
    <3> QED BY <3>1
  <2>8. /\ Len(line) = hi - before /\ DOMAIN line = 1 .. hi - before
        /\ \A j \in 1 .. hi - before : line[j] = Cleaned(t)[j + before]
    <3>1. /\ Len(line) = hi - lo + 1 /\ DOMAIN line = 1 .. hi - lo + 1
          /\ \A j \in 1 .. hi - lo + 1 : line[j] = Cleaned(t)[j + (lo - 1)]
      <4>1. lo \in 1 .. Len(Cleaned(t)) /\ hi \in lo .. Len(Cleaned(t))
        BY <2>1, <2>6, Zenon
      <4> QED BY <2>1, <2>5, <4>1, Part, Zenon
    <3>2. hi - lo + 1 = hi - before /\ lo - 1 = before
      BY <2>6, <2>7
    <3> QED BY <3>1, <3>2, Zenon
  <2>9. /\ 1 + before = lo /\ (hi - before) + before = hi /\ hi - before >= 1
        /\ \A i \in seen : i - before \in 1 .. hi - before
        /\ \A j \in 1 .. hi - before : j + before \in DOMAIN t
    <3>1. \A i \in seen : i \in Nat /\ lo <= i /\ i <= hi
      BY <2>2, <2>5
    <3> QED BY <2>6, <2>7, <3>1
  <2>10. \A j \in 1 .. hi - before :
          line[j] = IF j + before \in seen THEN t[j + before] ELSE Space
    BY <2>8, <2>9, <2>3, <2>4, Zenon
  <2>11. command = line
    <3>1. Len(line) # 0
      BY <2>6, <2>7, <2>8, <2>9
    <3>2. line # <<>>
      BY <3>1
    <3> QED BY <1>1, <3>2, Zenon
  <2>12. /\ \A i \in seen : i - before \in DOMAIN command
         /\ \A j \in DOMAIN command :
              command[j] = IF j + before \in seen THEN t[j + before] ELSE Space
         /\ 1 + before \in seen /\ Len(command) + before \in seen
    BY <2>5, <2>8, <2>9, <2>10, <2>11, Zenon
  <2> QED BY <1>4, <2>12, Zenon DEF seen, command
<1> QED BY <1>3, <1>4, Zenon

(* What a process calls itself by is shown on one line, whatever it wrote over  *)
(* its arguments: nothing visible is lost or moved, no control character is    *)
(* left.                                                                       *)
THEOREM CommandsAreOneLine == Spec => []CommandIsOneLine
<1>1. WrittenText => CommandIsOneLine
  <2> SUFFICES ASSUME WrittenText, kind = "cmdline" PROVE CommandIsOneLine
    BY DEF CommandIsOneLine
  <2>1. text \in Seq(Int)
    <3>1. Letters["cmdline"] \subseteq Int
      BY DEF Letters, A, Nul, Newline, Space, Delete
    <3>2. text \in Seq(Letters["cmdline"])
      BY DEF WrittenText, Letters
    <3> QED BY <3>1, <3>2
  <2> QED BY <2>1, CommandIs, Zenon DEF CommandIsOneLine
<1> QED BY <1>1, WrittenInvariant, PTL
--------------------------------------------------------------------------------
(* f[k] is what the first k parts give, one after the other.                   *)
IsConcatenation(f, parts, n) ==
  /\ f \in [1 .. n -> Seq(Int)]
  /\ \A i \in 1 .. n : f[i] = IF i = 1 THEN parts[i] ELSE f[i - 1] \o parts[i]

(* Induction up to n, from the least number that would not be in S.           *)
LEMMA SmallestCounterexample ==
  ASSUME NEW n \in Nat, NEW S, 1 \in S,
         \A m \in 1 .. n : m < n /\ m \in S => m + 1 \in S
  PROVE  \A m \in 1 .. n : m \in S
<1> SUFFICES ASSUME NEW m \in 1 .. n, m \notin S PROVE FALSE
  OBVIOUS
<1> DEFINE T == {k \in 1 .. n : k \notin S}
<1>1. T \in SUBSET Nat /\ T # {}
  OBVIOUS
<1>2. PICK k \in T : \A j \in T : k <= j
  BY <1>1, MinimumExists
<1>3. k \in 1 .. n /\ k # 1 /\ k \notin S
  BY <1>2
<1>4. k - 1 \in 1 .. n /\ k - 1 < n /\ (k - 1) + 1 = k /\ ~ (k <= k - 1)
  BY <1>3
<1>5. k - 1 \in S
  BY <1>2, <1>4
<1> QED BY <1>3, <1>4, <1>5

(* The parts of a text can be put together.                                   *)
LEMMA Concatenated ==
  ASSUME NEW n \in Nat, NEW parts \in [1 .. n -> Seq(Int)]
  PROVE  \A m \in 1 .. n : \E f : IsConcatenation(f, parts, m)
<1> DEFINE S == {m \in 1 .. n : \E f : IsConcatenation(f, parts, m)}
<1>1. ASSUME n # 0 PROVE 1 \in S
  <2>1. IsConcatenation([i \in 1 .. 1 |-> parts[1]], parts, 1)
    BY <1>1 DEF IsConcatenation
  <2> QED BY <1>1, <2>1
<1>2. ASSUME NEW m \in 1 .. n, m < n, m \in S PROVE m + 1 \in S
  <2>1. PICK f : IsConcatenation(f, parts, m)
    BY <1>2
  <2> DEFINE g == [i \in 1 .. m + 1 |-> IF i = m + 1 THEN f[m] \o parts[m + 1] ELSE f[i]]
  <2>2. f \in [1 .. m -> Seq(Int)] /\ f[m] \in Seq(Int) /\ parts[m + 1] \in Seq(Int)
    BY <1>2, <2>1 DEF IsConcatenation
  <2>3. f[m] \o parts[m + 1] \in Seq(Int)
    BY <2>2
  <2>4. g \in [1 .. m + 1 -> Seq(Int)]
    BY <2>2, <2>3
  <2>5. ASSUME NEW i \in 1 .. m + 1
        PROVE  g[i] = IF i = 1 THEN parts[i] ELSE g[i - 1] \o parts[i]
    <3>1. CASE i = m + 1
      <4>1. i # 1 /\ i - 1 = m /\ m \in 1 .. m + 1 /\ m # m + 1 /\ m + 1 \in 1 .. m + 1
        BY <3>1
      <4>2. g[i] = f[m] \o parts[m + 1] /\ g[m] = f[m]
        BY <3>1, <4>1, Zenon
      <4> HIDE DEF g
      <4> QED BY <3>1, <4>1, <4>2, Zenon
    <3>2. CASE i # m + 1
      <4>1. i \in 1 .. m /\ (i # 1 => i - 1 \in 1 .. m + 1 /\ i - 1 # m + 1)
        BY <3>2
      <4>2. g[i] = f[i] /\ (i # 1 => g[i - 1] = f[i - 1])
        BY <3>2, <4>1, Zenon
      <4>3. f[i] = IF i = 1 THEN parts[i] ELSE f[i - 1] \o parts[i]
        BY <2>1, <4>1, Zenon DEF IsConcatenation
      <4> HIDE DEF g
      <4> QED BY <4>2, <4>3, Zenon
    <3> QED BY <3>1, <3>2
  <2>6. IsConcatenation(g, parts, m + 1)
    BY <2>4, <2>5, Zenon DEF IsConcatenation
  <2>7. m + 1 \in 1 .. n
    BY <1>2
  <2> QED BY <2>6, <2>7
<1>3. n \in Nat
  OBVIOUS
<1> QED
  <2> SUFFICES ASSUME NEW m \in 1 .. n PROVE m \in S
    OBVIOUS
  <2>1. n # 0
    OBVIOUS
  <2> HIDE DEF S
  <2>2. 1 \in S /\ \A k \in 1 .. n : k < n /\ k \in S => k + 1 \in S
    BY <1>1, <1>2, <2>1
  <2> QED BY <2>2, SmallestCounterexample

(* FlattenSeq puts them together so.                                          *)
LEMMA FlattenIs ==
  ASSUME NEW n \in Nat \ {0}, NEW parts \in [1 .. n -> Seq(Int)]
  PROVE  \E f : IsConcatenation(f, parts, n) /\ FlattenSeq(parts) = f[n]
<1> DEFINE Is(f) == f = [i \in 1 .. Len(parts) |->
                           IF i = 1 THEN parts[i] ELSE f[i - 1] \o parts[i]]
<1>1. Len(parts) = n /\ n # 0 /\ n \in 1 .. n
  OBVIOUS
<1>2. PICK f : IsConcatenation(f, parts, n)
  BY <1>1, Concatenated
<1>3. Is(f)
  BY <1>1, <1>2, Zenon DEF IsConcatenation
<1>4. Is(CHOOSE g : Is(g))
  BY <1>3, Zenon
<1>5. PICK g : g = CHOOSE h : Is(h)
  OBVIOUS
<1>6. FlattenSeq(parts) = g[n]
  BY <1>1, <1>5, Zenon DEF FlattenSeq
<1>7. g = [i \in 1 .. n |-> IF i = 1 THEN parts[i] ELSE g[i - 1] \o parts[i]]
  BY <1>1, <1>4, <1>5, Zenon
<1> HIDE DEF Is
<1> DEFINE S == {m \in 1 .. n : g[m] = f[m]}
<1>8. \A i \in 1 .. n : /\ g[i] = IF i = 1 THEN parts[i] ELSE g[i - 1] \o parts[i]
                        /\ f[i] = IF i = 1 THEN parts[i] ELSE f[i - 1] \o parts[i]
  BY <1>2, <1>7, Zenon DEF IsConcatenation
<1>9. 1 \in S
  <2>1. 1 \in 1 .. n
    OBVIOUS
  <2> QED BY <1>8, <2>1, Zenon
<1>10. \A m \in 1 .. n : m < n /\ m \in S => m + 1 \in S
  <2> SUFFICES ASSUME NEW m \in 1 .. n, m < n, m \in S PROVE m + 1 \in S
    OBVIOUS
  <2>1. m + 1 \in 1 .. n /\ m + 1 # 1 /\ (m + 1) - 1 = m
    OBVIOUS
  <2>2. g[m + 1] = g[m] \o parts[m + 1] /\ f[m + 1] = f[m] \o parts[m + 1]
    BY <1>8, <2>1, Zenon
  <2> QED BY <2>1, <2>2, Zenon
<1>11. n \in S
  <2> HIDE DEF S
  <2>1. n \in Nat
    OBVIOUS
  <2> QED BY <1>1, <1>9, <1>10, <2>1, SmallestCounterexample
<1> QED BY <1>2, <1>6, <1>11, Zenon
--------------------------------------------------------------------------------
(* The positions V of a text of length len come in n runs, the k-th from a[k]   *)
(* up to, and without, b[k].                                                   *)
IsRuns(V, len, n, a, b) ==
  /\ n \in Nat /\ len \in Nat /\ V \subseteq 1 .. len
  /\ a \in [1 .. n -> Nat] /\ b \in [1 .. n -> Nat]
  /\ \A k \in 1 .. n : 1 <= a[k] /\ a[k] < b[k] /\ b[k] <= len + 1
  /\ \A k, m \in 1 .. n : k < m => b[k] < a[m]
  /\ \A i \in 1 .. len : i \in V <=> \E k \in 1 .. n : a[k] <= i /\ i < b[k]

(* A run begins where a visible position follows none.                        *)
LEMMA RunsBegin ==
  ASSUME NEW n, NEW len, NEW V, NEW a, NEW b,
         IsRuns(V, len, n, a, b)
  PROVE  \A i : i \in V /\ (i = 1 \/ i - 1 \notin V) <=> \E k \in 1 .. n : i = a[k]
<1>1. /\ n \in Nat /\ len \in Nat /\ V \subseteq 1 .. len
      /\ a \in [1 .. n -> Nat] /\ b \in [1 .. n -> Nat]
      /\ \A k \in 1 .. n : 1 <= a[k] /\ a[k] < b[k] /\ b[k] <= len + 1
      /\ \A k, m \in 1 .. n : k < m => b[k] < a[m]
      /\ \A i \in 1 .. len : i \in V <=> \E k \in 1 .. n : a[k] <= i /\ i < b[k]
  BY Zenon DEF IsRuns
<1>2. ASSUME NEW k \in 1 .. n PROVE a[k] \in V /\ (a[k] = 1 \/ a[k] - 1 \notin V)
  <2>1. a[k] \in Nat /\ b[k] \in Nat /\ 1 <= a[k] /\ a[k] < b[k] /\ b[k] <= len + 1
    BY <1>1
  <2>2. a[k] \in 1 .. len
    BY <1>1, <2>1
  <2>3. a[k] \in V
    BY <1>1, <2>1, <2>2
  <2>4. ASSUME a[k] - 1 \in V PROVE FALSE
    <3>1. PICK m \in 1 .. n : a[m] <= a[k] - 1 /\ a[k] - 1 < b[m]
      BY <1>1, <2>4
    <3>2. a[m] \in Nat /\ b[m] \in Nat
      BY <1>1
    <3>3. (k < m => b[k] < a[m]) /\ (m < k => b[m] < a[k])
      BY <1>1
    <3>4. m = k \/ k < m \/ m < k
      OBVIOUS
    <3> QED BY ONLY <2>1, <3>1, <3>2, <3>3, <3>4
  <2> QED BY <2>3, <2>4
<1>3. ASSUME NEW i \in V, i = 1 \/ i - 1 \notin V PROVE \E k \in 1 .. n : i = a[k]
  <2>1. PICK k \in 1 .. n : a[k] <= i /\ i < b[k]
    BY <1>1
  <2>2. a[k] \in Nat /\ b[k] \in Nat /\ 1 <= a[k] /\ i \in 1 .. len /\ len \in Nat
    BY <1>1
  <2>3. ASSUME a[k] # i PROVE FALSE
    <3>1. i # 1 /\ i - 1 \in 1 .. len /\ a[k] <= i - 1 /\ i - 1 < b[k]
      BY ONLY <2>1, <2>2, <2>3
    <3>2. i - 1 \in V
      BY <1>1, <3>1
    <3> QED BY <1>3, <3>1, <3>2
  <2> QED BY <2>3
<1> QED BY <1>2, <1>3

(* A run ends before the first position that is not visible.                  *)
LEMMA RunsEnd ==
  ASSUME NEW n, NEW len, NEW V, NEW a, NEW b,
         IsRuns(V, len, n, a, b), NEW k \in 1 .. n
  PROVE  Min({j \in a[k] .. len + 1 : j > len \/ j \notin V}) = b[k]
<1> DEFINE ends == {j \in a[k] .. len + 1 : j > len \/ j \notin V}
<1>1. /\ n \in Nat /\ len \in Nat /\ V \subseteq 1 .. len
      /\ a \in [1 .. n -> Nat] /\ b \in [1 .. n -> Nat]
      /\ \A m \in 1 .. n : 1 <= a[m] /\ a[m] < b[m] /\ b[m] <= len + 1
      /\ \A l, m \in 1 .. n : l < m => b[l] < a[m]
      /\ \A i \in 1 .. len : i \in V <=> \E m \in 1 .. n : a[m] <= i /\ i < b[m]
  BY Zenon DEF IsRuns
<1>2. a[k] \in Nat /\ b[k] \in Nat /\ 1 <= a[k] /\ a[k] < b[k] /\ b[k] <= len + 1
  BY <1>1
<1>3. b[k] \in ends
  <2>1. ASSUME b[k] \in V PROVE FALSE
    <3>1. PICK m \in 1 .. n : a[m] <= b[k] /\ b[k] < b[m]
      BY <1>1, <2>1
    <3>2. a[m] \in Nat /\ b[m] \in Nat
      BY <1>1
    <3>3. (k < m => b[k] < a[m]) /\ (m < k => b[m] < a[k])
      BY <1>1
    <3>4. m = k \/ k < m \/ m < k
      OBVIOUS
    <3> QED BY ONLY <1>2, <3>1, <3>2, <3>3, <3>4
  <2> QED BY <1>2, <2>1
<1>4. ASSUME NEW j \in ends PROVE b[k] <= j
  <2>1. j \in Nat /\ a[k] <= j
    BY <1>2
  <2>2. ASSUME j < b[k] PROVE FALSE
    <3>1. j \in 1 .. len /\ j \notin V
      BY <1>1, <1>2, <2>1, <2>2
    <3> QED BY <1>1, <2>1, <2>2, <3>1
  <2> QED BY <1>2, <2>1, <2>2
<1>5. ends \in SUBSET Nat /\ ends # {}
  BY <1>2, <1>3
<1> HIDE DEF ends
<1>6. Min(ends) \in ends /\ \A y \in ends : Min(ends) <= y
  BY <1>5, MinimumExists
<1>7. Min(ends) = b[k]
  <2>1. b[k] <= Min(ends) /\ Min(ends) <= b[k] /\ Min(ends) \in Nat
    BY <1>3, <1>4, <1>5, <1>6
  <2> QED BY <1>2, <2>1
<1> QED BY <1>7 DEF ends

(* The visible positions of a text.                                            *)
Visible(s) == {i \in 1 .. Len(s) : s[i] \notin Blank}

(* The words of a text, with their places.                                     *)
WordsAt(s, ws, a, b) ==
  /\ s \in Seq(Int) /\ ws \in Seq(Seq(Int))
  /\ IsRuns(Visible(s), Len(s), Len(ws), a, b)
  /\ \A k \in 1 .. Len(ws) : Len(ws[k]) = b[k] - a[k]
  /\ \A k \in 1 .. Len(ws) : \A j \in 1 .. b[k] - a[k] : s[a[k] + j - 1] = ws[k][j]

HasWords(s, ws) == \E a, b : WordsAt(s, ws, a, b)

(* A part of a text, given character by character.                            *)
LEMMA PartIs ==
  ASSUME NEW s \in Seq(Int), NEW w \in Seq(Int), NEW a \in Nat, NEW b \in Nat,
         1 <= a, a <= b, b <= Len(s) + 1, Len(w) = b - a,
         \A j \in 1 .. b - a : s[a + j - 1] = w[j]
  PROVE  SubSeq(s, a, b - 1) = w
<1>1. PICK t : t = SubSeq(s, a, b - 1)
  OBVIOUS
<1>2. SubSeq(s, a, b - 1) \in Seq(Int) /\ Len(SubSeq(s, a, b - 1)) = b - a
      /\ \A j \in 1 .. b - a : SubSeq(s, a, b - 1)[j] = s[a + j - 1]
  OBVIOUS
<1>3. t \in Seq(Int) /\ Len(t) = Len(w) /\ \A j \in 1 .. Len(t) : t[j] = w[j]
  BY <1>1, <1>2, Zenon
<1>4. t = w
  BY <1>3, SeqEqual, Zenon
<1> QED BY <1>1, <1>4, Zenon

(* operator>> returns the words that a text has.                              *)
LEMMA WordsFound ==
  ASSUME NEW s, NEW ws, HasWords(s, ws)
  PROVE  Words(s) = ws
<1>1. PICK a, b : WordsAt(s, ws, a, b)
  BY DEF HasWords
<1>2. s \in Seq(Int) /\ ws \in Seq(Seq(Int))
  BY <1>1, Zenon DEF WordsAt
<1>0. Len(ws) \in Nat /\ Len(s) \in Nat
  BY ONLY <1>2
<1>3. PICK n \in Nat : n = Len(ws)
  BY <1>0, Zenon
<1>4. PICK len \in Nat : len = Len(s)
  BY <1>0, Zenon
<1>5. IsRuns(Visible(s), len, n, a, b)
  BY <1>1, <1>3, <1>4, Zenon DEF WordsAt
<1>6. /\ a \in [1 .. n -> Nat] /\ b \in [1 .. n -> Nat]
      /\ \A k \in 1 .. n : 1 <= a[k] /\ a[k] < b[k] /\ b[k] <= len + 1
      /\ \A k, m \in 1 .. n : k < m => b[k] < a[m]
  BY <1>5, Zenon DEF IsRuns
<1>7. \A k, m \in 1 .. n : k < m => a[k] < a[m]
  <2> SUFFICES ASSUME NEW k \in 1 .. n, NEW m \in 1 .. n, k < m PROVE a[k] < a[m]
    OBVIOUS
  <2>1. a[k] < b[k] /\ b[k] < a[m] /\ a[k] \in Nat /\ b[k] \in Nat /\ a[m] \in Nat
    BY <1>6
  <2> QED BY ONLY <2>1
<1> DEFINE starts == {i \in DOMAIN s : s[i] \notin Blank /\ (i = 1 \/ s[i - 1] \in Blank)}
<1>8. starts = {i \in Visible(s) : i = 1 \/ i - 1 \notin Visible(s)}
  <2>1. DOMAIN s = 1 .. Len(s) /\ Len(s) \in Nat
    BY <1>2
  <2>2. \A i \in 1 .. Len(s) : i # 1 => i - 1 \in 1 .. Len(s)
    BY <2>1
  <2> QED BY <2>1, <2>2, Zenon DEF Visible
<1> HIDE DEF starts
<1>9. starts = {a[k] : k \in 1 .. n}
  <2>1. PICK V : V = Visible(s)
    OBVIOUS
  <2>2. IsRuns(V, len, n, a, b)
    BY <1>5, <2>1, Zenon
  <2>3. \A i : i \in V /\ (i = 1 \/ i - 1 \notin V) <=> \E k \in 1 .. n : i = a[k]
    BY <2>2, RunsBegin
  <2>4. starts = {i \in V : i = 1 \/ i - 1 \notin V}
    BY <1>8, <2>1, Zenon
  <2> QED BY <2>3, <2>4, Zenon
<1>10. Cardinality(starts) = n /\ \A k \in 1 .. n : Nth(starts, k) = a[k]
  <2>1. \A S : S = {a[k] : k \in 1 .. n} =>
          Cardinality(S) = n /\ \A k \in 1 .. n : Nth(S, k) = a[k]
    BY ONLY <1>6, <1>7, n \in Nat, Enumerated, Zenon
  <2> QED BY <1>9, <2>1, Zenon
<1>11. ASSUME NEW k \in 1 .. n PROVE PieceAt(s, Blank, a[k]) = ws[k]
  <2>1. Min({j \in a[k] .. len + 1 : j > len \/ j \notin Visible(s)}) = b[k]
    BY <1>5, RunsEnd
  <2>2. {j \in a[k] .. len + 1 : j > len \/ j \notin Visible(s)}
          = {j \in a[k] .. Len(s) + 1 : j > Len(s) \/ s[j] \in Blank}
    <3>1. \A j \in a[k] .. len + 1 : j > len \/ j \in 1 .. len
      <4>1. a[k] \in Nat /\ 1 <= a[k]
        BY <1>6
      <4> QED BY <4>1
    <3> QED BY <1>4, <3>1, Zenon DEF Visible
  <2>3. PieceAt(s, Blank, a[k]) = SubSeq(s, a[k], b[k] - 1)
    BY <2>1, <2>2, Zenon DEF PieceAt, Between
  <2>4. /\ a[k] \in Nat /\ b[k] \in Nat /\ 1 <= a[k] /\ a[k] <= b[k] /\ b[k] <= Len(s) + 1
    <3>1. a[k] \in Nat /\ b[k] \in Nat /\ 1 <= a[k] /\ a[k] < b[k] /\ b[k] <= len + 1
      BY <1>6
    <3>2. a[k] <= b[k]
      BY ONLY <3>1
    <3> QED BY <1>4, <3>1, <3>2, Zenon
  <2>5. ws[k] \in Seq(Int) /\ Len(ws[k]) = b[k] - a[k]
        /\ \A j \in 1 .. b[k] - a[k] : s[a[k] + j - 1] = ws[k][j]
    <3>1. k \in 1 .. Len(ws)
      BY <1>3
    <3>2. ws[k] \in Seq(Int)
      BY <1>2, <3>1
    <3> QED BY <1>1, <3>1, <3>2, Zenon DEF WordsAt
  <2>6. SubSeq(s, a[k], b[k] - 1) = ws[k]
    BY <1>2, <2>4, <2>5, PartIs
  <2> QED BY <2>3, <2>6, Zenon
<1>12. Words(s) = [k \in 1 .. n |-> PieceAt(s, Blank, Nth(starts, k))]
  BY <1>10, Zenon DEF Words, PiecesAt, starts
<1>13. ws = [k \in 1 .. n |-> ws[k]]
  BY <1>2, <1>3
<1>14. \A k \in 1 .. n : PieceAt(s, Blank, Nth(starts, k)) = ws[k]
  BY <1>10, <1>11, Zenon
<1>15. [k \in 1 .. n |-> PieceAt(s, Blank, Nth(starts, k))] = [k \in 1 .. n |-> ws[k]]
  BY <1>14, Zenon
<1> QED BY <1>12, <1>13, <1>15, Zenon
--------------------------------------------------------------------------------
(* The first n of the texts ls stand one after the other in s, each ended by a  *)
(* newline, the k-th at e[k].                                                  *)
LinesAt(s, ls, n, e) ==
  /\ n \in Nat /\ s \in Seq(Int) /\ e \in [0 .. n -> Nat] /\ e[0] = 0 /\ e[n] = Len(s)
  /\ \A k \in 1 .. n : /\ ls[k] \in Seq(Int) /\ e[k] = e[k - 1] + Len(ls[k]) + 1
                       /\ s[e[k]] = Newline
  /\ \A k \in 1 .. n : \A j \in 1 .. Len(ls[k]) :
       s[e[k - 1] + j] = ls[k][j] /\ ls[k][j] # Newline
  /\ \A k, m \in 0 .. n : k < m => e[k] < e[m]
  /\ \A i \in 1 .. Len(s) : s[i] = Newline => \E k \in 1 .. n : i = e[k]

(* The places where a line begins, with the end of the text.                   *)
Begins(s) == {1} \cup {i + 1 : i \in {j \in DOMAIN s : s[j] \in {Newline}}}

BeginAt(s, n, e, a) ==
  /\ a \in [1 .. n + 1 -> Nat]
  /\ \A k \in 1 .. n + 1 : a[k] = e[k - 1] + 1
  /\ \A k, m \in 1 .. n + 1 : k < m => a[k] < a[m]
  /\ Begins(s) = {a[k] : k \in 1 .. n + 1}

(* The lines of a file begin behind its newlines.                             *)
LEMMA LineStarts ==
  ASSUME NEW s, NEW ls, NEW n, NEW e, LinesAt(s, ls, n, e)
  PROVE  \E a : BeginAt(s, n, e, a)
<1>1. /\ n \in Nat /\ s \in Seq(Int) /\ e \in [0 .. n -> Nat] /\ e[0] = 0 /\ e[n] = Len(s)
      /\ \A k, m \in 0 .. n : k < m => e[k] < e[m]
      /\ \A k \in 1 .. n : s[e[k]] = Newline
      /\ \A i \in 1 .. Len(s) : s[i] = Newline => \E k \in 1 .. n : i = e[k]
  BY Zenon DEF LinesAt
<1>2. n \in Nat /\ Len(s) \in Nat /\ DOMAIN s = 1 .. Len(s) /\ \A k \in 0 .. n : e[k] \in Nat
  BY <1>1
<1>3. PICK a : a = [k \in 1 .. n + 1 |-> e[k - 1] + 1]
  OBVIOUS
<1>4. \A k \in 1 .. n + 1 : k - 1 \in 0 .. n
  BY <1>2
<1>5. a \in [1 .. n + 1 -> Nat] /\ \A k \in 1 .. n + 1 : a[k] = e[k - 1] + 1
  BY <1>2, <1>3, <1>4
<1>6. \A k, m \in 1 .. n + 1 : k < m => a[k] < a[m]
  <2> SUFFICES ASSUME NEW k \in 1 .. n + 1, NEW m \in 1 .. n + 1, k < m PROVE a[k] < a[m]
    OBVIOUS
  <2>1. k - 1 \in 0 .. n /\ m - 1 \in 0 .. n /\ k - 1 < m - 1
    BY <1>2
  <2>2. e[k - 1] < e[m - 1] /\ e[k - 1] \in Nat /\ e[m - 1] \in Nat
    BY <1>1, <1>2, <2>1
  <2>3. a[k] = e[k - 1] + 1 /\ a[m] = e[m - 1] + 1
    BY <1>5
  <2> QED BY ONLY <2>2, <2>3
<1> DEFINE starts == {1} \cup {i + 1 : i \in {j \in DOMAIN s : s[j] \in {Newline}}}
<1>7. ASSUME NEW k \in 1 .. n + 1 PROVE a[k] \in starts
  <2>1. CASE k = 1
    <3>1. a[k] = 1
      BY <1>1, <1>5, <2>1
    <3> QED BY <3>1
  <2>2. CASE k # 1
    <3>1. k - 1 \in 1 .. n /\ 0 < k - 1 /\ k - 1 \in 0 .. n /\ n \in 0 .. n /\ 0 \in 0 .. n
      BY <1>2, <2>2
    <3>2. e[0] < e[k - 1] /\ (k - 1 = n \/ e[k - 1] < e[n])
      <4>1. k - 1 = n \/ k - 1 < n
        BY <1>2, <3>1
      <4> QED BY <1>1, <3>1, <4>1, Zenon
    <3>3. e[k - 1] \in 1 .. Len(s)
      BY <1>1, <1>2, <3>1, <3>2
    <3>4. s[e[k - 1]] = Newline
      BY <1>1, <3>1, Zenon
    <3>5. a[k] = e[k - 1] + 1
      BY <1>5
    <3> QED BY <1>2, <3>3, <3>4, <3>5
  <2> QED BY <2>1, <2>2
<1>8. ASSUME NEW i \in starts PROVE \E k \in 1 .. n + 1 : i = a[k]
  <2>1. CASE i = 1
    <3>1. 1 \in 1 .. n + 1 /\ a[1] = 1
      BY <1>1, <1>2, <1>5
    <3> QED BY <2>1, <3>1
  <2>2. CASE i # 1
    <3>1. PICK j \in DOMAIN s : s[j] = Newline /\ i = j + 1
      BY <1>8, <2>2
    <3>2. PICK k \in 1 .. n : j = e[k]
      BY <1>1, <1>2, <3>1
    <3>3. k + 1 \in 1 .. n + 1 /\ (k + 1) - 1 = k
      BY <1>2
    <3>4. a[k + 1] = e[k] + 1
      BY <1>5, <3>3
    <3> QED BY <3>1, <3>2, <3>3, <3>4
  <2> QED BY <2>1, <2>2
<1>9. starts = {a[k] : k \in 1 .. n + 1}
  <2> HIDE DEF starts
  <2> QED BY <1>7, <1>8
<1> QED BY <1>5, <1>6, <1>9, Zenon DEF BeginAt, Begins

(* What lies between two of them is a line.                                   *)
LEMMA LinePiece ==
  ASSUME NEW s, NEW ls, NEW n, NEW e, LinesAt(s, ls, n, e), NEW k \in 1 .. n
  PROVE  PieceAt(s, {Newline}, e[k - 1] + 1) = ls[k]
<1>1. /\ n \in Nat /\ s \in Seq(Int) /\ e \in [0 .. n -> Nat] /\ e[n] = Len(s)
      /\ ls[k] \in Seq(Int) /\ e[k] = e[k - 1] + Len(ls[k]) + 1 /\ s[e[k]] = Newline
      /\ \A j \in 1 .. Len(ls[k]) : s[e[k - 1] + j] = ls[k][j] /\ ls[k][j] # Newline
      /\ \A i, m \in 0 .. n : i < m => e[i] < e[m]
  BY Zenon DEF LinesAt
<1>2. k - 1 \in 0 .. n /\ k \in 0 .. n /\ n \in 0 .. n
  BY <1>1
<1>3. e[k - 1] \in Nat /\ e[k] \in Nat /\ Len(ls[k]) \in Nat /\ Len(s) \in Nat
  BY <1>1, <1>2
<1>4. PICK from \in Nat, to \in Nat, len \in Nat, n1 \in Nat :
        from = e[k - 1] /\ to = e[k] /\ len = Len(ls[k]) /\ n1 = Len(s)
  BY <1>3, Zenon
<1>5. to = from + len + 1 /\ to <= n1
  <2>1. to = from + len + 1
    BY <1>1, <1>4, Zenon
  <2>2. k = n \/ k < n
    BY <1>1
  <2>3. to = n1 \/ to < n1
    BY <1>1, <1>2, <1>4, <2>2, Zenon
  <2> QED BY ONLY <2>1, <2>3, to \in Nat, n1 \in Nat
<1>6. s[to] = Newline /\ \A j \in 1 .. len : s[from + j] = ls[k][j] /\ ls[k][j] # Newline
  BY <1>1, <1>4, Zenon
<1>7. \A j \in from + 1 .. to - 1 : s[j] # Newline
  <2> SUFFICES ASSUME NEW j \in from + 1 .. to - 1 PROVE s[j] # Newline
    OBVIOUS
  <2>1. j - from \in 1 .. len /\ from + (j - from) = j
    BY ONLY <1>5, from \in Nat, to \in Nat, len \in Nat, j \in from + 1 .. to - 1
  <2>2. s[from + (j - from)] # Newline
    BY <1>6, <2>1, Zenon
  <2> QED BY <2>1, <2>2, Zenon
<1> DEFINE ends == {j \in from + 1 .. n1 + 1 : j > n1 \/ s[j] \in {Newline}}
<1>8. to \in ends /\ ends \in SUBSET Nat /\ \A j \in ends : to <= j
  <2>1. to \in ends
    BY <1>5, <1>6
  <2>2. ASSUME NEW j \in ends PROVE to <= j
    <3>1. j \in from + 1 .. n1 + 1 /\ (j > n1 \/ s[j] = Newline)
      OBVIOUS
    <3>2. j \notin from + 1 .. to - 1 \/ j > n1
      BY <1>7, <3>1, Zenon
    <3> QED BY ONLY <1>5, <3>1, <3>2, from \in Nat, to \in Nat, n1 \in Nat
  <2> QED BY <2>1, <2>2
<1>9. Min(ends) = to
  <2> HIDE DEF ends
  <2>1. Min(ends) \in ends /\ \A j \in ends : Min(ends) <= j
    BY <1>8, MinimumExists
  <2>2. Min(ends) \in Nat /\ Min(ends) <= to /\ to <= Min(ends)
    BY <1>8, <2>1
  <2> QED BY ONLY <2>2, to \in Nat
<1>10. PieceAt(s, {Newline}, e[k - 1] + 1) = SubSeq(s, from + 1, to - 1)
  BY <1>4, <1>9, Zenon DEF PieceAt, Between, ends
<1>11. SubSeq(s, from + 1, to - 1) = ls[k]
  <2>1. /\ from + 1 \in Nat /\ 1 <= from + 1 /\ from + 1 <= to /\ to <= Len(s) + 1
        /\ Len(ls[k]) = to - (from + 1)
    <3>1. /\ from + 1 \in Nat /\ 1 <= from + 1 /\ from + 1 <= to /\ to <= n1 + 1
          /\ len = to - (from + 1)
      BY ONLY <1>5, from \in Nat, to \in Nat, len \in Nat, n1 \in Nat
    <3> QED BY <1>4, <3>1, Zenon
  <2>2. \A j \in 1 .. to - (from + 1) : s[(from + 1) + j - 1] = ls[k][j]
    <3> SUFFICES ASSUME NEW j \in 1 .. to - (from + 1) PROVE s[(from + 1) + j - 1] = ls[k][j]
      OBVIOUS
    <3>1. j \in 1 .. len /\ (from + 1) + j - 1 = from + j
      BY <1>5
    <3> QED BY <1>6, <3>1, Zenon
  <2> QED BY <1>1, <2>1, <2>2, PartIs
<1> QED BY <1>10, <1>11, Zenon

(* Nothing lies behind the last of them.                                      *)
LEMMA LastPiece ==
  ASSUME NEW s \in Seq(Int), NEW separators
  PROVE  PieceAt(s, separators, Len(s) + 1) = <<>>
<1>1. PICK n \in Nat : n = Len(s)
  OBVIOUS
<1> DEFINE ends == {j \in n + 1 .. n + 1 : j > n \/ s[j] \in separators}
<1>2. n + 1 \in ends /\ ends \in SUBSET Nat /\ \A j \in ends : j = n + 1
  OBVIOUS
<1>3. Min(ends) = n + 1
  <2> HIDE DEF ends
  <2> QED BY <1>2, MinimumExists
<1>4. PieceAt(s, separators, n + 1) = SubSeq(s, n + 1, (n + 1) - 1)
  BY <1>1, <1>3, Zenon DEF PieceAt, Between, ends
<1>5. SubSeq(s, n + 1, (n + 1) - 1) = <<>>
  OBVIOUS
<1> QED BY <1>1, <1>4, <1>5, Zenon

(* They are what getline returns.                                              *)
LEMMA LinesFound ==
  ASSUME NEW s, NEW ls, NEW n, NEW e, LinesAt(s, ls, n, e)
  PROVE  /\ DOMAIN GetLines(s, Newline) = 1 .. n
         /\ \A k \in 1 .. n : GetLines(s, Newline)[k] = ls[k]
<1>0. ASSUME NEW k \in 1 .. n PROVE PieceAt(s, {Newline}, e[k - 1] + 1) = ls[k]
  BY LinePiece
<1>1. n \in Nat /\ s \in Seq(Int) /\ e[n] = Len(s)
  BY Zenon DEF LinesAt
<1>2. PICK a : BeginAt(s, n, e, a)
  BY LineStarts
<1>3. PICK m \in Nat \ {0} : m = n + 1
  BY <1>1
<1> DEFINE starts == Begins(s)
<1>4. Cardinality(starts) = m /\ \A k \in 1 .. m : Nth(starts, k) = a[k]
  <2> HIDE DEF starts
  <2>1. a \in [1 .. m -> Nat] /\ \A k, j \in 1 .. m : k < j => a[k] < a[j]
    BY <1>2, <1>3, Zenon DEF BeginAt
  <2>2. starts = {a[k] : k \in 1 .. m}
    BY <1>2, <1>3, Zenon DEF BeginAt, starts
  <2>3. m \in Nat
    OBVIOUS
  <2> QED BY <2>1, <2>2, <2>3, Enumerated
<1> DEFINE p == Pieces(s, {Newline})
           piece(k) == PieceAt(s, {Newline}, Nth(starts, k))
<1>5. p = [k \in 1 .. m |-> piece(k)]
  BY <1>4, Zenon DEF Pieces, PiecesAt, Begins
<1>6. \A k \in 1 .. m : piece(k) = PieceAt(s, {Newline}, e[k - 1] + 1)
  BY <1>2, <1>3, <1>4, Zenon DEF BeginAt
<1> HIDE DEF piece, starts
<1>7. \A k \in 1 .. n : k \in 1 .. m /\ p[k] = ls[k]
  <2>1. \A k \in 1 .. n : k \in 1 .. m
    BY <1>1, <1>3
  <2> HIDE DEF p
  <2> QED BY <1>0, <1>5, <1>6, <2>1, Zenon
<1>8. p[m] = <<>>
  <2>1. m \in 1 .. m /\ m - 1 = n
    BY <1>1, <1>3
  <2>2. p[m] = PieceAt(s, {Newline}, Len(s) + 1)
    BY <1>1, <1>5, <1>6, <2>1, Zenon
  <2>3. PieceAt(s, {Newline}, Len(s) + 1) = <<>>
    BY <1>1, LastPiece
  <2> QED BY <2>2, <2>3, Zenon
<1>9. p \in [1 .. m -> {piece(k) : k \in 1 .. m}]
  BY <1>5, Zenon
<1> HIDE DEF p
<1>13. PICK S, q : S = {piece(k) : k \in 1 .. m} /\ q = p
  OBVIOUS
<1>14. q \in [1 .. m -> S]
  BY <1>9, <1>13, Zenon
<1>15. /\ DOMAIN Front(q) = 1 .. m - 1 /\ \A k \in 1 .. m - 1 : Front(q)[k] = q[k]
       /\ Last(q) = q[m]
  BY <1>14, FrontAndLast, Zenon
<1>10. /\ DOMAIN Front(p) = 1 .. m - 1 /\ \A k \in 1 .. m - 1 : Front(p)[k] = p[k]
       /\ Last(p) = p[m]
  BY <1>13, <1>15, Zenon
<1>11. GetLines(s, Newline) = Front(p)
  BY <1>8, <1>10, Zenon DEF GetLines, p
<1>12. m - 1 = n
  BY <1>1, <1>3
<1> QED BY <1>7, <1>10, <1>11, <1>12, Zenon

(* u is s, of p characters, and behind it w, of q.                             *)
IsJoined(u, s, p, w, q) ==
  /\ u \in Seq(Int) /\ Len(u) = p + q
  /\ \A i \in 1 .. p : u[i] = s[i]
  /\ \A j \in 1 .. q : u[p + j] = w[j]

(* What two texts joined have at which position.                              *)
LEMMA JoinedAt ==
  ASSUME NEW s \in Seq(Int), NEW w \in Seq(Int), NEW p \in Nat, NEW q \in Nat,
         Len(s) = p, Len(w) = q
  PROVE  IsJoined(s \o w, s, p, w, q)
<1>1. PICK u \in Seq(Int) :
           /\ u = s \o w /\ Len(u) = Len(s) + Len(w)
           /\ \A i \in 1 .. Len(s) : u[i] = s[i]
           /\ \A i \in 1 .. Len(w) : u[Len(s) + i] = w[i]
  BY Joined
<1> QED BY <1>1, Zenon DEF IsJoined

(* A file is its lines, each ended by a newline.                               *)
FileOf(ls, n) == FlattenSeq([k \in 1 .. n |-> ls[k] \o <<Newline>>])
--------------------------------------------------------------------------------
(* The words of a text grow with it.                                           *)
LEMMA NoWord == HasWords(<<>>, <<>>)
<1>1. PICK s, ws, a, b : s = <<>> /\ ws = <<>> /\ a = [k \in 1 .. 0 |-> 0] /\ b = [k \in 1 .. 0 |-> 0]
  OBVIOUS
<1>2. s \in Seq(Int) /\ ws \in Seq(Seq(Int)) /\ Len(s) = 0 /\ Len(ws) = 0 /\ Visible(s) = {}
  BY <1>1 DEF Visible
<1>3. a \in [1 .. 0 -> Nat] /\ b \in [1 .. 0 -> Nat]
  BY <1>1
<1>4. IsRuns(Visible(s), Len(s), Len(ws), a, b)
  BY <1>2, <1>3 DEF IsRuns
<1>5. WordsAt(s, ws, a, b)
  BY <1>2, <1>4 DEF WordsAt
<1> QED BY <1>1, <1>5, Zenon DEF HasWords

(* What is visible in a text stays so, and what follows is as visible as it   *)
(* was.                                                                       *)
LEMMA VisibleBehind ==
  ASSUME NEW u, NEW s, NEW p \in Nat, NEW w, NEW q \in Nat, Len(s) = p, IsJoined(u, s, p, w, q)
  PROVE  /\ \A i \in 1 .. p : i \in Visible(u) <=> i \in Visible(s)
         /\ \A i \in p + 1 .. p + q : i \in Visible(u) <=> w[i - p] \notin Blank
         /\ Visible(u) \subseteq 1 .. p + q
<1>1. /\ u \in Seq(Int) /\ Len(u) = p + q
      /\ \A i \in 1 .. p : u[i] = s[i]
      /\ \A j \in 1 .. q : u[p + j] = w[j]
  BY Zenon DEF IsJoined
<1>2. \A i \in 1 .. p : i \in 1 .. p + q
  OBVIOUS
<1>3. \A i \in p + 1 .. p + q : i \in 1 .. p + q /\ i - p \in 1 .. q /\ p + (i - p) = i
  OBVIOUS
<1>4. \A i : i \in Visible(u) <=> i \in 1 .. p + q /\ u[i] \notin Blank
  BY <1>1, Zenon DEF Visible
<1>5. \A i : i \in Visible(s) <=> i \in 1 .. p /\ s[i] \notin Blank
  BY Zenon DEF Visible
<1>6. \A i \in 1 .. p : i \in Visible(u) <=> i \in Visible(s)
  BY <1>1, <1>2, <1>4, <1>5, Zenon
<1>7. \A i \in p + 1 .. p + q : u[i] = w[i - p]
  BY <1>1, <1>3, Zenon
<1>8. \A i \in p + 1 .. p + q : i \in Visible(u) <=> w[i - p] \notin Blank
  BY <1>3, <1>4, <1>7, Zenon
<1> QED BY <1>4, <1>6, <1>8, Zenon

(* Blanks behind a text add no word to it.                                    *)
LEMMA BlanksBehind ==
  ASSUME NEW s, NEW ws, HasWords(s, ws), NEW g \in Seq(Int), \A j \in 1 .. Len(g) : g[j] \in Blank
  PROVE  HasWords(s \o g, ws)
<1>1. PICK a, b : WordsAt(s, ws, a, b)
  BY DEF HasWords
<1>2. s \in Seq(Int) /\ ws \in Seq(Seq(Int))
  BY <1>1, Zenon DEF WordsAt
<1>3. Len(s) \in Nat /\ Len(g) \in Nat /\ Len(ws) \in Nat
  BY <1>2
<1>4. PICK p \in Nat, q \in Nat, n \in Nat : p = Len(s) /\ q = Len(g) /\ n = Len(ws)
  BY <1>3, Zenon
<1>5. PICK u : u = s \o g
  OBVIOUS
<1>6. IsJoined(u, s, p, g, q)
  BY <1>2, <1>4, <1>5, JoinedAt, Zenon
<1>7. /\ \A i \in 1 .. p : i \in Visible(u) <=> i \in Visible(s)
      /\ \A i \in p + 1 .. p + q : i \in Visible(u) <=> g[i - p] \notin Blank
      /\ Visible(u) \subseteq 1 .. p + q
  BY <1>4, <1>6, VisibleBehind
<1>8. /\ a \in [1 .. n -> Nat] /\ b \in [1 .. n -> Nat]
      /\ \A k \in 1 .. n : 1 <= a[k] /\ a[k] < b[k] /\ b[k] <= p + 1
      /\ \A k, m \in 1 .. n : k < m => b[k] < a[m]
      /\ \A i \in 1 .. p : i \in Visible(s) <=> \E k \in 1 .. n : a[k] <= i /\ i < b[k]
  BY <1>1, <1>4, Zenon DEF WordsAt, IsRuns
<1>9. \A k \in 1 .. n : b[k] <= p + q + 1 /\ b[k] <= p + 1 /\ b[k] \in Nat /\ a[k] \in Nat
  BY <1>8
<1>10. ASSUME NEW i \in 1 .. p + q
       PROVE  i \in Visible(u) <=> \E k \in 1 .. n : a[k] <= i /\ i < b[k]
  <2>1. CASE i \in 1 .. p
    BY <1>7, <1>8, <2>1, Zenon
  <2>2. CASE i \notin 1 .. p
    <3>1. i \in p + 1 .. p + q /\ i - p \in 1 .. q
      BY <2>2
    <3>2. i \notin Visible(u)
      BY <1>4, <1>7, <3>1, Zenon
    <3>3. \A k \in 1 .. n : ~ (i < b[k])
      BY <1>9, <3>1
    <3> QED BY <3>2, <3>3, Zenon
  <2> QED BY <2>1, <2>2
<1>11. IsRuns(Visible(u), p + q, n, a, b)
  <2>1. p + q \in Nat
    OBVIOUS
  <2> QED BY <1>7, <1>8, <1>9, <1>10, <2>1, Zenon DEF IsRuns
<1>12. \A k \in 1 .. n : Len(ws[k]) = b[k] - a[k]
  BY <1>1, <1>4, Zenon DEF WordsAt
<1>13. \A k \in 1 .. n : \A j \in 1 .. b[k] - a[k] : u[a[k] + j - 1] = ws[k][j]
  <2> SUFFICES ASSUME NEW k \in 1 .. n, NEW j \in 1 .. b[k] - a[k]
               PROVE  u[a[k] + j - 1] = ws[k][j]
    OBVIOUS
  <2>1. s[a[k] + j - 1] = ws[k][j]
    BY <1>1, <1>4, Zenon DEF WordsAt
  <2>2. a[k] \in Nat /\ b[k] \in Nat /\ 1 <= a[k] /\ a[k] < b[k] /\ b[k] <= p + 1
    BY <1>8
  <2>3. a[k] + j - 1 \in 1 .. p
    BY ONLY <2>2, p \in Nat, j \in 1 .. b[k] - a[k]
  <2> QED BY <1>6, <2>1, <2>3, Zenon DEF IsJoined
<1>14. u \in Seq(Int) /\ Len(u) = p + q
  BY <1>6, Zenon DEF IsJoined
<1>15. WordsAt(u, ws, a, b)
  BY <1>2, <1>4, <1>11, <1>12, <1>13, <1>14, Zenon DEF WordsAt
<1> QED BY <1>5, <1>15, Zenon DEF HasWords

(* A word behind a blank, or at the beginning, is another word.               *)
LEMMA WordBehind ==
  ASSUME NEW s, NEW ws, HasWords(s, ws), Len(s) = 0 \/ s[Len(s)] \in Blank,
         NEW w \in Seq(Int), Len(w) # 0, \A j \in 1 .. Len(w) : w[j] \notin Blank
  PROVE  HasWords(s \o w, Append(ws, w))
<1>1. PICK a, b : WordsAt(s, ws, a, b)
  BY DEF HasWords
<1>2. s \in Seq(Int) /\ ws \in Seq(Seq(Int))
  BY <1>1, Zenon DEF WordsAt
<1>3. Len(s) \in Nat /\ Len(w) \in Nat /\ Len(ws) \in Nat
  BY <1>2
<1>4. PICK p \in Nat, q \in Nat, n \in Nat : p = Len(s) /\ q = Len(w) /\ n = Len(ws)
  BY <1>3, Zenon
<1>5. PICK u : u = s \o w
  OBVIOUS
<1>6. IsJoined(u, s, p, w, q)
  BY <1>2, <1>4, <1>5, JoinedAt, Zenon
<1>7. /\ \A i \in 1 .. p : i \in Visible(u) <=> i \in Visible(s)
      /\ \A i \in p + 1 .. p + q : i \in Visible(u) <=> w[i - p] \notin Blank
      /\ Visible(u) \subseteq 1 .. p + q
  BY <1>4, <1>6, VisibleBehind
<1>8. /\ a \in [1 .. n -> Nat] /\ b \in [1 .. n -> Nat]
      /\ \A k \in 1 .. n : 1 <= a[k] /\ a[k] < b[k] /\ b[k] <= p + 1
      /\ \A k, m \in 1 .. n : k < m => b[k] < a[m]
      /\ \A i \in 1 .. p : i \in Visible(s) <=> \E k \in 1 .. n : a[k] <= i /\ i < b[k]
  BY <1>1, <1>4, Zenon DEF WordsAt, IsRuns
<1>9. \A k \in 1 .. n : b[k] <= p + q + 1 /\ b[k] <= p + 1 /\ b[k] \in Nat /\ a[k] \in Nat
  BY <1>8
<1>10. \A k \in 1 .. n : b[k] < p + 1
  <2> SUFFICES ASSUME NEW k \in 1 .. n, b[k] = p + 1 PROVE FALSE
    BY <1>9
  <2>1. a[k] \in Nat /\ 1 <= a[k] /\ a[k] < b[k] /\ b[k] = p + 1
    BY <1>8
  <2>2. p \in 1 .. p /\ a[k] <= p /\ p < b[k]
    BY ONLY <2>1, p \in Nat
  <2>3. p \in Visible(s) /\ p # 0
    BY <1>8, <2>2
  <2> QED BY <1>4, <2>3, Zenon DEF Visible
<1>11. PICK N \in Nat : N = n + 1
  OBVIOUS
<1>12. /\ \A k \in 1 .. n : k \in 1 .. N /\ k # N
       /\ \A k \in 1 .. N : k = N \/ k \in 1 .. n
       /\ N \in 1 .. N
  BY <1>11
<1>13. PICK c, d : /\ c = [k \in 1 .. N |-> IF k = N THEN p + 1 ELSE a[k]]
                   /\ d = [k \in 1 .. N |-> IF k = N THEN p + q + 1 ELSE b[k]]
  OBVIOUS
<1>14. /\ c[N] = p + 1 /\ d[N] = p + q + 1
       /\ \A k \in 1 .. n : c[k] = a[k] /\ d[k] = b[k]
  BY <1>12, <1>13, Zenon
<1>15. c \in [1 .. N -> Nat] /\ d \in [1 .. N -> Nat]
  <2>1. p + 1 \in Nat /\ p + q + 1 \in Nat
    OBVIOUS
  <2>2. \A k \in 1 .. N : /\ (IF k = N THEN p + 1 ELSE a[k]) \in Nat
                          /\ (IF k = N THEN p + q + 1 ELSE b[k]) \in Nat
    BY <1>9, <1>12, <2>1, Zenon
  <2> QED BY <1>13, <2>2, Zenon
<1>16. q # 0
  BY <1>4
<1>17. ASSUME NEW k \in 1 .. N PROVE 1 <= c[k] /\ c[k] < d[k] /\ d[k] <= p + q + 1
  <2>1. CASE k = N
    <3>1. 1 <= p + 1 /\ p + 1 < p + q + 1 /\ p + q + 1 <= p + q + 1
      BY <1>16
    <3> QED BY <1>14, <2>1, <3>1, Zenon
  <2>2. CASE k \in 1 .. n
    BY <1>8, <1>9, <1>14, <2>2, Zenon
  <2> QED BY <1>12, <2>1, <2>2
<1>18. ASSUME NEW k \in 1 .. N, NEW m \in 1 .. N, k < m PROVE d[k] < c[m]
  <2>1. k \in 1 .. n
    BY <1>11, <1>18
  <2>2. CASE m = N
    BY <1>10, <1>14, <2>1, <2>2, Zenon
  <2>3. CASE m \in 1 .. n
    BY <1>8, <1>14, <1>18, <2>1, <2>3, Zenon
  <2> QED BY <1>12, <2>2, <2>3
<1>19. ASSUME NEW i \in 1 .. p + q
       PROVE  i \in Visible(u) <=> \E k \in 1 .. N : c[k] <= i /\ i < d[k]
  <2>1. CASE i \in 1 .. p
    <3>1. ~ (p + 1 <= i)
      BY <2>1
    <3>2. i \in Visible(u) <=> \E k \in 1 .. n : a[k] <= i /\ i < b[k]
      BY <1>7, <1>8, <2>1, Zenon
    <3>3. ASSUME NEW k \in 1 .. N, c[k] <= i /\ i < d[k]
          PROVE  k \in 1 .. n /\ a[k] <= i /\ i < b[k]
      BY <1>12, <1>14, <3>1, <3>3, Zenon
    <3>4. ASSUME NEW k \in 1 .. n, a[k] <= i /\ i < b[k]
          PROVE  k \in 1 .. N /\ c[k] <= i /\ i < d[k]
      BY <1>12, <1>14, <3>4, Zenon
    <3> QED BY <3>2, <3>3, <3>4, Zenon
  <2>2. CASE i \notin 1 .. p
    <3>1. i \in p + 1 .. p + q /\ i - p \in 1 .. q /\ p + 1 <= i /\ i < p + q + 1
      BY <2>2
    <3>2. i \in Visible(u)
      BY <1>4, <1>7, <3>1, Zenon
    <3> QED BY <1>12, <1>14, <3>1, <3>2, Zenon
  <2> QED BY <2>1, <2>2
<1>20. IsRuns(Visible(u), p + q, N, c, d)
  <2>1. p + q \in Nat
    OBVIOUS
  <2> QED BY <1>7, <1>15, <1>17, <1>18, <1>19, <2>1, Zenon DEF IsRuns
<1>21. PICK vs : vs = Append(ws, w)
  OBVIOUS
<1>22. /\ vs \in Seq(Seq(Int)) /\ Len(vs) = N /\ vs[N] = w
       /\ \A k \in 1 .. n : vs[k] = ws[k]
  BY <1>2, <1>4, <1>11, <1>21
<1>23. ASSUME NEW k \in 1 .. N
       PROVE  /\ Len(vs[k]) = d[k] - c[k]
              /\ \A j \in 1 .. d[k] - c[k] : u[c[k] + j - 1] = vs[k][j]
  <2>1. CASE k = N
    <3>1. (p + q + 1) - (p + 1) = q /\ \A j \in 1 .. q : (p + 1) + j - 1 = p + j
      OBVIOUS
    <3>2. \A j \in 1 .. q : u[p + j] = w[j]
      BY <1>6, Zenon DEF IsJoined
    <3>3. c[k] = p + 1 /\ d[k] = p + q + 1 /\ vs[k] = w
      BY <1>14, <1>22, <2>1, Zenon
    <3>4. d[k] - c[k] = q
      BY <3>1, <3>3, Zenon
    <3>5. \A j \in 1 .. q : u[(p + 1) + j - 1] = w[j]
      BY <3>1, <3>2, Zenon
    <3>6. \A j \in 1 .. q : u[c[k] + j - 1] = vs[k][j]
      BY <3>3, <3>5, Zenon
    <3> QED BY <1>4, <3>3, <3>4, <3>6, Zenon
  <2>2. CASE k \in 1 .. n
    <3>1. /\ Len(ws[k]) = b[k] - a[k]
          /\ \A j \in 1 .. b[k] - a[k] : s[a[k] + j - 1] = ws[k][j]
      BY <1>1, <1>4, <2>2, Zenon DEF WordsAt
    <3>2. a[k] \in Nat /\ b[k] \in Nat /\ 1 <= a[k] /\ a[k] < b[k] /\ b[k] <= p + 1
      BY <1>8, <2>2
    <3>3. \A j \in 1 .. b[k] - a[k] : a[k] + j - 1 \in 1 .. p
      BY ONLY <3>2, p \in Nat
    <3>4. \A j \in 1 .. b[k] - a[k] : u[a[k] + j - 1] = ws[k][j]
      BY <1>6, <3>1, <3>3, Zenon DEF IsJoined
    <3> QED BY <1>14, <1>22, <2>2, <3>1, <3>4, Zenon
  <2> QED BY <1>12, <2>1, <2>2
<1>24. u \in Seq(Int) /\ Len(u) = p + q
  BY <1>6, Zenon DEF IsJoined
<1>25. WordsAt(u, vs, c, d)
  BY <1>20, <1>22, <1>23, <1>24, Zenon DEF WordsAt
<1> QED BY <1>5, <1>21, <1>25, Zenon DEF HasWords
--------------------------------------------------------------------------------
(* The first n parts stand one after the other in s, the k-th behind off[k - 1]. *)
PartsAt(s, parts, n, off) ==
  /\ n \in Nat /\ s \in Seq(Int) /\ off \in [0 .. n -> Nat] /\ off[0] = 0 /\ off[n] = Len(s)
  /\ \A k \in 1 .. n : parts[k] \in Seq(Int) /\ off[k] = off[k - 1] + Len(parts[k])
  /\ \A k \in 1 .. n : \A j \in 1 .. Len(parts[k]) : s[off[k - 1] + j] = parts[k][j]
  /\ \A k, m \in 0 .. n : k < m => off[k] <= off[m]
  /\ \A i \in 1 .. Len(s) : \E k \in 1 .. n : \E j \in 1 .. Len(parts[k]) : i = off[k - 1] + j

(* Parts that are found stay so when another follows.                         *)
LEMMA AnotherPart ==
  ASSUME NEW s, NEW parts, NEW n, NEW off, PartsAt(s, parts, n, off),
         NEW w \in Seq(Int), parts[n + 1] = w
  PROVE  \E g : PartsAt(s \o w, parts, n + 1, g)
<1>1. /\ n \in Nat /\ s \in Seq(Int) /\ off \in [0 .. n -> Nat] /\ off[0] = 0 /\ off[n] = Len(s)
      /\ \A k \in 1 .. n : parts[k] \in Seq(Int) /\ off[k] = off[k - 1] + Len(parts[k])
      /\ \A k \in 1 .. n : \A j \in 1 .. Len(parts[k]) : s[off[k - 1] + j] = parts[k][j]
      /\ \A k, m \in 0 .. n : k < m => off[k] <= off[m]
      /\ \A i \in 1 .. Len(s) :
           \E k \in 1 .. n : \E j \in 1 .. Len(parts[k]) : i = off[k - 1] + j
  BY Zenon DEF PartsAt
<1>2. PICK p \in Nat, q \in Nat, N \in Nat : p = Len(s) /\ q = Len(w) /\ N = n + 1
  BY <1>1
<1>3. PICK t : t = s \o w
  OBVIOUS
<1>4. IsJoined(t, s, p, w, q)
  BY <1>1, <1>2, <1>3, JoinedAt, Zenon
<1>5. /\ t \in Seq(Int) /\ Len(t) = p + q
      /\ \A i \in 1 .. p : t[i] = s[i]
      /\ \A j \in 1 .. q : t[p + j] = w[j]
  BY <1>4, Zenon DEF IsJoined
<1>6. PICK g : g = [k \in 0 .. N |-> IF k = N THEN p + q ELSE off[k]]
  OBVIOUS
<1>7. /\ \A k \in 0 .. n : k \in 0 .. N /\ k # N
      /\ \A k \in 0 .. N : k = N \/ k \in 0 .. n
      /\ \A k \in 1 .. N : (k = N /\ k - 1 = n) \/ (k \in 1 .. n /\ k - 1 \in 0 .. n /\ k \in 0 .. n)
      /\ \A k \in 1 .. n : k \in 1 .. N /\ k - 1 \in 0 .. n
      /\ N \in 0 .. N /\ n \in 0 .. n /\ 0 \in 0 .. n /\ N \in 1 .. N /\ N - 1 = n
  BY <1>1, <1>2
<1>8. g[N] = p + q /\ \A k \in 0 .. n : g[k] = off[k]
  BY <1>6, <1>7, Zenon
<1>9. g \in [0 .. N -> Nat] /\ g[0] = 0 /\ g[N] = Len(t)
  <2>1. \A k \in 0 .. n : off[k] \in Nat
    BY <1>1
  <2>2. p + q \in Nat
    OBVIOUS
  <2>3. \A k \in 0 .. N : (IF k = N THEN p + q ELSE off[k]) \in Nat
    BY <1>7, <2>1, <2>2, Zenon
  <2>4. g \in [0 .. N -> Nat]
    BY <1>6, <2>3, Zenon
  <2> QED BY <1>1, <1>5, <1>7, <1>8, <2>4, Zenon
<1>10. \A k \in 0 .. n : off[k] \in 0 .. p
  <2> SUFFICES ASSUME NEW k \in 0 .. n PROVE off[k] \in 0 .. p
    OBVIOUS
  <2>1. k = n \/ k < n
    BY <1>1
  <2>2. off[k] \in Nat /\ (off[k] = p \/ off[k] <= p)
    BY <1>1, <1>2, <1>7, <2>1
  <2> QED BY <1>2, <2>2
<1>11. ASSUME NEW k \in 1 .. N
       PROVE  /\ parts[k] \in Seq(Int) /\ g[k] = g[k - 1] + Len(parts[k])
              /\ \A j \in 1 .. Len(parts[k]) : t[g[k - 1] + j] = parts[k][j]
  <2>1. CASE k = N /\ k - 1 = n
    <3>1. g[k] = p + q /\ g[k - 1] = p /\ parts[k] = w /\ Len(parts[k]) = q
      BY <1>1, <1>2, <1>7, <1>8, <2>1, Zenon
    <3> QED BY <1>2, <1>5, <3>1, Zenon
  <2>2. CASE k \in 1 .. n /\ k - 1 \in 0 .. n /\ k \in 0 .. n
    <3>1. g[k] = off[k] /\ g[k - 1] = off[k - 1]
      BY <1>8, <2>2, Zenon
    <3>2. /\ off[k - 1] \in 0 .. p /\ off[k] \in 0 .. p /\ off[k] = off[k - 1] + Len(parts[k])
          /\ parts[k] \in Seq(Int)
      BY <1>1, <1>10, <2>2, Zenon
    <3>3. Len(parts[k]) \in Nat
      BY <3>2
    <3>4. \A j \in 1 .. Len(parts[k]) : off[k - 1] + j \in 1 .. p
      BY ONLY <3>2, <3>3, p \in Nat
    <3>5. \A j \in 1 .. Len(parts[k]) : s[off[k - 1] + j] = parts[k][j]
      BY <1>1, <2>2, Zenon
    <3>6. \A j \in 1 .. Len(parts[k]) : t[off[k - 1] + j] = s[off[k - 1] + j]
      BY <1>5, <3>4, Zenon
    <3> QED BY <3>1, <3>2, <3>5, <3>6, Zenon
  <2> QED BY <1>7, <2>1, <2>2
<1>12. ASSUME NEW k \in 0 .. N, NEW m \in 0 .. N, k < m PROVE g[k] <= g[m]
  <2>1. k \in 0 .. n
    BY <1>1, <1>2, <1>12
  <2>2. CASE m = N
    <3>1. g[k] \in 0 .. p /\ g[m] = p + q
      BY <1>8, <1>10, <2>1, <2>2, Zenon
    <3> QED BY ONLY <3>1, p \in Nat, q \in Nat
  <2>3. CASE m \in 0 .. n
    BY <1>1, <1>8, <1>12, <2>1, <2>3, Zenon
  <2> QED BY <1>7, <2>2, <2>3
<1>13. ASSUME NEW i \in 1 .. Len(t)
       PROVE  \E k \in 1 .. N : \E j \in 1 .. Len(parts[k]) : i = g[k - 1] + j
  <2>1. i \in 1 .. p \/ \E j \in 1 .. q : i = p + j
    <3>1. i \in 1 .. p + q
      BY <1>5, Zenon
    <3>2. i \in 1 .. p \/ i - p \in 1 .. q
      BY ONLY <3>1, p \in Nat, q \in Nat
    <3>3. i = p + (i - p)
      BY ONLY <3>1, p \in Nat, q \in Nat
    <3> QED BY <3>2, <3>3, Zenon
  <2>2. CASE i \in 1 .. p
    <3>1. PICK k \in 1 .. n : \E j \in 1 .. Len(parts[k]) : i = off[k - 1] + j
      BY <1>1, <1>2, <2>2, Zenon
    <3>2. k \in 1 .. N /\ g[k - 1] = off[k - 1]
      BY <1>7, <1>8, Zenon
    <3> QED BY <3>1, <3>2, Zenon
  <2>3. ASSUME NEW j \in 1 .. q, i = p + j
        PROVE  \E k \in 1 .. N : \E h \in 1 .. Len(parts[k]) : i = g[k - 1] + h
    <3>1. g[N - 1] = p /\ parts[N] = w /\ Len(parts[N]) = q /\ N \in 1 .. N
      BY <1>1, <1>2, <1>7, <1>8, Zenon
    <3> QED BY <2>3, <3>1, Zenon
  <2> QED BY <2>1, <2>2, <2>3, Zenon
<1>14. PartsAt(t, parts, N, g)
  BY <1>2, <1>5, <1>9, <1>11, <1>12, <1>13, Zenon DEF PartsAt
<1> QED BY <1>2, <1>3, <1>14, Zenon

(* Nothing has no part.                                                       *)
LEMMA NoPart ==
  ASSUME NEW parts, NEW s, s = <<>>
  PROVE  \E off : PartsAt(s, parts, 0, off)
<1>1. PICK off : off = [k \in 0 .. 0 |-> 0]
  OBVIOUS
<1>2. off \in [0 .. 0 -> Nat] /\ off[0] = 0 /\ s \in Seq(Int) /\ Len(s) = 0
  BY <1>1
<1>3. PartsAt(s, parts, 0, off)
  BY <1>2 DEF PartsAt
<1> QED BY <1>3, Zenon

(* Each part is found in the whole, and nothing else is.                      *)
LEMMA PartsFound ==
  ASSUME NEW n \in Nat, NEW parts \in [1 .. n -> Seq(Int)]
  PROVE  \E off : PartsAt(FlattenSeq(parts), parts, n, off)
<1>1. CASE n = 0
  <2>1. PICK s : s = FlattenSeq(parts)
    OBVIOUS
  <2>2. s = <<>>
    BY <1>1, <2>1 DEF FlattenSeq
  <2> QED BY <1>1, <2>1, <2>2, NoPart, Zenon
<1>2. CASE n # 0
  <2>1. n \in Nat \ {0}
    BY <1>2
  <2>2. PICK f : IsConcatenation(f, parts, n) /\ FlattenSeq(parts) = f[n]
    BY <2>1, FlattenIs, Zenon
  <2>3. \A k \in 1 .. n : f[k] = IF k = 1 THEN parts[k] ELSE f[k - 1] \o parts[k]
    BY <2>2, Zenon DEF IsConcatenation
  <2> DEFINE S == {m \in 1 .. n : \E off : PartsAt(f[m], parts, m, off)}
  <2>4. 1 \in S
    <3>1. 1 \in 1 .. n /\ 0 + 1 = 1
      BY <1>2
    <3>2. PICK s, w : s = <<>> /\ w = parts[1]
      OBVIOUS
    <3>3. w \in Seq(Int) /\ f[1] = w
      BY <2>3, <3>1, <3>2
    <3>4. PICK off : PartsAt(s, parts, 0, off)
      BY <3>2, NoPart
    <3>5. \E g : PartsAt(s \o w, parts, 0 + 1, g)
      <4>1. parts[0 + 1] = w
        BY <3>1, <3>2, Zenon
      <4> QED BY ONLY <3>3, <3>4, <4>1, AnotherPart
    <3>6. s \o w = w
      BY <3>2, <3>3
    <3> QED BY <3>1, <3>3, <3>5, <3>6, Zenon
  <2>5. ASSUME NEW m \in 1 .. n, m < n, m \in S PROVE m + 1 \in S
    <3>1. m + 1 \in 1 .. n /\ (m + 1) - 1 = m /\ m + 1 # 1
      BY <2>5
    <3>2. PICK s, w : s = f[m] /\ w = parts[m + 1]
      OBVIOUS
    <3>3. PICK off : PartsAt(s, parts, m, off)
      BY <2>5, <3>2, Zenon
    <3>4. w \in Seq(Int)
      BY <3>1, <3>2
    <3>5. \E g : PartsAt(s \o w, parts, m + 1, g)
      BY ONLY <3>2, <3>3, <3>4, AnotherPart
    <3>6. f[m + 1] = s \o w
      BY <2>3, <3>1, <3>2, Zenon
    <3> QED BY <3>1, <3>5, <3>6, Zenon
  <2>6. n \in S
    <3> HIDE DEF S
    <3>1. n \in 1 .. n /\ n \in Nat
      BY <1>2
    <3> QED BY <2>4, <2>5, <3>1, SmallestCounterexample
  <2> QED BY <2>2, <2>6, Zenon
<1> QED BY <1>1, <1>2

(* Parts that each end in their only newline are the lines of the whole.      *)
LEMMA LinesOfParts ==
  ASSUME NEW s, NEW parts, NEW n, NEW e, PartsAt(s, parts, n, e),
         NEW ls, \A k \in 1 .. n : ls[k] \in Seq(Int) /\ parts[k] = ls[k] \o <<Newline>>,
         \A k \in 1 .. n : \A j \in 1 .. Len(ls[k]) : ls[k][j] # Newline
  PROVE  LinesAt(s, ls, n, e)
<1>1. /\ n \in Nat /\ s \in Seq(Int) /\ e \in [0 .. n -> Nat] /\ e[0] = 0 /\ e[n] = Len(s)
      /\ \A k \in 1 .. n : parts[k] \in Seq(Int) /\ e[k] = e[k - 1] + Len(parts[k])
      /\ \A k \in 1 .. n : \A j \in 1 .. Len(parts[k]) : s[e[k - 1] + j] = parts[k][j]
      /\ \A k, m \in 0 .. n : k < m => e[k] <= e[m]
      /\ \A i \in 1 .. Len(s) : \E k \in 1 .. n : \E j \in 1 .. Len(parts[k]) : i = e[k - 1] + j
  BY Zenon DEF PartsAt
<1>2. ASSUME NEW k \in 1 .. n
      PROVE  /\ Len(ls[k]) \in Nat /\ Len(parts[k]) = Len(ls[k]) + 1
             /\ \A j \in 1 .. Len(ls[k]) : parts[k][j] = ls[k][j]
             /\ parts[k][Len(ls[k]) + 1] = Newline
  <2>1. PICK l \in Seq(Int) : l = ls[k]
    OBVIOUS
  <2>2. /\ Len(l) \in Nat /\ Len(l \o <<Newline>>) = Len(l) + 1
        /\ \A j \in 1 .. Len(l) : (l \o <<Newline>>)[j] = l[j]
        /\ (l \o <<Newline>>)[Len(l) + 1] = Newline
    BY DEF Newline
  <2>3. parts[k] = l \o <<Newline>>
    BY <2>1, Zenon
  <2> QED BY <2>1, <2>2, <2>3, Zenon
<1>3. ASSUME NEW k \in 1 .. n
      PROVE  /\ e[k] = e[k - 1] + Len(ls[k]) + 1 /\ s[e[k]] = Newline
             /\ \A j \in 1 .. Len(ls[k]) : s[e[k - 1] + j] = ls[k][j]
             /\ e[k - 1] < e[k]
  <2>1. PICK q \in Nat : q = Len(ls[k])
    BY <1>2, Zenon
  <2>2. k \in 0 .. n /\ k - 1 \in 0 .. n
    BY <1>1
  <2>3. e[k - 1] \in Nat /\ e[k] \in Nat
    BY <1>1, <2>2, Zenon
  <2>4. e[k] = e[k - 1] + (q + 1) /\ Len(parts[k]) = q + 1
    BY <1>1, <1>2, <2>1, Zenon
  <2>5. /\ e[k] = e[k - 1] + q + 1 /\ e[k - 1] < e[k] /\ q + 1 \in 1 .. q + 1
        /\ \A j \in 1 .. q : j \in 1 .. q + 1
    BY ONLY <2>3, <2>4, q \in Nat
  <2>6. \A j \in 1 .. q + 1 : s[e[k - 1] + j] = parts[k][j]
    BY <1>1, <2>4, Zenon
  <2>7. s[e[k]] = Newline
    BY <1>2, <2>1, <2>4, <2>5, <2>6, Zenon
  <2>8. \A j \in 1 .. q : s[e[k - 1] + j] = ls[k][j]
    BY <1>2, <2>1, <2>5, <2>6, Zenon
  <2> QED BY <2>1, <2>5, <2>7, <2>8, Zenon
<1>4. ASSUME NEW k \in 0 .. n, NEW m \in 0 .. n, k < m PROVE e[k] < e[m]
  <2>1. m \in 1 .. n /\ m - 1 \in 0 .. n /\ (k = m - 1 \/ k < m - 1)
    BY <1>1, <1>4
  <2>2. e[k] \in Nat /\ e[m - 1] \in Nat /\ e[m] \in Nat
    BY <1>1, <2>1
  <2>3. e[m - 1] < e[m]
    BY <1>3, <2>1
  <2>4. e[k] = e[m - 1] \/ e[k] <= e[m - 1]
    BY <1>1, <2>1, Zenon
  <2> QED BY ONLY <2>2, <2>3, <2>4
<1>5. ASSUME NEW i \in 1 .. Len(s), s[i] = Newline PROVE \E k \in 1 .. n : i = e[k]
  <2>1. PICK k \in 1 .. n : \E j \in 1 .. Len(parts[k]) : i = e[k - 1] + j
    BY <1>1
  <2>2. PICK j \in 1 .. Len(parts[k]) : i = e[k - 1] + j
    BY <2>1
  <2>3. j \in 1 .. Len(ls[k]) \/ j = Len(ls[k]) + 1
    <3>1. PICK q \in Nat : q = Len(ls[k]) /\ Len(parts[k]) = q + 1
      BY <1>2, Zenon
    <3>2. j \in 1 .. q + 1
      BY <3>1, Zenon
    <3>3. j \in 1 .. q \/ j = q + 1
      BY ONLY <3>2, q \in Nat
    <3> QED BY <3>1, <3>3, Zenon
  <2>4. CASE j \in 1 .. Len(ls[k])
    BY <1>3, <1>5, <2>2, <2>4, Zenon
  <2>5. CASE j = Len(ls[k]) + 1
    <3>1. e[k] = e[k - 1] + Len(ls[k]) + 1 /\ e[k - 1] \in Nat /\ Len(ls[k]) \in Nat
      <4>1. k - 1 \in 0 .. n
        BY <1>1
      <4> QED BY <1>1, <1>2, <1>3, <4>1, Zenon
    <3>2. i = e[k]
      BY ONLY <2>2, <2>5, <3>1
    <3> QED BY <3>2
  <2> QED BY <2>3, <2>4, <2>5
<1>6. \A k \in 1 .. n : ls[k] \in Seq(Int)
  OBVIOUS
<1>7. \A k \in 1 .. n : \A j \in 1 .. Len(ls[k]) : s[e[k - 1] + j] = ls[k][j] /\ ls[k][j] # Newline
  BY <1>3, Zenon
<1>8. \A k \in 1 .. n : e[k] = e[k - 1] + Len(ls[k]) + 1 /\ s[e[k]] = Newline
  BY <1>3, Zenon
<1> QED BY <1>1, <1>4, <1>5, <1>6, <1>7, <1>8, Zenon DEF LinesAt

(* So a file has the lines it was written with.                               *)
LEMMA FileHasLines ==
  ASSUME NEW n \in Nat, NEW ls \in [1 .. n -> Seq(Int)],
         \A k \in 1 .. n : \A j \in 1 .. Len(ls[k]) : ls[k][j] # Newline
  PROVE  \E e : LinesAt(FileOf(ls, n), ls, n, e)
<1>1. PICK parts : parts = [k \in 1 .. n |-> ls[k] \o <<Newline>>]
  OBVIOUS
<1>2. parts \in [1 .. n -> Seq(Int)]
  <2>1. ASSUME NEW k \in 1 .. n PROVE ls[k] \o <<Newline>> \in Seq(Int)
    BY DEF Newline
  <2> QED BY <1>1, <2>1
<1>3. \A k \in 1 .. n : ls[k] \in Seq(Int) /\ parts[k] = ls[k] \o <<Newline>>
  BY <1>1
<1>4. PICK s : s = FlattenSeq(parts)
  OBVIOUS
<1>5. PICK e : PartsAt(s, parts, n, e)
  BY <1>2, <1>4, PartsFound
<1>6. LinesAt(s, ls, n, e)
  BY <1>3, <1>5, LinesOfParts
<1> QED BY <1>1, <1>4, <1>6, Zenon DEF FileOf

(* getline returns the lines of a file.                                        *)
LEMMA FileIsRead ==
  ASSUME NEW n \in Nat, NEW ls \in [1 .. n -> Seq(Int)],
         \A k \in 1 .. n : \A j \in 1 .. Len(ls[k]) : ls[k][j] # Newline
  PROVE  /\ DOMAIN GetLines(FileOf(ls, n), Newline) = 1 .. n
         /\ \A k \in 1 .. n : GetLines(FileOf(ls, n), Newline)[k] = ls[k]
<1>1. PICK s : s = FileOf(ls, n)
  OBVIOUS
<1>2. PICK e : LinesAt(s, ls, n, e)
  BY <1>1, FileHasLines
<1>3. /\ DOMAIN GetLines(s, Newline) = 1 .. n
      /\ \A k \in 1 .. n : GetLines(s, Newline)[k] = ls[k]
  BY <1>2, LinesFound
<1> QED BY <1>1, <1>3, Zenon
--------------------------------------------------------------------------------
(* What is decoded from character i on, if F says it for the characters behind. *)
DecodedFrom(F, s, i) ==
  IF i > Len(s) THEN <<>>
  ELSE IF Escape(s, i) THEN <<8 * (s[i + 2] - 48) + s[i + 3] - 48>> \o F[i + 4]
  ELSE <<s[i]>> \o F[i + 1]

IsDecoding(F, s) == F = [i \in 1 .. Len(s) + 1 |-> DecodedFrom(F, s, i)]

(* The decoder goes on behind what it has read.                               *)
LEMMA DecodedBehind ==
  ASSUME NEW s \in Seq(Int), NEW F, NEW G, NEW i \in 1 .. Len(s) + 1,
         \A h \in 1 .. Len(s) + 1 : h > i => F[h] = G[h]
  PROVE  DecodedFrom(F, s, i) = DecodedFrom(G, s, i)
<1>1. CASE i > Len(s)
  BY <1>1 DEF DecodedFrom
<1>2. CASE ~ (i > Len(s))
  <2>1. i + 1 \in 1 .. Len(s) + 1 /\ i + 1 > i
    BY <1>2
  <2>2. F[i + 1] = G[i + 1]
    BY <2>1
  <2>3. Escape(s, i) => i + 4 \in 1 .. Len(s) + 1 /\ i + 4 > i
    BY <1>2 DEF Escape
  <2>4. Escape(s, i) => F[i + 4] = G[i + 4]
    BY <2>3
  <2> QED BY <1>2, <2>2, <2>4, Zenon DEF DecodedFrom
<1> QED BY <1>1, <1>2

(* What it returns is a text.                                                 *)
LEMMA DecodedIsText ==
  ASSUME NEW s \in Seq(Int), NEW F, NEW i \in 1 .. Len(s) + 1,
         \A h \in 1 .. Len(s) + 1 : h > i => F[h] \in Seq(Int)
  PROVE  DecodedFrom(F, s, i) \in Seq(Int)
<1>1. CASE i > Len(s)
  BY <1>1 DEF DecodedFrom
<1>2. CASE ~ (i > Len(s)) /\ Escape(s, i)
  <2>1. i + 4 \in 1 .. Len(s) + 1 /\ i + 4 > i /\ i + 2 \in 1 .. Len(s) /\ i + 3 \in 1 .. Len(s)
    BY <1>2 DEF Escape
  <2>2. PICK t \in Seq(Int) : t = F[i + 4]
    BY <2>1
  <2>3. PICK c \in Int : c = 8 * (s[i + 2] - 48) + s[i + 3] - 48
    <3>1. s[i + 2] \in Int /\ s[i + 3] \in Int
      BY <2>1
    <3>2. 8 * (s[i + 2] - 48) + s[i + 3] - 48 \in Int
      BY ONLY <3>1
    <3> QED BY <3>2, Zenon
  <2>4. <<c>> \o t \in Seq(Int)
    OBVIOUS
  <2> QED BY <1>2, <2>2, <2>3, <2>4, Zenon DEF DecodedFrom
<1>3. CASE ~ (i > Len(s)) /\ ~ Escape(s, i)
  <2>1. i + 1 \in 1 .. Len(s) + 1 /\ i + 1 > i /\ i \in 1 .. Len(s)
    BY <1>3
  <2>2. PICK t \in Seq(Int) : t = F[i + 1]
    BY <2>1
  <2>3. PICK c \in Int : c = s[i]
    BY <2>1
  <2>4. <<c>> \o t \in Seq(Int)
    OBVIOUS
  <2> QED BY <1>3, <2>2, <2>3, <2>4, Zenon DEF DecodedFrom
<1> QED BY <1>1, <1>2, <1>3

(* The recursion of the decoder, from the end of the text to its beginning,   *)
(* has a solution.                                                            *)
LEMMA DecodingExists ==
  ASSUME NEW s \in Seq(Int)
  PROVE  \E F : IsDecoding(F, s)
<1>1. PICK L \in Nat : L = Len(s) + 1
  OBVIOUS
<1>2. L \in 1 .. L
  BY <1>1
<1> DEFINE From(F, m) == /\ F \in [1 .. L -> Seq(Int)]
                         /\ \A i \in 1 .. L : i > L - m => F[i] = DecodedFrom(F, s, i)
           S == {m \in 1 .. L : \E F : From(F, m)}
<1>3. 1 \in S
  <2>1. PICK F : F = [i \in 1 .. L |-> <<>>]
    OBVIOUS
  <2>2. F \in [1 .. L -> Seq(Int)] /\ \A i \in 1 .. L : F[i] = <<>>
    BY <2>1
  <2>3. \A i \in 1 .. L : i > L - 1 => i > Len(s)
    BY <1>1
  <2>4. \A i \in 1 .. L : i > L - 1 => F[i] = DecodedFrom(F, s, i)
    BY <2>2, <2>3, Zenon DEF DecodedFrom
  <2>5. 1 \in 1 .. L
    BY <1>2
  <2> QED BY <2>2, <2>4, <2>5, Zenon
<1>4. ASSUME NEW m \in 1 .. L, m < L, m \in S PROVE m + 1 \in S
  <2>1. PICK F : From(F, m)
    BY <1>4
  <2>2. PICK j \in 1 .. L : j = L - m
    BY <1>4
  <2>3. PICK d : d = DecodedFrom(F, s, j)
    OBVIOUS
  <2>4. d \in Seq(Int)
    <3>1. \A h \in 1 .. Len(s) + 1 : F[h] \in Seq(Int)
      BY <1>1, <2>1
    <3>2. j \in 1 .. Len(s) + 1
      BY <1>1
    <3> QED BY ONLY <2>3, <3>1, <3>2, s \in Seq(Int), DecodedIsText
  <2>5. PICK G : G = [i \in 1 .. L |-> IF i = j THEN d ELSE F[i]]
    OBVIOUS
  <2>6. /\ G \in [1 .. L -> Seq(Int)] /\ G[j] = d
        /\ \A i \in 1 .. L : i # j => G[i] = F[i]
    BY <2>1, <2>4, <2>5
  <2>7. ASSUME NEW i \in 1 .. L, i >= j PROVE DecodedFrom(F, s, i) = DecodedFrom(G, s, i)
    <3>1. \A h \in 1 .. L : h > i => h # j
      BY <2>7
    <3>2. \A h \in 1 .. L : h > i => F[h] = G[h]
      BY <2>6, <3>1, Zenon
    <3>3. /\ \A h \in 1 .. Len(s) + 1 : h > i => F[h] = G[h]
          /\ i \in 1 .. Len(s) + 1
      BY <1>1, <3>2, Zenon
    <3> QED BY ONLY <3>3, s \in Seq(Int), DecodedBehind
  <2>8. ASSUME NEW i \in 1 .. L, i > L - (m + 1) PROVE G[i] = DecodedFrom(G, s, i)
    <3>1. i = j \/ (i # j /\ i > L - m)
      BY <2>2, <2>8
    <3>2. i >= j
      BY <2>2, <2>8
    <3>3. DecodedFrom(F, s, i) = DecodedFrom(G, s, i)
      BY <2>7, <3>2
    <3> QED BY <2>1, <2>3, <2>6, <3>1, <3>3, Zenon
  <2>9. m + 1 \in 1 .. L
    BY <1>4
  <2> QED BY <2>6, <2>8, <2>9, Zenon
<1>5. L \in S
  <2> HIDE DEF S
  <2> QED BY <1>2, <1>3, <1>4, SmallestCounterexample
<1>6. PICK F : From(F, L)
  BY <1>5
<1>7. \A i \in 1 .. L : i > L - L
  BY <1>1
<1>8. \A i \in 1 .. L : F[i] = DecodedFrom(F, s, i)
  BY <1>6, <1>7, Zenon
<1>9. F = [i \in 1 .. L |-> DecodedFrom(F, s, i)]
  <2>1. F = [i \in 1 .. L |-> F[i]]
    BY <1>6
  <2>2. [i \in 1 .. L |-> F[i]] = [i \in 1 .. L |-> DecodedFrom(F, s, i)]
    BY <1>8, Zenon
  <2> QED BY <2>1, <2>2, Zenon
<1> QED BY <1>1, <1>9, Zenon DEF IsDecoding

(* The decoder returns what the solution has at the beginning.                *)
LEMMA DecodedIs ==
  ASSUME NEW s \in Seq(Int)
  PROVE  \E F : IsDecoding(F, s) /\ DecodeMountPath(s) = F[1]
<1>1. PICK F : F = CHOOSE G : IsDecoding(G, s)
  OBVIOUS
<1>2. IsDecoding(F, s)
  BY <1>1, DecodingExists, Zenon
<1>3. DecodeMountPath(s) = F[1]
  BY <1>1, Zenon DEF DecodeMountPath, IsDecoding, DecodedFrom
<1> QED BY <1>2, <1>3

(* How a character is written in the mount table.                              *)
Mangle(c) ==
  CASE c = Space     -> <<Backslash, 48, 52, 48>>
    [] c = Backslash -> <<Backslash, 49, 51, 52>>
    [] OTHER         -> <<c>>

(* A character of a name is one character of the table, or four.              *)
LEMMA MangledCharacter ==
  ASSUME NEW c \in Int
  PROVE  /\ Mangle(c) \in Seq(Int)
         /\ c \in {Space, Backslash} => Len(Mangle(c)) = 4
         /\ c \notin {Space, Backslash} => Len(Mangle(c)) = 1 /\ Mangle(c)[1] = c
         /\ c \in {Space, Backslash} => Mangle(c)[1] = Backslash
         /\ c = Space => Mangle(c)[2] = 48 /\ Mangle(c)[3] = 52 /\ Mangle(c)[4] = 48
         /\ c = Backslash => Mangle(c)[2] = 49 /\ Mangle(c)[3] = 51 /\ Mangle(c)[4] = 52
<1>1. Space # Backslash /\ Space \in Int /\ Backslash \in Int
  BY DEF Space, Backslash
<1>2. CASE c = Space
  <2>1. Mangle(c) = <<Backslash, 48, 52, 48>>
    BY <1>1, <1>2 DEF Mangle
  <2>2. PICK b \in Int : b = Backslash
    BY <1>1
  <2>3. /\ <<b, 48, 52, 48>> \in Seq(Int) /\ Len(<<b, 48, 52, 48>>) = 4
        /\ <<b, 48, 52, 48>>[1] = b /\ <<b, 48, 52, 48>>[2] = 48
        /\ <<b, 48, 52, 48>>[3] = 52 /\ <<b, 48, 52, 48>>[4] = 48
    OBVIOUS
  <2>4. PICK t : t = <<b, 48, 52, 48>>
    OBVIOUS
  <2>5. /\ t \in Seq(Int) /\ Len(t) = 4 /\ t[1] = b /\ t[2] = 48 /\ t[3] = 52 /\ t[4] = 48
    BY <2>3, <2>4
  <2>6. Mangle(c) = t
    BY <2>1, <2>2, <2>4
  <2>7. c \in {Space, Backslash} /\ c # Backslash
    BY <1>1, <1>2
  <2> QED BY <1>2, <2>2, <2>5, <2>6, <2>7, Zenon
<1>3. CASE c = Backslash
  <2>1. Mangle(c) = <<Backslash, 49, 51, 52>>
    BY <1>1, <1>3 DEF Mangle
  <2>2. PICK b \in Int : b = Backslash
    BY <1>1
  <2>3. /\ <<b, 49, 51, 52>> \in Seq(Int) /\ Len(<<b, 49, 51, 52>>) = 4
        /\ <<b, 49, 51, 52>>[1] = b /\ <<b, 49, 51, 52>>[2] = 49
        /\ <<b, 49, 51, 52>>[3] = 51 /\ <<b, 49, 51, 52>>[4] = 52
    OBVIOUS
  <2>4. PICK t : t = <<b, 49, 51, 52>>
    OBVIOUS
  <2>5. /\ t \in Seq(Int) /\ Len(t) = 4 /\ t[1] = b /\ t[2] = 49 /\ t[3] = 51 /\ t[4] = 52
    BY <2>3, <2>4
  <2>6. Mangle(c) = t
    BY <2>1, <2>2, <2>4
  <2>7. c \in {Space, Backslash} /\ c # Space
    BY <1>1, <1>3
  <2> QED BY <1>3, <2>2, <2>5, <2>6, <2>7, Zenon
<1>4. CASE c \notin {Space, Backslash}
  <2>1. Mangle(c) = <<c>>
    BY <1>4 DEF Mangle
  <2> QED BY <1>4, <2>1
<1> QED BY <1>2, <1>3, <1>4

(* A character that begins no escape is kept.                                 *)
LEMMA PlainIsDecoded ==
  ASSUME NEW s \in Seq(Int), NEW F, IsDecoding(F, s), NEW i \in 1 .. Len(s), s[i] # Backslash
  PROVE  F[i] = <<s[i]>> \o F[i + 1]
<1>1. i \in 1 .. Len(s) + 1 /\ ~ (i > Len(s)) /\ ~ Escape(s, i)
  BY DEF Escape
<1>2. F[i] = DecodedFrom(F, s, i)
  BY <1>1, Zenon DEF IsDecoding
<1> QED BY <1>1, <1>2, Zenon DEF DecodedFrom

(* The escape of the backslash is none for the decoder, as its first digit is *)
(* not zero.                                                                  *)
LEMMA BackslashIsKept ==
  ASSUME NEW s \in Seq(Int), NEW F, IsDecoding(F, s), NEW i \in 1 .. Len(s), i + 1 \in 1 .. Len(s),
         s[i] = Backslash, s[i + 1] # 48
  PROVE  F[i] = <<Backslash>> \o F[i + 1]
<1>1. i \in 1 .. Len(s) + 1 /\ ~ (i > Len(s)) /\ ~ Escape(s, i)
  BY DEF Escape
<1>2. F[i] = DecodedFrom(F, s, i)
  BY <1>1, Zenon DEF IsDecoding
<1> QED BY <1>1, <1>2, Zenon DEF DecodedFrom

(* The escape of the space is decoded.                                        *)
LEMMA SpaceIsDecoded ==
  ASSUME NEW s \in Seq(Int), NEW F, IsDecoding(F, s), NEW i \in 1 .. Len(s), i + 3 \in 1 .. Len(s),
         s[i] = Backslash, s[i + 1] = 48, s[i + 2] = 52, s[i + 3] = 48
  PROVE  F[i] = <<Space>> \o F[i + 4]
<1>1. i \in 1 .. Len(s) + 1 /\ ~ (i > Len(s)) /\ Escape(s, i)
  BY DEF Escape, OctalDigit
<1>2. F[i] = DecodedFrom(F, s, i)
  BY <1>1, Zenon DEF IsDecoding
<1>3. 8 * (s[i + 2] - 48) + s[i + 3] - 48 = Space
  BY DEF Space
<1> QED BY <1>1, <1>2, <1>3, Zenon DEF DecodedFrom

(* What is read behind o, where the character c is written with q characters.   *)
ReadBehind(F, o, c, q) ==
  F[o + 1] = IF c = Backslash
             THEN <<Backslash>> \o (<<49>> \o (<<51>> \o (<<52>> \o F[o + q + 1])))
             ELSE <<c>> \o F[o + q + 1]

(* Where each character of a name is in the table.                            *)
LEMMA Mangles ==
  ASSUME NEW s \in Seq(Int), NEW F, IsDecoding(F, s), NEW c \in Int, NEW o \in Nat,
         NEW q \in Nat, q = Len(Mangle(c)), o + q <= Len(s),
         \A j \in 1 .. q : s[o + j] = Mangle(c)[j]
  PROVE  ReadBehind(F, o, c, q)
<1>1. CASE c \notin {Space, Backslash}
  <2>1. q = 1 /\ Mangle(c)[1] = c
    BY <1>1, MangledCharacter
  <2>2. s[o + 1] = c /\ o + 1 \in 1 .. Len(s) /\ (o + 1) + 1 = o + q + 1
    BY <2>1
  <2>3. F[o + 1] = <<s[o + 1]>> \o F[(o + 1) + 1]
    BY <1>1, <2>2, PlainIsDecoded
  <2> QED BY <1>1, <2>2, <2>3, Zenon DEF ReadBehind
<1>2. CASE c = Space
  <2>1. /\ q = 4 /\ Mangle(c)[1] = Backslash /\ Mangle(c)[2] = 48 /\ Mangle(c)[3] = 52
        /\ Mangle(c)[4] = 48
    BY <1>2, MangledCharacter
  <2>2. /\ o + 1 \in 1 .. Len(s) /\ (o + 1) + 3 \in 1 .. Len(s)
        /\ (o + 1) + 1 = o + 2 /\ (o + 1) + 2 = o + 3 /\ (o + 1) + 3 = o + 4
        /\ (o + 1) + 4 = o + q + 1
    BY <2>1
  <2>3. 1 \in 1 .. 4 /\ 2 \in 1 .. 4 /\ 3 \in 1 .. 4 /\ 4 \in 1 .. 4
    OBVIOUS
  <2>4. s[o + 1] = Backslash /\ s[o + 2] = 48 /\ s[o + 3] = 52 /\ s[o + 4] = 48
    BY <2>1, <2>3, Zenon
  <2>5. PICK i \in 1 .. Len(s) : i = o + 1
    BY <2>2
  <2>6. /\ i + 3 \in 1 .. Len(s)
        /\ s[i] = Backslash /\ s[i + 1] = 48 /\ s[i + 2] = 52 /\ s[i + 3] = 48
    BY <2>2, <2>4, <2>5, Zenon
  <2>7. F[i] = <<Space>> \o F[i + 4]
    BY ONLY <2>6, s \in Seq(Int), IsDecoding(F, s), i \in 1 .. Len(s), SpaceIsDecoded
  <2>8. c # Backslash
    BY <1>2 DEF Space, Backslash
  <2> QED BY <1>2, <2>2, <2>5, <2>7, <2>8, Zenon DEF ReadBehind
<1>3. CASE c = Backslash
  <2>1. /\ q = 4 /\ Mangle(c)[1] = Backslash /\ Mangle(c)[2] = 49 /\ Mangle(c)[3] = 51
        /\ Mangle(c)[4] = 52
    BY <1>3, MangledCharacter
  <2>2. /\ o + 1 \in 1 .. Len(s) /\ o + 2 \in 1 .. Len(s)
        /\ o + 3 \in 1 .. Len(s) /\ o + 4 \in 1 .. Len(s)
        /\ (o + 1) + 1 = o + 2 /\ (o + 2) + 1 = o + 3 /\ (o + 3) + 1 = o + 4
        /\ (o + 4) + 1 = o + q + 1
    <3>1. PICK L \in Nat : L = Len(s) /\ q = 4 /\ o + q <= L
      BY <2>1
    <3>2. /\ o + 1 \in 1 .. L /\ o + 2 \in 1 .. L /\ o + 3 \in 1 .. L /\ o + 4 \in 1 .. L
          /\ (o + 1) + 1 = o + 2 /\ (o + 2) + 1 = o + 3 /\ (o + 3) + 1 = o + 4
          /\ (o + 4) + 1 = o + q + 1
      BY ONLY <3>1, o \in Nat, q \in Nat, L \in Nat
    <3> QED BY <3>1, <3>2, Zenon
  <2>3. 1 \in 1 .. 4 /\ 2 \in 1 .. 4 /\ 3 \in 1 .. 4 /\ 4 \in 1 .. 4
    OBVIOUS
  <2>4. s[o + 1] = Backslash /\ s[o + 2] = 49 /\ s[o + 3] = 51 /\ s[o + 4] = 52
    BY <2>1, <2>3, Zenon
  <2>5. s[o + 2] # 48 /\ s[o + 2] # Backslash /\ s[o + 3] # Backslash /\ s[o + 4] # Backslash
    BY <2>4 DEF Backslash
  <2>6. F[o + 1] = <<Backslash>> \o F[(o + 1) + 1]
    <3>1. PICK i \in 1 .. Len(s) : i = o + 1
      BY <2>2
    <3>2. i + 1 \in 1 .. Len(s) /\ s[i + 1] # 48 /\ s[i] = Backslash
      BY <2>2, <2>4, <2>5, <3>1, Zenon
    <3>3. F[i] = <<Backslash>> \o F[i + 1]
      BY ONLY <3>2, s \in Seq(Int), IsDecoding(F, s), i \in 1 .. Len(s), BackslashIsKept
    <3> QED BY <3>1, <3>3, Zenon
  <2>7. F[o + 2] = <<s[o + 2]>> \o F[(o + 2) + 1]
    BY <2>2, <2>5, PlainIsDecoded
  <2>8. F[o + 3] = <<s[o + 3]>> \o F[(o + 3) + 1]
    BY <2>2, <2>5, PlainIsDecoded
  <2>9. F[o + 4] = <<s[o + 4]>> \o F[(o + 4) + 1]
    BY <2>2, <2>5, PlainIsDecoded
  <2>10. F[o + 4] = <<52>> \o F[o + q + 1]
    BY <2>2, <2>4, <2>9, Zenon
  <2>11. F[o + 3] = <<51>> \o (<<52>> \o F[o + q + 1])
    BY <2>2, <2>4, <2>8, <2>10, Zenon
  <2>12. F[o + 2] = <<49>> \o (<<51>> \o (<<52>> \o F[o + q + 1]))
    BY <2>2, <2>4, <2>7, <2>11, Zenon
  <2>13. F[o + 1] = <<Backslash>> \o (<<49>> \o (<<51>> \o (<<52>> \o F[o + q + 1])))
    BY <2>2, <2>6, <2>12, Zenon
  <2> QED BY <1>3, <2>13, Zenon DEF ReadBehind
<1> QED BY <1>1, <1>2, <1>3

(* r is what is read of the name from character k + 1 on.                      *)
IsRead(r, name, n, k) ==
  /\ r \in Seq(Int)
  /\ IF \E i \in k + 1 .. n : name[i] = Backslash THEN n - k < Len(r)
     ELSE Len(r) = n - k /\ \A j \in 1 .. n - k : r[j] = name[k + j]

(* From the last character to the first, what follows is decoded to what      *)
(* follows in the name.                                                       *)
LEMMA LiteralRead ==
  ASSUME NEW n \in Nat, NEW name \in Seq(Int), NEW k \in 1 .. n, NEW r, IsRead(r, name, n, k),
         NEW c \in Int, c = name[k], c # Backslash
  PROVE  IsRead(<<c>> \o r, name, n, k - 1)
<1>1. r \in Seq(Int) /\ Len(r) \in Nat
  BY DEF IsRead
<1>2. PICK p \in Nat : p = Len(r)
  BY <1>1
<1>3. PICK u : u = <<c>> \o r
  OBVIOUS
<1>4. u \in Seq(Int) /\ Len(u) = p + 1 /\ u[1] = c /\ \A j \in 1 .. p : u[j + 1] = r[j]
  BY <1>1, <1>2, <1>3
<1>5. \A i \in (k - 1) + 1 .. n : i = k \/ i \in k + 1 .. n
  OBVIOUS
<1>6. \A i \in k + 1 .. n : i \in (k - 1) + 1 .. n
  OBVIOUS
<1>7. (\E i \in (k - 1) + 1 .. n : name[i] = Backslash) <=> \E i \in k + 1 .. n : name[i] = Backslash
  BY <1>5, <1>6, Zenon
<1>8. CASE \E i \in k + 1 .. n : name[i] = Backslash
  <2>1. n - k < p
    BY <1>2, <1>8, Zenon DEF IsRead
  <2>2. n - (k - 1) < p + 1
    BY <2>1
  <2> QED BY <1>3, <1>4, <1>7, <1>8, <2>2, Zenon DEF IsRead
<1>9. CASE ~ \E i \in k + 1 .. n : name[i] = Backslash
  <2>1. p = n - k /\ \A j \in 1 .. n - k : r[j] = name[k + j]
    BY <1>2, <1>9, Zenon DEF IsRead
  <2>2. p + 1 = n - (k - 1)
    BY <2>1
  <2>3. ASSUME NEW j \in 1 .. n - (k - 1) PROVE u[j] = name[(k - 1) + j]
    <3>1. CASE j = 1
      <4>1. (k - 1) + j = k
        BY <3>1
      <4> QED BY <1>4, <3>1, <4>1, Zenon
    <3>2. CASE j # 1
      <4>1. PICK i \in 1 .. n - k : j = i + 1
        <5>1. j - 1 \in 1 .. n - k /\ j = (j - 1) + 1
          BY <3>2
        <5> QED BY <5>1
      <4>2. (k - 1) + j = k + i /\ i \in 1 .. p
        BY <2>1, <4>1
      <4> QED BY <1>4, <2>1, <4>1, <4>2, Zenon
    <3> QED BY <3>1, <3>2
  <2> QED BY <1>3, <1>4, <1>7, <1>9, <2>2, <2>3, Zenon DEF IsRead
<1> QED BY <1>8, <1>9

(* But a backslash is kept together with its digits, and the result is longer *)
(* than the name.                                                             *)
LEMMA BackslashRead ==
  ASSUME NEW n \in Nat, NEW name \in Seq(Int), NEW k \in 1 .. n, NEW r, IsRead(r, name, n, k),
         name[k] = Backslash
  PROVE  IsRead(<<Backslash>> \o (<<49>> \o (<<51>> \o (<<52>> \o r))), name, n, k - 1)
<1>1. PICK b \in Int : b = Backslash
  BY DEF Backslash
<1>2. r \in Seq(Int) /\ Len(r) \in Nat /\ n - k <= Len(r)
  <2>1. r \in Seq(Int)
    BY DEF IsRead
  <2>2. n - k < Len(r) \/ n - k = Len(r)
    BY Zenon DEF IsRead
  <2>3. Len(r) \in Nat
    BY <2>1
  <2> QED BY <2>1, <2>2, <2>3
<1>3. PICK u : u = <<b>> \o (<<49>> \o (<<51>> \o (<<52>> \o r)))
  OBVIOUS
<1>4. u \in Seq(Int) /\ Len(u) = Len(r) + 4
  <2>1. PICK t, v, w : t = <<52>> \o r /\ v = <<51>> \o t /\ w = <<49>> \o v
    OBVIOUS
  <2>2. t \in Seq(Int) /\ Len(t) = Len(r) + 1
    BY <1>2, <2>1
  <2>3. v \in Seq(Int) /\ Len(v) = Len(t) + 1
    BY <2>1, <2>2
  <2>7. w \in Seq(Int) /\ Len(w) = Len(v) + 1
    BY <2>1, <2>3
  <2>4. u = <<b>> \o w
    BY <1>3, <2>1, Zenon
  <2>5. u \in Seq(Int) /\ Len(u) = Len(w) + 1
    BY <2>4, <2>7
  <2>6. Len(u) = Len(r) + 4
    BY ONLY <1>2, <2>2, <2>3, <2>5, <2>7
  <2> QED BY <2>5, <2>6
<1>5. n - (k - 1) < Len(u)
  BY ONLY <1>2, <1>4, n \in Nat, k \in 1 .. n
<1>6. k \in (k - 1) + 1 .. n
  OBVIOUS
<1> QED BY <1>1, <1>3, <1>4, <1>5, <1>6, Zenon DEF IsRead

(* The decoder gives the name back exactly when it has no backslash.           *)
LEMMA ManglingIsDecoded ==
  ASSUME NEW name \in Seq(Int)
  PROVE  /\ DecodeMountPath(Mangled(name)) \in Seq(Int)
         /\ DecodeMountPath(Mangled(name)) = name
              <=> ~ \E i \in 1 .. Len(name) : name[i] = Backslash
<1>1. PICK n \in Nat : n = Len(name)
  OBVIOUS
<1>2. PICK parts : parts = [i \in 1 .. n |-> Mangle(name[i])]
  OBVIOUS
<1>3. DOMAIN name = 1 .. n /\ \A i \in 1 .. n : name[i] \in Int
  BY <1>1
<1>4. parts \in [1 .. n -> Seq(Int)] /\ \A i \in 1 .. n : parts[i] = Mangle(name[i])
  <2>1. \A i \in 1 .. n : Mangle(name[i]) \in Seq(Int)
    BY <1>3, MangledCharacter
  <2> QED BY <1>2, <2>1
<1>5. PICK s : s = FlattenSeq(parts)
  OBVIOUS
<1>6. s = Mangled(name)
  BY <1>2, <1>3, <1>5, Zenon DEF Mangled, Mangle
<1>7. PICK off : PartsAt(s, parts, n, off)
  BY <1>4, <1>5, PartsFound
<1>8. /\ s \in Seq(Int) /\ off \in [0 .. n -> Nat] /\ off[0] = 0 /\ off[n] = Len(s)
      /\ \A k \in 1 .. n : off[k] = off[k - 1] + Len(parts[k])
      /\ \A k \in 1 .. n : \A j \in 1 .. Len(parts[k]) : s[off[k - 1] + j] = parts[k][j]
      /\ \A k, m \in 0 .. n : k < m => off[k] <= off[m]
  BY <1>7, Zenon DEF PartsAt
<1>9. PICK F : IsDecoding(F, s) /\ DecodeMountPath(s) = F[1]
  BY <1>8, DecodedIs
<1> DEFINE Right(k) == IsRead(F[off[k] + 1], name, n, k)
<1>10. Right(n)
  <2>1. PICK L \in Nat : L = Len(s)
    BY <1>8
  <2>2. L + 1 \in 1 .. L + 1 /\ L + 1 > L
    OBVIOUS
  <2>3. F[L + 1] = <<>>
    BY <1>9, <2>1, <2>2, Zenon DEF IsDecoding, DecodedFrom
  <2>4. PICK e : e = <<>>
    OBVIOUS
  <2>5. e \in Seq(Int) /\ Len(e) = 0 /\ n - n = 0 /\ n + 1 .. n = {} /\ 1 .. 0 = {}
    BY <2>4
  <2>6. IsRead(e, name, n, n)
    BY <2>5 DEF IsRead
  <2> QED BY <1>8, <2>1, <2>3, <2>4, <2>6, Zenon
<1>11. ASSUME NEW k \in 1 .. n, Right(k) PROVE Right(k - 1)
  <2>1. PICK c \in Int : c = name[k]
    BY <1>3
  <2>2. k - 1 \in 0 .. n /\ k \in 0 .. n /\ n \in 0 .. n
    OBVIOUS
  <2>3. PICK o \in Nat, q \in Nat : o = off[k - 1] /\ q = Len(Mangle(c))
    <3>1. off[k - 1] \in Nat
      BY <1>8, <2>2
    <3>2. Len(Mangle(c)) \in Nat
      BY MangledCharacter
    <3> QED BY <3>1, <3>2
  <2>4. parts[k] = Mangle(c) /\ off[k] = o + q
    BY <1>4, <1>8, <2>1, <2>3, Zenon
  <2>5. o + q <= Len(s)
    <3>1. k = n \/ k < n
      OBVIOUS
    <3>2. off[k] = off[n] \/ off[k] <= off[n]
      BY <1>8, <2>2, <3>1, Zenon
    <3>3. o + q = Len(s) \/ o + q <= Len(s)
      BY <1>8, <2>4, <3>2, Zenon
    <3>4. Len(s) \in Nat
      BY <1>8
    <3> QED BY ONLY <3>3, <3>4
  <2>6. \A j \in 1 .. q : s[o + j] = Mangle(c)[j]
    BY <1>8, <2>3, <2>4, Zenon
  <2>12. ReadBehind(F, o, c, q)
    <3>1. s \in Seq(Int) /\ IsDecoding(F, s) /\ q = Len(Mangle(c))
      BY <1>8, <1>9, <2>3, Zenon
    <3> QED BY ONLY <2>5, <2>6, <3>1, c \in Int, o \in Nat, q \in Nat, Mangles
  <2>7. F[o + 1] = IF c = Backslash
                   THEN <<Backslash>> \o (<<49>> \o (<<51>> \o (<<52>> \o F[o + q + 1])))
                   ELSE <<c>> \o F[o + q + 1]
    BY <2>12, Zenon DEF ReadBehind
  <2>8. PICK r : r = F[o + q + 1]
    OBVIOUS
  <2>9. IsRead(r, name, n, k)
    BY <1>11, <2>4, <2>8, Zenon
  <2>10. CASE c = Backslash
    <3>1. IsRead(<<Backslash>> \o (<<49>> \o (<<51>> \o (<<52>> \o r))), name, n, k - 1)
      BY <2>1, <2>9, <2>10, BackslashRead
    <3> QED BY <2>3, <2>7, <2>8, <2>10, <3>1, Zenon
  <2>11. CASE c # Backslash
    <3>1. IsRead(<<c>> \o r, name, n, k - 1)
      BY <2>1, <2>9, <2>11, LiteralRead
    <3> QED BY <2>3, <2>7, <2>8, <2>11, <3>1, Zenon
  <2> QED BY <2>10, <2>11
<1> HIDE DEF Right
<1>12. Right(0)
  <2> DEFINE S == {m \in 1 .. n + 1 : Right(n + 1 - m)}
  <2>1. PICK N \in Nat : N = n + 1
    OBVIOUS
  <2>2. n + 1 - 1 = n /\ 1 \in 1 .. n + 1 /\ n + 1 - (n + 1) = 0 /\ n + 1 \in 1 .. n + 1
    OBVIOUS
  <2>3. 1 \in S
    BY <1>10, <2>2, Zenon
  <2>4. ASSUME NEW m \in 1 .. n + 1, m < n + 1, m \in S PROVE m + 1 \in S
    <3>1. PICK k \in 1 .. n : k = n + 1 - m
      BY <2>4
    <3>2. k - 1 = n + 1 - (m + 1) /\ m + 1 \in 1 .. n + 1
      BY <2>4, <3>1
    <3>3. Right(k)
      BY <2>4, <3>1, Zenon
    <3>4. Right(k - 1)
      BY <1>11, <3>3
    <3> QED BY <3>2, <3>4, Zenon
  <2>5. n + 1 \in S
    <3> HIDE DEF S
    <3>1. \A m \in 1 .. N : m < N /\ m \in S => m + 1 \in S
      BY <2>1, <2>4, Zenon
    <3>2. N \in 1 .. N
      BY <2>1
    <3>3. N \in S
      BY <2>3, <3>1, <3>2, SmallestCounterexample
    <3> QED BY <2>1, <3>3, Zenon
  <2> QED BY <2>2, <2>5, Zenon
<1>13. PICK d : d = F[1]
  OBVIOUS
<1>14. IsRead(d, name, n, 0)
  <2>1. 0 + 1 = 1
    OBVIOUS
  <2> QED BY <1>8, <1>12, <1>13, <2>1, Zenon DEF Right
<1>15. /\ d \in Seq(Int)
       /\ IF \E i \in 1 .. n : name[i] = Backslash THEN n < Len(d)
          ELSE Len(d) = n /\ \A j \in 1 .. n : d[j] = name[j]
  <2>1. 0 + 1 = 1 /\ n - 0 = n /\ \A j \in 1 .. n : 0 + j = j
    OBVIOUS
  <2> QED BY <1>14, <2>1, Zenon DEF IsRead
<1>16. CASE \E i \in 1 .. n : name[i] = Backslash
  <2>1. n < Len(d)
    BY <1>15, <1>16, Zenon
  <2>2. d # name
    BY <1>1, <2>1
  <2> QED BY <1>1, <1>6, <1>9, <1>13, <1>15, <1>16, <2>2, Zenon
<1>17. CASE ~ \E i \in 1 .. n : name[i] = Backslash
  <2>1. Len(d) = Len(name) /\ \A j \in 1 .. Len(d) : d[j] = name[j]
    BY <1>1, <1>15, <1>17, Zenon
  <2>2. d = name
    BY <1>15, <2>1, SeqEqual, Zenon
  <2> QED BY <1>1, <1>6, <1>9, <1>13, <1>15, <1>17, <2>2, Zenon
<1> QED BY <1>16, <1>17
--------------------------------------------------------------------------------
(* A line of the mount table has the mangled names as its words.               *)
IsWord(w) == w \in Seq(Int) /\ Len(w) # 0 /\ \A j \in 1 .. Len(w) : w[j] \notin Blank

(* A name without other blanks than spaces is one word in the table.          *)
LEMMA MangledIsWord ==
  ASSUME NEW name \in Seq(Int), Len(name) # 0, \A j \in 1 .. Len(name) : name[j] \notin Blank \ {Space}
  PROVE  IsWord(Mangled(name))
<1>1. PICK n \in Nat : n = Len(name)
  OBVIOUS
<1>2. PICK parts : parts = [i \in 1 .. n |-> Mangle(name[i])]
  OBVIOUS
<1>3. DOMAIN name = 1 .. n /\ \A i \in 1 .. n : name[i] \in Int
  BY <1>1
<1>4. parts \in [1 .. n -> Seq(Int)] /\ \A i \in 1 .. n : parts[i] = Mangle(name[i])
  <2>1. \A i \in 1 .. n : Mangle(name[i]) \in Seq(Int)
    BY <1>3, MangledCharacter
  <2> QED BY <1>2, <2>1
<1>5. PICK s : s = FlattenSeq(parts)
  OBVIOUS
<1>6. s = Mangled(name)
  BY <1>2, <1>3, <1>5, Zenon DEF Mangled, Mangle
<1>7. PICK off : PartsAt(s, parts, n, off)
  BY <1>4, <1>5, PartsFound
<1>8. /\ s \in Seq(Int) /\ off \in [0 .. n -> Nat] /\ off[0] = 0 /\ off[n] = Len(s)
      /\ \A k \in 1 .. n : off[k] = off[k - 1] + Len(parts[k])
      /\ \A k \in 1 .. n : \A j \in 1 .. Len(parts[k]) : s[off[k - 1] + j] = parts[k][j]
      /\ \A k, m \in 0 .. n : k < m => off[k] <= off[m]
      /\ \A i \in 1 .. Len(s) : \E k \in 1 .. n : \E j \in 1 .. Len(parts[k]) : i = off[k - 1] + j
  BY <1>7, Zenon DEF PartsAt
<1>9. ASSUME NEW c \in Int, c \notin Blank \ {Space}, NEW j \in 1 .. Len(Mangle(c))
      PROVE  Mangle(c)[j] \notin Blank
  <2>1. PICK q \in Nat : q = Len(Mangle(c))
    BY MangledCharacter
  <2>2. CASE c \notin {Space, Backslash}
    <3>1. q = 1 /\ Mangle(c)[1] = c
      BY <2>1, <2>2, MangledCharacter
    <3>2. j = 1
      BY <1>9, <2>1, <3>1
    <3>3. c \notin Blank
      BY <1>9, <2>2, Zenon
    <3> QED BY <3>1, <3>2, <3>3, Zenon
  <2>3. CASE c \in {Space, Backslash}
    <3>1. /\ q = 4 /\ Mangle(c)[1] = 92
          /\ c = Space => Mangle(c)[2] = 48 /\ Mangle(c)[3] = 52 /\ Mangle(c)[4] = 48
          /\ c = Backslash => Mangle(c)[2] = 49 /\ Mangle(c)[3] = 51 /\ Mangle(c)[4] = 52
      BY <2>1, <2>3, MangledCharacter DEF Backslash
    <3>2. j = 1 \/ j = 2 \/ j = 3 \/ j = 4
      BY <1>9, <2>1, <3>1
    <3>3. Mangle(c)[j] \in {92, 48, 49, 51, 52}
      <4>1. PICK m : m = Mangle(c)
        OBVIOUS
      <4>2. /\ m[1] \in {92, 48, 49, 51, 52} /\ m[2] \in {92, 48, 49, 51, 52}
            /\ m[3] \in {92, 48, 49, 51, 52} /\ m[4] \in {92, 48, 49, 51, 52}
        BY <2>3, <3>1, <4>1
      <4> QED BY <3>2, <4>1, <4>2, Zenon
    <3>4. 92 \notin Blank /\ 48 \notin Blank /\ 49 \notin Blank /\ 51 \notin Blank /\ 52 \notin Blank
      BY DEF Blank, Tab, Newline, Space
    <3> QED BY <3>3, <3>4, Zenon
  <2> QED BY <2>2, <2>3
<1>10. ASSUME NEW i \in 1 .. Len(s) PROVE s[i] \notin Blank
  <2>1. PICK k \in 1 .. n : \E j \in 1 .. Len(parts[k]) : i = off[k - 1] + j
    BY <1>8, Zenon
  <2>2. PICK j \in 1 .. Len(parts[k]) : i = off[k - 1] + j
    BY <2>1, Zenon
  <2>3. parts[k] = Mangle(name[k])
    BY <1>4, Zenon
  <2>4. s[i] = Mangle(name[k])[j] /\ j \in 1 .. Len(Mangle(name[k]))
    BY <1>8, <2>2, <2>3, Zenon
  <2>5. PICK c \in Int : c = name[k]
    BY <1>3, Zenon
  <2>6. c \notin Blank \ {Space}
    BY <1>1, <2>5, Zenon
  <2> QED BY <1>9, <2>4, <2>5, <2>6, Zenon
<1>11. Len(s) # 0
  <2>1. 1 \in 1 .. n /\ 0 \in 0 .. n /\ 1 \in 0 .. n /\ n \in 0 .. n /\ 1 - 1 = 0 /\ (1 < n \/ n = 1)
    BY <1>1
  <2>2. PICK q : q = Len(parts[1])
    OBVIOUS
  <2>3. q \in Nat /\ q # 0
    <3>1. PICK c \in Int : c = name[1]
      BY <1>3, <2>1
    <3>2. q = Len(Mangle(c))
      BY <1>4, <2>1, <2>2, <3>1, Zenon
    <3>3. Len(Mangle(c)) = 1 \/ Len(Mangle(c)) = 4
      BY MangledCharacter
    <3> QED BY ONLY <3>2, <3>3
  <2>4. off[1] = off[0] + q /\ off[0] = 0
    BY <1>8, <2>1, <2>2, Zenon
  <2>5. off[1] <= off[n] \/ off[1] = off[n]
    BY <1>8, <2>1, Zenon
  <2>6. off[n] \in Nat /\ off[1] \in Nat /\ Len(s) = off[n]
    BY <1>8, <2>1
  <2> QED BY ONLY <2>3, <2>4, <2>5, <2>6
<1> QED BY <1>6, <1>8, <1>10, <1>11, Zenon DEF IsWord

(* An empty name is written as nothing.                                       *)
LEMMA NothingMangled ==
  ASSUME NEW name \in Seq(Int), Len(name) = 0
  PROVE  Mangled(name) = <<>>
<1>1. name = <<>>
  OBVIOUS
<1> QED BY <1>1 DEF Mangled, FlattenSeq

(* One word is the words of itself.                                           *)
LEMMA FirstWord ==
  ASSUME NEW w, IsWord(w)
  PROVE  HasWords(w, <<w>>)
<1>1. PICK e : e = <<>>
  OBVIOUS
<1>2. PICK u, vs : u = e \o w /\ vs = Append(e, w)
  OBVIOUS
<1>3. HasWords(e, e) /\ Len(e) = 0
  BY <1>1, NoWord
<1>4. w \in Seq(Int) /\ Len(w) # 0 /\ \A j \in 1 .. Len(w) : w[j] \notin Blank
  BY Zenon DEF IsWord
<1>5. HasWords(e \o w, Append(e, w))
  BY ONLY <1>3, <1>4, WordBehind
<1>6. u = w /\ vs = <<w>>
  BY <1>1, <1>2, <1>4
<1> QED BY <1>2, <1>5, <1>6, Zenon

(* A word behind a space is the next.                                         *)
LEMMA NextWord ==
  ASSUME NEW s, NEW ws, HasWords(s, ws), NEW w, IsWord(w)
  PROVE  HasWords((s \o <<Space>>) \o w, Append(ws, w))
<1>1. PICK g : g = <<Space>>
  OBVIOUS
<1>2. g \in Seq(Int) /\ Len(g) = 1 /\ g[1] \in Blank /\ \A j \in 1 .. Len(g) : g[j] \in Blank
  BY <1>1 DEF Space, Blank
<1>3. HasWords(s \o g, ws)
  BY ONLY <1>2, HasWords(s, ws), BlanksBehind
<1>4. s \in Seq(Int)
  BY Zenon DEF HasWords, WordsAt
<1>5. PICK u : u = s \o g
  OBVIOUS
<1>6. u[Len(u)] = g[1]
  <2>1. PICK p \in Nat : p = Len(s)
    BY <1>4
  <2>2. IsJoined(s \o g, s, p, g, 1)
    BY ONLY <1>2, <1>4, <2>1, JoinedAt
  <2>3. Len(u) = p + 1 /\ \A j \in 1 .. 1 : u[p + j] = g[j]
    BY <1>5, <2>2, Zenon DEF IsJoined
  <2>4. 1 \in 1 .. 1
    OBVIOUS
  <2> QED BY <2>3, <2>4, Zenon
<1>7. w \in Seq(Int) /\ Len(w) # 0 /\ \A j \in 1 .. Len(w) : w[j] \notin Blank
  BY Zenon DEF IsWord
<1>8. HasWords(u, ws) /\ u[Len(u)] \in Blank
  BY <1>2, <1>3, <1>5, <1>6, Zenon
<1>9. HasWords(u \o w, Append(ws, w))
  BY ONLY <1>7, <1>8, WordBehind
<1> QED BY <1>1, <1>5, <1>9, Zenon

FirstWords(s, x, y, z) ==
  s \in Seq(Int) /\ \E ws \in Seq(Seq(Int)) : /\ HasWords(s, ws)
                       /\ Len(ws) >= 3 /\ ws[1] = x /\ ws[2] = y /\ ws[3] = z

(* What follows leaves the first three words as they are.                     *)
LEMMA WordAfter ==
  ASSUME NEW s, NEW x, NEW y, NEW z, FirstWords(s, x, y, z), NEW w, IsWord(w)
  PROVE  FirstWords((s \o <<Space>>) \o w, x, y, z)
<1>1. PICK ws \in Seq(Seq(Int)) : HasWords(s, ws) /\ Len(ws) >= 3 /\ ws[1] = x /\ ws[2] = y /\ ws[3] = z
  BY Zenon DEF FirstWords
<1>2. PICK u, vs : u = (s \o <<Space>>) \o w /\ vs = Append(ws, w)
  OBVIOUS
<1>3. HasWords(u, vs)
  BY <1>1, <1>2, NextWord, Zenon
<1>4. u \in Seq(Int) /\ vs \in Seq(Seq(Int))
  BY <1>3, Zenon DEF HasWords, WordsAt
<1>5. w \in Seq(Int)
  BY Zenon DEF IsWord
<1>6. Len(vs) >= 3 /\ vs[1] = x /\ vs[2] = y /\ vs[3] = z
  BY ONLY <1>1, <1>2, <1>5
<1>7. FirstWords(u, x, y, z)
  BY <1>3, <1>4, <1>6, Zenon DEF FirstWords
<1> QED BY <1>2, <1>7, Zenon

(* A text of three words has them.                                            *)
LEMMA ThreeWords ==
  ASSUME NEW s, NEW x \in Seq(Int), NEW y \in Seq(Int), NEW z \in Seq(Int), HasWords(s, Append(Append(<<x>>, y), z))
  PROVE  FirstWords(s, x, y, z)
<1>1. PICK us, vs, ws : us = <<x>> /\ vs = Append(us, y) /\ ws = Append(vs, z)
  OBVIOUS
<1>5. us \in Seq(Seq(Int)) /\ Len(us) = 1 /\ us[1] = x
  BY <1>1
<1>6. vs \in Seq(Seq(Int)) /\ Len(vs) = 2 /\ vs[1] = x /\ vs[2] = y
  BY <1>1, <1>5
<1>2. ws \in Seq(Seq(Int)) /\ Len(ws) >= 3 /\ ws[1] = x /\ ws[2] = y /\ ws[3] = z
  BY <1>1, <1>6
<1>3. HasWords(s, ws)
  BY <1>1, Zenon
<1>4. s \in Seq(Int)
  BY <1>3, Zenon DEF HasWords, WordsAt
<1> QED BY <1>2, <1>3, <1>4, Zenon DEF FirstWords

(* operator>> returns them.                                                   *)
LEMMA FirstWordsFound ==
  ASSUME NEW s, NEW x, NEW y, NEW z, FirstWords(s, x, y, z)
  PROVE  Words(s)[1] = x /\ Words(s)[2] = y /\ Words(s)[3] = z
BY WordsFound, Zenon DEF FirstWords

(* It does not matter which of three texts are joined first.                  *)
LEMMA JoinedTwice ==
  ASSUME NEW s \in Seq(Int), NEW t \in Seq(Int), NEW u \in Seq(Int)
  PROVE  s \o (t \o u) = (s \o t) \o u
OBVIOUS

(* Two characters are one behind the other.                                   *)
LEMMA PairIs ==
  ASSUME NEW a \in Int, NEW b \in Int
  PROVE  <<a, b>> = <<a>> \o <<b>>
<1>1. PICK t, u, v, w : t = <<a>> /\ u = <<b>> /\ v = t \o u /\ w = <<a, b>>
  OBVIOUS
<1>2. t \in Seq(Int) /\ u \in Seq(Int) /\ Len(t) = 1 /\ Len(u) = 1 /\ t[1] = a /\ u[1] = b
  BY <1>1
<1>3. IsJoined(v, t, 1, u, 1)
  BY ONLY <1>1, <1>2, JoinedAt
<1>4. v \in Seq(Int) /\ Len(v) = 2 /\ v[1] = a /\ v[2] = b
  BY <1>2, <1>3 DEF IsJoined
<1>5. w \in Seq(Int) /\ Len(w) = 2 /\ w[1] = a /\ w[2] = b
  BY <1>1
<1>6. Len(v) = Len(w) /\ \A j \in 1 .. Len(v) : v[j] = w[j]
  BY ONLY <1>4, <1>5
<1>7. v = w
  BY <1>4, <1>5, <1>6, SeqEqual, Zenon
<1> QED BY <1>1, <1>7, Zenon

(* Nor does it for what stands at the end of each line of the mount table.    *)
LEMMA SixAre == <<Space, A, Space, 48, Space, 48>> = <<Space, A>> \o <<Space, 48, Space, 48>>
BY DEF Space, A

(* Nor for four characters.                                                   *)
LEMMA FourAre ==
  ASSUME NEW c \in Int, NEW d \in Int, NEW e \in Int, NEW f \in Int
  PROVE  <<c, d, e, f>> = <<c, d>> \o <<e, f>>
OBVIOUS

(* Two characters behind a text are one behind the other.                     *)
LEMMA PairBehind ==
  ASSUME NEW s \in Seq(Int), NEW a \in Int, NEW b \in Int
  PROVE  s \o <<a, b>> = (s \o <<a>>) \o <<b>>
<1>1. PICK t, u : t = <<a>> /\ u = <<b>>
  OBVIOUS
<1>2. t \in Seq(Int) /\ u \in Seq(Int)
  BY <1>1
<1>3. s \o (t \o u) = (s \o t) \o u
  BY ONLY <1>2, s \in Seq(Int), JoinedTwice
<1>4. <<a, b>> = t \o u
  BY <1>1, PairIs, Zenon
<1> QED BY <1>1, <1>3, <1>4, Zenon

(* What the kernel writes behind the type of a file system.                    *)
LEMMA TailBehind ==
  ASSUME NEW s \in Seq(Int)
  PROVE  s \o <<Space, A, Space, 48, Space, 48>>
           = (((((s \o <<Space>>) \o <<A>>) \o <<Space>>) \o <<48>>) \o <<Space>>) \o <<48>>
<1>1. PICK t, u, v, w : /\ t = <<Space, A>> /\ u = <<Space, 48>> /\ v = <<Space, 48>>
                        /\ w = <<Space, 48, Space, 48>>
  OBVIOUS
<1>2. t \in Seq(Int) /\ u \in Seq(Int) /\ v \in Seq(Int) /\ w \in Seq(Int)
  BY <1>1 DEF Space, A
<1>3. Space \in Int /\ A \in Int /\ 48 \in Int
  BY DEF Space, A
<1>4. w = u \o v
  BY <1>1, <1>3, FourAre, Zenon
<1>5. <<Space, A, Space, 48, Space, 48>> = t \o w
  BY <1>1, <1>3, SixAre, Zenon
<1>6. s \o (t \o w) = (s \o t) \o w
  BY ONLY <1>2, s \in Seq(Int), JoinedTwice
<1>7. PICK r : r = s \o t
  OBVIOUS
<1>8. r \in Seq(Int)
  BY <1>2, <1>7
<1>9. r \o (u \o v) = (r \o u) \o v
  BY ONLY <1>2, <1>8, JoinedTwice
<1>10. PICK q : q = r \o u
  OBVIOUS
<1>11. q \in Seq(Int)
  BY <1>2, <1>8, <1>10
<1>12. r = (s \o <<Space>>) \o <<A>>
  BY <1>1, <1>3, <1>7, PairBehind, Zenon
<1>13. q = (r \o <<Space>>) \o <<48>>
  BY <1>1, <1>3, <1>8, <1>10, PairBehind, Zenon
<1>14. q \o v = (q \o <<Space>>) \o <<48>>
  BY <1>1, <1>3, <1>11, PairBehind, Zenon
<1> QED BY <1>4, <1>5, <1>6, <1>7, <1>9, <1>10, <1>12, <1>13, <1>14, Zenon

(* The words of one character that the table has.                             *)
LEMMA SmallWords == IsWord(<<A>>) /\ IsWord(<<48>>) /\ IsWord(<<80>>)
BY DEF IsWord, A, Blank, Tab, Newline, Space

LineOf(d, p, t) == (((d \o <<Space>>) \o p) \o <<Space>>) \o t

(* A line with a device, and one without.                                      *)
LEMMA LineWords ==
  ASSUME NEW d, IsWord(d), NEW p, IsWord(p), NEW t, IsWord(t)
  PROVE  FirstWords(LineOf(d, p, t) \o <<Space, A, Space, 48, Space, 48>>, d, p, t)
<1>1. d \in Seq(Int) /\ p \in Seq(Int) /\ t \in Seq(Int)
  BY Zenon DEF IsWord
<1>2. PICK r : r = (d \o <<Space>>) \o p
  OBVIOUS
<1>3. HasWords(r, Append(<<d>>, p))
  <2>1. HasWords(d, <<d>>)
    BY FirstWord, Zenon
  <2>2. HasWords(r, Append(<<d>>, p))
    BY <1>2, <2>1, NextWord, Zenon
  <2> QED BY <2>2, Zenon
<1>4. PICK s : s = (r \o <<Space>>) \o t
  OBVIOUS
<1>5. HasWords(s, Append(Append(<<d>>, p), t))
  <2>1. HasWords(s, Append(Append(<<d>>, p), t))
    BY <1>3, <1>4, NextWord, Zenon
  <2> QED BY <2>1, Zenon
<1>6. FirstWords(s, d, p, t)
  BY <1>1, <1>5, ThreeWords, Zenon
<1>7. s \in Seq(Int)
  BY <1>6, Zenon DEF FirstWords
<1>8. FirstWords((((((s \o <<Space>>) \o <<A>>) \o <<Space>>) \o <<48>>) \o <<Space>>) \o <<48>>, d, p, t)
  BY <1>6, SmallWords, WordAfter, Zenon
<1>9. s = LineOf(d, p, t)
  BY <1>2, <1>4, Zenon DEF LineOf
<1> QED BY <1>7, <1>8, <1>9, TailBehind, Zenon

(* The same line without a device has its words one to the left.               *)
LEMMA ShortLineWords ==
  ASSUME NEW d, d = <<>>, NEW p, IsWord(p), NEW t, IsWord(t)
  PROVE  FirstWords(LineOf(d, p, t) \o <<Space, A, Space, 48, Space, 48>>, p, t, <<A>>)
<1>1. p \in Seq(Int) /\ t \in Seq(Int) /\ <<A>> \in Seq(Int)
  BY SmallWords, Zenon DEF IsWord
<1>2. PICK g : g = d \o <<Space>>
  OBVIOUS
<1>3. g = <<Space>> /\ g \in Seq(Int) /\ Len(g) = 1 /\ g[1] \in Blank /\ g[Len(g)] \in Blank
      /\ \A j \in 1 .. Len(g) : g[j] \in Blank
  BY <1>2 DEF Space, Blank
<1>4. HasWords(g, d)
  <2>1. HasWords(d, d)
    BY NoWord, Zenon
  <2>2. HasWords(d \o g, d)
    BY ONLY <1>3, <2>1, BlanksBehind
  <2> QED BY <1>2, <1>3, <2>2, Zenon
<1>5. PICK r : r = g \o p
  OBVIOUS
<1>6. HasWords(r, <<p>>)
  <2>1. p \in Seq(Int) /\ Len(p) # 0 /\ \A j \in 1 .. Len(p) : p[j] \notin Blank
    BY Zenon DEF IsWord
  <2>2. HasWords(g \o p, Append(d, p))
    BY ONLY <1>3, <1>4, <2>1, WordBehind
  <2>3. Append(d, p) = <<p>>
    BY <1>1
  <2> QED BY <1>5, <2>2, <2>3, Zenon
<1>7. PICK s : s = (r \o <<Space>>) \o t
  OBVIOUS
<1>8. HasWords(s, Append(<<p>>, t))
  <2>1. HasWords(s, Append(<<p>>, t))
    BY <1>6, <1>7, NextWord, Zenon
  <2> QED BY <2>1, Zenon
<1>9. PICK u : u = (s \o <<Space>>) \o <<A>>
  OBVIOUS
<1>10. HasWords(u, Append(Append(<<p>>, t), <<A>>))
  <2>1. HasWords(u, Append(Append(<<p>>, t), <<A>>))
    BY <1>8, <1>9, SmallWords, NextWord, Zenon
  <2> QED BY <2>1, Zenon
<1>11. FirstWords(u, p, t, <<A>>)
  BY <1>1, <1>10, ThreeWords, Zenon
<1>12. s \in Seq(Int)
  BY <1>8, Zenon DEF HasWords, WordsAt
<1>13. FirstWords((((u \o <<Space>>) \o <<48>>) \o <<Space>>) \o <<48>>, p, t, <<A>>)
  BY <1>11, SmallWords, WordAfter, Zenon
<1>14. s = LineOf(d, p, t)
  BY <1>2, <1>5, <1>7, Zenon DEF LineOf
<1> QED BY <1>9, <1>12, <1>13, <1>14, TailBehind, Zenon
--------------------------------------------------------------------------------
(* One part is the whole text.                                                 *)
LEMMA OnePart ==
  ASSUME NEW w \in Seq(Int), NEW parts, parts = [k \in 1 .. 1 |-> w]
  PROVE  FlattenSeq(parts) = w
<1>1. PICK s : s = FlattenSeq(parts)
  OBVIOUS
<1>2. parts \in [1 .. 1 -> Seq(Int)] /\ parts[1] = w /\ 1 \in Nat /\ 1 \in 1 .. 1 /\ 1 - 1 = 0
  OBVIOUS
<1>3. PICK off : PartsAt(s, parts, 1, off)
  BY <1>1, <1>2, PartsFound
<1>4. PICK o : o = off[0]
  OBVIOUS
<1>5. /\ s \in Seq(Int) /\ o = 0 /\ off[1] = Len(s) /\ off[1] = o + Len(w)
      /\ \A j \in 1 .. Len(w) : s[o + j] = w[j]
  BY <1>2, <1>3, <1>4, Zenon DEF PartsAt
<1>6. Len(s) = Len(w) /\ \A j \in 1 .. Len(s) : s[j] = w[j]
  BY <1>5
<1>7. s = w
  BY <1>5, <1>6, SeqEqual, Zenon
<1> QED BY <1>1, <1>7, Zenon

(* A file of one line.                                                         *)
LEMMA OneLine ==
  ASSUME NEW l \in Seq(Int), \A j \in 1 .. Len(l) : l[j] # Newline
  PROVE  DOMAIN GetLines(l \o <<Newline>>, Newline) = 1 .. 1
           /\ GetLines(l \o <<Newline>>, Newline)[1] = l
<1>1. PICK ls, parts, s : /\ ls = [k \in 1 .. 1 |-> l] /\ s = l \o <<Newline>>
                          /\ parts = [k \in 1 .. 1 |-> s]
  OBVIOUS
<1>2. s \in Seq(Int) /\ 1 \in Nat /\ 1 \in 1 .. 1
  BY <1>1 DEF Newline
<1>3. FlattenSeq(parts) = s
  BY <1>1, <1>2, OnePart
<1>4. [k \in 1 .. 1 |-> ls[k] \o <<Newline>>] = parts
  BY <1>1
<1>5. FileOf(ls, 1) = s
  BY <1>3, <1>4, Zenon DEF FileOf
<1>6. ls \in [1 .. 1 -> Seq(Int)] /\ \A k \in 1 .. 1 : \A j \in 1 .. Len(ls[k]) : ls[k][j] # Newline
  BY <1>1
<1>7. /\ DOMAIN GetLines(FileOf(ls, 1), Newline) = 1 .. 1
      /\ \A k \in 1 .. 1 : GetLines(FileOf(ls, 1), Newline)[k] = ls[k]
  BY ONLY <1>2, <1>6, FileIsRead
<1>8. ls[1] = l
  BY <1>1
<1> QED BY <1>1, <1>2, <1>5, <1>7, <1>8, Zenon

(* The members of a set of numbers that are smaller than m.                    *)
Below(S, m) == {j \in S : j < m}

(* Sets of line numbers are finite.                                           *)
LEMMA SizeIsNumber ==
  ASSUME NEW n \in Nat, NEW S, S \subseteq 1 .. n
  PROVE  IsFiniteSet(S) /\ Cardinality(S) \in Nat
<1>1. IsFiniteSet(1 .. n)
  BY FS_Interval
<1>2. IsFiniteSet(S)
  BY <1>1, FS_Subset
<1> QED BY <1>2, FS_CardinalityType

(* Below the next number there are as many members, or one more.              *)
LEMMA OneMoreBelow ==
  ASSUME NEW n \in Nat, NEW S, S \subseteq 1 .. n, NEW m \in 0 .. n
  PROVE  /\ m \notin S => Below(S, m + 1) = Below(S, m)
         /\ m \in S => Cardinality(Below(S, m + 1)) = Cardinality(Below(S, m)) + 1
<1>1. \A j \in S : j < m + 1 <=> j < m \/ j = m
  OBVIOUS
<1>2. m \notin S => Below(S, m + 1) = Below(S, m)
  BY <1>1 DEF Below
<1>3. ASSUME m \in S PROVE Cardinality(Below(S, m + 1)) = Cardinality(Below(S, m)) + 1
  <2>1. PICK B : B = Below(S, m)
    OBVIOUS
  <2>5. ~ (m < m)
    OBVIOUS
  <2>6. Below(S, m + 1) = B \cup {m}
    BY <1>1, <1>3, <2>1, Zenon DEF Below
  <2>2. Below(S, m + 1) = B \cup {m} /\ m \notin B /\ B \subseteq 1 .. n
    BY <2>1, <2>5, <2>6, Zenon DEF Below
  <2>3. IsFiniteSet(B)
    BY <2>2, SizeIsNumber
  <2>4. Cardinality(B \cup {m}) = Cardinality(B) + 1
    BY <2>2, <2>3, FS_AddElement
  <2> QED BY <2>1, <2>2, <2>4, Zenon
<1> QED BY <1>2, <1>3

(* The k-th number of a set of at least k is one of it.                       *)
LEMMA NthIsMember ==
  ASSUME NEW n \in Nat, NEW S, S \subseteq 1 .. n, NEW N \in Nat, N = Cardinality(S),
         NEW k \in 1 .. N
  PROVE  Nth(S, k) \in S
<1>1. PICK c : c = [m \in 0 .. n + 1 |-> Cardinality(Below(S, m))]
  OBVIOUS
<1>2. c \in [0 .. n + 1 -> Nat] /\ \A m \in 0 .. n + 1 : c[m] = Cardinality(Below(S, m))
  <2>1. \A m \in 0 .. n + 1 : Below(S, m) \subseteq 1 .. n
    BY DEF Below
  <2>2. \A m \in 0 .. n + 1 : Cardinality(Below(S, m)) \in Nat
    BY <2>1, SizeIsNumber
  <2> QED BY <1>1, <2>2
<1>3. c[0] = 0
  <2>4. 0 \in 0 .. n + 1 /\ \A j \in S : ~ (j < 0)
    OBVIOUS
  <2>1. Below(S, 0) = {} /\ 0 \in 0 .. n + 1
    BY <2>4, Zenon DEF Below
  <2>2. Cardinality(Below(S, 0)) = 0
    BY <2>1, FS_EmptySet, Zenon
  <2> QED BY <1>2, <2>1, <2>2, Zenon
<1>4. c[n + 1] = N
  <2>2. n + 1 \in 0 .. n + 1 /\ \A j \in S : j < n + 1
    OBVIOUS
  <2>1. Below(S, n + 1) = S /\ n + 1 \in 0 .. n + 1
    BY <2>2, Zenon DEF Below
  <2> QED BY <1>2, <2>1, Zenon
<1>5. \A m \in 0 .. n : c[m + 1] = IF m \in S THEN c[m] + 1 ELSE c[m]
  <2> SUFFICES ASSUME NEW m \in 0 .. n PROVE c[m + 1] = IF m \in S THEN c[m] + 1 ELSE c[m]
    OBVIOUS
  <2>1. m \in 0 .. n + 1 /\ m + 1 \in 0 .. n + 1
    OBVIOUS
  <2>2. /\ m \notin S => Below(S, m + 1) = Below(S, m)
        /\ m \in S => Cardinality(Below(S, m + 1)) = Cardinality(Below(S, m)) + 1
    BY OneMoreBelow
  <2> QED BY <1>2, <2>1, <2>2, Zenon
<1>6. PICK T : T = {m \in 0 .. n + 1 : c[m] < k}
  OBVIOUS
<1>7. T \in SUBSET (0 .. n + 1) /\ 0 \in T /\ n + 1 \notin T
  <2>1. 0 < k /\ ~ (N < k) /\ 0 \in 0 .. n + 1 /\ n + 1 \in 0 .. n + 1
    OBVIOUS
  <2> QED BY <1>3, <1>4, <1>6, <2>1, Zenon
<1>8. PICK m \in T : \A y \in T : m >= y
  <2>1. T # {} /\ n + 1 \in Nat
    BY <1>7
  <2> QED BY <1>7, <2>1, MaximumExists
<1>9. m \in 0 .. n /\ m + 1 \notin T
  BY <1>7, <1>8
<1>10. c[m] \in Nat /\ c[m] < k /\ ~ (c[m + 1] < k)
  <2>1. m \in 0 .. n + 1 /\ m + 1 \in 0 .. n + 1
    BY <1>9
  <2> QED BY <1>2, <1>6, <1>8, <1>9, <2>1, Zenon
<1>11. m \in S /\ c[m] = k - 1
  <2>1. PICK p, q : p = c[m] /\ q = c[m + 1]
    OBVIOUS
  <2>2. p < k /\ ~ (q < k) /\ q = IF m \in S THEN p + 1 ELSE p
    BY <1>5, <1>9, <1>10, <2>1, Zenon
  <2>3. p \in Nat
    BY <1>10, <2>1
  <2>4. m \in S /\ p = k - 1
    BY ONLY <2>2, <2>3, N \in Nat, k \in 1 .. N
  <2> QED BY <2>1, <2>4, Zenon
<1>12. Cardinality(Below(S, m)) = k - 1
  <2>1. m \in 0 .. n + 1
    BY <1>9
  <2> QED BY <1>2, <1>11, <2>1, Zenon
<1> QED BY <1>11, <1>12, Zenon DEF Nth, Below
--------------------------------------------------------------------------------
IsLine(s) == s \in Seq(Int) /\ \A j \in 1 .. Len(s) : s[j] # Newline

(* A text without newlines behind another has none.                           *)
LEMMA LineBehind ==
  ASSUME NEW s, IsLine(s), NEW w, IsLine(w)
  PROVE  IsLine(s \o w)
<1>1. /\ s \in Seq(Int) /\ \A j \in 1 .. Len(s) : s[j] # Newline
      /\ w \in Seq(Int) /\ \A j \in 1 .. Len(w) : w[j] # Newline
  BY Zenon DEF IsLine
<1>2. PICK p \in Nat, q \in Nat : p = Len(s) /\ q = Len(w)
  BY <1>1
<1>3. PICK u : u = s \o w
  OBVIOUS
<1>4. IsJoined(u, s, p, w, q)
  BY <1>1, <1>2, <1>3, JoinedAt, Zenon
<1>5. /\ u \in Seq(Int) /\ Len(u) = p + q
      /\ \A i \in 1 .. p : u[i] = s[i]
      /\ \A j \in 1 .. q : u[p + j] = w[j]
  BY <1>4, Zenon DEF IsJoined
<1>6. ASSUME NEW i \in 1 .. p + q PROVE u[i] # Newline
  <2>1. CASE i \in 1 .. p
    BY <1>1, <1>2, <1>5, <2>1, Zenon
  <2>2. CASE i \notin 1 .. p
    <3>1. i - p \in 1 .. q /\ p + (i - p) = i
      BY <2>2
    <3> QED BY <1>1, <1>2, <1>5, <3>1, Zenon
  <2> QED BY <2>1, <2>2
<1> QED BY <1>3, <1>5, <1>6, Zenon DEF IsLine

(* A word has no newline.                                                     *)
LEMMA WordIsLine ==
  ASSUME NEW w, IsWord(w)
  PROVE  IsLine(w)
BY Zenon DEF IsWord, IsLine, Blank

(* Nor have the blanks and digits between words.                              *)
LEMMA SmallLines == IsLine(<<>>) /\ IsLine(<<Space>>) /\ IsLine(<<Space, A, Space, 48, Space, 48>>)
BY DEF IsLine, Space, A, Newline

Tail6 == <<Space, A, Space, 48, Space, 48>>

(* So a line of the mount table is one line.                                  *)
LEMMA MountLineIsLine ==
  ASSUME NEW d, IsLine(d), NEW p, IsLine(p), NEW t, IsLine(t)
  PROVE  IsLine(LineOf(d, p, t) \o Tail6)
BY SmallLines, LineBehind, Zenon DEF LineOf, Tail6

(* The name of a device or of a mount point.                                   *)
IsName(name) == name \in Seq(Int) /\ \A j \in 1 .. Len(name) : name[j] \notin Blank \ {Space}

(* A name is a word in the table.                                             *)
LEMMA NameIsMangled ==
  ASSUME NEW name, IsName(name), Len(name) # 0
  PROVE  IsWord(Mangled(name))
BY MangledIsWord DEF IsName

(* The first three words of a line of the mount table.                         *)
Three(d, p, t) == IF Len(d) = 0 THEN <<Mangled(p), t, <<A>>>> ELSE <<Mangled(d), Mangled(p), t>>

(* A line of the mount table has these three words, with a device or without. *)
LEMMA MountLineIs ==
  ASSUME NEW d, IsName(d), NEW p, IsName(p), Len(p) # 0, NEW t, IsWord(t),
         NEW w, w = Three(d, p, t)
  PROVE  /\ IsLine(MountLine(d, p, t))
         /\ FirstWords(MountLine(d, p, t), w[1], w[2], w[3])
<1>1. MountLine(d, p, t) = LineOf(Mangled(d), Mangled(p), t) \o Tail6
  BY Zenon DEF MountLine, LineOf, Tail6
<1>2. IsWord(Mangled(p))
  BY NameIsMangled
<1>3. CASE Len(d) = 0
  <2>1. Mangled(d) = <<>>
    BY <1>3, NothingMangled DEF IsName
  <2>2. IsLine(MountLine(d, p, t))
    BY <1>1, <1>2, <2>1, SmallLines, WordIsLine, MountLineIsLine, Zenon
  <2>3. FirstWords(MountLine(d, p, t), Mangled(p), t, <<A>>)
    BY <1>1, <1>2, <2>1, ShortLineWords, Zenon DEF Tail6
  <2>4. w[1] = Mangled(p) /\ w[2] = t /\ w[3] = <<A>>
    BY <1>3 DEF Three
  <2> QED BY <2>2, <2>3, <2>4, Zenon
<1>4. CASE Len(d) # 0
  <2>1. IsWord(Mangled(d))
    BY <1>4, NameIsMangled
  <2>2. IsLine(MountLine(d, p, t))
    BY <1>1, <1>2, <2>1, WordIsLine, MountLineIsLine, Zenon
  <2>3. FirstWords(MountLine(d, p, t), Mangled(d), Mangled(p), t)
    BY <1>1, <1>2, <2>1, LineWords, Zenon DEF Tail6
  <2>4. w[1] = Mangled(d) /\ w[2] = Mangled(p) /\ w[3] = t
    BY <1>4 DEF Three
  <2> QED BY <2>2, <2>3, <2>4, Zenon
<1> QED BY <1>3, <1>4

(* What the table is, by the first three words of each line.                   *)
Entry(w) == [device |-> DecodeMountPath(w[1]), point |-> DecodeMountPath(w[2])]

IsTable(file, n, w) ==
  /\ n \in Nat /\ DOMAIN GetLines(file, Newline) = 1 .. n
  /\ \A k \in 1 .. n : FirstWords(GetLines(file, Newline)[k], w[k][1], w[k][2], w[k][3])
Kept(n, w) == {k \in 1 .. n : w[k][3] \notin PseudoFilesystems}
TableOf(n, w) == [i \in 1 .. Cardinality(Kept(n, w)) |-> Entry(w[Nth(Kept(n, w), i)])]

(* What the parser makes of a table whose lines have these words.             *)
LEMMA TableIs ==
  ASSUME NEW n, NEW file, NEW w, IsTable(file, n, w)
  PROVE  ParseMounts(file) = TableOf(n, w)
<1>8. /\ n \in Nat /\ DOMAIN GetLines(file, Newline) = 1 .. n
      /\ \A k \in 1 .. n : FirstWords(GetLines(file, Newline)[k], w[k][1], w[k][2], w[k][3])
  BY Zenon DEF IsTable
<1>9. PICK kept : kept = Kept(n, w)
  OBVIOUS
<1>10. kept \subseteq 1 .. n
  BY <1>9, Zenon DEF Kept
<1>1. PICK words : words = [k \in 1 .. n |-> Words(GetLines(file, Newline)[k])]
  OBVIOUS
<1>2. \A k \in 1 .. n : /\ words[k][1] = w[k][1] /\ words[k][2] = w[k][2]
                        /\ words[k][3] = w[k][3]
  <2> SUFFICES ASSUME NEW k \in 1 .. n
               PROVE  /\ words[k][1] = w[k][1] /\ words[k][2] = w[k][2]
                      /\ words[k][3] = w[k][3]
    OBVIOUS
  <2>1. words[k] = Words(GetLines(file, Newline)[k])
    BY <1>1, Zenon
  <2>2. PICK s, x, y, z : /\ s = GetLines(file, Newline)[k]
                          /\ x = w[k][1] /\ y = w[k][2] /\ z = w[k][3]
    OBVIOUS
  <2>3. FirstWords(s, x, y, z)
    BY <1>8, <2>2, Zenon
  <2>4. Words(s)[1] = x /\ Words(s)[2] = y /\ Words(s)[3] = z
    BY ONLY <2>3, FirstWordsFound
  <2> QED BY <2>1, <2>2, <2>4, Zenon
<1>3. kept = {k \in 1 .. n : words[k][3] \notin PseudoFilesystems}
  BY <1>2, <1>9, Zenon DEF Kept
<1>4. ParseMounts(file) = RealMounts(words, kept)
  BY <1>1, <1>3, <1>8, Zenon DEF ParseMounts
<1>5. PICK N \in Nat : N = Cardinality(kept)
  BY <1>8, <1>10, SizeIsNumber
<1>6. ASSUME NEW i \in 1 .. N
      PROVE  words[Nth(kept, i)][1] = w[Nth(kept, i)][1]
             /\ words[Nth(kept, i)][2] = w[Nth(kept, i)][2]
  <2>1. Nth(kept, i) \in kept
    BY ONLY N \in Nat, i \in 1 .. N, <1>5, <1>8, <1>10, NthIsMember
  <2> QED BY <1>2, <1>10, <2>1, Zenon
<1>7. RealMounts(words, kept) = [i \in 1 .. N |-> Entry(w[Nth(kept, i)])]
  BY <1>5, <1>6, Zenon DEF RealMounts, Entry
<1> QED BY <1>4, <1>5, <1>7, <1>9, Zenon DEF TableOf

(* A text without a backslash is decoded to itself.                            *)
LEMMA OneMangled ==
  ASSUME NEW c \in Int, c \notin {Space, Backslash}
  PROVE  Mangled(<<c>>) = <<c>>
<1>1. PICK s, parts : s = <<c>> /\ parts = [k \in 1 .. 1 |-> s]
  OBVIOUS
<1>2. s \in Seq(Int) /\ DOMAIN s = 1 .. 1 /\ s[1] = c
  BY <1>1
<1>3. [i \in DOMAIN s |-> Mangle(s[i])] = parts
  <2>1. \A i \in 1 .. 1 : i = 1
    OBVIOUS
  <2>2. Mangle(c) = s
    BY <1>1, Zenon DEF Mangle
  <2> QED BY <1>1, <1>2, <2>1, <2>2, Zenon
<1>4. Mangled(s) = FlattenSeq(parts)
  BY <1>3, Zenon DEF Mangled, Mangle
<1>5. FlattenSeq(parts) = s
  BY <1>1, <1>2, OnePart
<1> QED BY <1>1, <1>4, <1>5, Zenon

(* A name without a backslash is decoded to itself.                           *)
LEMMA NameIsDecoded ==
  ASSUME NEW name \in Seq(Int), ~ \E j \in 1 .. Len(name) : name[j] = Backslash
  PROVE  DecodeMountPath(Mangled(name)) = name
BY ManglingIsDecoded

(* So is a single character.                                                  *)
LEMMA CharacterIsDecoded ==
  ASSUME NEW c \in Int, c \notin {Space, Backslash}
  PROVE  DecodeMountPath(<<c>>) = <<c>>
<1>1. PICK s : s = <<c>>
  OBVIOUS
<1>2. s \in Seq(Int) /\ ~ \E j \in 1 .. Len(s) : s[j] = Backslash
  BY <1>1
<1>3. DecodeMountPath(Mangled(s)) = s
  BY <1>2, NameIsDecoded
<1> QED BY <1>1, <1>3, OneMangled, Zenon

(* One line: the mount point of any name.                                      *)
LEMMA OneMountIsRead ==
  ASSUME NEW name, IsName(name), Len(name) # 0
  PROVE  LET mounts == ParseMounts(MountLine(<<A>>, name, <<A>>) \o <<Newline>>)
         IN  Len(mounts) = 1 /\ mounts[1].point = DecodeMountPath(Mangled(name))
<1>1. PICK d, t, l, file : /\ d = <<A>> /\ t = <<A>> /\ l = MountLine(d, name, t)
                           /\ file = l \o <<Newline>>
  OBVIOUS
<1>2. IsName(d) /\ IsWord(t) /\ Len(d) = 1
  BY <1>1 DEF A, Blank, Tab, Newline, Space, IsName, IsWord
<1>3. PICK v : v = Three(d, name, t)
  OBVIOUS
<1>4. IsLine(l) /\ FirstWords(l, v[1], v[2], v[3])
  BY <1>1, <1>2, <1>3, MountLineIs, Zenon
<1>5. v[2] = Mangled(name) /\ v[3] = t
  BY <1>2, <1>3 DEF Three
<1>6. DOMAIN GetLines(file, Newline) = 1 .. 1 /\ GetLines(file, Newline)[1] = l
  <2>1. l \in Seq(Int) /\ \A j \in 1 .. Len(l) : l[j] # Newline
    BY <1>4, Zenon DEF IsLine
  <2> QED BY <1>1, <2>1, OneLine, Zenon
<1>7. PICK w, kept : w = [k \in 1 .. 1 |-> v] /\ kept = Kept(1, w)
  OBVIOUS
<1>8. w[1] = v /\ \A k \in 1 .. 1 : k = 1
  BY <1>7
<1>9. kept = {1}
  <2>1. t \notin PseudoFilesystems
    BY <1>1 DEF PseudoFilesystems, A
  <2> QED BY <1>5, <1>7, <1>8, <2>1 DEF Kept
<1>10. ParseMounts(file) = [i \in 1 .. Cardinality(kept) |-> Entry(w[Nth(kept, i)])]
  <2>1. 1 \in Nat
    OBVIOUS
  <2>2. \A k \in 1 .. 1 : FirstWords(GetLines(file, Newline)[k], w[k][1], w[k][2], w[k][3])
    BY <1>4, <1>6, <1>8, Zenon
  <2>3. IsTable(file, 1, w)
    BY <1>6, <2>1, <2>2, Zenon DEF IsTable
  <2>4. ParseMounts(file) = TableOf(1, w)
    BY <2>3, TableIs, Zenon
  <2> QED BY <1>7, <2>4, Zenon DEF TableOf
<1>11. Cardinality(kept) = 1
  BY <1>9, FS_Singleton
<1>12. Nth(kept, 1) = 1
  <2>1. Nth(kept, 1) \in kept
    <3>1. kept \subseteq 1 .. 1 /\ 1 \in Nat /\ 1 \in 1 .. 1
      BY <1>9
    <3> QED BY ONLY <1>11, <3>1, NthIsMember
  <2> QED BY <1>9, <2>1
<1>13. PICK m : m = [i \in 1 .. 1 |-> Entry(w[Nth(kept, i)])]
  OBVIOUS
<1>14. m = ParseMounts(file)
  BY <1>10, <1>11, <1>13, Zenon
<1>15. Len(m) = 1 /\ m[1] = Entry(v)
  <2>1. m[1] = Entry(w[Nth(kept, 1)]) /\ Len(m) = 1
    BY <1>13
  <2> QED BY <1>8, <1>12, <2>1, Zenon
<1>16. m[1].point = DecodeMountPath(Mangled(name))
  <2>1. Entry(v).point = DecodeMountPath(v[2])
    BY DEF Entry
  <2> QED BY <1>5, <1>15, <2>1, Zenon
<1> QED BY <1>1, <1>14, <1>15, <1>16, Zenon
--------------------------------------------------------------------------------
(* Any number of lines.                                                        *)
PointOf(k) == <<A, Number(k)>>
TypeOf(l)  == IF l.pseudo THEN <<80>> ELSE <<A>>
LineFor(l, k) == MountLine(l.device, PointOf(k), TypeOf(l))
WordsFor(l, k) == Three(l.device, PointOf(k), TypeOf(l))
EntryFor(l, k) ==
  IF l.device = <<>> THEN [device |-> PointOf(k), point |-> TypeOf(l)]
  ELSE [device |-> l.device, point |-> PointOf(k)]

(* What the device, the mount point and the type of a written line are.       *)
LEMMA PartsOfLine ==
  ASSUME NEW l \in Lines["mounts"], NEW k \in Nat
  PROVE  /\ IsName(l.device) /\ ~ \E j \in 1 .. Len(l.device) : l.device[j] = Backslash
         /\ Len(l.device) = 0 <=> l.device = <<>>
         /\ IsName(PointOf(k)) /\ Len(PointOf(k)) # 0
         /\ ~ \E j \in 1 .. Len(PointOf(k)) : PointOf(k)[j] = Backslash
         /\ IsWord(TypeOf(l)) /\ DecodeMountPath(TypeOf(l)) = TypeOf(l)
         /\ TypeOf(l) \in PseudoFilesystems <=> l.pseudo
         /\ <<A>> \notin PseudoFilesystems
<1>1. l.device = <<>> \/ l.device = <<A>> \/ l.device = <<A, Space>>
  BY DEF Lines
<1>2. /\ IsName(l.device) /\ ~ \E j \in 1 .. Len(l.device) : l.device[j] = Backslash
      /\ Len(l.device) = 0 <=> l.device = <<>>
  <2>1. PICK d : d = l.device
    OBVIOUS
  <2>5. ASSUME d = <<>> PROVE d \in Seq(Int) /\ Len(d) = 0
    BY <2>5
  <2>6. ASSUME d = <<A>> PROVE d \in Seq(Int) /\ Len(d) = 1 /\ d[1] = 97
    BY <2>6 DEF A
  <2>7. ASSUME d = <<A, Space>> PROVE d \in Seq(Int) /\ Len(d) = 2 /\ d[1] = 97 /\ d[2] = 32
    BY <2>7 DEF A, Space
  <2>8. d = <<>> \/ (d \in Seq(Int) /\ Len(d) = 1 /\ d[1] = 97)
          \/ (d \in Seq(Int) /\ Len(d) = 2 /\ d[1] = 97 /\ d[2] = 32)
    BY <1>1, <2>1, <2>6, <2>7, Zenon
  <2>2. d \in Seq(Int) /\ (Len(d) = 0 <=> d = <<>>)
    BY <2>5, <2>8
  <2>3. \A j \in 1 .. Len(d) : d[j] = 97 \/ d[j] = 32
    BY <2>5, <2>8
  <2>4. \A c : c = 97 \/ c = 32 => c \notin Blank \ {Space} /\ c # Backslash
    BY DEF Blank, Tab, Newline, Space, Backslash
  <2> QED BY <2>1, <2>2, <2>3, <2>4, Zenon DEF IsName
<1>3. /\ IsName(PointOf(k)) /\ Len(PointOf(k)) # 0
      /\ ~ \E j \in 1 .. Len(PointOf(k)) : PointOf(k)[j] = Backslash
  BY DEF PointOf, Number, IsName, Blank, Tab, Newline, Space, A, Backslash
<1>4. IsWord(TypeOf(l))
  BY SmallWords, Zenon DEF TypeOf
<1>5. DecodeMountPath(TypeOf(l)) = TypeOf(l)
  <2>1. 80 \in Int /\ 80 \notin {Space, Backslash} /\ A \in Int /\ A \notin {Space, Backslash}
    BY DEF Space, Backslash, A
  <2>2. DecodeMountPath(<<80>>) = <<80>> /\ DecodeMountPath(<<A>>) = <<A>>
    BY <2>1, CharacterIsDecoded, Zenon
  <2> QED BY <2>2, Zenon DEF TypeOf
<1>6. <<80>> \in PseudoFilesystems /\ <<A>> \notin PseudoFilesystems
  BY DEF PseudoFilesystems, A
<1>7. TypeOf(l) \in PseudoFilesystems <=> l.pseudo
  BY <1>6, Zenon DEF TypeOf
<1> QED BY <1>2, <1>3, <1>4, <1>5, <1>6, <1>7, Zenon

(* The entry of a line is what was written, one to the left without a device. *)
LEMMA OneEntry ==
  ASSUME NEW l \in Lines["mounts"], NEW k \in Nat, NEW w, w = WordsFor(l, k)
  PROVE  /\ IsLine(LineFor(l, k))
         /\ FirstWords(LineFor(l, k), w[1], w[2], w[3])
         /\ w[3] \in PseudoFilesystems <=> l.pseudo /\ l.device # <<>>
         /\ Entry(w) = EntryFor(l, k)
<1>1. PICK d, p, t : d = l.device /\ p = PointOf(k) /\ t = TypeOf(l)
  OBVIOUS
<1>2. /\ IsName(d) /\ ~ \E j \in 1 .. Len(d) : d[j] = Backslash
      /\ Len(d) = 0 <=> d = <<>>
      /\ IsName(p) /\ Len(p) # 0
      /\ ~ \E j \in 1 .. Len(p) : p[j] = Backslash
      /\ IsWord(t) /\ DecodeMountPath(t) = t
      /\ t \in PseudoFilesystems <=> l.pseudo
      /\ <<A>> \notin PseudoFilesystems
  BY <1>1, PartsOfLine
<1>3. w = Three(d, p, t) /\ LineFor(l, k) = MountLine(d, p, t)
  BY <1>1, Zenon DEF WordsFor, LineFor
<1>4. IsLine(LineFor(l, k)) /\ FirstWords(LineFor(l, k), w[1], w[2], w[3])
  BY <1>2, <1>3, MountLineIs, Zenon
<1>5. DecodeMountPath(Mangled(d)) = d /\ DecodeMountPath(Mangled(p)) = p
  BY <1>2, NameIsDecoded, Zenon DEF IsName
<1>6. CASE Len(d) = 0
  <2>1. w[1] = Mangled(p) /\ w[2] = t /\ w[3] = <<A>>
    BY <1>3, <1>6 DEF Three
  <2>2. Entry(w) = [device |-> p, point |-> t]
    BY <1>2, <1>5, <2>1, Zenon DEF Entry
  <2>3. Entry(w) = EntryFor(l, k)
    BY <1>1, <1>2, <1>6, <2>2, Zenon DEF EntryFor
  <2> QED BY <1>1, <1>2, <1>4, <1>6, <2>1, <2>3, Zenon
<1>7. CASE Len(d) # 0
  <2>1. w[1] = Mangled(d) /\ w[2] = Mangled(p) /\ w[3] = t
    BY <1>3, <1>7 DEF Three
  <2>2. Entry(w) = [device |-> d, point |-> p]
    BY <1>5, <2>1, Zenon DEF Entry
  <2>3. Entry(w) = EntryFor(l, k)
    BY <1>1, <1>2, <1>7, <2>2, Zenon DEF EntryFor
  <2> QED BY <1>1, <1>2, <1>4, <1>7, <2>1, <2>3, Zenon
<1> QED BY <1>6, <1>7

Real(t) == {k \in DOMAIN t : ~t[k].pseudo \/ t[k].device = <<>>}
MountFile(t) == FlattenSeq([k \in DOMAIN t |-> LineFor(t[k], k) \o <<Newline>>])
MountTable(t) ==
  [i \in 1 .. Cardinality(Real(t)) |-> EntryFor(t[Nth(Real(t), i)], Nth(Real(t), i))]

(* The table has an entry for each real file system, in order.                *)
LEMMA MountsAreRead ==
  ASSUME NEW t \in Seq(Lines["mounts"])
  PROVE  ParseMounts(MountFile(t)) = MountTable(t)
<1>14. PICK real : real = Real(t)
  OBVIOUS
<1>1. PICK n \in Nat : n = Len(t)
  OBVIOUS
<1>2. DOMAIN t = 1 .. n /\ \A k \in 1 .. n : t[k] \in Lines["mounts"] /\ k \in Nat
  BY <1>1
<1>3. PICK w, ls, file : /\ w = [k \in 1 .. n |-> WordsFor(t[k], k)]
                         /\ ls = [k \in 1 .. n |-> LineFor(t[k], k)]
                         /\ file = FlattenSeq([k \in 1 .. n |-> LineFor(t[k], k) \o <<Newline>>])
  OBVIOUS
<1>4. ASSUME NEW k \in 1 .. n
      PROVE  /\ IsLine(ls[k])
             /\ FirstWords(ls[k], w[k][1], w[k][2], w[k][3])
             /\ w[k][3] \in PseudoFilesystems <=> t[k].pseudo /\ t[k].device # <<>>
             /\ Entry(w[k]) = EntryFor(t[k], k)
  <2>1. PICK l \in Lines["mounts"] : l = t[k]
    BY <1>2
  <2>2. k \in Nat /\ w[k] = WordsFor(l, k) /\ ls[k] = LineFor(l, k)
    BY <1>3, <2>1
  <2>3. PICK v : v = WordsFor(l, k)
    OBVIOUS
  <2>4. /\ IsLine(LineFor(l, k))
        /\ FirstWords(LineFor(l, k), v[1], v[2], v[3])
        /\ v[3] \in PseudoFilesystems <=> l.pseudo /\ l.device # <<>>
        /\ Entry(v) = EntryFor(l, k)
    BY <2>2, <2>3, OneEntry
  <2> QED BY <2>1, <2>2, <2>3, <2>4, Zenon
<1>5. ls \in [1 .. n -> Seq(Int)] /\ \A k \in 1 .. n : \A j \in 1 .. Len(ls[k]) : ls[k][j] # Newline
  BY <1>3, <1>4, Zenon DEF IsLine
<1>6. FileOf(ls, n) = file
  <2>1. \A k \in 1 .. n : ls[k] = LineFor(t[k], k)
    BY <1>3, Zenon
  <2> QED BY <1>3, <2>1, Zenon DEF FileOf
<1>7. /\ DOMAIN GetLines(FileOf(ls, n), Newline) = 1 .. n
      /\ \A k \in 1 .. n : GetLines(FileOf(ls, n), Newline)[k] = ls[k]
  BY ONLY <1>5, n \in Nat, FileIsRead
<1>8. IsTable(file, n, w)
  BY <1>4, <1>6, <1>7, Zenon DEF IsTable
<1>9. ParseMounts(file) = TableOf(n, w)
  BY <1>8, TableIs, Zenon
<1>15. real \subseteq 1 .. n
  BY <1>2, <1>14, Zenon DEF Real
<1>10. Kept(n, w) = real
  BY <1>2, <1>4, <1>14, Zenon DEF Kept, Real
<1>11. PICK N \in Nat : N = Cardinality(real)
  BY <1>15, SizeIsNumber
<1>12. ASSUME NEW i \in 1 .. N
       PROVE  Entry(w[Nth(real, i)]) = EntryFor(t[Nth(real, i)], Nth(real, i))
  <2>1. Nth(real, i) \in real
    BY ONLY n \in Nat, N \in Nat, i \in 1 .. N, <1>11, <1>15, NthIsMember
  <2> QED BY <1>4, <1>15, <2>1, Zenon
<1>13. TableOf(n, w) = [i \in 1 .. N |-> EntryFor(t[Nth(real, i)], Nth(real, i))]
  BY <1>10, <1>11, <1>12, Zenon DEF TableOf
<1>16. MountFile(t) = file
  BY <1>2, <1>3, Zenon DEF MountFile
<1> QED BY <1>9, <1>11, <1>13, <1>14, <1>16, Zenon DEF MountTable

(* What was written as lines.                                                  *)
WrittenLines == kind \in DOMAIN Lines => text \in Seq(Lines[kind])

(* The text is made of lines of the kind that is written.                     *)
LEMMA WrittenLinesInvariant == Spec => []WrittenLines
<1>1. Init => WrittenLines
  BY DEF Init, WrittenLines
<1>2. WrittenLines /\ [Next]_vars => WrittenLines'
  <2> SUFFICES ASSUME WrittenLines, [Next]_vars PROVE WrittenLines'
    OBVIOUS
  <2>1. CASE WriteCharacter
    BY <2>1 DEF WriteCharacter, WrittenLines, Letters, Lines
  <2>2. CASE WriteLine
    BY <2>2 DEF WriteLine, WrittenLines
  <2>3. CASE Resize \/ SwitchPage \/ Refresh
    BY <2>3 DEF Resize, SwitchPage, Refresh, WrittenLines
  <2>4. CASE UNCHANGED vars
    BY <2>4 DEF vars, WrittenLines
  <2> QED BY <2>1, <2>2, <2>3, <2>4 DEF Next
<1> QED BY <1>1, <1>2, PTL DEF Spec

(* For names of every length and tables of every number of lines: a mount     *)
(* point is decoded to its own name exactly when it has no backslash, and the *)
(* table has exactly the entries of the real file systems, in order           *)
(* (storage_manager.cpp:18-36, 44-65).                                        *)
THEOREM MountTablesAreRead == Spec => []MountTableIsRead
<1>1. ASSUME WrittenText, WrittenLines PROVE MountTableIsRead
  <2>1. ASSUME kind = "mount", text # <<>>
        PROVE  LET mounts == ParseMounts(MountLine(<<A>>, text, <<A>>) \o <<Newline>>)
               IN  Len(mounts) = 1 /\ (mounts[1].point = text <=> ~Contains(text, Backslash))
    <3>1. text \in Seq(Letters["mount"])
      BY <1>1, <2>1 DEF WrittenText, Letters
    <3>2. text \in Seq(Int) /\ \A j \in 1 .. Len(text) : text[j] \in Letters["mount"]
      <4>1. Letters["mount"] \subseteq Int
        BY DEF Letters, A, Space, Backslash
      <4> QED BY <3>1, <4>1
    <3>3. \A c \in Letters["mount"] : c \notin Blank \ {Space}
      BY DEF Letters, A, Backslash, Space, Blank, Tab, Newline
    <3>4. IsName(text) /\ Len(text) # 0
      BY <2>1, <3>2, <3>3 DEF IsName
    <3>5. LET mounts == ParseMounts(MountLine(<<A>>, text, <<A>>) \o <<Newline>>)
          IN  Len(mounts) = 1 /\ mounts[1].point = DecodeMountPath(Mangled(text))
      BY <3>4, OneMountIsRead, Zenon
    <3>6. DecodeMountPath(Mangled(text)) = text
            <=> ~ \E i \in 1 .. Len(text) : text[i] = Backslash
      BY <3>2, ManglingIsDecoded
    <3> QED BY <3>5, <3>6, Zenon DEF Contains
  <2>2. ASSUME kind = "mounts"
        PROVE  LET point(k) == <<A, Number(k)>>
                   type(k)  == IF text[k].pseudo THEN <<80>> ELSE <<A>>
                   real     == {k \in DOMAIN text : ~text[k].pseudo \/ text[k].device = <<>>}
                   entry(k) == IF text[k].device = <<>>
                               THEN [device |-> point(k), point |-> type(k)]
                               ELSE [device |-> text[k].device, point |-> point(k)]
               IN  ParseMounts(FlattenSeq([k \in DOMAIN text |->
                                 MountLine(text[k].device, point(k), type(k)) \o <<Newline>>]))
                     = [i \in 1 .. Cardinality(real) |-> entry(Nth(real, i))]
    <3>1. text \in Seq(Lines["mounts"])
      BY <1>1, <2>2 DEF WrittenLines, Lines
    <3>2. ParseMounts(MountFile(text)) = MountTable(text)
      BY <3>1, MountsAreRead, Zenon
    <3> QED BY <3>2, Zenon DEF MountFile, MountTable, Real, LineFor, EntryFor, PointOf, TypeOf
  <2> QED BY <2>1, <2>2, Zenon DEF MountTableIsRead
<1> QED BY <1>1, WrittenInvariant, WrittenLinesInvariant, PTL
--------------------------------------------------------------------------------
(* The flag of the loop over the characters of a value.                        *)
Flag(E, s, i) == i # 0 /\ s[i] = Backslash /\ ~E[i - 1]
IsFlag(E, s) == E = [i \in 0 .. Len(s) |-> Flag(E, s, i)]

(* The flag of the loop is determined at each character, from the first to    *)
(* the last.                                                                  *)
LEMMA FlagExists ==
  ASSUME NEW s \in Seq(Int)
  PROVE  \E E : IsFlag(E, s)
<1>1. PICK n \in Nat : n = Len(s)
  OBVIOUS
<1> DEFINE From(E, m) == /\ E \in [0 .. n -> BOOLEAN]
                         /\ \A i \in 0 .. n : i < m => E[i] = Flag(E, s, i)
           S == {m \in 1 .. n + 1 : \E E : From(E, m)}
<1>2. 1 \in S
  <2>1. PICK E : E = [i \in 0 .. n |-> FALSE]
    OBVIOUS
  <2>2. E \in [0 .. n -> BOOLEAN] /\ \A i \in 0 .. n : E[i] = FALSE
    BY <2>1
  <2>3. \A i \in 0 .. n : i < 1 => i = 0
    OBVIOUS
  <2>4. \A i \in 0 .. n : i < 1 => E[i] = Flag(E, s, i)
    BY <2>2, <2>3, Zenon DEF Flag
  <2>5. 1 \in 1 .. n + 1
    OBVIOUS
  <2> QED BY <2>2, <2>4, <2>5, Zenon
<1>3. ASSUME NEW m \in 1 .. n + 1, m < n + 1, m \in S PROVE m + 1 \in S
  <2>1. PICK E : From(E, m)
    BY <1>3
  <2>2. PICK G : G = [i \in 0 .. n |-> IF i = m THEN Flag(E, s, m) ELSE E[i]]
    OBVIOUS
  <2>3. m \in 0 .. n /\ m + 1 \in 1 .. n + 1
    BY <1>3
  <2>4. Flag(E, s, m) \in BOOLEAN
    BY Zenon DEF Flag
  <2>5. /\ G \in [0 .. n -> BOOLEAN] /\ G[m] = Flag(E, s, m)
        /\ \A i \in 0 .. n : i # m => G[i] = E[i]
    BY <2>1, <2>2, <2>3, <2>4, Zenon
  <2>6. \A i \in 0 .. n : i < m + 1 /\ i # 0 => i - 1 \in 0 .. n /\ i - 1 # m
    BY <1>3
  <2>7. \A i \in 0 .. n : i < m + 1 => i = m \/ (i < m /\ i # m)
    BY <1>3
  <2>8. \A i \in 0 .. n : i < m + 1 => Flag(G, s, i) = Flag(E, s, i)
    BY <2>5, <2>6, Zenon DEF Flag
  <2>9. \A i \in 0 .. n : i < m + 1 => G[i] = Flag(E, s, i)
    BY <2>1, <2>5, <2>7, Zenon
  <2>10. \A i \in 0 .. n : i < m + 1 => G[i] = Flag(G, s, i)
    BY <2>8, <2>9, Zenon
  <2> QED BY <2>3, <2>5, <2>10, Zenon
<1>4. PICK N \in Nat : N = n + 1
  OBVIOUS
<1>5. N \in S
  <2> HIDE DEF S
  <2>1. N \in 1 .. N /\ \A m \in 1 .. N : m < N /\ m \in S => m + 1 \in S
    BY <1>3, <1>4
  <2> QED BY <1>2, <2>1, SmallestCounterexample
<1>6. PICK E : From(E, N)
  BY <1>5, Zenon
<1>7. \A i \in 0 .. n : i < N
  BY <1>4
<1>8. \A i \in 0 .. n : E[i] = Flag(E, s, i)
  BY <1>6, <1>7, Zenon
<1>9. E = [i \in 0 .. n |-> Flag(E, s, i)]
  <2>1. E = [i \in 0 .. n |-> E[i]]
    BY <1>6
  <2> QED BY <1>8, <2>1, Zenon
<1> QED BY <1>1, <1>9, Zenon DEF IsFlag

IsKept(E, s, i) == s[i] # Backslash \/ E[i - 1]
KeptBy(E, s) == {i \in DOMAIN s : IsKept(E, s, i)}
UnescapedBy(E, s) ==
  [k \in 1 .. Cardinality(KeptBy(E, s)) |-> s[Nth(KeptBy(E, s), k)]]
    \o (IF E[Len(s)] THEN <<Backslash>> ELSE <<>>)

(* What the loop keeps, with the flag that any solution gives.                *)
LEMMA UnescapedIs ==
  ASSUME NEW s \in Seq(Int)
  PROVE  \E E : IsFlag(E, s) /\ Unescaped(s) = UnescapedBy(E, s)
<1>1. PICK E : E = CHOOSE G : IsFlag(G, s)
  OBVIOUS
<1>2. IsFlag(E, s)
  BY <1>1, FlagExists, Zenon
<1>3. Unescaped(s) = UnescapedBy(E, s)
  BY <1>1, Zenon DEF Unescaped, UnescapedBy, KeptBy, IsKept, IsFlag, Flag
<1> QED BY <1>2, <1>3

(* The flag after a character, from the one before it.                        *)
LEMMA FlagIs ==
  ASSUME NEW s \in Seq(Int), NEW E, IsFlag(E, s)
  PROVE  /\ ~E[0]
         /\ \A i \in 1 .. Len(s) : E[i] <=> s[i] = Backslash /\ ~E[i - 1]
<1>1. PICK n \in Nat : n = Len(s)
  OBVIOUS
<1>2. 0 \in 0 .. n /\ \A i \in 1 .. n : i \in 0 .. n /\ i # 0
  OBVIOUS
<1>3. \A i \in 0 .. n : E[i] = Flag(E, s, i)
  BY <1>1, Zenon DEF IsFlag
<1> QED BY <1>1, <1>2, <1>3, Zenon DEF Flag

(* The characters that are kept are the value.                                 *)
KeepsAt(E, s, n, a, t) ==
  /\ ~E[Len(s)] /\ n \in Nat /\ t \in Seq(Int) /\ Len(t) = n
  /\ a \in [1 .. n -> Nat] /\ \A i, j \in 1 .. n : i < j => a[i] < a[j]
  /\ KeptBy(E, s) = {a[i] : i \in 1 .. n}
  /\ \A k \in 1 .. n : s[a[k]] = t[k]

(* What is kept, given by its positions.                                      *)
LEMMA KeptAre ==
  ASSUME NEW E, NEW s, NEW n, NEW a, NEW t, KeepsAt(E, s, n, a, t)
  PROVE  UnescapedBy(E, s) = t
<1>6. /\ ~E[Len(s)] /\ n \in Nat /\ t \in Seq(Int) /\ Len(t) = n
      /\ a \in [1 .. n -> Nat] /\ \A i, j \in 1 .. n : i < j => a[i] < a[j]
      /\ KeptBy(E, s) = {a[i] : i \in 1 .. n}
      /\ \A k \in 1 .. n : s[a[k]] = t[k]
  BY Zenon DEF KeepsAt
<1>1. PICK kept : kept = KeptBy(E, s)
  OBVIOUS
<1>2. Cardinality(kept) = n /\ \A k \in 1 .. n : Nth(kept, k) = a[k]
  BY ONLY <1>1, <1>6, Enumerated
<1>3. [k \in 1 .. Cardinality(kept) |-> s[Nth(kept, k)]] = [k \in 1 .. n |-> t[k]]
  BY <1>2, <1>6, Zenon
<1>4. [k \in 1 .. n |-> t[k]] = t
  BY <1>6
<1>5. t \o <<>> = t
  BY <1>6
<1> QED BY <1>1, <1>3, <1>4, <1>5, <1>6, Zenon DEF UnescapedBy

(* A value without a backslash is kept as it is.                              *)
LEMMA PlainIsUnescaped ==
  ASSUME NEW s \in Seq(Int), \A i \in 1 .. Len(s) : s[i] # Backslash
  PROVE  Unescaped(s) = s
<1>1. PICK E : IsFlag(E, s) /\ Unescaped(s) = UnescapedBy(E, s)
  BY UnescapedIs
<1>2. PICK n \in Nat : n = Len(s)
  OBVIOUS
<1>3. ~E[n]
  <2>1. ~E[0] /\ \A i \in 1 .. n : E[i] <=> s[i] = Backslash /\ ~E[i - 1]
    BY <1>1, <1>2, FlagIs
  <2>2. n = 0 \/ n \in 1 .. n
    OBVIOUS
  <2> QED BY <1>2, <2>1, <2>2, Zenon
<1>4. PICK a : a = [i \in 1 .. n |-> i]
  OBVIOUS
<1>5. /\ a \in [1 .. n -> Nat] /\ \A i, j \in 1 .. n : i < j => a[i] < a[j]
      /\ {a[i] : i \in 1 .. n} = 1 .. n
      /\ \A k \in 1 .. n : s[a[k]] = s[k]
  BY <1>4
<1>6. KeptBy(E, s) = {a[i] : i \in 1 .. n}
  <2>1. DOMAIN s = 1 .. n
    BY <1>2
  <2>2. KeptBy(E, s) = 1 .. n
    BY <1>2, <2>1, Zenon DEF KeptBy, IsKept
  <2> QED BY <1>5, <2>2, Zenon
<1>7. UnescapedBy(E, s) = s
  <2>1. ~E[Len(s)] /\ Len(s) = n
    BY <1>2, <1>3, Zenon
  <2>2. KeepsAt(E, s, n, a, s)
    BY <1>5, <1>6, <2>1, Zenon DEF KeepsAt
  <2> QED BY <2>2, KeptAre, Zenon
<1> QED BY <1>1, <1>7, Zenon

(* What the shell wants escaped is escaped, and what is escaped is read back.  *)
Escaped(c) == IF c \in {Quote, Backslash, Dollar} THEN <<Backslash, c>> ELSE <<c>>
Inside(t) == FlattenSeq([i \in DOMAIN t |-> Escaped(t[i])])

(* A character in double quotes is one character, or two with a backslash.    *)
LEMMA EscapedIs ==
  ASSUME NEW c \in Int
  PROVE  /\ Escaped(c) \in Seq(Int)
         /\ c \in {Quote, Backslash, Dollar}
              => Len(Escaped(c)) = 2 /\ Escaped(c)[1] = Backslash /\ Escaped(c)[2] = c
         /\ c \notin {Quote, Backslash, Dollar} => Len(Escaped(c)) = 1 /\ Escaped(c)[1] = c
<1>1. CASE c \in {Quote, Backslash, Dollar}
  <2>1. Escaped(c) = <<Backslash, c>>
    BY <1>1, Zenon DEF Escaped
  <2> QED BY <1>1, <2>1 DEF Backslash
<1>2. CASE c \notin {Quote, Backslash, Dollar}
  <2>1. Escaped(c) = <<c>>
    BY <1>2, Zenon DEF Escaped
  <2> QED BY <1>2, <2>1
<1> QED BY <1>1, <1>2

(* The flag before and after a character of the value.                         *)
KeepsOne(E, o, q, s) ==
  /\ q \in {1, 2} /\ ~E[o + q]
  /\ \A j \in 1 .. q : IsKept(E, s, o + j) <=> j = q

(* The loop keeps one character for each.                                     *)
LEMMA OneIsKept ==
  ASSUME NEW s \in Seq(Int), NEW E, IsFlag(E, s), NEW c \in Int, NEW o \in Nat, ~E[o],
         NEW q \in Nat, q = Len(Escaped(c)), o + q <= Len(s),
         \A j \in 1 .. q : s[o + j] = Escaped(c)[j]
  PROVE  KeepsOne(E, o, q, s)
<1>1. PICK L \in Nat : L = Len(s)
  OBVIOUS
<1>2. \A i \in 1 .. L : E[i] <=> s[i] = Backslash /\ ~E[i - 1]
  BY <1>1, FlagIs
<1>3. CASE c \in {Quote, Backslash, Dollar}
  <2>1. q = 2 /\ Escaped(c)[1] = Backslash
    BY <1>3, EscapedIs
  <2>2. /\ o + 1 \in 1 .. L /\ o + 2 \in 1 .. L /\ 1 \in 1 .. 2
        /\ (o + 1) - 1 = o /\ (o + 2) - 1 = o + 1
        /\ \A j \in 1 .. 2 : j = 1 \/ j = 2
        /\ ~ (1 = 2)
    BY <1>1, <2>1
  <2>3. s[o + 1] = Backslash
    BY <2>1, <2>2, Zenon
  <2>4. E[o + 1]
    BY <1>2, <2>2, <2>3, Zenon
  <2>5. ~E[o + 2]
    BY <1>2, <2>2, <2>4, Zenon
  <2>6. \A j \in 1 .. 2 : IsKept(E, s, o + j) <=> j = 2
    <3>1. ~ IsKept(E, s, o + 1)
      BY <2>2, <2>3, Zenon DEF IsKept
    <3>2. IsKept(E, s, o + 2)
      BY <2>2, <2>4, Zenon DEF IsKept
    <3> QED BY <2>2, <3>1, <3>2, Zenon
  <2> QED BY <2>1, <2>5, <2>6, Zenon DEF KeepsOne
<1>4. CASE c \notin {Quote, Backslash, Dollar}
  <2>1. q = 1 /\ Escaped(c)[1] = c
    BY <1>4, EscapedIs
  <2>2. o + 1 \in 1 .. L /\ 1 \in 1 .. 1 /\ \A j \in 1 .. 1 : j = 1
    BY <1>1, <2>1
  <2>3. s[o + 1] # Backslash
    BY <1>4, <2>1, <2>2, Zenon
  <2>4. ~E[o + 1]
    BY <1>2, <2>2, <2>3, Zenon
  <2>5. \A j \in 1 .. 1 : IsKept(E, s, o + j) <=> j = 1
    BY <2>2, <2>3, Zenon DEF IsKept
  <2> QED BY <2>1, <2>4, <2>5, Zenon DEF KeepsOne
<1> QED BY <1>3, <1>4

(* So what the shell writes in double quotes is read as it was.               *)
LEMMA InsideIsText ==
  ASSUME NEW t \in Seq(Int)
  PROVE  Inside(t) \in Seq(Int) /\ Unescaped(Inside(t)) = t
<1>1. PICK n \in Nat : n = Len(t)
  OBVIOUS
<1>2. PICK parts : parts = [i \in 1 .. n |-> Escaped(t[i])]
  OBVIOUS
<1>3. DOMAIN t = 1 .. n /\ \A i \in 1 .. n : t[i] \in Int
  BY <1>1
<1>4. parts \in [1 .. n -> Seq(Int)] /\ \A i \in 1 .. n : parts[i] = Escaped(t[i])
  <2>1. \A i \in 1 .. n : Escaped(t[i]) \in Seq(Int)
    BY <1>3, EscapedIs
  <2> QED BY <1>2, <2>1
<1>5. PICK s : s = FlattenSeq(parts)
  OBVIOUS
<1>6. s = Inside(t)
  BY <1>2, <1>3, <1>5, Zenon DEF Inside
<1>7. PICK off : PartsAt(s, parts, n, off)
  BY <1>4, <1>5, PartsFound
<1>8. /\ s \in Seq(Int) /\ off \in [0 .. n -> Nat] /\ off[0] = 0 /\ off[n] = Len(s)
      /\ \A k \in 1 .. n : off[k] = off[k - 1] + Len(parts[k])
      /\ \A k \in 1 .. n : \A j \in 1 .. Len(parts[k]) : s[off[k - 1] + j] = parts[k][j]
      /\ \A k, m \in 0 .. n : k < m => off[k] <= off[m]
      /\ \A i \in 1 .. Len(s) : \E k \in 1 .. n : \E j \in 1 .. Len(parts[k]) : i = off[k - 1] + j
  BY <1>7, Zenon DEF PartsAt
<1>9. PICK E : IsFlag(E, s) /\ Unescaped(s) = UnescapedBy(E, s)
  BY <1>8, UnescapedIs
<1> DEFINE Right(k) == ~E[off[k]]
<1>10. Right(0)
  <2>1. ~E[0]
    BY <1>8, <1>9, FlagIs
  <2> QED BY <1>8, <2>1, Zenon
<1>11. ASSUME NEW k \in 1 .. n, Right(k - 1)
       PROVE  KeepsOne(E, off[k - 1], Len(parts[k]), s) /\ off[k - 1] \in Nat
  <2>1. PICK c \in Int : c = t[k]
    BY <1>3
  <2>2. k - 1 \in 0 .. n /\ k \in 0 .. n /\ n \in 0 .. n
    OBVIOUS
  <2>3. PICK o \in Nat, q \in Nat : o = off[k - 1] /\ q = Len(Escaped(c))
    <3>1. off[k - 1] \in Nat
      BY <1>8, <2>2
    <3>2. Len(Escaped(c)) \in Nat
      BY EscapedIs
    <3> QED BY <3>1, <3>2
  <2>4. parts[k] = Escaped(c) /\ off[k] = o + q
    BY <1>4, <1>8, <2>1, <2>3, Zenon
  <2>5. o + q <= Len(s)
    <3>1. k = n \/ k < n
      OBVIOUS
    <3>2. off[k] = off[n] \/ off[k] <= off[n]
      BY <1>8, <2>2, <3>1, Zenon
    <3>3. o + q = Len(s) \/ o + q <= Len(s)
      BY <1>8, <2>4, <3>2, Zenon
    <3>4. Len(s) \in Nat
      BY <1>8
    <3> QED BY ONLY <3>3, <3>4
  <2>6. \A j \in 1 .. q : s[o + j] = Escaped(c)[j]
    BY <1>8, <2>3, <2>4, Zenon
  <2>7. ~E[o]
    BY <1>11, <2>3, Zenon
  <2>8. KeepsOne(E, o, q, s)
    <3>1. s \in Seq(Int) /\ IsFlag(E, s) /\ q = Len(Escaped(c))
      BY <1>8, <1>9, <2>3, Zenon
    <3> QED BY ONLY <2>5, <2>6, <2>7, <3>1, c \in Int, o \in Nat, q \in Nat, OneIsKept
  <2> QED BY <2>3, <2>4, <2>8, Zenon
<1>12. ASSUME NEW k \in 1 .. n, Right(k - 1) PROVE Right(k)
  <2>1. KeepsOne(E, off[k - 1], Len(parts[k]), s)
    BY <1>11, <1>12, Zenon
  <2>2. off[k] = off[k - 1] + Len(parts[k])
    BY <1>8, Zenon
  <2> QED BY <2>1, <2>2, Zenon DEF KeepsOne
<1> HIDE DEF Right
<1>13. \A k \in 0 .. n : Right(k)
  <2> DEFINE S == {m \in 1 .. n + 1 : Right(m - 1)}
  <2>1. PICK N \in Nat : N = n + 1
    OBVIOUS
  <2>2. 1 \in S
    <3>1. 1 - 1 = 0 /\ 1 \in 1 .. n + 1
      OBVIOUS
    <3> QED BY <1>10, <3>1, Zenon
  <2>3. ASSUME NEW m \in 1 .. N, m < N, m \in S PROVE m + 1 \in S
    <3>1. m \in 1 .. n /\ (m + 1) - 1 = m /\ m + 1 \in 1 .. n + 1
      BY <2>1, <2>3
    <3> QED BY <1>12, <2>3, <3>1, Zenon
  <2>4. \A m \in 1 .. N : m \in S
    <3> HIDE DEF S
    <3> QED BY <2>2, <2>3, SmallestCounterexample
  <2>5. \A k \in 0 .. n : k + 1 \in 1 .. N /\ (k + 1) - 1 = k
    BY <2>1
  <2> QED BY <2>4, <2>5, Zenon
<1>14. ASSUME NEW k \in 1 .. n
       PROVE  /\ off[k - 1] \in Nat /\ off[k] = off[k - 1] + Len(parts[k])
              /\ KeepsOne(E, off[k - 1], Len(parts[k]), s)
  <2>1. k - 1 \in 0 .. n
    OBVIOUS
  <2> QED BY <1>8, <1>11, <1>13, <2>1, Zenon
<1>15. PICK a : a = [k \in 1 .. n |-> off[k]]
  OBVIOUS
<1>16. a \in [1 .. n -> Nat] /\ \A k \in 1 .. n : a[k] = off[k]
  BY <1>8, <1>15
<1>17. \A i, j \in 1 .. n : i < j => a[i] < a[j]
  <2> SUFFICES ASSUME NEW i \in 1 .. n, NEW j \in 1 .. n, i < j PROVE a[i] < a[j]
    OBVIOUS
  <2>1. PICK x \in Nat, y \in Nat, z \in Nat : x = off[i] /\ y = off[j - 1] /\ z = off[j]
    BY <1>8, i \in 0 .. n, j \in 0 .. n, j - 1 \in 0 .. n
  <2>2. i = j - 1 \/ (i < j - 1 /\ i \in 0 .. n /\ j - 1 \in 0 .. n)
    OBVIOUS
  <2>3. x = y \/ x <= y
    BY <1>8, <2>1, <2>2, Zenon
  <2>6. PICK q : q = Len(parts[j])
    OBVIOUS
  <2>4. z = y + q /\ q \in {1, 2}
    BY <1>14, <2>1, <2>6, Zenon DEF KeepsOne
  <2>5. x < z
    BY ONLY <2>3, <2>4, x \in Nat, y \in Nat, z \in Nat
  <2> QED BY <1>16, <2>1, <2>5, Zenon
<1>18. KeptBy(E, s) = {a[i] : i \in 1 .. n}
  <2>1. ASSUME NEW i \in KeptBy(E, s) PROVE \E k \in 1 .. n : i = a[k]
    <3>1. i \in 1 .. Len(s) /\ IsKept(E, s, i)
      BY <1>8 DEF KeptBy
    <3>2. PICK k \in 1 .. n : \E j \in 1 .. Len(parts[k]) : i = off[k - 1] + j
      BY <1>8, <3>1, Zenon
    <3>3. PICK j \in 1 .. Len(parts[k]) : i = off[k - 1] + j
      BY <3>2, Zenon
    <3>4. j = Len(parts[k])
      <4>1. PICK o, q : o = off[k - 1] /\ q = Len(parts[k])
        OBVIOUS
      <4>2. KeepsOne(E, o, q, s) /\ i = o + j /\ j \in 1 .. q /\ o \in Nat
        BY <1>14, <3>3, <4>1, Zenon
      <4>3. IsKept(E, s, o + j)
        BY <3>1, <4>2, Zenon
      <4>4. j = q
        BY <4>2, <4>3, Zenon DEF KeepsOne
      <4> QED BY <4>1, <4>4, Zenon
    <3> QED BY <1>14, <1>16, <3>3, <3>4, Zenon
  <2>2. ASSUME NEW k \in 1 .. n PROVE a[k] \in KeptBy(E, s)
    <3>1. PICK o, q : o \in Nat /\ o = off[k - 1] /\ q = Len(parts[k])
      BY <1>14
    <3>2. KeepsOne(E, o, q, s) /\ a[k] = o + q
      BY <1>14, <1>16, <3>1, Zenon
    <3>3. q \in 1 .. q
      BY <3>2 DEF KeepsOne
    <3>4. IsKept(E, s, o + q)
      BY <3>2, <3>3, Zenon DEF KeepsOne
    <3>5. off[k] <= Len(s) /\ Len(s) \in Nat
      <4>1. (k = n \/ k < n) /\ k \in 0 .. n /\ n \in 0 .. n
        OBVIOUS
      <4>2. off[k] = off[n] \/ off[k] <= off[n]
        BY <1>8, <4>1, Zenon
      <4>3. off[n] \in Nat /\ Len(s) = off[n]
        BY <1>8, <4>1
      <4> QED BY ONLY <4>2, <4>3
    <3>6. a[k] <= Len(s)
      BY <1>16, <3>5, Zenon
    <3>7. o + q \in 1 .. Len(s)
      <4>1. q \in {1, 2}
        BY <3>2, Zenon DEF KeepsOne
      <4>2. o + q <= Len(s)
        BY <3>2, <3>6, Zenon
      <4>3. o \in Nat
        BY <3>1
      <4> QED BY ONLY <3>5, <4>1, <4>2, <4>3
    <3>8. DOMAIN s = 1 .. Len(s)
      BY <1>8
    <3>9. o + q \in KeptBy(E, s)
      BY <3>4, <3>7, <3>8, Zenon DEF KeptBy
    <3> QED BY <3>2, <3>9, Zenon
  <2> QED BY <2>1, <2>2, Zenon
<1>19. \A k \in 1 .. n : s[a[k]] = t[k]
  <2> SUFFICES ASSUME NEW k \in 1 .. n PROVE s[a[k]] = t[k]
    OBVIOUS
  <2>1. PICK c \in Int : c = t[k]
    BY <1>3
  <2>2. PICK q : q = Len(Escaped(c))
    OBVIOUS
  <2>3. q \in 1 .. q /\ Escaped(c)[q] = c
    <3>1. CASE c \in {Quote, Backslash, Dollar}
      <4>1. q = 2 /\ Escaped(c)[2] = c
        BY <2>2, <3>1, EscapedIs
      <4> QED BY <4>1
    <3>2. CASE c \notin {Quote, Backslash, Dollar}
      <4>1. q = 1 /\ Escaped(c)[1] = c
        BY <2>2, <3>2, EscapedIs
      <4> QED BY <4>1
    <3> QED BY <3>1, <3>2
  <2>4. parts[k] = Escaped(c)
    BY <1>4, <2>1, Zenon
  <2>5. a[k] = off[k - 1] + q /\ s[off[k - 1] + q] = Escaped(c)[q]
    BY <1>8, <1>14, <1>16, <2>2, <2>3, <2>4, Zenon
  <2> QED BY <2>1, <2>3, <2>5, Zenon
<1>20. KeepsAt(E, s, n, a, t)
  <2>1. ~E[Len(s)]
    <3>1. n \in 0 .. n
      OBVIOUS
    <3> QED BY <1>8, <1>13, <3>1, Zenon DEF Right
  <2> QED BY <1>1, <1>16, <1>17, <1>18, <1>19, <2>1, Zenon DEF KeepsAt
<1> QED BY <1>6, <1>8, <1>9, <1>20, KeptAre, Zenon

(* w is what is left of s when the blanks around it are trimmed.               *)
IsTrimmed(s, w, o) ==
  /\ s \in Seq(Int) /\ w \in Seq(Int) /\ o \in Nat /\ Len(w) # 0 /\ o + Len(w) <= Len(s)
  /\ w[1] \notin Blank /\ w[Len(w)] \notin Blank
  /\ \A j \in 1 .. Len(w) : s[o + j] = w[j]
  /\ \A i \in 1 .. Len(s) : i <= o \/ i > o + Len(w) => s[i] \in Blank

(* What trim leaves of a text with blanks around.                             *)
LEMMA TrimmedIs ==
  ASSUME NEW s, NEW w, NEW o, IsTrimmed(s, w, o)
  PROVE  Trim(s) = w
<1>1. /\ s \in Seq(Int) /\ w \in Seq(Int) /\ o \in Nat /\ Len(w) # 0 /\ o + Len(w) <= Len(s)
      /\ w[1] \notin Blank /\ w[Len(w)] \notin Blank
      /\ \A j \in 1 .. Len(w) : s[o + j] = w[j]
      /\ \A i \in 1 .. Len(s) : i <= o \/ i > o + Len(w) => s[i] \in Blank
  BY Zenon DEF IsTrimmed
<1>2. PICK n \in Nat, q \in Nat : n = Len(s) /\ q = Len(w)
  BY <1>1
<1>3. DOMAIN s = 1 .. n
  BY <1>1, <1>2
<1>4. PICK kept : kept = {i \in DOMAIN s : s[i] \notin Blank}
  OBVIOUS
<1>5. PICK first \in Nat, last \in Nat : first = o + 1 /\ last = o + q
  BY <1>1
<1>6. q # 0 /\ o + q <= n /\ o \in Nat
  BY <1>1, <1>2
<1>7. /\ first \in 1 .. n /\ last \in 1 .. n /\ 1 \in 1 .. q /\ q \in 1 .. q
      /\ first <= last /\ first - 1 = o
  BY ONLY <1>5, <1>6, q \in Nat, n \in Nat
<1>8. first \in kept /\ last \in kept
  BY <1>1, <1>2, <1>3, <1>4, <1>5, <1>7, Zenon
<1>9. \A i \in kept : first <= i /\ i <= last /\ i \in Nat
  <2> SUFFICES ASSUME NEW i \in kept PROVE first <= i /\ i <= last /\ i \in Nat
    OBVIOUS
  <2>1. i \in 1 .. n /\ ~ (i <= o) /\ ~ (i > o + q)
    BY <1>1, <1>2, <1>3, <1>4, Zenon
  <2> QED BY ONLY <1>5, <1>6, <2>1, n \in Nat, q \in Nat
<1>10. PICK lo \in kept, hi \in kept : /\ \A i \in kept : lo <= i /\ i <= hi
                                       /\ Trim(s) = SubSeq(s, lo, hi)
  <2>1. s \in Seq(Int) /\ kept # {}
    BY <1>1, <1>8, Zenon
  <2> QED BY ONLY <1>4, <2>1, Trimmed
<1>11. lo = first /\ hi = last
  <2>1. lo <= first /\ first <= lo /\ last <= hi /\ hi <= last /\ lo \in Nat /\ hi \in Nat
    BY <1>8, <1>9, <1>10
  <2> QED BY <2>1
<1>12. SubSeq(s, first, (last + 1) - 1) = w
  <2>1. PICK b \in Nat : b = last + 1
    OBVIOUS
  <2>2. /\ 1 <= first /\ first <= b /\ b <= Len(s) + 1 /\ Len(w) = b - first
        /\ b - first = q
    BY ONLY <1>2, <1>5, <1>6, <2>1, q \in Nat, n \in Nat
  <2>3. \A j \in 1 .. q : first + j - 1 = o + j
    BY <1>5, <1>6
  <2>4. \A j \in 1 .. b - first : s[first + j - 1] = w[j]
    BY <1>1, <1>2, <2>2, <2>3, Zenon
  <2>5. SubSeq(s, first, b - 1) = w
    BY ONLY <1>1, <2>2, <2>4, first \in Nat, b \in Nat, PartIs
  <2> QED BY <2>1, <2>5, Zenon
<1>13. (last + 1) - 1 = last
  OBVIOUS
<1> QED BY <1>10, <1>11, <1>12, <1>13, Zenon

(* A value in quotes.                                                          *)
IsWrapped(v, d, inner) ==
  /\ v \in Seq(Int) /\ inner \in Seq(Int) /\ d \in {Quote, Apostrophe}
  /\ Len(v) = Len(inner) + 2 /\ v[1] = d /\ v[Len(inner) + 2] = d
  /\ \A j \in 1 .. Len(inner) : v[j + 1] = inner[j]

(* A value in quotes is unquoted and unescaped.                               *)
LEMMA UnquotedIs ==
  ASSUME NEW v, NEW d, NEW inner, IsWrapped(v, d, inner)
  PROVE  UnquoteOsReleaseValue(v) = Unescaped(inner)
<1>1. /\ v \in Seq(Int) /\ inner \in Seq(Int) /\ d \in {Quote, Apostrophe}
      /\ Len(v) = Len(inner) + 2 /\ v[1] = d /\ v[Len(inner) + 2] = d
      /\ \A j \in 1 .. Len(inner) : v[j + 1] = inner[j]
  BY Zenon DEF IsWrapped
<1>2. PICK n \in Nat : n = Len(inner)
  BY <1>1
<1>3. d \notin Blank
  BY <1>1 DEF Quote, Apostrophe, Blank, Tab, Newline, Space
<1>4. Trim(v) = v
  <2>1. PICK m \in Nat : m = n + 2
    OBVIOUS
  <2>2. /\ 0 \in Nat /\ Len(v) = m /\ m # 0 /\ 0 + m <= m /\ \A j \in 1 .. m : 0 + j = j
        /\ \A i \in 1 .. m : ~ (i <= 0) /\ ~ (i > 0 + m)
    BY <1>1, <1>2, <2>1
  <2>3. v[1] \notin Blank /\ v[m] \notin Blank
    BY <1>1, <1>2, <1>3, <2>1, Zenon
  <2>4. IsTrimmed(v, v, 0)
    BY <1>1, <2>2, <2>3, Zenon DEF IsTrimmed
  <2> QED BY <2>4, TrimmedIs, Zenon
<1>5. Quoted(v)
  BY <1>1, <1>2 DEF Quoted
<1>6. Between(v, 2, Len(v)) = inner
  <2>1. PICK a \in Nat, b \in Nat : a = 2 /\ b = n + 2
    OBVIOUS
  <2>2. /\ 1 <= a /\ a <= b /\ b <= Len(v) + 1 /\ Len(inner) = b - a /\ b - a = n
        /\ \A j \in 1 .. n : a + j - 1 = j + 1
    BY <1>1, <1>2, <2>1
  <2>3. \A j \in 1 .. b - a : v[a + j - 1] = inner[j]
    BY <1>1, <1>2, <2>2, Zenon
  <2>4. SubSeq(v, a, b - 1) = inner
    BY ONLY <1>1, <2>2, <2>3, a \in Nat, b \in Nat, PartIs
  <2> QED BY <1>1, <1>2, <2>1, <2>4, Zenon DEF Between
<1> QED BY <1>4, <1>5, <1>6, Zenon DEF UnquoteOsReleaseValue

(* Quotes around a text are its first and last character.                     *)
LEMMA WrappedIn ==
  ASSUME NEW inner \in Seq(Int), NEW d \in {Quote, Apostrophe}
  PROVE  IsWrapped((<<d>> \o inner) \o <<d>>, d, inner)
<1>1. PICK g, u, v : g = <<d>> /\ u = g \o inner /\ v = u \o g
  OBVIOUS
<1>2. d \in Int
  BY DEF Quote, Apostrophe
<1>3. g \in Seq(Int) /\ Len(g) = 1 /\ g[1] = d
  BY <1>1, <1>2
<1>4. PICK n \in Nat, m \in Nat : n = Len(inner) /\ m = 1 + n
  OBVIOUS
<1>5. IsJoined(u, g, 1, inner, n)
  BY ONLY <1>1, <1>3, <1>4, inner \in Seq(Int), n \in Nat, JoinedAt
<1>6. u \in Seq(Int) /\ Len(u) = m
  BY <1>4, <1>5, Zenon DEF IsJoined
<1>7. IsJoined(v, u, m, g, 1)
  BY ONLY <1>1, <1>3, <1>6, m \in Nat, JoinedAt
<1>8. 1 \in 1 .. 1 /\ 1 \in 1 .. m /\ m + 1 = n + 2
      /\ \A j \in 1 .. n : j + 1 \in 1 .. m /\ 1 + j = j + 1
  BY <1>4
<1>9. v \in Seq(Int) /\ Len(v) = n + 2 /\ v[n + 2] = d
  BY <1>3, <1>7, <1>8, Zenon DEF IsJoined
<1>10. v[1] = d
  <2>1. u[1] = g[1]
    BY <1>5, <1>8, Zenon DEF IsJoined
  <2>2. v[1] = u[1]
    BY <1>7, <1>8, Zenon DEF IsJoined
  <2> QED BY <1>3, <2>1, <2>2, Zenon
<1>11. \A j \in 1 .. n : v[j + 1] = inner[j]
  BY <1>5, <1>7, <1>8, Zenon DEF IsJoined
<1>12. IsWrapped(v, d, inner)
  BY <1>4, <1>9, <1>10, <1>11, Zenon DEF IsWrapped
<1> QED BY <1>1, <1>12, Zenon

(* A value is read as it was, in double quotes always, and in single quotes   *)
(* without a backslash.                                                       *)
LEMMA ValuesAreRead ==
  ASSUME NEW t \in Seq(Int)
  PROVE  /\ UnquoteOsReleaseValue(DoubleQuoted(t)) = t
         /\ (\A j \in 1 .. Len(t) : t[j] # Backslash)
              => UnquoteOsReleaseValue(SingleQuoted(t)) = t
<1>1. UnquoteOsReleaseValue(DoubleQuoted(t)) = t
  <2>1. PICK inner \in Seq(Int) : inner = Inside(t) /\ Unescaped(inner) = t
    BY InsideIsText
  <2>2. PICK v : v = (<<Quote>> \o inner) \o <<Quote>>
    OBVIOUS
  <2>3. v = DoubleQuoted(t)
    BY <2>1, <2>2, Zenon DEF DoubleQuoted, Inside, Escaped
  <2>4. IsWrapped(v, Quote, inner)
    BY <2>2, WrappedIn, Zenon
  <2> QED BY <2>1, <2>3, <2>4, UnquotedIs, Zenon
<1>2. ASSUME \A j \in 1 .. Len(t) : t[j] # Backslash
      PROVE  UnquoteOsReleaseValue(SingleQuoted(t)) = t
  <2>1. PICK v : v = (<<Apostrophe>> \o t) \o <<Apostrophe>>
    OBVIOUS
  <2>2. v = SingleQuoted(t)
    BY <2>1, Zenon DEF SingleQuoted
  <2>3. IsWrapped(v, Apostrophe, t)
    BY <2>1, WrappedIn, Zenon
  <2>4. Unescaped(t) = t
    BY <1>2, PlainIsUnescaped
  <2> QED BY <2>2, <2>3, <2>4, UnquotedIs, Zenon
<1> QED BY <1>1, <1>2, Zenon
--------------------------------------------------------------------------------
(* Two short texts joined.                                                     *)
Joins(t, p, u, q, w) ==
  /\ t \in Seq(Int) /\ u \in Seq(Int) /\ p \in Nat /\ q \in Nat /\ Len(t) = p /\ Len(u) = q
  /\ IsJoined(w, t, p, u, q)

(* Joined texts are equal to a third that has the characters of both.         *)
LEMMA JoinedIs ==
  ASSUME NEW t, NEW p, NEW u, NEW q, NEW w, Joins(t, p, u, q, w)
  PROVE  t \o u = w
<1>1. /\ t \in Seq(Int) /\ u \in Seq(Int) /\ p \in Nat /\ q \in Nat /\ Len(t) = p /\ Len(u) = q
      /\ IsJoined(w, t, p, u, q)
  BY Zenon DEF Joins
<1>2. PICK v : v = t \o u
  OBVIOUS
<1>3. IsJoined(v, t, p, u, q)
  BY <1>1, <1>2, JoinedAt, Zenon
<1>4. /\ v \in Seq(Int) /\ Len(v) = p + q /\ w \in Seq(Int) /\ Len(w) = p + q
      /\ \A i \in 1 .. p : v[i] = t[i] /\ w[i] = t[i]
      /\ \A j \in 1 .. q : v[p + j] = u[j] /\ w[p + j] = u[j]
  BY <1>1, <1>3, Zenon DEF IsJoined
<1>5. \A i \in 1 .. p + q : v[i] = w[i]
  <2> SUFFICES ASSUME NEW i \in 1 .. p + q PROVE v[i] = w[i]
    OBVIOUS
  <2>1. i \in 1 .. p \/ (i - p \in 1 .. q /\ p + (i - p) = i)
    BY <1>1
  <2> QED BY <1>4, <2>1, Zenon
<1>6. v = w
  BY <1>4, <1>5, SeqEqual, Zenon
<1> QED BY <1>2, <1>6, Zenon

(* The lines of the file, character by character.                             *)
LEMMA Commented ==
  ASSUME NEW c \in Int
  PROVE  <<35, 80, 61>> \o <<c>> = <<35, 80, 61, c>>
<1>1. PICK t, u, w : t = <<35, 80, 61>> /\ u = <<c>> /\ w = <<35, 80, 61, c>>
  OBVIOUS
<1>2. /\ t \in Seq(Int) /\ Len(t) = 3 /\ t[1] = 35 /\ t[2] = 80 /\ t[3] = 61
      /\ u \in Seq(Int) /\ Len(u) = 1 /\ u[1] = c
  BY <1>1
<1>3. w \in Seq(Int) /\ Len(w) = 4 /\ w[1] = 35 /\ w[2] = 80 /\ w[3] = 61 /\ w[4] = c
  BY <1>1
<1>4. /\ \A i \in 1 .. 3 : w[i] = t[i]
      /\ \A j \in 1 .. 1 : w[3 + j] = u[j]
  BY ONLY <1>2, <1>3
<1>5. Joins(t, 3, u, 1, w)
  BY <1>2, <1>3, <1>4 DEF Joins, IsJoined
<1>6. t \o u = w
  BY <1>5, JoinedIs, Zenon
<1> QED BY <1>1, <1>6, Zenon

(* NAME=c                                                                     *)
LEMMA Named ==
  ASSUME NEW c \in Int
  PROVE  <<78, 61>> \o <<c>> = <<78, 61, c>>
<1>1. PICK t, u, w : t = <<78, 61>> /\ u = <<c>> /\ w = <<78, 61, c>>
  OBVIOUS
<1>2. /\ t \in Seq(Int) /\ Len(t) = 2 /\ t[1] = 78 /\ t[2] = 61
      /\ u \in Seq(Int) /\ Len(u) = 1 /\ u[1] = c
  BY <1>1
<1>3. w \in Seq(Int) /\ Len(w) = 3 /\ w[1] = 78 /\ w[2] = 61 /\ w[3] = c
  BY <1>1
<1>4. /\ \A i \in 1 .. 2 : w[i] = t[i]
      /\ \A j \in 1 .. 1 : w[2 + j] = u[j]
  BY ONLY <1>2, <1>3
<1>5. Joins(t, 2, u, 1, w)
  BY <1>2, <1>3, <1>4 DEF Joins, IsJoined
<1>6. t \o u = w
  BY <1>5, JoinedIs, Zenon
<1> QED BY <1>1, <1>6, Zenon

(* NAME =c                                                                    *)
LEMMA NamedLate ==
  ASSUME NEW c \in Int
  PROVE  <<78, 32, 61>> \o <<c>> = <<78, 32, 61, c>>
<1>1. PICK t, u, w : t = <<78, 32, 61>> /\ u = <<c>> /\ w = <<78, 32, 61, c>>
  OBVIOUS
<1>2. /\ t \in Seq(Int) /\ Len(t) = 3 /\ t[1] = 78 /\ t[2] = 32 /\ t[3] = 61
      /\ u \in Seq(Int) /\ Len(u) = 1 /\ u[1] = c
  BY <1>1
<1>3. w \in Seq(Int) /\ Len(w) = 4 /\ w[1] = 78 /\ w[2] = 32 /\ w[3] = 61 /\ w[4] = c
  BY <1>1
<1>4. /\ \A i \in 1 .. 3 : w[i] = t[i]
      /\ \A j \in 1 .. 1 : w[3 + j] = u[j]
  BY ONLY <1>2, <1>3
<1>5. Joins(t, 3, u, 1, w)
  BY <1>2, <1>3, <1>4 DEF Joins, IsJoined
<1>6. t \o u = w
  BY <1>5, JoinedIs, Zenon
<1> QED BY <1>1, <1>6, Zenon

(* PRETTY_NAME=c                                                              *)
LEMMA Prettily ==
  ASSUME NEW c \in Int
  PROVE  <<80, 61>> \o <<c>> = <<80, 61, c>>
<1>1. PICK t, u, w : t = <<80, 61>> /\ u = <<c>> /\ w = <<80, 61, c>>
  OBVIOUS
<1>2. /\ t \in Seq(Int) /\ Len(t) = 2 /\ t[1] = 80 /\ t[2] = 61
      /\ u \in Seq(Int) /\ Len(u) = 1 /\ u[1] = c
  BY <1>1
<1>3. w \in Seq(Int) /\ Len(w) = 3 /\ w[1] = 80 /\ w[2] = 61 /\ w[3] = c
  BY <1>1
<1>4. /\ \A i \in 1 .. 2 : w[i] = t[i]
      /\ \A j \in 1 .. 1 : w[2 + j] = u[j]
  BY ONLY <1>2, <1>3
<1>5. Joins(t, 2, u, 1, w)
  BY <1>2, <1>3, <1>4 DEF Joins, IsJoined
<1>6. t \o u = w
  BY <1>5, JoinedIs, Zenon
<1> QED BY <1>1, <1>6, Zenon

(* PRETTY_NAME="c"                                                            *)
LEMMA PrettilyQuoted ==
  ASSUME NEW c \in Int
  PROVE  <<32, 80, 61, 34>> \o <<c, 34>> = <<32, 80, 61, 34, c, 34>>
<1>1. PICK t, u, w : t = <<32, 80, 61, 34>> /\ u = <<c, 34>> /\ w = <<32, 80, 61, 34, c, 34>>
  OBVIOUS
<1>2. /\ t \in Seq(Int) /\ Len(t) = 4 /\ t[1] = 32 /\ t[2] = 80 /\ t[3] = 61 /\ t[4] = 34
      /\ u \in Seq(Int) /\ Len(u) = 2 /\ u[1] = c /\ u[2] = 34
  BY <1>1
<1>3. w \in Seq(Int) /\ Len(w) = 6 /\ w[1] = 32 /\ w[2] = 80 /\ w[3] = 61 /\ w[4] = 34 /\ w[5] = c /\ w[6] = 34
  BY <1>1
<1>4. /\ \A i \in 1 .. 4 : w[i] = t[i]
      /\ \A j \in 1 .. 2 : w[4 + j] = u[j]
  BY ONLY <1>2, <1>3
<1>5. Joins(t, 4, u, 2, w)
  BY <1>2, <1>3, <1>4 DEF Joins, IsJoined
<1>6. t \o u = w
  BY <1>5, JoinedIs, Zenon
<1> QED BY <1>1, <1>6, Zenon

(* The same lines before the value.                                           *)
LEMMA NameEquals ==
  Name \o <<Equals>> = <<78, 61>>
<1>1. PICK t, u, w : t = <<78>> /\ u = <<61>> /\ w = <<78, 61>>
  OBVIOUS
<1>2. /\ t \in Seq(Int) /\ Len(t) = 1 /\ t[1] = 78
      /\ u \in Seq(Int) /\ Len(u) = 1 /\ u[1] = 61
  BY <1>1
<1>3. w \in Seq(Int) /\ Len(w) = 2 /\ w[1] = 78 /\ w[2] = 61
  BY <1>1
<1>4. /\ \A i \in 1 .. 1 : w[i] = t[i]
      /\ \A j \in 1 .. 1 : w[1 + j] = u[j]
  BY ONLY <1>2, <1>3
<1>5. Joins(t, 1, u, 1, w)
  BY <1>2, <1>3, <1>4 DEF Joins, IsJoined
<1>6. t \o u = w
  BY <1>5, JoinedIs, Zenon
<1> QED BY <1>1, <1>6, Zenon DEF Name, Equals

(* NAME =                                                                     *)
LEMMA NameSpaceEquals ==
  Name \o <<Space, Equals>> = <<78, 32, 61>>
<1>1. PICK t, u, w : t = <<78>> /\ u = <<32, 61>> /\ w = <<78, 32, 61>>
  OBVIOUS
<1>2. /\ t \in Seq(Int) /\ Len(t) = 1 /\ t[1] = 78
      /\ u \in Seq(Int) /\ Len(u) = 2 /\ u[1] = 32 /\ u[2] = 61
  BY <1>1
<1>3. w \in Seq(Int) /\ Len(w) = 3 /\ w[1] = 78 /\ w[2] = 32 /\ w[3] = 61
  BY <1>1
<1>4. /\ \A i \in 1 .. 1 : w[i] = t[i]
      /\ \A j \in 1 .. 2 : w[1 + j] = u[j]
  BY ONLY <1>2, <1>3
<1>5. Joins(t, 1, u, 2, w)
  BY <1>2, <1>3, <1>4 DEF Joins, IsJoined
<1>6. t \o u = w
  BY <1>5, JoinedIs, Zenon
<1> QED BY <1>1, <1>6, Zenon DEF Name, Space, Equals

(* PRETTY_NAME=                                                               *)
LEMMA PrettyEquals ==
  PrettyName \o <<Equals>> = <<80, 61>>
<1>1. PICK t, u, w : t = <<80>> /\ u = <<61>> /\ w = <<80, 61>>
  OBVIOUS
<1>2. /\ t \in Seq(Int) /\ Len(t) = 1 /\ t[1] = 80
      /\ u \in Seq(Int) /\ Len(u) = 1 /\ u[1] = 61
  BY <1>1
<1>3. w \in Seq(Int) /\ Len(w) = 2 /\ w[1] = 80 /\ w[2] = 61
  BY <1>1
<1>4. /\ \A i \in 1 .. 1 : w[i] = t[i]
      /\ \A j \in 1 .. 1 : w[1 + j] = u[j]
  BY ONLY <1>2, <1>3
<1>5. Joins(t, 1, u, 1, w)
  BY <1>2, <1>3, <1>4 DEF Joins, IsJoined
<1>6. t \o u = w
  BY <1>5, JoinedIs, Zenon
<1> QED BY <1>1, <1>6, Zenon DEF PrettyName, Equals

(* A blank before PRETTY_NAME.                                                *)
LEMMA SpacePretty ==
  <<32>> \o <<80>> = <<32, 80>>
<1>1. PICK t, u, w : t = <<32>> /\ u = <<80>> /\ w = <<32, 80>>
  OBVIOUS
<1>2. /\ t \in Seq(Int) /\ Len(t) = 1 /\ t[1] = 32
      /\ u \in Seq(Int) /\ Len(u) = 1 /\ u[1] = 80
  BY <1>1
<1>3. w \in Seq(Int) /\ Len(w) = 2 /\ w[1] = 32 /\ w[2] = 80
  BY <1>1
<1>4. /\ \A i \in 1 .. 1 : w[i] = t[i]
      /\ \A j \in 1 .. 1 : w[1 + j] = u[j]
  BY ONLY <1>2, <1>3
<1>5. Joins(t, 1, u, 1, w)
  BY <1>2, <1>3, <1>4 DEF Joins, IsJoined
<1>6. t \o u = w
  BY <1>5, JoinedIs, Zenon
<1> QED BY <1>1, <1>6, Zenon

(* And what follows it.                                                       *)
LEMMA SpacePrettyEquals ==
  <<32, 80>> \o <<61, 34>> = <<32, 80, 61, 34>>
<1>1. PICK t, u, w : t = <<32, 80>> /\ u = <<61, 34>> /\ w = <<32, 80, 61, 34>>
  OBVIOUS
<1>2. /\ t \in Seq(Int) /\ Len(t) = 2 /\ t[1] = 32 /\ t[2] = 80
      /\ u \in Seq(Int) /\ Len(u) = 2 /\ u[1] = 61 /\ u[2] = 34
  BY <1>1
<1>3. w \in Seq(Int) /\ Len(w) = 4 /\ w[1] = 32 /\ w[2] = 80 /\ w[3] = 61 /\ w[4] = 34
  BY <1>1
<1>4. /\ \A i \in 1 .. 2 : w[i] = t[i]
      /\ \A j \in 1 .. 2 : w[2 + j] = u[j]
  BY ONLY <1>2, <1>3
<1>5. Joins(t, 2, u, 2, w)
  BY <1>2, <1>3, <1>4 DEF Joins, IsJoined
<1>6. t \o u = w
  BY <1>5, JoinedIs, Zenon
<1> QED BY <1>1, <1>6, Zenon

(* A blank and PRETTY_NAME with a quote.                                      *)
LEMMA SpacePrettyIs ==
  <<Space>> \o PrettyName \o <<Equals, Quote>> = <<32, 80, 61, 34>>
BY SpacePretty, SpacePrettyEquals, Zenon DEF PrettyName, Space, Equals, Quote

(* An assignment of v to the key a, which is one character.                    *)
IsAssigned(l, a, p, v) ==
  /\ l \in Seq(Int) /\ v \in Seq(Int) /\ a \in Int /\ p \in Nat /\ 2 <= p /\ p <= Len(l)
  /\ l[1] = a /\ a \notin Blank /\ a # 35 /\ a # Equals /\ l[p] = Equals
  /\ \A j \in 2 .. p - 1 : l[j] \in Blank
  /\ Len(l) = p + Len(v)
  /\ \A j \in 1 .. Len(v) : l[p + j] = v[j]

(* The key and the value of an assignment.                                    *)
LEMMA AssignmentIs ==
  ASSUME NEW l, NEW a, NEW p, NEW v, IsAssigned(l, a, p, v)
  PROVE  /\ IsAssignment(l) /\ KeyOf(l) = <<a>>
         /\ SubSeq(l, EqualsAt(l) + 1, Len(l)) = v
<1>1. /\ l \in Seq(Int) /\ v \in Seq(Int) /\ a \in Int /\ p \in Nat /\ 2 <= p /\ p <= Len(l)
      /\ l[1] = a /\ a \notin Blank /\ a # 35 /\ a # Equals /\ l[p] = Equals
      /\ \A j \in 2 .. p - 1 : l[j] \in Blank
      /\ Len(l) = p + Len(v)
      /\ \A j \in 1 .. Len(v) : l[p + j] = v[j]
  BY Zenon DEF IsAssigned
<1>2. PICK n \in Nat, q \in Nat : n = Len(l) /\ q = Len(v) /\ n = p + q
  BY <1>1
<1>3. p \in 1 .. n /\ 1 \in 1 .. n
  BY <1>1, <1>2
<1>4. IsAssignment(l)
  <2>1. l # <<>>
    <3>1. n # 0 /\ Len(<<>>) = 0
      BY <1>3
    <3> QED BY <1>2, <3>1, Zenon
  <2>2. Contains(l, Equals)
    BY <1>1, <1>2, <1>3, Zenon DEF Contains
  <2> QED BY <1>1, <2>1, <2>2, Zenon DEF IsAssignment
<1>5. EqualsAt(l) = p
  <2>1. PICK I : I = {i \in 1 .. n : l[i] = Equals}
    OBVIOUS
  <2>2. p \in I /\ I \in SUBSET Nat
    BY <1>1, <1>3, <2>1
  <2>3. Min(I) \in I /\ \A y \in I : Min(I) <= y
    BY <2>2, MinimumExists
  <2>4. \A i \in 1 .. n : i = 1 \/ i \in 2 .. p - 1 \/ ~ (i < p)
    BY <1>1
  <2>5. Equals \notin Blank
    BY DEF Equals, Blank, Tab, Newline, Space
  <2>6. \A i \in I : ~ (i < p)
    BY <1>1, <2>1, <2>4, <2>5, Zenon
  <2>7. PICK m \in Nat : m = Min(I)
    BY <2>2, <2>3
  <2>8. m <= p /\ ~ (m < p)
    BY <2>2, <2>3, <2>6, <2>7, Zenon
  <2>9. m = p
    BY <1>1, <2>8
  <2>10. EqualsAt(l) = IF I # {} THEN Min(I) ELSE 0
    BY <1>2, <2>1, Zenon DEF EqualsAt, SelectInSeq
  <2> QED BY <2>2, <2>7, <2>9, <2>10, Zenon
<1>6. KeyOf(l) = <<a>>
  <2>1. PICK hi : hi = p - 1
    OBVIOUS
  <2>2. hi \in 1 .. n /\ 1 \in 1 .. Len(l) /\ hi \in 1 .. Len(l) /\ hi - 1 + 1 = hi
        /\ (\A j \in 1 .. hi : j + (1 - 1) = j /\ (j <= 0 \/ j > 0 + 1 => j \in 2 .. p - 1))
    BY <1>1, <1>2, <1>3, <2>1
  <2>3. PICK s : s = SubSeq(l, 1, hi)
    OBVIOUS
  <2>4. s \in Seq(Int) /\ Len(s) = hi /\ \A j \in 1 .. hi : s[j] = l[j]
    BY <1>1, <2>2, <2>3, Part
  <2>5. PICK w : w = <<a>>
    OBVIOUS
  <2>6. w \in Seq(Int) /\ Len(w) = 1 /\ w[1] = a /\ w[Len(w)] = a /\ 0 \in Nat /\ 1 # 0
        /\ 0 + 1 <= hi /\ 1 \in 1 .. hi
        /\ \A j \in 1 .. 1 : 0 + j = j /\ j = 1
    BY <1>1, <2>2, <2>5
  <2>7. \A j \in 1 .. Len(w) : s[0 + j] = w[j]
    BY <1>1, <2>4, <2>6, Zenon
  <2>8. \A i \in 1 .. Len(s) : i <= 0 \/ i > 0 + Len(w) => s[i] \in Blank
    BY <1>1, <2>2, <2>4, <2>6, Zenon
  <2>9. IsTrimmed(s, w, 0)
    BY <1>1, <2>4, <2>6, <2>7, <2>8, Zenon DEF IsTrimmed
  <2> QED BY <1>5, <2>1, <2>3, <2>5, <2>9, TrimmedIs, Zenon DEF KeyOf, Between
<1>7. SubSeq(l, p + 1, n) = v
  <2>1. PICK x \in Nat, b \in Nat : x = p + 1 /\ b = n + 1
    BY <1>1
  <2>2. /\ 1 <= x /\ x <= b /\ b <= Len(l) + 1 /\ Len(v) = b - x /\ b - x = q /\ b - 1 = n
        /\ \A j \in 1 .. q : x + j - 1 = p + j
    BY ONLY <1>1, <1>2, <2>1, n \in Nat, q \in Nat
  <2>3. \A j \in 1 .. b - x : l[x + j - 1] = v[j]
    BY <1>1, <1>2, <2>2, Zenon
  <2>4. SubSeq(l, x, b - 1) = v
    BY ONLY <1>1, <2>2, <2>3, x \in Nat, b \in Nat, PartIs
  <2> QED BY <2>1, <2>2, <2>4, Zenon
<1> QED BY <1>2, <1>4, <1>5, <1>6, <1>7, Zenon

(* A text that begins and ends with something visible is left as it is.        *)
LEMMA TrimSame ==
  ASSUME NEW s \in Seq(Int), Len(s) # 0, s[1] \notin Blank, s[Len(s)] \notin Blank
  PROVE  Trim(s) = s
<1>1. PICK m \in Nat : m = Len(s)
  OBVIOUS
<1>2. /\ 0 \in Nat /\ m # 0 /\ 0 + m <= m /\ \A j \in 1 .. m : 0 + j = j
      /\ \A i \in 1 .. m : ~ (i <= 0) /\ ~ (i > 0 + m)
  BY <1>1
<1>3. IsTrimmed(s, s, 0)
  BY <1>1, <1>2, Zenon DEF IsTrimmed
<1> QED BY <1>3, TrimmedIs, Zenon

(* Nothing is trimmed to nothing.                                             *)
LEMMA TrimNothing == Trim(<<>>) = <<>>
<1>1. {i \in DOMAIN <<>> : <<>>[i] \notin Blank} = {}
  OBVIOUS
<1> QED BY <1>1, Zenon DEF Trim

(* A value of one character is itself.                                        *)
LEMMA NumberIsUnquoted ==
  ASSUME NEW c \in Int, c >= 1000
  PROVE  UnquoteOsReleaseValue(<<c>>) = <<c>>
<1>1. PICK s : s = <<c>>
  OBVIOUS
<1>2. s \in Seq(Int) /\ Len(s) = 1 /\ s[1] = c /\ s[Len(s)] = c
  BY <1>1
<1>3. c \notin Blank /\ c # Backslash
  BY DEF Blank, Tab, Newline, Space, Backslash
<1>4. Trim(s) = s
  BY <1>2, <1>3, TrimSame
<1>5. ~ Quoted(s)
  BY <1>2 DEF Quoted
<1>6. Unescaped(s) = s
  <2>1. \A j \in 1 .. Len(s) : s[j] # Backslash
    BY <1>2, <1>3
  <2> QED BY <1>2, <2>1, PlainIsUnescaped
<1> QED BY <1>1, <1>4, <1>5, <1>6, Zenon DEF UnquoteOsReleaseValue

(* And so in quotes.                                                          *)
LEMMA QuotedNumberIsUnquoted ==
  ASSUME NEW c \in Int, c >= 1000
  PROVE  UnquoteOsReleaseValue(<<34, c, 34>>) = <<c>>
<1>1. PICK s, v, d : s = <<c>> /\ v = <<34, c, 34>> /\ d = 34
  OBVIOUS
<1>2. /\ s \in Seq(Int) /\ Len(s) = 1 /\ s[1] = c
      /\ v \in Seq(Int) /\ Len(v) = 3 /\ v[1] = 34 /\ v[2] = c /\ v[3] = 34
  BY <1>1
<1>3. /\ d \in {Quote, Apostrophe} /\ Len(v) = Len(s) + 2 /\ v[1] = d /\ v[Len(s) + 2] = d
      /\ \A j \in 1 .. Len(s) : v[j + 1] = s[j]
  BY <1>1, <1>2 DEF Quote
<1>4. IsWrapped(v, d, s)
  BY <1>2, <1>3, Zenon DEF IsWrapped
<1>5. Unescaped(s) = s
  <2>1. \A j \in 1 .. Len(s) : s[j] # Backslash
    BY <1>2 DEF Backslash
  <2> QED BY <1>2, <2>1, PlainIsUnescaped
<1> QED BY <1>1, <1>4, <1>5, UnquotedIs, Zenon

(* The lines of os-release as they are written, and what each of them assigns. *)
Assignment(t, c) ==
  t \o (IF Contains(t, Quote) THEN <<c, Quote>> ELSE IF Contains(t, Equals) THEN <<c>> ELSE <<>>)

Pretties == {PrettyName \o <<Equals>>, <<Space>> \o PrettyName \o <<Equals, Quote>>}
Plains   == {Name \o <<Equals>>, Name \o <<Space, Equals>>}

LineAssigns(t, c) ==
  LET l == Trim(Assignment(t, c))
  IN  /\ IsLine(Assignment(t, c))
      /\ IsAssignment(l) /\ KeyOf(l) = PrettyName <=> t \in Pretties
      /\ IsAssignment(l) /\ KeyOf(l) = Name <=> t \in Plains
      /\ t \in Pretties \cup Plains
           => UnquoteOsReleaseValue(SubSeq(l, EqualsAt(l) + 1, Len(l))) = <<c>>

(* The lines that are written, character by character.                        *)
LEMMA KindsOfLines ==
  /\ Pretties = {<<80, 61>>, <<32, 80, 61, 34>>} /\ Plains = {<<78, 61>>, <<78, 32, 61>>}
  /\ Lines["release"] = {<<>>, <<35, 80, 61>>, <<78>>, <<78, 61>>, <<78, 32, 61>>,
                         <<80, 61>>, <<32, 80, 61, 34>>}
<1>1. /\ Name \o <<Equals>> = <<78, 61>> /\ Name \o <<Space, Equals>> = <<78, 32, 61>>
      /\ PrettyName \o <<Equals>> = <<80, 61>>
      /\ <<Space>> \o PrettyName \o <<Equals, Quote>> = <<32, 80, 61, 34>>
  BY NameEquals, NameSpaceEquals, PrettyEquals, SpacePrettyIs
<1>2. Name = <<78>> /\ Equals = 61
  BY DEF Name, Equals
<1>3. Lines["release"] =
        {<<>>, <<35, 80, Equals>>, Name, Name \o <<Equals>>, Name \o <<Space, Equals>>,
         PrettyName \o <<Equals>>, <<Space>> \o PrettyName \o <<Equals, Quote>>}
  BY Zenon DEF Lines
<1> QED BY <1>1, <1>2, <1>3, Zenon DEF Pretties, Plains

(* A line whose text in the file is w, when trimmed l, and assigns v to a.      *)
LEMMA AssigningLine ==
  ASSUME NEW t, NEW c, NEW w, w = Assignment(t, c), IsLine(w),
         NEW l, Trim(w) = l, NEW a, NEW p, NEW v, IsAssigned(l, a, p, v),
         UnquoteOsReleaseValue(v) = <<c>>,
         t \in Pretties => a = 80 /\ t \notin Plains,
         t \in Plains => a = 78 /\ t \notin Pretties,
         t \in Pretties \cup Plains
  PROVE  LineAssigns(t, c)
<1>1. IsAssignment(l) /\ KeyOf(l) = <<a>> /\ SubSeq(l, EqualsAt(l) + 1, Len(l)) = v
  BY AssignmentIs
<1>2. PICK k : k = KeyOf(l)
  OBVIOUS
<1>3. k[1] = a
  BY <1>1, <1>2
<1>4. PrettyName[1] = 80 /\ Name[1] = 78
  BY DEF PrettyName, Name
<1>6. a = 80 => k = PrettyName
  BY <1>1, <1>2, Zenon DEF PrettyName
<1>7. a = 78 => k = Name
  BY <1>1, <1>2, Zenon DEF Name
<1>8. 80 # 78
  OBVIOUS
<1>9. ASSUME t \in Pretties PROVE k = PrettyName /\ k # Name
  <2>1. a = 80
    BY <1>9, Zenon
  <2>2. k[1] # Name[1]
    BY ONLY <1>3, <1>4, <2>1
  <2> QED BY <1>6, <2>1, <2>2, Zenon
<1>10. ASSUME t \in Plains PROVE k = Name /\ k # PrettyName
  <2>1. a = 78
    BY <1>10, Zenon
  <2>2. k[1] # PrettyName[1]
    BY ONLY <1>3, <1>4, <2>1
  <2> QED BY <1>7, <2>1, <2>2, Zenon
<1>11. (k = PrettyName <=> t \in Pretties) /\ (k = Name <=> t \in Plains)
  <2>1. t \in Pretties \/ t \in Plains
    OBVIOUS
  <2> QED BY <1>9, <1>10, <2>1, Zenon
<1> QED BY <1>1, <1>2, <1>11, Zenon DEF LineAssigns

(* A line that assigns nothing.                                               *)
LEMMA OtherLine ==
  ASSUME NEW t, NEW c, NEW w, w = Assignment(t, c), IsLine(w), ~ IsAssignment(Trim(w)),
         t \notin Pretties \cup Plains
  PROVE  LineAssigns(t, c)
BY Zenon DEF LineAssigns

(* A line that trim leaves as it is.                                          *)
LEMMA LeadingLine ==
  ASSUME NEW w, IsLine(w), Len(w) # 0, w[1] \notin Blank, w[Len(w)] \notin Blank
  PROVE  Trim(w) = w
BY TrimSame DEF IsLine

(* Each kind of line assigns what it should: an empty one nothing.            *)
LEMMA EmptyLine ==
  ASSUME NEW c \in Int, c >= 1000, NEW t, t = <<>>
  PROVE  LineAssigns(t, c)
<1>1. PICK w : w = <<>>
  OBVIOUS
<1>2. t \in Seq(Int) /\ Len(t) = 0
  OBVIOUS
<1>3. w \in Seq(Int) /\ Len(w) = 0
  BY <1>1
<1>4. ~ Contains(t, Quote) /\ ~ Contains(t, Equals)
  BY <1>2 DEF Contains, Quote, Equals
<1>5. w = Assignment(t, c)
  <2>1. Assignment(t, c) = t \o <<>>
    BY <1>4, Zenon DEF Assignment
  <2>2. t \o <<>> = t
    BY <1>2
  <2> QED BY <1>1, <2>1, <2>2, Zenon
<1>6. IsLine(w)
  BY <1>3 DEF IsLine, Newline
<1>7. t \notin Pretties /\ t \notin Plains
  <2>1. t # <<80, 61>>
    BY <1>2
  <2>2. t # <<32, 80, 61, 34>>
    BY <1>2
  <2>3. t # <<78, 61>>
    BY <1>2
  <2>4. t # <<78, 32, 61>>
    BY <1>2
  <2> QED BY <2>1, <2>2, <2>3, <2>4, KindsOfLines, Zenon
<1>8. ~ IsAssignment(Trim(w))
  BY <1>1, TrimNothing, Zenon DEF IsAssignment
<1> QED BY <1>5, <1>6, <1>7, <1>8, OtherLine, Zenon

(* A comment nothing.                                                         *)
LEMMA CommentLine ==
  ASSUME NEW c \in Int, c >= 1000, NEW t, t = <<35, 80, 61>>
  PROVE  LineAssigns(t, c)
<1>1. PICK w : w = <<35, 80, 61, c>>
  OBVIOUS
<1>2. t \in Seq(Int) /\ Len(t) = 3 /\ t[1] = 35 /\ t[2] = 80 /\ t[3] = 61
  OBVIOUS
<1>3. w \in Seq(Int) /\ Len(w) = 4 /\ w[1] = 35 /\ w[2] = 80 /\ w[3] = 61 /\ w[4] = c
  BY <1>1
<1>4. ~ Contains(t, Quote) /\ Contains(t, Equals)
  BY <1>2 DEF Contains, Quote, Equals
<1>5. w = Assignment(t, c)
  BY <1>1, <1>4, Commented, Zenon DEF Assignment, Quote
<1>6. IsLine(w)
  BY <1>3 DEF IsLine, Newline
<1>7. t \notin Pretties /\ t \notin Plains
  <2>1. t # <<80, 61>>
    BY <1>2
  <2>2. t # <<32, 80, 61, 34>>
    BY <1>2
  <2>3. t # <<78, 61>>
    BY <1>2
  <2>4. t # <<78, 32, 61>>
    BY <1>2
  <2> QED BY <2>1, <2>2, <2>3, <2>4, KindsOfLines, Zenon
<1>8. w[1] \notin Blank /\ w[4] \notin Blank
  BY <1>3 DEF Blank, Tab, Newline, Space
<1>9. Trim(w) = w
  <2>1. 4 # 0
    OBVIOUS
  <2> QED BY <1>3, <1>6, <1>8, <2>1, LeadingLine, Zenon
<1>10. ~ IsAssignment(w)
  BY <1>3 DEF IsAssignment, Contains, Equals
<1> QED BY <1>5, <1>6, <1>7, <1>9, <1>10, OtherLine, Zenon

(* A word nothing.                                                            *)
LEMMA WordLine ==
  ASSUME NEW c \in Int, c >= 1000, NEW t, t = << 78 >>
  PROVE  LineAssigns(t, c)
<1>1. PICK w : w = <<78>>
  OBVIOUS
<1>2. t \in Seq(Int) /\ Len(t) = 1 /\ t[1] = 78
  OBVIOUS
<1>3. w \in Seq(Int) /\ Len(w) = 1 /\ w[1] = 78
  BY <1>1
<1>4. ~ Contains(t, Quote) /\ ~ Contains(t, Equals)
  BY <1>2 DEF Contains, Quote, Equals
<1>5. w = Assignment(t, c)
  <2>1. Assignment(t, c) = t \o <<>>
    BY <1>4, Zenon DEF Assignment
  <2>2. t \o <<>> = t
    BY <1>2
  <2> QED BY <1>1, <2>1, <2>2, Zenon
<1>6. IsLine(w)
  BY <1>3 DEF IsLine, Newline
<1>7. t \notin Pretties /\ t \notin Plains
  <2>1. t # <<80, 61>>
    BY <1>2
  <2>2. t # <<32, 80, 61, 34>>
    BY <1>2
  <2>3. t # <<78, 61>>
    BY <1>2
  <2>4. t # <<78, 32, 61>>
    BY <1>2
  <2> QED BY <2>1, <2>2, <2>3, <2>4, KindsOfLines, Zenon
<1>8. w[1] \notin Blank /\ w[1] \notin Blank
  BY <1>3 DEF Blank, Tab, Newline, Space
<1>9. Trim(w) = w
  <2>1. 1 # 0
    OBVIOUS
  <2> QED BY <1>3, <1>6, <1>8, <2>1, LeadingLine, Zenon
<1>10. ~ IsAssignment(w)
  BY <1>3 DEF IsAssignment, Contains, Equals
<1> QED BY <1>5, <1>6, <1>7, <1>9, <1>10, OtherLine, Zenon

(* NAME=c                                                                     *)
LEMMA NameLine ==
  ASSUME NEW c \in Int, c >= 1000, NEW t, t = <<78, 61>>
  PROVE  LineAssigns(t, c)
<1>1. PICK w : w = <<78, 61, c>>
  OBVIOUS
<1>2. t \in Seq(Int) /\ Len(t) = 2 /\ t[1] = 78 /\ t[2] = 61
  OBVIOUS
<1>3. w \in Seq(Int) /\ Len(w) = 3 /\ w[1] = 78 /\ w[2] = 61 /\ w[3] = c
  BY <1>1
<1>4. ~ Contains(t, Quote) /\ Contains(t, Equals)
  BY <1>2 DEF Contains, Quote, Equals
<1>5. w = Assignment(t, c)
  BY <1>1, <1>4, Named, Zenon DEF Assignment, Quote
<1>6. IsLine(w)
  BY <1>3 DEF IsLine, Newline
<1>7. t \in Plains /\ t \notin Pretties
  <2>1. t # <<80, 61>>
    BY <1>2
  <2>2. t # <<32, 80, 61, 34>>
    BY <1>2
  <2> QED BY <2>1, <2>2, KindsOfLines, Zenon
<1>8. PICK l, v : l = <<78, 61, c>> /\ v = <<c>>
  OBVIOUS
<1>9. /\ l \in Seq(Int) /\ Len(l) = 3 /\ l[1] = 78 /\ l[2] = 61 /\ l[3] = c
      /\ v \in Seq(Int) /\ Len(v) = 1 /\ v[1] = c
  BY <1>8
<1>10. Trim(w) = l
  <2>1. w[1] \notin Blank /\ w[3] \notin Blank /\ 3 # 0
    BY <1>3 DEF Blank, Tab, Newline, Space
  <2> QED BY <1>1, <1>3, <1>6, <1>8, <2>1, LeadingLine, Zenon
<1>11. IsAssigned(l, 78, 2, v)
  <2>1. /\ 2 \in Nat /\ 2 <= 2 /\ 2 <= Len(l) /\ 78 \in Int /\ 78 # 35
        /\ Len(l) = 2 + Len(v) /\ l[1] = 78
    BY ONLY <1>9
  <2>2. 78 \notin Blank /\ 78 # Equals /\ l[2] = Equals
    BY <1>9 DEF Blank, Tab, Newline, Space, Equals
  <2>3. \A j \in 2 .. 2 - 1 : l[j] \in Blank
    BY <1>9 DEF Blank, Tab, Newline, Space
  <2>4. \A j \in 1 .. Len(v) : l[2 + j] = v[j]
    BY ONLY <1>9
  <2> QED BY <1>9, <2>1, <2>2, <2>3, <2>4, Zenon DEF IsAssigned
<1>12. UnquoteOsReleaseValue(v) = <<c>>
  BY <1>8, NumberIsUnquoted, Zenon
<1> QED BY <1>5, <1>6, <1>7, <1>10, <1>11, <1>12, AssigningLine, Zenon

(* NAME =c                                                                    *)
LEMMA NameSpaceLine ==
  ASSUME NEW c \in Int, c >= 1000, NEW t, t = <<78, 32, 61>>
  PROVE  LineAssigns(t, c)
<1>1. PICK w : w = <<78, 32, 61, c>>
  OBVIOUS
<1>2. t \in Seq(Int) /\ Len(t) = 3 /\ t[1] = 78 /\ t[2] = 32 /\ t[3] = 61
  OBVIOUS
<1>3. w \in Seq(Int) /\ Len(w) = 4 /\ w[1] = 78 /\ w[2] = 32 /\ w[3] = 61 /\ w[4] = c
  BY <1>1
<1>4. ~ Contains(t, Quote) /\ Contains(t, Equals)
  BY <1>2 DEF Contains, Quote, Equals
<1>5. w = Assignment(t, c)
  BY <1>1, <1>4, NamedLate, Zenon DEF Assignment, Quote
<1>6. IsLine(w)
  BY <1>3 DEF IsLine, Newline
<1>7. t \in Plains /\ t \notin Pretties
  <2>1. t # <<80, 61>>
    BY <1>2
  <2>2. t # <<32, 80, 61, 34>>
    BY <1>2
  <2> QED BY <2>1, <2>2, KindsOfLines, Zenon
<1>8. PICK l, v : l = <<78, 32, 61, c>> /\ v = <<c>>
  OBVIOUS
<1>9. /\ l \in Seq(Int) /\ Len(l) = 4 /\ l[1] = 78 /\ l[2] = 32 /\ l[3] = 61 /\ l[4] = c
      /\ v \in Seq(Int) /\ Len(v) = 1 /\ v[1] = c
  BY <1>8
<1>10. Trim(w) = l
  <2>1. w[1] \notin Blank /\ w[4] \notin Blank /\ 4 # 0
    BY <1>3 DEF Blank, Tab, Newline, Space
  <2> QED BY <1>1, <1>3, <1>6, <1>8, <2>1, LeadingLine, Zenon
<1>11. IsAssigned(l, 78, 3, v)
  <2>1. /\ 3 \in Nat /\ 2 <= 3 /\ 3 <= Len(l) /\ 78 \in Int /\ 78 # 35
        /\ Len(l) = 3 + Len(v) /\ l[1] = 78
    BY ONLY <1>9
  <2>2. 78 \notin Blank /\ 78 # Equals /\ l[3] = Equals
    BY <1>9 DEF Blank, Tab, Newline, Space, Equals
  <2>3. \A j \in 2 .. 3 - 1 : l[j] \in Blank
    BY <1>9 DEF Blank, Tab, Newline, Space
  <2>4. \A j \in 1 .. Len(v) : l[3 + j] = v[j]
    BY ONLY <1>9
  <2> QED BY <1>9, <2>1, <2>2, <2>3, <2>4, Zenon DEF IsAssigned
<1>12. UnquoteOsReleaseValue(v) = <<c>>
  BY <1>8, NumberIsUnquoted, Zenon
<1> QED BY <1>5, <1>6, <1>7, <1>10, <1>11, <1>12, AssigningLine, Zenon

(* PRETTY_NAME=c                                                              *)
LEMMA PrettyLine ==
  ASSUME NEW c \in Int, c >= 1000, NEW t, t = <<80, 61>>
  PROVE  LineAssigns(t, c)
<1>1. PICK w : w = <<80, 61, c>>
  OBVIOUS
<1>2. t \in Seq(Int) /\ Len(t) = 2 /\ t[1] = 80 /\ t[2] = 61
  OBVIOUS
<1>3. w \in Seq(Int) /\ Len(w) = 3 /\ w[1] = 80 /\ w[2] = 61 /\ w[3] = c
  BY <1>1
<1>4. ~ Contains(t, Quote) /\ Contains(t, Equals)
  BY <1>2 DEF Contains, Quote, Equals
<1>5. w = Assignment(t, c)
  BY <1>1, <1>4, Prettily, Zenon DEF Assignment, Quote
<1>6. IsLine(w)
  BY <1>3 DEF IsLine, Newline
<1>7. t \in Pretties /\ t \notin Plains
  <2>1. t # <<78, 61>>
    BY <1>2
  <2>2. t # <<78, 32, 61>>
    BY <1>2
  <2> QED BY <2>1, <2>2, KindsOfLines, Zenon
<1>8. PICK l, v : l = <<80, 61, c>> /\ v = <<c>>
  OBVIOUS
<1>9. /\ l \in Seq(Int) /\ Len(l) = 3 /\ l[1] = 80 /\ l[2] = 61 /\ l[3] = c
      /\ v \in Seq(Int) /\ Len(v) = 1 /\ v[1] = c
  BY <1>8
<1>10. Trim(w) = l
  <2>1. w[1] \notin Blank /\ w[3] \notin Blank /\ 3 # 0
    BY <1>3 DEF Blank, Tab, Newline, Space
  <2> QED BY <1>1, <1>3, <1>6, <1>8, <2>1, LeadingLine, Zenon
<1>11. IsAssigned(l, 80, 2, v)
  <2>1. /\ 2 \in Nat /\ 2 <= 2 /\ 2 <= Len(l) /\ 80 \in Int /\ 80 # 35
        /\ Len(l) = 2 + Len(v) /\ l[1] = 80
    BY ONLY <1>9
  <2>2. 80 \notin Blank /\ 80 # Equals /\ l[2] = Equals
    BY <1>9 DEF Blank, Tab, Newline, Space, Equals
  <2>3. \A j \in 2 .. 2 - 1 : l[j] \in Blank
    BY <1>9 DEF Blank, Tab, Newline, Space
  <2>4. \A j \in 1 .. Len(v) : l[2 + j] = v[j]
    BY ONLY <1>9
  <2> QED BY <1>9, <2>1, <2>2, <2>3, <2>4, Zenon DEF IsAssigned
<1>12. UnquoteOsReleaseValue(v) = <<c>>
  BY <1>8, NumberIsUnquoted, Zenon
<1> QED BY <1>5, <1>6, <1>7, <1>10, <1>11, <1>12, AssigningLine, Zenon

(* PRETTY_NAME="c", behind a blank.                                           *)
LEMMA QuotedPrettyLine ==
  ASSUME NEW c \in Int, c >= 1000, NEW t, t = <<32, 80, 61, 34>>
  PROVE  LineAssigns(t, c)
<1>1. PICK w : w = <<32, 80, 61, 34, c, 34>>
  OBVIOUS
<1>2. t \in Seq(Int) /\ Len(t) = 4 /\ t[1] = 32 /\ t[2] = 80 /\ t[3] = 61 /\ t[4] = 34
  OBVIOUS
<1>3. w \in Seq(Int) /\ Len(w) = 6 /\ w[1] = 32 /\ w[2] = 80 /\ w[3] = 61 /\ w[4] = 34 /\ w[5] = c /\ w[6] = 34
  BY <1>1
<1>4. Contains(t, Quote) /\ Contains(t, Equals)
  BY <1>2 DEF Contains, Quote, Equals
<1>5. w = Assignment(t, c)
  BY <1>1, <1>4, PrettilyQuoted, Zenon DEF Assignment, Quote
<1>6. IsLine(w)
  BY <1>3 DEF IsLine, Newline
<1>7. t \in Pretties /\ t \notin Plains
  <2>1. t # <<78, 61>>
    BY <1>2
  <2>2. t # <<78, 32, 61>>
    BY <1>2
  <2> QED BY <2>1, <2>2, KindsOfLines, Zenon
<1>8. PICK l, v : l = <<80, 61, 34, c, 34>> /\ v = <<34, c, 34>>
  OBVIOUS
<1>9. /\ l \in Seq(Int) /\ Len(l) = 5 /\ l[1] = 80 /\ l[2] = 61 /\ l[3] = 34 /\ l[4] = c /\ l[5] = 34
      /\ v \in Seq(Int) /\ Len(v) = 3 /\ v[1] = 34 /\ v[2] = c /\ v[3] = 34
  BY <1>8
<1>10. Trim(w) = l
  <2>1. l[1] \notin Blank /\ l[Len(l)] \notin Blank /\ w[1] \in Blank
    BY <1>3, <1>9 DEF Blank, Tab, Newline, Space
  <2>2. \A j \in 1 .. Len(l) : w[1 + j] = l[j]
    BY ONLY <1>3, <1>9
  <2>3. \A i \in 1 .. Len(w) : i <= 1 \/ i > 1 + Len(l) => i = 1
    BY ONLY <1>3, <1>9
  <2>4. 1 \in Nat /\ Len(l) # 0 /\ 1 + Len(l) <= Len(w)
    BY ONLY <1>3, <1>9
  <2>5. IsTrimmed(w, l, 1)
    BY <1>3, <1>9, <2>1, <2>2, <2>3, <2>4, Zenon DEF IsTrimmed
  <2> QED BY <2>5, TrimmedIs, Zenon
<1>11. IsAssigned(l, 80, 2, v)
  <2>1. /\ 2 \in Nat /\ 2 <= 2 /\ 2 <= Len(l) /\ 80 \in Int /\ 80 # 35
        /\ Len(l) = 2 + Len(v) /\ l[1] = 80
    BY ONLY <1>9
  <2>2. 80 \notin Blank /\ 80 # Equals /\ l[2] = Equals
    BY <1>9 DEF Blank, Tab, Newline, Space, Equals
  <2>3. \A j \in 2 .. 2 - 1 : l[j] \in Blank
    BY <1>9 DEF Blank, Tab, Newline, Space
  <2>4. \A j \in 1 .. Len(v) : l[2 + j] = v[j]
    BY ONLY <1>9
  <2> QED BY <1>9, <2>1, <2>2, <2>3, <2>4, Zenon DEF IsAssigned
<1>12. UnquoteOsReleaseValue(v) = <<c>>
  BY <1>8, QuotedNumberIsUnquoted, Zenon
<1> QED BY <1>5, <1>6, <1>7, <1>10, <1>11, <1>12, AssigningLine, Zenon

(* So does every line of the file.                                            *)
LEMMA ReleaseLineAssigns ==
  ASSUME NEW c \in Int, c >= 1000, NEW t \in Lines["release"]
  PROVE  LineAssigns(t, c)
<1>1. \/ t = <<>> \/ t = <<35, 80, 61>> \/ t = <<78>> \/ t = <<78, 61>>
      \/ t = <<78, 32, 61>> \/ t = <<80, 61>> \/ t = <<32, 80, 61, 34>>
  BY KindsOfLines, Zenon
<1> QED BY <1>1, EmptyLine, CommentLine, WordLine, NameLine, NameSpaceLine, PrettyLine,
           QuotedPrettyLine, Zenon
--------------------------------------------------------------------------------
(* What the parser makes of the lines of os-release, and what was written.     *)
ValueOn(lines, k) ==
  UnquoteOsReleaseValue(SubSeq(lines[k], EqualsAt(lines[k]) + 1, Len(lines[k])))

NamedBy(lines) ==
  LET key   == IF Assigned(lines, PrettyName) # {} THEN PrettyName ELSE Name
      value == {ValueOn(lines, k) : k \in Assigned(lines, key)}
  IN  IF value \subseteq {<<>>} THEN Unknown ELSE CHOOSE v \in value : TRUE

ReleaseOf(t) == FlattenSeq([k \in DOMAIN t |-> Assignment(t[k], Number(k)) \o <<Newline>>])

LastOf(t, lines) ==
  {k \in DOMAIN t : t[k] \in lines /\ \A j \in DOMAIN t : t[j] \in lines => j <= k}

Source(t) == IF LastOf(t, Pretties) # {} THEN LastOf(t, Pretties) ELSE LastOf(t, Plains)

IsRelease(lines, t, n) ==
  /\ DOMAIN t = 1 .. n /\ DOMAIN lines = 1 .. n
  /\ \A k \in 1 .. n :
       /\ IsAssignment(lines[k]) /\ KeyOf(lines[k]) = PrettyName <=> t[k] \in Pretties
       /\ IsAssignment(lines[k]) /\ KeyOf(lines[k]) = Name <=> t[k] \in Plains
       /\ t[k] \in Pretties \cup Plains => ValueOn(lines, k) = <<Number(k)>>

(* The parser sees the lines that were written.                               *)
LEMMA ReleaseHasLines ==
  ASSUME NEW t \in Seq(Lines["release"])
  PROVE  \E lines, n : n \in Nat /\ IsRelease(lines, t, n) /\ Distribution(ReleaseOf(t)) = NamedBy(lines)
<1>1. PICK n \in Nat : n = Len(t)
  OBVIOUS
<1>2. DOMAIN t = 1 .. n /\ \A k \in 1 .. n : t[k] \in Lines["release"] /\ k \in Nat
  BY <1>1
<1>3. PICK ls, lines : /\ ls = [k \in 1 .. n |-> Assignment(t[k], Number(k))]
                       /\ lines = [k \in 1 .. n |-> Trim(ls[k])]
  OBVIOUS
<1>4. \A k \in 1 .. n : Number(k) \in Int /\ Number(k) >= 1000
  BY <1>2 DEF Number
<1>5. \A k \in 1 .. n : LineAssigns(t[k], Number(k))
  BY <1>2, <1>4, ReleaseLineAssigns, Zenon
<1>6. \A k \in 1 .. n : IsLine(ls[k])
  BY <1>3, <1>5, Zenon DEF LineAssigns
<1>7. ls \in [1 .. n -> Seq(Int)] /\ \A k \in 1 .. n : \A j \in 1 .. Len(ls[k]) : ls[k][j] # Newline
  BY <1>3, <1>6, Zenon DEF IsLine
<1>8. PICK file : file = FileOf(ls, n)
  OBVIOUS
<1>9. ReleaseOf(t) = file
  <2>1. \A k \in 1 .. n : ls[k] = Assignment(t[k], Number(k))
    BY <1>3, Zenon
  <2> QED BY <1>2, <1>8, <2>1, Zenon DEF FileOf, ReleaseOf
<1>10. /\ DOMAIN GetLines(file, Newline) = 1 .. n
       /\ \A k \in 1 .. n : GetLines(file, Newline)[k] = ls[k]
  <2>1. /\ DOMAIN GetLines(FileOf(ls, n), Newline) = 1 .. n
        /\ \A k \in 1 .. n : GetLines(FileOf(ls, n), Newline)[k] = ls[k]
    BY ONLY <1>7, n \in Nat, FileIsRead
  <2> QED BY <1>8, <2>1, Zenon
<1>11. [k \in DOMAIN GetLines(file, Newline) |-> Trim(GetLines(file, Newline)[k])] = lines
  BY <1>3, <1>10, Zenon
<1>12. Distribution(file) = NamedBy(lines)
  <2>1. Distribution(file) =
          NamedBy([k \in DOMAIN GetLines(file, Newline) |-> Trim(GetLines(file, Newline)[k])])
    BY Zenon DEF Distribution, NamedBy, ValueOn
  <2> QED BY <1>11, <2>1, Zenon
<1>13. IsRelease(lines, t, n)
  <2>1. \A k \in 1 .. n : lines[k] = Trim(Assignment(t[k], Number(k)))
    BY <1>3, Zenon
  <2>2. DOMAIN lines = 1 .. n
    BY <1>3, Zenon
  <2> QED BY <1>2, <1>5, <2>1, <2>2, Zenon DEF IsRelease, LineAssigns, ValueOn
<1> QED BY <1>9, <1>12, <1>13, Zenon

(* The last assignment of a key is on the last line that has one.             *)
LEMMA LastAssigned ==
  ASSUME NEW lines, NEW t, NEW n, IsRelease(lines, t, n)
  PROVE  Assigned(lines, PrettyName) = LastOf(t, Pretties) /\ Assigned(lines, Name) = LastOf(t, Plains)
BY Zenon DEF IsRelease, Assigned, LastOf

(* The value is that of the source: the last pretty name, else the last name. *)
LEMMA SourceIsRead ==
  ASSUME NEW lines, NEW t, NEW n \in Nat, IsRelease(lines, t, n)
  PROVE  /\ Source(t) = {} => NamedBy(lines) = Unknown
         /\ \A k \in Source(t) : NamedBy(lines) = <<Number(k)>>
<1>1. PICK key : key = IF Assigned(lines, PrettyName) # {} THEN PrettyName ELSE Name
  OBVIOUS
<1>2. PICK source : source = Source(t)
  OBVIOUS
<1>3. Assigned(lines, key) = source
  BY <1>1, <1>2, LastAssigned, Zenon DEF Source
<1>4. PICK value : value = {ValueOn(lines, k) : k \in source}
  OBVIOUS
<1>5. NamedBy(lines) = IF value \subseteq {<<>>} THEN Unknown ELSE CHOOSE v \in value : TRUE
  BY <1>1, <1>3, <1>4, Zenon DEF NamedBy
<1>6. \A k \in source : ValueOn(lines, k) = <<Number(k)>> /\ k \in 1 .. n
  BY <1>2, Zenon DEF Source, LastOf, IsRelease
<1>7. \A j, k \in source : j <= k /\ k <= j
  BY <1>2, Zenon DEF Source, LastOf
<1>8. \A j, k \in source : j = k
  BY <1>6, <1>7
<1>9. ASSUME source = {} PROVE NamedBy(lines) = Unknown
  <2>1. value \subseteq {<<>>}
    BY <1>4, <1>9, Zenon
  <2> QED BY <1>5, <2>1, Zenon
<1>10. ASSUME NEW k \in source PROVE NamedBy(lines) = <<Number(k)>>
  <2>1. <<Number(k)>> # <<>>
    OBVIOUS
  <2>2. value = {<<Number(k)>>}
    BY <1>4, <1>6, <1>8, <1>10, Zenon
  <2>3. ~ (value \subseteq {<<>>}) /\ \E v \in value : TRUE
    BY <2>1, <2>2, Zenon
  <2>4. (CHOOSE v \in value : TRUE) \in value
    BY <2>3, Zenon
  <2> QED BY <1>5, <2>2, <2>3, <2>4, Zenon
<1> QED BY <1>2, <1>9, <1>10, Zenon

(* And so for a file of any number of lines.                                  *)
LEMMA ReleaseIsRead ==
  ASSUME NEW t \in Seq(Lines["release"])
  PROVE  IF Source(t) = {} THEN Distribution(ReleaseOf(t)) = Unknown
         ELSE \A k \in Source(t) : Distribution(ReleaseOf(t)) = <<Number(k)>>
<1>1. PICK lines, n : n \in Nat /\ IsRelease(lines, t, n) /\ Distribution(ReleaseOf(t)) = NamedBy(lines)
  BY ReleaseHasLines
<1>2. /\ Source(t) = {} => NamedBy(lines) = Unknown
      /\ \A k \in Source(t) : NamedBy(lines) = <<Number(k)>>
  BY <1>1, SourceIsRead
<1> QED BY <1>1, <1>2, Zenon

(* For values of every length and files of every number of lines: a quoted    *)
(* value is read as it was, and the distribution is the last PRETTY_NAME,     *)
(* else the last NAME, else the name of the operating system                  *)
(* (platform.cpp:24-71, 116-118).                                             *)
THEOREM DistributionsAreRead == Spec => []DistributionIsRead
<1>1. ASSUME WrittenText, WrittenLines PROVE DistributionIsRead
  <2>1. ASSUME kind = "value"
        PROVE  /\ UnquoteOsReleaseValue(DoubleQuoted(text)) = text
               /\ ~Contains(text, Apostrophe) /\ ~Contains(text, Backslash)
                    => UnquoteOsReleaseValue(SingleQuoted(text)) = text
    <3>1. text \in Seq(Letters["value"])
      BY <1>1, <2>1 DEF WrittenText, Letters
    <3>2. text \in Seq(Int)
      <4>1. Letters["value"] \subseteq Int
        BY DEF Letters, A, Space, Quote, Apostrophe, Backslash, Dollar
      <4> QED BY <3>1, <4>1
    <3>3. /\ UnquoteOsReleaseValue(DoubleQuoted(text)) = text
          /\ (\A j \in 1 .. Len(text) : text[j] # Backslash)
               => UnquoteOsReleaseValue(SingleQuoted(text)) = text
      BY <3>2, ValuesAreRead
    <3> QED BY <3>3, Zenon DEF Contains
  <2>2. ASSUME kind = "release"
        PROVE  LET last(lines) == {k \in DOMAIN text : text[k] \in lines /\
                                     \A j \in DOMAIN text : text[j] \in lines => j <= k}
                   pretty == last({PrettyName \o <<Equals>>,
                                   <<Space>> \o PrettyName \o <<Equals, Quote>>})
                   plain  == last({Name \o <<Equals>>, Name \o <<Space, Equals>>})
                   source == IF pretty # {} THEN pretty ELSE plain
               IN  IF source = {} THEN Distribution(ReleaseFile) = Unknown
                   ELSE \A k \in source : Distribution(ReleaseFile) = <<Number(k)>>
    <3>1. text \in Seq(Lines["release"])
      BY <1>1, <2>2 DEF WrittenLines, Lines
    <3>2. IF Source(text) = {} THEN Distribution(ReleaseOf(text)) = Unknown
          ELSE \A k \in Source(text) : Distribution(ReleaseOf(text)) = <<Number(k)>>
      BY <3>1, ReleaseIsRead, Zenon
    <3>3. ReleaseFile = ReleaseOf(text)
      BY Zenon DEF ReleaseFile, ReleaseOf, Assignment
    <3> QED BY <3>2, <3>3, Zenon DEF Source, LastOf, Pretties, Plains
  <2> QED BY <2>1, <2>2, Zenon DEF DistributionIsRead
<1> QED BY <1>1, WrittenInvariant, WrittenLinesInvariant, PTL
--------------------------------------------------------------------------------
(* A text whose words are complete: what is written behind it begins another.  *)
IsOver(s, ws) == s \in Seq(Int) /\ HasWords(s, ws) /\ (Len(s) = 0 \/ s[Len(s)] \in Blank)

(* So is nothing.                                                             *)
LEMMA NothingIsOver == IsOver(<<>>, <<>>)
<1>1. PICK s : s = <<>>
  OBVIOUS
<1>2. s \in Seq(Int) /\ Len(s) = 0
  BY <1>1
<1> QED BY <1>1, <1>2, NoWord, Zenon DEF IsOver

(* A blank completes the last word.                                           *)
LEMMA BlankIsOver ==
  ASSUME NEW s, NEW ws, HasWords(s, ws), s \in Seq(Int), NEW b \in Blank
  PROVE  IsOver(s \o <<b>>, ws)
<1>1. PICK g : g = <<b>>
  OBVIOUS
<1>2. b \in Int
  BY DEF Blank, Tab, Newline, Space
<1>3. g \in Seq(Int) /\ Len(g) = 1 /\ g[1] = b /\ \A j \in 1 .. Len(g) : g[j] \in Blank
  BY <1>1, <1>2
<1>4. HasWords(s \o g, ws)
  BY <1>3, BlanksBehind, Zenon
<1>5. PICK p \in Nat : p = Len(s)
  OBVIOUS
<1>6. IsJoined(s \o g, s, p, g, 1)
  BY ONLY <1>3, <1>5, s \in Seq(Int), p \in Nat, JoinedAt
<1>7. PICK u : u = s \o g
  OBVIOUS
<1>8. u \in Seq(Int) /\ Len(u) = p + 1 /\ u[p + 1] = g[1]
  BY <1>6, <1>7 DEF IsJoined
<1>9. u[Len(u)] \in Blank
  BY <1>3, <1>8, Zenon
<1> QED BY <1>1, <1>4, <1>7, <1>8, <1>9, Zenon DEF IsOver

(* A word and a blank behind it are another word.                             *)
LEMMA WordIsOver ==
  ASSUME NEW s, NEW ws, IsOver(s, ws), NEW w, IsWord(w), NEW b \in Blank
  PROVE  IsOver((s \o w) \o <<b>>, Append(ws, w))
<1>1. /\ s \in Seq(Int) /\ HasWords(s, ws) /\ (Len(s) = 0 \/ s[Len(s)] \in Blank)
      /\ w \in Seq(Int) /\ Len(w) # 0 /\ \A j \in 1 .. Len(w) : w[j] \notin Blank
  BY Zenon DEF IsOver, IsWord
<1>2. HasWords(s \o w, Append(ws, w))
  BY <1>1, WordBehind
<1>3. s \o w \in Seq(Int)
  BY ONLY <1>1
<1> QED BY <1>2, <1>3, BlankIsOver, Zenon

(* The keys and the unit are words, and no numbers.                           *)
LEMMA KeysAreWords ==
  /\ IsWord(MemTotal) /\ IsWord(MemAvailable) /\ IsWord(<<79, Colon>>) /\ IsWord(<<107>>)
  /\ MemTotal # MemAvailable /\ MemTotal # <<79, Colon>> /\ MemAvailable # <<79, Colon>>
  /\ ~ IsNumber(MemTotal) /\ ~ IsNumber(MemAvailable) /\ ~ IsNumber(<<79, Colon>>)
  /\ ~ IsNumber(<<107>>)
<1>1. PICK t, a, o, u : t = <<84, 58>> /\ a = <<65, 58>> /\ o = <<79, 58>> /\ u = <<107>>
  OBVIOUS
<1>2. /\ t \in Seq(Int) /\ Len(t) = 2 /\ t[1] = 84 /\ t[2] = 58
      /\ a \in Seq(Int) /\ Len(a) = 2 /\ a[1] = 65 /\ a[2] = 58
      /\ o \in Seq(Int) /\ Len(o) = 2 /\ o[1] = 79 /\ o[2] = 58
      /\ u \in Seq(Int) /\ Len(u) = 1 /\ u[1] = 107
  BY <1>1
<1>3. IsWord(t) /\ IsWord(a) /\ IsWord(o) /\ IsWord(u)
  BY <1>2 DEF IsWord, Blank, Tab, Newline, Space
<1>4. t # a /\ t # o /\ a # o
  BY <1>2
<1>5. ~ IsNumber(t) /\ ~ IsNumber(a) /\ ~ IsNumber(o) /\ ~ IsNumber(u)
  BY <1>2 DEF IsNumber
<1> QED BY <1>1, <1>3, <1>4, <1>5, Zenon DEF MemTotal, MemAvailable, Colon

(* A number is a word.                                                        *)
LEMMA NumberIsWord ==
  ASSUME NEW c \in Int, c >= 1000
  PROVE  IsWord(<<c>>) /\ IsNumber(<<c>>) /\ ValueOf(<<c>>) = c - 1000
<1>1. PICK w : w = <<c>>
  OBVIOUS
<1>2. w \in Seq(Int) /\ Len(w) = 1 /\ w[1] = c
  BY <1>1
<1>3. IsWord(w)
  BY <1>2 DEF IsWord, Blank, Tab, Newline, Space
<1>4. IsNumber(w) /\ ValueOf(w) = c - 1000
  BY <1>2 DEF IsNumber, ValueOf
<1> QED BY <1>1, <1>3, <1>4, Zenon

(* A line of the memory, and what it adds to the words.                        *)
MemoryLine(l, k) ==
  l.key \o <<Space, Number(k)>> \o (IF l.unit THEN <<Space, 107>> ELSE <<>>)

WithLine(ws, l, k) ==
  IF l.unit THEN Append(Append(Append(ws, l.key), <<Number(k)>>), <<107>>)
  ELSE Append(Append(ws, l.key), <<Number(k)>>)

(* A line adds its words to those before it.                                  *)
LEMMA MemoryLineIsOver ==
  ASSUME NEW s, NEW ws, IsOver(s, ws), NEW l \in Lines["meminfo"], NEW k \in Nat
  PROVE  IsOver(s \o (MemoryLine(l, k) \o <<Newline>>), WithLine(ws, l, k))
<1>1. l.key = MemTotal \/ l.key = MemAvailable \/ l.key = <<79, Colon>>
  BY DEF Lines
<1>2. PICK key, N, one, rest :
        /\ key = l.key /\ N = Number(k) /\ one = <<Space, N>>
        /\ rest = IF l.unit THEN <<Space, 107>> ELSE <<>>
  OBVIOUS
<1>3. N \in Int /\ N >= 1000 /\ Space \in Int /\ 107 \in Int
  BY <1>2 DEF Number, Space
<1>4. IsWord(key) /\ IsWord(<<N>>) /\ IsWord(<<107>>)
  <2>1. IsWord(<<N>>)
    BY ONLY <1>3, NumberIsWord
  <2>2. IsWord(MemTotal) /\ IsWord(MemAvailable) /\ IsWord(<<79, Colon>>) /\ IsWord(<<107>>)
    BY KeysAreWords, Zenon
  <2>3. key = MemTotal \/ key = MemAvailable \/ key = <<79, Colon>>
    BY <1>1, <1>2, Zenon
  <2> QED BY <2>1, <2>2, <2>3, Zenon
<1>5. s \in Seq(Int) /\ key \in Seq(Int)
  BY <1>4, Zenon DEF IsOver, IsWord
<1>6. one \in Seq(Int) /\ rest \in Seq(Int) /\ <<Newline>> \in Seq(Int) /\ s \o key \in Seq(Int)
      /\ key \o one \in Seq(Int) /\ (key \o one) \o rest \in Seq(Int)
  BY <1>2, <1>3, <1>5 DEF Newline, Space
<1>7. PICK line : line = (key \o one) \o rest
  OBVIOUS
<1>8. s \o (line \o <<Newline>>) = (s \o line) \o <<Newline>>
  BY <1>5, <1>6, <1>7, JoinedTwice, Zenon
<1>9. s \o line = (s \o (key \o one)) \o rest
  BY <1>5, <1>6, <1>7, JoinedTwice, Zenon
<1>10. s \o (key \o one) = (s \o key) \o one
  BY <1>5, <1>6, JoinedTwice, Zenon
<1>11. (s \o key) \o one = ((s \o key) \o <<Space>>) \o <<N>>
  BY <1>2, <1>3, <1>6, PairBehind, Zenon
<1>12. PICK first : first = (s \o key) \o <<Space>>
  OBVIOUS
<1>13. Space \in Blank /\ Newline \in Blank
  BY DEF Blank
<1>14. IsOver(first, Append(ws, key))
  BY <1>4, <1>12, <1>13, WordIsOver, Zenon
<1>15. first \in Seq(Int) /\ <<N>> \in Seq(Int) /\ first \o <<N>> \in Seq(Int)
  <2>1. first \in Seq(Int)
    BY <1>14, Zenon DEF IsOver
  <2> QED BY ONLY <1>3, <2>1
<1>16. MemoryLine(l, k) = line
  BY <1>2, <1>7, Zenon DEF MemoryLine
<1>17. CASE l.unit
  <2>1. (first \o <<N>>) \o <<Space, 107>> = ((first \o <<N>>) \o <<Space>>) \o <<107>>
    BY <1>3, <1>15, PairBehind, Zenon
  <2>2. IsOver((first \o <<N>>) \o <<Space>>, Append(Append(ws, key), <<N>>))
    BY <1>4, <1>13, <1>14, WordIsOver, Zenon
  <2>3. PICK second : second = (first \o <<N>>) \o <<Space>>
    OBVIOUS
  <2>4. IsOver((second \o <<107>>) \o <<Newline>>,
               Append(Append(Append(ws, key), <<N>>), <<107>>))
    BY <1>4, <1>13, <2>2, <2>3, WordIsOver, Zenon
  <2>5. s \o line = second \o <<107>>
    BY <1>2, <1>9, <1>10, <1>11, <1>12, <1>17, <2>1, <2>3, Zenon
  <2> QED BY <1>2, <1>8, <1>16, <1>17, <2>4, <2>5, Zenon DEF WithLine
<1>18. CASE ~ l.unit
  <2>1. (first \o <<N>>) \o <<>> = first \o <<N>>
    BY ONLY <1>15
  <2>2. IsOver((first \o <<N>>) \o <<Newline>>, Append(Append(ws, key), <<N>>))
    BY <1>4, <1>13, <1>14, WordIsOver, Zenon
  <2>3. s \o line = first \o <<N>>
    BY <1>2, <1>9, <1>10, <1>11, <1>12, <1>18, <2>1, Zenon
  <2> QED BY <1>2, <1>8, <1>16, <1>18, <2>2, <2>3, Zenon DEF WithLine
<1> QED BY <1>17, <1>18

(* What the words say after m lines.  A line without a unit, the first of them  *)
(* b, shifts all that follow: where a number is expected two lines on, there is *)
(* none.                                                                       *)
AllUnits(t, m) == \A i \in 1 .. m : t[i].unit

IsShift(t, ws, m, b) ==
  /\ m = b => Len(ws) = 3 * b - 1
  /\ m > b => Len(ws) >= 3 * b + 1
  /\ m > b + 1 => Len(ws) >= 3 * b + 2
  /\ Len(ws) >= 3 * b + 2 => ~ IsNumber(ws[3 * b + 2])

IsFigure(t, ws, k) ==
  /\ Len(ws) >= 3 * k - 1 /\ ws[3 * k - 2] = t[k].key /\ ws[3 * k - 1] = <<Number(k)>>
  /\ t[k].unit => Len(ws) >= 3 * k

Says(t, ws, m) ==
  /\ ws \in Seq(Seq(Int))
  /\ AllUnits(t, m) => Len(ws) = 3 * m
  /\ \A k \in 1 .. m : AllUnits(t, k - 1) => IsFigure(t, ws, k)
  /\ \A b \in 1 .. m : AllUnits(t, b - 1) /\ ~ t[b].unit => IsShift(t, ws, m, b)

(* The words of a line behind n others.                                        *)
IsWithLine(vs, ws, n, l, k) ==
  /\ vs \in Seq(Seq(Int)) /\ \A j \in 1 .. n : vs[j] = ws[j]
  /\ vs[n + 1] = l.key /\ vs[n + 2] = <<Number(k)>>
  /\ l.unit => Len(vs) = n + 3 /\ vs[n + 3] = <<107>>
  /\ ~ l.unit => Len(vs) = n + 2

(* They stand behind the others, which stay where they are.                   *)
LEMMA WithLineIs ==
  ASSUME NEW ws \in Seq(Seq(Int)), NEW n \in Nat, n = Len(ws), NEW l, NEW k \in Nat,
         l.key \in Seq(Int), NEW vs, vs = WithLine(ws, l, k)
  PROVE  IsWithLine(vs, ws, n, l, k)
<1>1. PICK key, num, unit : key = l.key /\ num = <<Number(k)>> /\ unit = <<107>>
  OBVIOUS
<1>2. key \in Seq(Int) /\ num \in Seq(Int) /\ unit \in Seq(Int)
  BY <1>1 DEF Number
<1>3. PICK a, b, c : a = Append(ws, key) /\ b = Append(a, num) /\ c = Append(b, unit)
  OBVIOUS
<1>4. a \in Seq(Seq(Int)) /\ Len(a) = n + 1 /\ a[n + 1] = key /\ \A j \in 1 .. n : a[j] = ws[j]
  BY ONLY <1>2, <1>3, ws \in Seq(Seq(Int)), n \in Nat, n = Len(ws)
<1>5. b \in Seq(Seq(Int)) /\ Len(b) = n + 2 /\ b[n + 2] = num /\ \A j \in 1 .. n + 1 : b[j] = a[j]
  BY ONLY <1>2, <1>3, <1>4, n \in Nat
<1>6. c \in Seq(Seq(Int)) /\ Len(c) = n + 3 /\ c[n + 3] = unit /\ \A j \in 1 .. n + 2 : c[j] = b[j]
  BY ONLY <1>2, <1>3, <1>5, n \in Nat
<1>7. /\ b[n + 1] = key /\ c[n + 1] = key /\ c[n + 2] = num
      /\ \A j \in 1 .. n : b[j] = ws[j] /\ c[j] = ws[j]
  <2>1. n + 1 \in 1 .. n + 1 /\ n + 1 \in 1 .. n + 2 /\ n + 2 \in 1 .. n + 2
    OBVIOUS
  <2>2. b[n + 1] = key /\ c[n + 1] = key
    BY ONLY <1>4, <1>5, <1>6, <2>1, Zenon
  <2>3. c[n + 2] = num
    BY ONLY <1>5, <1>6, <2>1, Zenon
  <2>4. ASSUME NEW j \in 1 .. n PROVE b[j] = ws[j] /\ c[j] = ws[j]
    <3>1. j \in 1 .. n + 1 /\ j \in 1 .. n + 2
      OBVIOUS
    <3> QED BY ONLY <1>4, <1>5, <1>6, <3>1, j \in 1 .. n, Zenon
  <2> QED BY <2>2, <2>3, <2>4
<1>8. l.unit => vs = c
  BY <1>1, <1>3, Zenon DEF WithLine
<1>9. ~ l.unit => vs = b
  BY <1>1, <1>3, Zenon DEF WithLine
<1>10. CASE l.unit
  BY <1>1, <1>6, <1>7, <1>8, <1>10, Zenon DEF IsWithLine
<1>11. CASE ~ l.unit
  BY <1>1, <1>5, <1>7, <1>9, <1>11, Zenon DEF IsWithLine
<1> QED BY <1>10, <1>11

(* A figure that can be read stays so when words follow.                      *)
LEMMA FigureStays ==
  ASSUME NEW t, NEW ws, NEW vs, NEW k \in Nat \ {0}, IsFigure(t, ws, k),
         NEW p \in Nat, NEW q \in Nat, p = Len(ws), q = Len(vs), p <= q,
         \A j \in 1 .. p : vs[j] = ws[j]
  PROVE  IsFigure(t, vs, k)
<1>1. /\ p >= 3 * k - 1 /\ ws[3 * k - 2] = t[k].key /\ ws[3 * k - 1] = <<Number(k)>>
      /\ t[k].unit => p >= 3 * k
  BY Zenon DEF IsFigure
<1>2. 3 * k - 2 \in 1 .. p /\ 3 * k - 1 \in 1 .. p /\ q >= 3 * k - 1
  BY ONLY <1>1, k \in Nat \ {0}, p \in Nat, q \in Nat, p <= q
<1>3. p >= 3 * k => q >= 3 * k
  BY ONLY k \in Nat \ {0}, p \in Nat, q \in Nat, p <= q
<1> QED BY <1>1, <1>2, <1>3, Zenon DEF IsFigure

(* And a shift stays one: the word two lines on is a key or a unit, and no    *)
(* number.                                                                    *)
LEMMA ShiftStays ==
  ASSUME NEW t, NEW ws, NEW vs, NEW m \in Nat, NEW b \in 1 .. m, IsShift(t, ws, m, b),
         NEW p \in Nat, NEW q \in Nat, p = Len(ws), q = Len(vs), q = p + 2 \/ q = p + 3,
         \A j \in 1 .. p : vs[j] = ws[j],
         ~ IsNumber(vs[p + 1]), q = p + 3 => ~ IsNumber(vs[p + 3])
  PROVE  IsShift(t, vs, m + 1, b)
<1>1. /\ m = b => p = 3 * b - 1
      /\ m > b => p >= 3 * b + 1
      /\ m > b + 1 => p >= 3 * b + 2
      /\ p >= 3 * b + 2 => ~ IsNumber(ws[3 * b + 2])
  BY Zenon DEF IsShift
<1>2. /\ m + 1 # b
      /\ q >= 3 * b + 1
      /\ m + 1 > b + 1 => q >= 3 * b + 2
  BY <1>1
<1>3. ASSUME q >= 3 * b + 2 PROVE ~ IsNumber(vs[3 * b + 2])
  <2>1. CASE p >= 3 * b + 2
    <3>1. 3 * b + 2 \in 1 .. p
      BY <2>1
    <3> QED BY <1>1, <2>1, <3>1, Zenon
  <2>2. CASE p = 3 * b + 1
    <3>1. 3 * b + 2 = p + 1
      BY <2>2
    <3> QED BY <3>1, Zenon
  <2>3. CASE m = b
    <3>1. 3 * b + 2 = p + 3 /\ q = p + 3
      BY <1>1, <1>3, <2>3
    <3> QED BY <3>1, Zenon
  <2> QED BY <1>1, <2>1, <2>2, <2>3
<1> QED BY <1>2, <1>3, Zenon DEF IsShift

(* What the words say after one line more.                                    *)
LEMMA SaysMore ==
  ASSUME NEW t \in Seq(Lines["meminfo"]), NEW m \in Nat, m + 1 <= Len(t),
         NEW ws, Says(t, ws, m), NEW vs, vs = WithLine(ws, t[m + 1], m + 1)
  PROVE  Says(t, vs, m + 1)
<1>1. PICK l \in Lines["meminfo"] : l = t[m + 1]
  OBVIOUS
<1>2. /\ ws \in Seq(Seq(Int))
      /\ AllUnits(t, m) => Len(ws) = 3 * m
      /\ \A k \in 1 .. m : AllUnits(t, k - 1) => IsFigure(t, ws, k)
      /\ \A b \in 1 .. m : AllUnits(t, b - 1) /\ ~ t[b].unit => IsShift(t, ws, m, b)
  BY Zenon DEF Says
<1>3. l.key = MemTotal \/ l.key = MemAvailable \/ l.key = <<79, Colon>>
  BY DEF Lines
<1>4. IsWord(l.key) /\ ~ IsNumber(l.key) /\ ~ IsNumber(<<107>>)
  BY <1>3, KeysAreWords, Zenon
<1>5. l.key \in Seq(Int)
  BY <1>4, Zenon DEF IsWord
<1>0. Len(ws) \in Nat
  BY ONLY <1>2
<1>14. m + 1 \in Nat
  BY ONLY m \in Nat
<1>6. PICK p, q, k1 : /\ p \in Nat /\ k1 \in Nat
                      /\ p = Len(ws) /\ q = Len(vs) /\ k1 = m + 1
  BY <1>0, <1>14, Zenon
<1>7. /\ vs \in Seq(Seq(Int)) /\ \A j \in 1 .. p : vs[j] = ws[j]
      /\ vs[p + 1] = l.key /\ vs[p + 2] = <<Number(k1)>>
      /\ l.unit => q = p + 3 /\ vs[p + 3] = <<107>>
      /\ ~ l.unit => q = p + 2
  <2>1. vs = WithLine(ws, l, k1)
    BY <1>1, <1>6, Zenon
  <2>2. IsWithLine(vs, ws, p, l, k1)
    BY <1>2, <1>5, <1>6, <2>1, WithLineIs, Zenon
  <2> QED BY <1>6, <2>2, Zenon DEF IsWithLine
<1>8. q \in Nat /\ p <= q /\ (q = p + 2 \/ q = p + 3) /\ (q = p + 3 => l.unit)
  <2>1. q = p + 2 \/ (q = p + 3 /\ l.unit)
    BY <1>7, Zenon
  <2>2. p + 2 # p + 3
    BY ONLY <1>6
  <2>3. q = p + 2 \/ q = p + 3
    BY <2>1, Zenon
  <2>4. q \in Nat /\ p <= q
    BY ONLY <1>6, <2>3
  <2> QED BY <2>1, <2>2, <2>3, <2>4, Zenon
<1>9. ~ IsNumber(vs[p + 1]) /\ (q = p + 3 => ~ IsNumber(vs[p + 3]))
  BY <1>4, <1>7, <1>8, Zenon
<1>10. AllUnits(t, k1) => AllUnits(t, m) /\ l.unit
  BY <1>1, <1>6 DEF AllUnits
<1>11. ASSUME AllUnits(t, k1) PROVE q = 3 * k1
  <2>1. p = 3 * m /\ q = p + 3
    BY <1>2, <1>6, <1>7, <1>10, <1>11, Zenon
  <2> QED BY ONLY <1>6, <2>1, m \in Nat
<1>12. ASSUME NEW k \in 1 .. k1, AllUnits(t, k - 1) PROVE IsFigure(t, vs, k)
  <2>1. CASE k \in 1 .. m
    <3>1. IsFigure(t, ws, k) /\ k \in Nat \ {0}
      BY <1>2, <1>12, <2>1
    <3> QED BY ONLY <1>6, <1>7, <1>8, <3>1, FigureStays
  <2>2. CASE k = k1
    <3>1. k - 1 = m
      BY <1>6, <2>2
    <3>2. p = 3 * m
      BY <1>2, <1>6, <1>12, <3>1, Zenon
    <3>3. 3 * k - 2 = p + 1 /\ 3 * k - 1 = p + 2 /\ q >= 3 * k - 1 /\ (q = p + 3 => q >= 3 * k)
      BY <1>6, <1>8, <2>2, <3>2
    <3>4. t[k] = l
      BY <1>1, <1>6, <2>2, Zenon
    <3>5. IsFigure(t, vs, k)
      BY <1>6, <1>7, <2>2, <3>3, <3>4, Zenon DEF IsFigure
    <3> QED BY <3>5
  <2> QED BY <1>6, <2>1, <2>2
<1>13. ASSUME NEW b \in 1 .. k1, AllUnits(t, b - 1), ~ t[b].unit PROVE IsShift(t, vs, k1, b)
  <2>1. CASE b \in 1 .. m
    <3>1. IsShift(t, ws, m, b)
      BY <1>2, <1>13, <2>1
    <3>2. IsShift(t, vs, m + 1, b)
      BY ONLY <1>6, <1>7, <1>8, <1>9, <2>1, <3>1, m \in Nat, ShiftStays
    <3> QED BY <1>6, <3>2, Zenon
  <2>2. CASE b = k1
    <3>1. b - 1 = m
      BY <1>6, <2>2
    <3>2. p = 3 * m
      BY <1>2, <1>6, <1>13, <3>1, Zenon
    <3>3. ~ l.unit
      BY <1>1, <1>6, <1>13, <2>2, Zenon
    <3>6. q = p + 2
      BY <1>7, <3>3, Zenon
    <3>4. k1 = b /\ q = 3 * b - 1 /\ ~ (k1 > b) /\ ~ (k1 > b + 1) /\ ~ (q >= 3 * b + 2)
      BY ONLY <1>6, <2>2, <3>2, <3>6, m \in Nat
    <3>5. IsShift(t, vs, k1, b)
      BY <1>6, <3>4, Zenon DEF IsShift
    <3> QED BY <3>5
  <2> QED BY <1>6, <2>1, <2>2
<1> QED BY <1>6, <1>7, <1>11, <1>12, <1>13, Zenon DEF Says

(* What holds of nothing, and stays when the next part is added, holds of the  *)
(* parts one after the other.  The set P says of how many parts, and of what.  *)
LEMMA PartByPart ==
  ASSUME NEW n \in Nat, NEW parts \in [1 .. n -> Seq(Int)], NEW P, <<0, <<>>>> \in P,
         \A m \in 0 .. n - 1 : \A s \in Seq(Int) :
            <<m, s>> \in P => <<m + 1, s \o parts[m + 1]>> \in P
  PROVE  <<n, FlattenSeq(parts)>> \in P
<1>1. CASE n = 0
  <2>1. PICK s : s = FlattenSeq(parts)
    OBVIOUS
  <2>2. s = <<>>
    BY <1>1, <2>1 DEF FlattenSeq
  <2> QED BY <1>1, <2>1, <2>2, Zenon
<1>2. CASE n # 0
  <2>1. n \in Nat \ {0}
    BY <1>2
  <2>2. PICK f : IsConcatenation(f, parts, n) /\ FlattenSeq(parts) = f[n]
    BY <2>1, FlattenIs, Zenon
  <2>3. /\ f \in [1 .. n -> Seq(Int)]
        /\ \A k \in 1 .. n : f[k] = IF k = 1 THEN parts[k] ELSE f[k - 1] \o parts[k]
    BY <2>2, Zenon DEF IsConcatenation
  <2> DEFINE S == {m \in 1 .. n : <<m, f[m]>> \in P}
  <2>4. 1 \in S
    <3>1. 1 \in 1 .. n /\ 0 + 1 = 1 /\ 0 \in 0 .. n - 1
      BY <1>2
    <3>2. PICK s, w : s = <<>> /\ w = parts[1]
      OBVIOUS
    <3>3. w \in Seq(Int) /\ f[1] = w
      BY <2>3, <3>1, <3>2
    <3>4. s \in Seq(Int) /\ s \o w = w
      BY <3>2, <3>3
    <3>5. <<0 + 1, s \o parts[0 + 1]>> \in P
      BY <3>1, <3>2, <3>4, Zenon
    <3> QED BY <3>1, <3>2, <3>3, <3>4, <3>5, Zenon
  <2>5. ASSUME NEW m \in 1 .. n, m < n, m \in S PROVE m + 1 \in S
    <3>1. m + 1 \in 1 .. n /\ (m + 1) - 1 = m /\ m + 1 # 1 /\ m \in 0 .. n - 1
      BY <2>5
    <3>2. f[m] \in Seq(Int) /\ <<m, f[m]>> \in P
      BY <2>3, <2>5, Zenon
    <3>3. <<m + 1, f[m] \o parts[m + 1]>> \in P
      BY <3>1, <3>2, Zenon
    <3>4. f[m + 1] = f[m] \o parts[m + 1]
      BY <2>3, <3>1, Zenon
    <3> QED BY <3>1, <3>3, <3>4, Zenon
  <2>6. n \in S
    <3> HIDE DEF S
    <3>1. n \in 1 .. n /\ n \in Nat
      BY <1>2
    <3> QED BY <2>4, <2>5, <3>1, SmallestCounterexample
  <2> QED BY <2>2, <2>6, Zenon
<1> QED BY <1>1, <1>2

MemoryOf(t) == FlattenSeq([k \in DOMAIN t |-> MemoryLine(t[k], k) \o <<Newline>>])

(* Without a line there are no words.                                         *)
LEMMA NothingSaid ==
  ASSUME NEW t
  PROVE  Says(t, <<>>, 0)
<1>1. PICK ws : ws = <<>>
  OBVIOUS
<1>2. ws \in Seq(Seq(Int)) /\ Len(ws) = 0 /\ Len(ws) = 3 * 0 /\ 1 .. 0 = {}
  BY <1>1
<1>3. Says(t, ws, 0)
  BY <1>2, Zenon DEF Says
<1> QED BY <1>1, <1>3, Zenon

(* A line is a text.                                                          *)
LEMMA MemoryLineIsText ==
  ASSUME NEW l \in Lines["meminfo"], NEW k \in Nat
  PROVE  MemoryLine(l, k) \o <<Newline>> \in Seq(Int)
<1>1. l.key \in Seq(Int)
  <2>1. l.key = MemTotal \/ l.key = MemAvailable \/ l.key = <<79, Colon>>
    BY DEF Lines
  <2> QED BY <2>1, KeysAreWords, Zenon DEF IsWord
<1>2. PICK key, one, rest : /\ key = l.key /\ one = <<Space, Number(k)>>
                            /\ rest = IF l.unit THEN <<Space, 107>> ELSE <<>>
  OBVIOUS
<1>3. key \in Seq(Int) /\ one \in Seq(Int) /\ rest \in Seq(Int) /\ <<Newline>> \in Seq(Int)
  BY <1>1, <1>2 DEF Space, Number, Newline
<1>4. MemoryLine(l, k) = (key \o one) \o rest
  BY <1>2, Zenon DEF MemoryLine
<1>5. ((key \o one) \o rest) \o <<Newline>> \in Seq(Int)
  BY ONLY <1>3
<1> QED BY <1>4, <1>5, Zenon

(* What the words of the whole file say.                                      *)
LEMMA MemorySays ==
  ASSUME NEW t \in Seq(Lines["meminfo"]), NEW n \in Nat, n = Len(t)
  PROVE  \E ws : HasWords(MemoryOf(t), ws) /\ Says(t, ws, n)
<1>1. DOMAIN t = 1 .. n /\ \A k \in 1 .. n : t[k] \in Lines["meminfo"] /\ k \in Nat
  OBVIOUS
<1>2. PICK parts : parts = [k \in 1 .. n |-> MemoryLine(t[k], k) \o <<Newline>>]
  OBVIOUS
<1>3. parts \in [1 .. n -> Seq(Int)]
  BY <1>1, <1>2, MemoryLineIsText, Zenon
<1> DEFINE P == {pair \in Nat \X Seq(Int) :
                   \E ws : IsOver(pair[2], ws) /\ Says(t, ws, pair[1])}
<1>4. <<0, <<>>>> \in P
  <2>1. PICK s : s = <<>>
    OBVIOUS
  <2>2. s \in Seq(Int)
    BY <2>1
  <2>3. <<0, s>> \in Nat \X Seq(Int) /\ <<0, s>>[1] = 0 /\ <<0, s>>[2] = s
    BY <2>2
  <2>4. IsOver(s, <<>>) /\ Says(t, <<>>, 0)
    BY <2>1, NothingIsOver, NothingSaid, Zenon
  <2> QED BY <2>1, <2>3, <2>4, Zenon
<1>5. ASSUME NEW m \in 0 .. n - 1, NEW s \in Seq(Int), <<m, s>> \in P
      PROVE  <<m + 1, s \o parts[m + 1]>> \in P
  <2>1. /\ <<m, s>>[1] = m /\ <<m, s>>[2] = s /\ m \in Nat /\ m + 1 \in Nat /\ m + 1 <= n
        /\ m + 1 \in 1 .. n
    OBVIOUS
  <2>2. PICK ws : IsOver(s, ws) /\ Says(t, ws, m)
    BY <1>5, <2>1, Zenon
  <2>3. PICK k, l, w : k = m + 1 /\ l = t[k] /\ w = parts[k]
    OBVIOUS
  <2>4. k \in Nat /\ l \in Lines["meminfo"] /\ w = MemoryLine(l, k) \o <<Newline>>
    BY <1>1, <1>2, <2>1, <2>3, Zenon
  <2>5. IsOver(s \o w, WithLine(ws, l, k))
    BY <2>2, <2>4, MemoryLineIsOver, Zenon
  <2>6. Says(t, WithLine(ws, l, k), k)
    BY <2>1, <2>2, <2>3, SaysMore, Zenon
  <2>7. PICK u : u = s \o w
    OBVIOUS
  <2>8. u \in Seq(Int)
    BY <2>5, <2>7, Zenon DEF IsOver
  <2>9. k \in Nat /\ <<k, u>> \in Nat \X Seq(Int) /\ <<k, u>>[1] = k /\ <<k, u>>[2] = u
    BY <2>4, <2>8
  <2>10. <<k, u>> \in P
    BY <2>5, <2>6, <2>7, <2>9, Zenon
  <2> QED BY <2>3, <2>7, <2>10, Zenon
<1>6. <<n, FlattenSeq(parts)>> \in P
  <2> HIDE DEF P
  <2> QED BY ONLY <1>3, <1>4, <1>5, n \in Nat, PartByPart
<1>7. PICK s : s = FlattenSeq(parts)
  OBVIOUS
<1>8. <<n, s>>[1] = n /\ <<n, s>>[2] = s
  OBVIOUS
<1>9. PICK ws : IsOver(s, ws) /\ Says(t, ws, n)
  BY <1>6, <1>7, <1>8, Zenon
<1>10. MemoryOf(t) = s
  BY <1>1, <1>2, <1>7, Zenon DEF MemoryOf
<1> QED BY <1>9, <1>10, Zenon DEF IsOver

ReadIn(ws) == {k \in 1 .. Len(ws) \div 3 : \A j \in 1 .. k : IsNumber(ws[3 * j - 1])}
ReadAs(ws, key) == {k \in ReadIn(ws) : ws[3 * k - 2] = key}
FigureLines(t, key) == {k \in DOMAIN t : t[k].key = key /\ AllUnits(t, k)}

(* If a line has no unit there is a first.                                    *)
LEMMA FirstWithoutUnit ==
  ASSUME NEW t, NEW n \in Nat, ~ AllUnits(t, n)
  PROVE  \E b \in 1 .. n : AllUnits(t, b - 1) /\ ~ t[b].unit
<1> DEFINE S == {i \in 1 .. n : ~ t[i].unit}
<1>1. S \in SUBSET Nat /\ S # {}
  BY DEF AllUnits
<1>2. PICK b \in S : \A i \in S : b <= i
  BY <1>1, MinimumExists
<1>3. \A i \in 1 .. b - 1 : i \in 1 .. n /\ ~ (b <= i)
  BY <1>2
<1>4. AllUnits(t, b - 1)
  BY <1>2, <1>3, Zenon DEF AllUnits
<1> QED BY <1>2, <1>4, Zenon

(* Units up to a line are units up to each before it.                         *)
LEMMA UnitsBefore ==
  ASSUME NEW t, NEW k \in Nat, AllUnits(t, k), NEW j \in 1 .. k
  PROVE  AllUnits(t, j - 1) /\ AllUnits(t, j) /\ t[j].unit
<1>1. \A i \in 1 .. j - 1 : i \in 1 .. k
  OBVIOUS
<1>2. \A i \in 1 .. j : i \in 1 .. k
  OBVIOUS
<1> QED BY <1>1, <1>2, Zenon DEF AllUnits

(* A figure is read where its line says so.                                    *)
LEMMA FigureIsRead ==
  ASSUME NEW t, NEW ws, NEW n \in Nat, Says(t, ws, n), NEW k \in 1 .. n, AllUnits(t, k)
  PROVE  k \in ReadIn(ws) /\ ws[3 * k - 2] = t[k].key /\ ws[3 * k - 1] = <<Number(k)>>
<1>1. /\ ws \in Seq(Seq(Int))
      /\ \A j \in 1 .. n : AllUnits(t, j - 1) => IsFigure(t, ws, j)
  BY Zenon DEF Says
<1>2. \A j \in 1 .. k : j \in 1 .. n
  OBVIOUS
<1>3. ASSUME NEW j \in 1 .. k PROVE IsFigure(t, ws, j) /\ t[j].unit
  <2>1. AllUnits(t, j - 1) /\ t[j].unit
    BY UnitsBefore
  <2> QED BY <1>1, <1>2, <2>1, Zenon
<1>4. ASSUME NEW j \in 1 .. k PROVE IsNumber(ws[3 * j - 1])
  <2>1. Number(j) \in Int /\ Number(j) >= 1000
    BY DEF Number
  <2>2. IsNumber(<<Number(j)>>)
    BY <2>1, NumberIsWord
  <2> QED BY <1>3, <2>2, Zenon DEF IsFigure
<1>5. k \in 1 .. k
  OBVIOUS
<1>6. Len(ws) >= 3 * k
  BY <1>3, <1>5, Zenon DEF IsFigure
<1>7. Len(ws) \in Nat
  BY ONLY <1>1
<1>8. PICK p \in Nat : p = Len(ws)
  BY <1>7, Zenon
<1>9. k \in 1 .. p \div 3
  BY ONLY <1>6, <1>8, p \in Nat, k \in 1 .. n, n \in Nat
<1>10. k \in ReadIn(ws)
  BY <1>4, <1>8, <1>9, Zenon DEF ReadIn
<1> QED BY <1>3, <1>5, <1>10, Zenon DEF IsFigure

(* And nothing else is read as one.                                            *)
LEMMA OnlyFiguresAreRead ==
  ASSUME NEW t \in Seq(Lines["meminfo"]), NEW ws, NEW n \in Nat, n = Len(t), Says(t, ws, n),
         NEW k \in ReadIn(ws), ws[3 * k - 2] = MemTotal \/ ws[3 * k - 2] = MemAvailable
  PROVE  k \in 1 .. n /\ AllUnits(t, k)
<1>1. /\ ws \in Seq(Seq(Int))
      /\ AllUnits(t, n) => Len(ws) = 3 * n
      /\ \A j \in 1 .. n : AllUnits(t, j - 1) => IsFigure(t, ws, j)
      /\ \A b \in 1 .. n : AllUnits(t, b - 1) /\ ~ t[b].unit => IsShift(t, ws, n, b)
  BY Zenon DEF Says
<1>2. Len(ws) \in Nat
  BY ONLY <1>1
<1>3. PICK p : p \in Nat /\ p = Len(ws)
  BY <1>2, Zenon
<1>4. k \in 1 .. p \div 3 /\ \A j \in 1 .. k : IsNumber(ws[3 * j - 1])
  BY <1>3, Zenon DEF ReadIn
<1>5. k \in Nat /\ 1 <= k /\ 3 * k <= p
  BY ONLY <1>3, <1>4
<1>6. CASE AllUnits(t, n)
  <2>1. p = 3 * n
    BY <1>1, <1>3, <1>6, Zenon
  <2>2. k \in 1 .. n
    BY ONLY <1>5, <2>1, n \in Nat
  <2>3. AllUnits(t, k)
    BY <1>6, <2>2, UnitsBefore
  <2> QED BY <2>2, <2>3
<1>7. CASE ~ AllUnits(t, n)
  <2>1. PICK b : b \in 1 .. n /\ AllUnits(t, b - 1) /\ ~ t[b].unit
    BY <1>7, FirstWithoutUnit
  <2>2. IsShift(t, ws, n, b) /\ IsFigure(t, ws, b)
    BY <1>1, <2>1, Zenon
  <2>3. k < b
    <3>1. CASE k = b
      <4>1. t[b].key = <<79, Colon>>
        <5>1. t[b] \in Lines["meminfo"]
          BY <2>1
        <5>2. PICK l \in Lines["meminfo"] : l = t[b]
          BY <5>1, Zenon
        <5>3. l.unit = TRUE \/ l.key = <<79, Colon>>
          BY DEF Lines
        <5> QED BY <2>1, <5>2, <5>3, Zenon
      <4>2. ws[3 * k - 2] = <<79, Colon>>
        BY <2>2, <3>1, <4>1, Zenon DEF IsFigure
      <4>3. FALSE
        BY <4>2, KeysAreWords, Zenon
      <4> QED BY <4>3
    <3>2. CASE k > b
      <4>1. b + 1 \in 1 .. k /\ 3 * (b + 1) - 1 = 3 * b + 2 /\ p >= 3 * b + 2
        BY ONLY <1>3, <1>5, <2>1, <3>2, n \in Nat
      <4>2. IsNumber(ws[3 * b + 2])
        BY <1>4, <4>1, Zenon
      <4>3. ~ IsNumber(ws[3 * b + 2])
        BY <1>3, <2>2, <4>1, Zenon DEF IsShift
      <4> QED BY <4>2, <4>3, Zenon
    <3> QED BY ONLY <1>5, <2>1, <3>1, <3>2, n \in Nat
  <2>4. k \in 1 .. b - 1 /\ b - 1 \in Nat /\ k \in 1 .. n
    BY ONLY <1>5, <2>1, <2>3, n \in Nat
  <2>5. AllUnits(t, k)
    BY <2>1, <2>4, UnitsBefore
  <2> QED BY <2>4, <2>5
<1> QED BY <1>6, <1>7

IsKey(key) == key = MemTotal \/ key = MemAvailable

(* So the figures of a key are read on its lines, up to the first line        *)
(* without a unit.                                                            *)
LEMMA ReadAsIs ==
  ASSUME NEW t \in Seq(Lines["meminfo"]), NEW ws, NEW n \in Nat, n = Len(t), Says(t, ws, n),
         NEW key, IsKey(key)
  PROVE  ReadAs(ws, key) = FigureLines(t, key)
<1>1. DOMAIN t = 1 .. n
  OBVIOUS
<1>2. ASSUME NEW k \in ReadAs(ws, key) PROVE k \in FigureLines(t, key)
  <2>1. k \in ReadIn(ws) /\ ws[3 * k - 2] = key
    BY Zenon DEF ReadAs
  <2>2. ws[3 * k - 2] = MemTotal \/ ws[3 * k - 2] = MemAvailable
    BY <2>1, Zenon DEF IsKey
  <2>3. k \in 1 .. n /\ AllUnits(t, k)
    BY <2>1, <2>2, OnlyFiguresAreRead, Zenon
  <2>4. ws[3 * k - 2] = t[k].key
    BY <2>3, FigureIsRead, Zenon
  <2> QED BY <1>1, <2>1, <2>3, <2>4, Zenon DEF FigureLines
<1>3. ASSUME NEW k \in FigureLines(t, key) PROVE k \in ReadAs(ws, key)
  <2>1. k \in 1 .. n /\ t[k].key = key /\ AllUnits(t, k)
    BY <1>1, Zenon DEF FigureLines
  <2>2. k \in ReadIn(ws) /\ ws[3 * k - 2] = t[k].key
    BY <2>1, FigureIsRead, Zenon
  <2> QED BY <2>1, <2>2, Zenon DEF ReadAs
<1> QED BY <1>2, <1>3, Zenon

(* And the figure that is kept is one of them.                                *)
LEMMA OneFigure ==
  ASSUME NEW t \in Seq(Lines["meminfo"]), NEW ws, NEW n \in Nat, n = Len(t), Says(t, ws, n),
         NEW key, IsKey(key)
  PROVE  IF FigureLines(t, key) = {} THEN Figure(ws, ReadIn(ws), key) = 0
         ELSE Figure(ws, ReadIn(ws), key) \in FigureLines(t, key)
<1>1. PICK of : of = FigureLines(t, key)
  OBVIOUS
<1>2. ReadAs(ws, key) = of
  BY <1>1, ReadAsIs, Zenon
<1>3. Figure(ws, ReadIn(ws), key) = IF of = {} THEN 0 ELSE ValueOf(ws[3 * Max(of) - 1])
  BY <1>2, Zenon DEF Figure, ReadAs
<1>4. CASE of = {}
  BY <1>1, <1>3, <1>4, Zenon
<1>5. CASE of # {}
  <2>1. DOMAIN t = 1 .. n /\ 1 .. n \subseteq 0 .. n
    OBVIOUS
  <2>2. of \in SUBSET (0 .. n)
    BY <1>1, <2>1, Zenon DEF FigureLines
  <2>3. PICK k : k = Max(of)
    OBVIOUS
  <2>4. k \in of
    BY <1>5, <2>2, <2>3, MaximumExists, Zenon
  <2>5. k \in 1 .. n /\ AllUnits(t, k)
    BY <1>1, <2>1, <2>4, Zenon DEF FigureLines
  <2>6. ws[3 * k - 1] = <<Number(k)>>
    BY <2>5, FigureIsRead, Zenon
  <2>7. Number(k) \in Int /\ Number(k) >= 1000 /\ Number(k) - 1000 = k
    BY <2>5 DEF Number
  <2>8. ValueOf(<<Number(k)>>) = k
    <3>1. PICK c : c = Number(k)
      OBVIOUS
    <3>2. c \in Int /\ c >= 1000 /\ c - 1000 = k
      BY <2>7, <3>1, Zenon
    <3>3. ValueOf(<<c>>) = c - 1000
      BY ONLY <3>2, NumberIsWord
    <3> QED BY <3>1, <3>2, <3>3, Zenon
  <2> QED BY <1>1, <1>3, <1>5, <2>3, <2>4, <2>6, <2>8, Zenon
<1> QED BY <1>4, <1>5

(* The total and the available memory.                                        *)
LEMMA MemoryIsRead ==
  ASSUME NEW t \in Seq(Lines["meminfo"])
  PROVE  LET memory == ReadMemoryInfo(MemoryOf(t))
             is(value, lines) == IF lines = {} THEN value = 0 ELSE value \in lines
         IN  /\ is(memory.total, FigureLines(t, MemTotal))
             /\ is(memory.available, FigureLines(t, MemAvailable))
<1>1. PICK n : n \in Nat /\ n = Len(t)
  OBVIOUS
<1>2. PICK file : file = MemoryOf(t)
  OBVIOUS
<1>3. PICK ws : HasWords(file, ws) /\ Says(t, ws, n)
  BY <1>1, <1>2, MemorySays, Zenon
<1>4. Words(file) = ws
  BY <1>3, WordsFound, Zenon
<1>5. ReadMemoryInfo(file) = [total |-> Figure(ws, ReadIn(ws), MemTotal),
                              available |-> Figure(ws, ReadIn(ws), MemAvailable)]
  BY <1>4, Zenon DEF ReadMemoryInfo, ReadIn
<1>6. PICK memory : memory = ReadMemoryInfo(file)
  OBVIOUS
<1>7. /\ memory.total = Figure(ws, ReadIn(ws), MemTotal)
      /\ memory.available = Figure(ws, ReadIn(ws), MemAvailable)
  BY <1>5, <1>6
<1>8. /\ IF FigureLines(t, MemTotal) = {} THEN Figure(ws, ReadIn(ws), MemTotal) = 0
         ELSE Figure(ws, ReadIn(ws), MemTotal) \in FigureLines(t, MemTotal)
      /\ IF FigureLines(t, MemAvailable) = {} THEN Figure(ws, ReadIn(ws), MemAvailable) = 0
         ELSE Figure(ws, ReadIn(ws), MemAvailable) \in FigureLines(t, MemAvailable)
  <2>1. IsKey(MemTotal) /\ IsKey(MemAvailable)
    BY Zenon DEF IsKey
  <2> QED BY <1>1, <1>3, <2>1, OneFigure, Zenon
<1> QED BY <1>2, <1>6, <1>7, <1>8, Zenon
--------------------------------------------------------------------------------
(* The columns of an interface, behind a text without a word.                  *)
ColumnsOf(k) == FlattenSeq([c \in 1 .. 16 |-> <<Number(100 * k + c), Space>>])

AreColumns(ws, k, m) ==
  ws \in Seq(Seq(Int)) /\ Len(ws) = m /\ \A j \in 1 .. m : ws[j] = <<Number(100 * k + j)>>

(* One more column.                                                           *)
LEMMA ColumnBehind ==
  ASSUME NEW ws, NEW k \in Nat, NEW m \in Nat, AreColumns(ws, k, m)
  PROVE  AreColumns(Append(ws, <<Number(100 * k + (m + 1))>>), k, m + 1)
<1>1. ws \in Seq(Seq(Int)) /\ Len(ws) = m /\ \A j \in 1 .. m : ws[j] = <<Number(100 * k + j)>>
  BY Zenon DEF AreColumns
<1>2. PICK w : w = <<Number(100 * k + (m + 1))>>
  OBVIOUS
<1>3. w \in Seq(Int)
  BY <1>2 DEF Number
<1>4. PICK vs : vs = Append(ws, w)
  OBVIOUS
<1>5. /\ vs \in Seq(Seq(Int)) /\ Len(vs) = m + 1 /\ vs[m + 1] = w
      /\ \A j \in 1 .. m : vs[j] = ws[j]
  BY ONLY <1>1, <1>3, <1>4, m \in Nat
<1>6. \A j \in 1 .. m + 1 : j \in 1 .. m \/ j = m + 1
  OBVIOUS
<1>7. \A j \in 1 .. m + 1 : vs[j] = <<Number(100 * k + j)>>
  BY <1>1, <1>2, <1>5, <1>6, Zenon
<1> QED BY <1>2, <1>4, <1>5, <1>7, Zenon DEF AreColumns

(* The sixteen columns of a line are its words.                               *)
LEMMA ColumnsAre ==
  ASSUME NEW k \in Nat, NEW g, IsOver(g, <<>>)
  PROVE  /\ IsLine(ColumnsOf(k))
         /\ \E ws : IsOver(g \o ColumnsOf(k), ws) /\ AreColumns(ws, k, 16)
<1>1. PICK parts : parts = [c \in 1 .. 16 |-> <<Number(100 * k + c), Space>>]
  OBVIOUS
<1>2. ASSUME NEW c \in 1 .. 16
      PROVE  /\ Number(100 * k + c) \in Int /\ Number(100 * k + c) >= 1000
             /\ parts[c] = <<Number(100 * k + c), Space>> /\ parts[c] \in Seq(Int)
             /\ IsLine(parts[c])
  <2>1. Number(100 * k + c) \in Int /\ Number(100 * k + c) >= 1000
    BY DEF Number
  <2>2. PICK N \in Int : N = Number(100 * k + c) /\ N >= 1000
    BY <2>1
  <2>3. PICK w : w = <<N, Space>>
    OBVIOUS
  <2>4. w \in Seq(Int) /\ Len(w) = 2 /\ w[1] = N /\ w[2] = 32
    BY <2>3 DEF Space
  <2>5. IsLine(w)
    BY <2>2, <2>4 DEF IsLine, Newline
  <2>6. parts[c] = w
    BY <1>1, <2>2, <2>3, Zenon
  <2> QED BY <2>1, <2>2, <2>3, <2>4, <2>5, <2>6, Zenon
<1>3. parts \in [1 .. 16 -> Seq(Int)]
  BY <1>1, <1>2, Zenon
<1>4. g \in Seq(Int)
  BY Zenon DEF IsOver
<1> DEFINE P == {pair \in Nat \X Seq(Int) :
                   /\ IsLine(pair[2])
                   /\ \E ws : IsOver(g \o pair[2], ws) /\ AreColumns(ws, k, pair[1])}
<1>5. <<0, <<>>>> \in P
  <2>1. PICK s : s = <<>>
    OBVIOUS
  <2>2. s \in Seq(Int) /\ Len(s) = 0 /\ g \o s = g /\ s \in Seq(Seq(Int)) /\ 1 .. 0 = {}
    BY ONLY <1>4, <2>1
  <2>6. s \in Seq(Int)
    BY <2>2
  <2>3. <<0, s>> \in Nat \X Seq(Int) /\ <<0, s>>[1] = 0 /\ <<0, s>>[2] = s
    BY ONLY <2>6
  <2>4. AreColumns(s, k, 0)
    BY <2>2, Zenon DEF AreColumns
  <2>5. IsLine(s) /\ IsOver(g \o s, s)
    BY <2>1, <2>2, SmallLines, Zenon
  <2> QED BY <2>1, <2>3, <2>4, <2>5, Zenon
<1>6. ASSUME NEW m \in 0 .. 15, NEW s \in Seq(Int), <<m, s>> \in P
      PROVE  <<m + 1, s \o parts[m + 1]>> \in P
  <2>1. <<m, s>>[1] = m /\ <<m, s>>[2] = s /\ m \in Nat /\ m + 1 \in Nat /\ m + 1 \in 1 .. 16
    OBVIOUS
  <2>2. PICK ws : IsOver(g \o s, ws) /\ AreColumns(ws, k, m)
    BY <1>6, <2>1, Zenon
  <2>3. IsLine(s)
    BY <1>6, <2>1, Zenon
  <2>4. PICK c, N, w : c = m + 1 /\ N = Number(100 * k + c) /\ w = parts[c]
    OBVIOUS
  <2>5. c \in 1 .. 16 /\ c \in Nat
    BY <2>1, <2>4
  <2>6. N \in Int /\ N >= 1000 /\ w = <<N, Space>> /\ w \in Seq(Int) /\ IsLine(w)
    <3>1. /\ Number(100 * k + c) \in Int /\ Number(100 * k + c) >= 1000
          /\ parts[c] = <<Number(100 * k + c), Space>> /\ parts[c] \in Seq(Int)
          /\ IsLine(parts[c])
      BY <1>2, <2>5, Zenon
    <3>2. N \in Int /\ N >= 1000
      BY <2>4, <3>1
    <3> QED BY <2>4, <3>1, <3>2, Zenon
  <2>7. IsWord(<<N>>)
    BY ONLY <2>6, NumberIsWord
  <2>8. Space \in Int /\ Space \in Blank
    BY DEF Space, Blank
  <2>9. PICK u, h : u = s \o w /\ h = g \o s
    OBVIOUS
  <2>10. h \in Seq(Int)
    BY <2>2, <2>9, Zenon DEF IsOver
  <2>11. g \o u = h \o w
    BY <1>4, <2>6, <2>9, JoinedTwice, Zenon
  <2>12. h \o w = (h \o <<N>>) \o <<Space>>
    BY <2>6, <2>8, <2>10, PairBehind, Zenon
  <2>13. IsOver((h \o <<N>>) \o <<Space>>, Append(ws, <<N>>))
    BY <2>2, <2>7, <2>8, <2>9, WordIsOver, Zenon
  <2>14. AreColumns(Append(ws, <<N>>), k, c)
    BY <2>1, <2>2, <2>4, ColumnBehind, Zenon
  <2>15. IsLine(u)
    BY <2>3, <2>6, <2>9, LineBehind, Zenon
  <2>16. u \in Seq(Int)
    BY <2>15, Zenon DEF IsLine
  <2>17. <<c, u>> \in Nat \X Seq(Int) /\ <<c, u>>[1] = c /\ <<c, u>>[2] = u
    BY <2>5, <2>16
  <2>18. <<c, u>> \in P
    BY <2>11, <2>12, <2>13, <2>14, <2>15, <2>17, Zenon
  <2> QED BY <2>4, <2>9, <2>18, Zenon
<1>7. <<16, FlattenSeq(parts)>> \in P
  <2> HIDE DEF P
  <2>1. 16 \in Nat /\ 16 - 1 = 15
    OBVIOUS
  <2> QED BY ONLY <1>3, <1>5, <1>6, <2>1, PartByPart
<1>8. PICK s : s = FlattenSeq(parts)
  OBVIOUS
<1>9. <<16, s>>[1] = 16 /\ <<16, s>>[2] = s
  OBVIOUS
<1>10. IsLine(s) /\ \E ws : IsOver(g \o s, ws) /\ AreColumns(ws, k, 16)
  BY <1>7, <1>8, <1>9, Zenon
<1>11. ColumnsOf(k) = s
  BY <1>1, <1>8, Zenon DEF ColumnsOf
<1> QED BY <1>10, <1>11, Zenon

(* A line with a name of one character before the colon, and words behind it.  *)
IsNamed(w, a, ws) ==
  /\ w \in Seq(Int) /\ Len(w) >= 3 /\ a \in Int /\ a \notin Blank /\ a # Colon
  /\ w[1] = Space /\ w[2] = a /\ w[3] = Colon
  /\ HasWords(SubSeq(w, 3 + 1, Len(w)), ws)

(* The name is what stands before the colon, the words what stands behind it. *)
LEMMA NamedIs ==
  ASSUME NEW w, NEW a, NEW ws, IsNamed(w, a, ws)
  PROVE  /\ Contains(w, Colon) /\ NameOf(w) = <<a>>
         /\ Words(SubSeq(w, SelectInSeq(w, LAMBDA c : c = Colon) + 1, Len(w))) = ws
<1>1. /\ w \in Seq(Int) /\ Len(w) >= 3 /\ a \in Int /\ a \notin Blank /\ a # Colon
      /\ w[1] = Space /\ w[2] = a /\ w[3] = Colon
      /\ HasWords(SubSeq(w, 3 + 1, Len(w)), ws)
  BY Zenon DEF IsNamed
<1>2. PICK n \in Nat : n = Len(w) /\ n >= 3
  BY <1>1
<1>3. Contains(w, Colon)
  <2>1. 3 \in 1 .. n
    BY <1>2
  <2> QED BY <1>1, <1>2, <2>1, Zenon DEF Contains
<1>4. SelectInSeq(w, LAMBDA c : c = Colon) = 3
  <2>1. PICK I : I = {i \in 1 .. n : w[i] = Colon}
    OBVIOUS
  <2>2. 3 \in I /\ I \in SUBSET Nat
    BY <1>1, <1>2, <2>1
  <2>3. Min(I) \in I /\ \A y \in I : Min(I) <= y
    BY <2>2, MinimumExists
  <2>4. Space # Colon
    BY DEF Space, Colon
  <2>5. 1 \notin I /\ 2 \notin I
    BY <1>1, <2>1, <2>4, Zenon
  <2>6. PICK m \in Nat : m = Min(I)
    BY <2>2, <2>3
  <2>7. m <= 3 /\ m \in I /\ m \in 1 .. n
    BY <2>1, <2>2, <2>3, <2>6, Zenon
  <2>8. m = 3
    BY <2>5, <2>7
  <2>9. SelectInSeq(w, LAMBDA c : c = Colon) = IF I # {} THEN Min(I) ELSE 0
    BY <1>2, <2>1, Zenon DEF SelectInSeq
  <2> QED BY <2>2, <2>6, <2>8, <2>9, Zenon
<1>5. NameOf(w) = <<a>>
  <2>1. 2 \in 1 .. n /\ 1 \in 1 .. Len(w) /\ 2 \in 1 .. Len(w) /\ 2 - 1 + 1 = 2 /\ 3 - 1 = 2
        /\ \A j \in 1 .. 2 : j + (1 - 1) = j
    BY <1>1, <1>2
  <2>2. PICK s : s = SubSeq(w, 1, 2)
    OBVIOUS
  <2>3. s \in Seq(Int) /\ Len(s) = 2 /\ \A j \in 1 .. 2 : s[j] = w[j]
    BY <1>1, <2>1, <2>2, Part
  <2>4. PICK v : v = <<a>>
    OBVIOUS
  <2>5. /\ v \in Seq(Int) /\ Len(v) = 1 /\ v[1] = a /\ 1 \in Nat /\ 1 # 0 /\ 1 + 1 <= 2
        /\ \A j \in 1 .. 1 : j = 1 /\ 1 + j = 2
        /\ \A i \in 1 .. 2 : i <= 1 \/ i > 1 + 1 => i = 1
        /\ 1 \in 1 .. 2 /\ 2 \in 1 .. 2
    BY <1>1, <2>4
  <2>6. \A j \in 1 .. Len(v) : s[1 + j] = v[j]
    BY <1>1, <2>3, <2>5, Zenon
  <2>7. Space \in Blank
    BY DEF Blank
  <2>8. \A i \in 1 .. Len(s) : i <= 1 \/ i > 1 + Len(v) => s[i] \in Blank
    BY <1>1, <2>3, <2>5, <2>7, Zenon
  <2>9. v[1] \notin Blank /\ v[Len(v)] \notin Blank
    BY <1>1, <2>5, Zenon
  <2>10. IsTrimmed(s, v, 1)
    BY <2>3, <2>5, <2>6, <2>8, <2>9, Zenon DEF IsTrimmed
  <2> QED BY <1>4, <2>1, <2>2, <2>4, <2>10, TrimmedIs, Zenon DEF NameOf, Between
<1>6. Words(SubSeq(w, 3 + 1, Len(w))) = ws
  BY <1>1, WordsFound, Zenon
<1> QED BY <1>3, <1>4, <1>5, <1>6, Zenon

(* A line of an interface is so, with or without a space before its numbers.  *)
LEMMA InterfaceIs ==
  ASSUME NEW l \in Lines["network"], NEW k \in Nat, NEW w, w = InterfaceLine(l, k)
  PROVE  \E a, ws : /\ l.name = <<a>> /\ IsLine(w)
                    /\ IsNamed(w, a, ws) /\ AreColumns(ws, k, 16)
<1>1. PICK a : l.name = <<a>> /\ (a = 76 \/ a = 69 \/ a = 87)
  <2>1. l.name = <<76>> \/ l.name = <<69>> \/ l.name = <<87>>
    BY DEF Lines, Loopback
  <2> QED BY <2>1, Zenon
<1>2. a \in Int /\ a \notin Blank /\ a # Colon /\ a # Newline
  BY <1>1 DEF Blank, Colon, Tab, Newline, Space
<1>3. PICK g, cols, one, name, colon :
        /\ g = IF l.padded THEN <<Space>> ELSE <<>>
        /\ cols = ColumnsOf(k) /\ one = <<Space>> /\ name = <<a>> /\ colon = <<Colon>>
  OBVIOUS
<1>4. w = (((one \o name) \o colon) \o g) \o cols
  BY <1>1, <1>3, Zenon DEF InterfaceLine, ColumnsOf
<1>5. IsOver(g, <<>>) /\ IsLine(g)
  <2>1. PICK s : s = <<>>
    OBVIOUS
  <2>2. s \in Seq(Int) /\ s \o <<Space>> = <<Space>>
    BY <2>1 DEF Space
  <2>3. Space \in Blank
    BY DEF Blank
  <2>4. IsOver(s \o <<Space>>, <<>>)
    BY <2>1, <2>2, <2>3, NoWord, BlankIsOver, Zenon
  <2> QED BY <1>3, <2>2, <2>4, NothingIsOver, SmallLines, Zenon
<1>6. IsLine(cols) /\ \E ws : IsOver(g \o cols, ws) /\ AreColumns(ws, k, 16)
  BY <1>3, <1>5, ColumnsAre, Zenon
<1>7. PICK ws : IsOver(g \o cols, ws) /\ AreColumns(ws, k, 16)
  BY <1>6, Zenon
<1>8. /\ one \in Seq(Int) /\ Len(one) = 1 /\ one[1] = Space
      /\ name \in Seq(Int) /\ Len(name) = 1 /\ name[1] = a
      /\ colon \in Seq(Int) /\ Len(colon) = 1 /\ colon[1] = Colon
  BY <1>2, <1>3 DEF Space, Colon
<1>9. g \in Seq(Int) /\ cols \in Seq(Int)
  BY <1>5, <1>6, Zenon DEF IsLine
<1>10. PICK head, tail : head = (one \o name) \o colon /\ tail = g \o cols
  OBVIOUS
<1>11. /\ head \in Seq(Int) /\ Len(head) = 3
       /\ head[1] = Space /\ head[2] = a /\ head[3] = Colon
  <2>1. PICK h : h = one \o name
    OBVIOUS
  <2>2. IsJoined(h, one, 1, name, 1)
    BY ONLY <1>8, <2>1, JoinedAt
  <2>3. h \in Seq(Int) /\ Len(h) = 2 /\ h[1] = Space /\ h[2] = a
    BY <1>8, <2>2 DEF IsJoined
  <2>4. IsJoined(head, h, 2, colon, 1)
    BY ONLY <1>8, <1>10, <2>1, <2>3, JoinedAt
  <2> QED BY <1>8, <2>3, <2>4 DEF IsJoined
<1>12. tail \in Seq(Int)
  BY ONLY <1>9, <1>10
<1>13. w = head \o tail
  BY <1>4, <1>9, <1>10, <1>11, JoinedTwice, Zenon
<1>14. PICK q \in Nat : q = Len(tail)
  BY <1>12
<1>15. IsJoined(w, head, 3, tail, q)
  BY ONLY <1>11, <1>12, <1>13, <1>14, q \in Nat, JoinedAt
<1>16. /\ w \in Seq(Int) /\ Len(w) = 3 + q
       /\ \A i \in 1 .. 3 : w[i] = head[i]
       /\ \A j \in 1 .. q : w[3 + j] = tail[j]
  BY <1>15, Zenon DEF IsJoined
<1>17. w[1] = Space /\ w[2] = a /\ w[3] = Colon
  BY <1>11, <1>16
<1>18. SubSeq(w, 3 + 1, Len(w)) = tail
  <2>1. PICK x \in Nat, b \in Nat : x = 3 + 1 /\ b = Len(w) + 1
    BY <1>16
  <2>2. /\ 1 <= x /\ x <= b /\ b <= Len(w) + 1 /\ Len(tail) = b - x /\ b - x = q
        /\ b - 1 = Len(w) /\ \A j \in 1 .. q : x + j - 1 = 3 + j
    BY ONLY <1>14, <1>16, <2>1, q \in Nat
  <2>3. \A j \in 1 .. b - x : w[x + j - 1] = tail[j]
    BY <1>16, <2>2, Zenon
  <2>4. SubSeq(w, x, b - 1) = tail
    BY ONLY <1>12, <1>16, <2>2, <2>3, x \in Nat, b \in Nat, PartIs
  <2> QED BY <2>1, <2>2, <2>4, Zenon
<1>19. Len(w) >= 3
  BY <1>16
<1>20. HasWords(tail, ws)
  BY <1>7, <1>10, Zenon DEF IsOver
<1>21. IsNamed(w, a, ws)
  BY <1>2, <1>16, <1>17, <1>18, <1>19, <1>20, Zenon DEF IsNamed
<1>22. IsLine(w)
  <2>1. IsLine(one) /\ IsLine(name) /\ IsLine(colon)
    BY <1>2, <1>8 DEF IsLine, Space, Colon, Newline
  <2> QED BY <1>4, <1>5, <1>6, <2>1, LineBehind, Zenon
<1> QED BY <1>1, <1>7, <1>21, <1>22, Zenon

IsInterface(line, l, k) ==
  /\ Contains(line, Colon) /\ NameOf(line) = l.name
  /\ Column(line, 1) = 100 * k + 1 /\ Column(line, 9) = 100 * k + 9

(* So its name and its two columns are read.                                  *)
LEMMA OneInterface ==
  ASSUME NEW l \in Lines["network"], NEW k \in Nat, NEW w, w = InterfaceLine(l, k)
  PROVE  IsLine(w) /\ IsInterface(w, l, k)
<1>1. PICK a, ws : /\ l.name = <<a>> /\ IsLine(w)
                   /\ IsNamed(w, a, ws) /\ AreColumns(ws, k, 16)
  BY InterfaceIs
<1>2. /\ Contains(w, Colon) /\ NameOf(w) = <<a>>
      /\ Words(SubSeq(w, SelectInSeq(w, LAMBDA c : c = Colon) + 1, Len(w))) = ws
  BY <1>1, NamedIs, Zenon
<1>3. Len(ws) = 16 /\ \A j \in 1 .. 16 : ws[j] = <<Number(100 * k + j)>>
  BY <1>1, Zenon DEF AreColumns
<1>4. ASSUME NEW j \in 1 .. 16
      PROVE  IsNumber(ws[j]) /\ ValueOf(ws[j]) = 100 * k + j
  <2>1. PICK c : c = Number(100 * k + j)
    OBVIOUS
  <2>2. c \in Int /\ c >= 1000 /\ c - 1000 = 100 * k + j
    BY <2>1 DEF Number
  <2>3. IsNumber(<<c>>) /\ ValueOf(<<c>>) = c - 1000
    BY ONLY <2>2, NumberIsWord
  <2> QED BY <1>3, <2>1, <2>2, <2>3, Zenon
<1>5. 1 \in 1 .. 16 /\ 9 \in 1 .. 16 /\ 1 <= 16 /\ 9 <= 16
  OBVIOUS
<1>6. Column(w, 1) = 100 * k + 1 /\ Column(w, 9) = 100 * k + 9
  BY <1>2, <1>3, <1>4, <1>5, Zenon DEF Column
<1> QED BY <1>1, <1>2, <1>6, Zenon DEF IsInterface

(* Sums are the same when what is summed is.                                   *)
Traffic(lines, n, S) == MapThenSumSet(LAMBDA k : Column(lines[k], n), S)
Total(n, S)          == MapThenSumSet(LAMBDA k : 100 * k + n, S)

(* Sums over the same lines are the same when each line has the same number.  *)
LEMMA SameSum ==
  ASSUME NEW S, NEW lines, NEW n, \A k \in S : Column(lines[k], n) = 100 * k + n
  PROVE  Traffic(lines, n, S) = Total(n, S)
<1> DEFINE Left(f, s) == IF s = {} THEN 0
                         ELSE Column(lines[CHOOSE x \in s : TRUE], n)
                                + f[s \ {CHOOSE x \in s : TRUE}]
           Right(f, s) == IF s = {} THEN 0
                          ELSE (100 * (CHOOSE x \in s : TRUE) + n)
                                 + f[s \ {CHOOSE x \in s : TRUE}]
           Sums(f) == f = [s \in SUBSET S |-> Left(f, s)]
           Totals(f) == f = [s \in SUBSET S |-> Right(f, s)]
<1>1. \A s \in SUBSET S : s # {} => (CHOOSE x \in s : TRUE) \in S
  <2> SUFFICES ASSUME NEW s \in SUBSET S, s # {} PROVE (CHOOSE x \in s : TRUE) \in S
    OBVIOUS
  <2>1. \E x \in s : TRUE
    OBVIOUS
  <2>2. (CHOOSE x \in s : TRUE) \in s
    BY <2>1, Zenon
  <2> QED BY <2>2
<1>2. ASSUME NEW f, NEW s \in SUBSET S PROVE Left(f, s) = Right(f, s)
  <2>1. CASE s = {}
    BY <2>1, Zenon
  <2>2. CASE s # {}
    <3>1. PICK k : k = CHOOSE x \in s : TRUE
      OBVIOUS
    <3>2. Column(lines[k], n) = 100 * k + n
      BY <1>1, <2>2, <3>1, Zenon
    <3> QED BY <2>2, <3>1, <3>2, Zenon
  <2> QED BY <2>1, <2>2
<1>3. ASSUME NEW f PROVE Sums(f) <=> Totals(f)
  <2>1. \A s \in SUBSET S : Left(f, s) = Right(f, s)
    BY <1>2
  <2>2. [s \in SUBSET S |-> Left(f, s)] = [s \in SUBSET S |-> Right(f, s)]
    <3> HIDE DEF Left, Right
    <3> QED BY <2>1, Zenon
  <2> QED BY <2>2, Zenon
<1>4. (CHOOSE f : Sums(f)) = (CHOOSE f : Totals(f))
  <2> HIDE DEF Sums, Totals
  <2> QED BY <1>3, Zenon
<1>5. Traffic(lines, n, S) = (CHOOSE f : Sums(f))[S]
  BY Zenon DEF Traffic, MapThenSumSet, MapThenFoldSet
<1>6. Total(n, S) = (CHOOSE f : Totals(f))[S]
  BY Zenon DEF Total, MapThenSumSet, MapThenFoldSet
<1> QED BY <1>4, <1>5, <1>6, Zenon

(* What the lines of the file are, and what is made of them.                   *)
IsTraffic(lines, t, n) ==
  /\ DOMAIN lines = 1 .. n + 2
  /\ \A k \in 1 .. 2 : ~ Contains(lines[k], Colon)
  /\ \A k \in 3 .. n + 2 :
       t[k - 2] \in Lines["network"] /\ IsInterface(lines[k], t[k - 2], k)

Others(t, n) == {k \in 3 .. n + 2 : t[k - 2].name # Loopback}

NamesDiffer(t, n) == \A i, j \in 1 .. n : t[i].name = t[j].name => i = j

(* The interfaces that are found are those of the file but the loopback.      *)
LEMMA InterfacesAre ==
  ASSUME NEW t, NEW n \in Nat, NEW lines, IsTraffic(lines, t, n)
  PROVE  Interfaces(lines) = Others(t, n)
<1>1. \A k \in 1 .. n + 2 : k \in 1 .. 2 \/ k \in 3 .. n + 2
  OBVIOUS
<1>2. \A k \in 3 .. n + 2 : k \in 1 .. n + 2
  OBVIOUS
<1>3. \A l \in Lines["network"] : l.name # <<>>
  BY DEF Lines, Loopback
<1>4. \A k \in 3 .. n + 2 :
        Contains(lines[k], Colon) /\ NameOf(lines[k]) = t[k - 2].name /\ t[k - 2].name # <<>>
  BY <1>3, Zenon DEF IsTraffic, IsInterface
<1>5. DOMAIN lines = 1 .. n + 2 /\ \A k \in 1 .. 2 : ~ Contains(lines[k], Colon)
  BY Zenon DEF IsTraffic
<1>6. ASSUME NEW k \in Interfaces(lines) PROVE k \in Others(t, n)
  <2>1. k \in 1 .. n + 2 /\ Contains(lines[k], Colon) /\ NameOf(lines[k]) # Loopback
    BY <1>5, Zenon DEF Interfaces
  <2>2. k \in 3 .. n + 2
    BY <1>1, <1>5, <2>1, Zenon
  <2> QED BY <1>4, <2>1, <2>2, Zenon DEF Others
<1>7. ASSUME NEW k \in Others(t, n) PROVE k \in Interfaces(lines)
  <2>1. k \in 3 .. n + 2 /\ t[k - 2].name # Loopback
    BY Zenon DEF Others
  <2>2. k \in 1 .. n + 2
    BY <1>2, <2>1, Zenon
  <2>3. Contains(lines[k], Colon) /\ NameOf(lines[k]) # <<>> /\ NameOf(lines[k]) # Loopback
    BY <1>4, <2>1, Zenon
  <2> QED BY <1>5, <2>2, <2>3, Zenon DEF Interfaces
<1> QED BY <1>6, <1>7, Zenon

CarriersOf(t) == {t[k].name : k \in {j \in DOMAIN t : t[j].up}}

(* Those with a carrier are found by their name, which no other has.          *)
LEMMA ActivesAre ==
  ASSUME NEW t, NEW n \in Nat, DOMAIN t = 1 .. n, NamesDiffer(t, n),
         NEW lines, IsTraffic(lines, t, n)
  PROVE  {k \in Others(t, n) : NameOf(lines[k]) \in CarriersOf(t)}
           = {k \in Others(t, n) : t[k - 2].up}
<1>1. ASSUME NEW k \in Others(t, n)
      PROVE  NameOf(lines[k]) \in CarriersOf(t) <=> t[k - 2].up
  <2>1. k \in 3 .. n + 2
    BY Zenon DEF Others
  <2>2. NameOf(lines[k]) = t[k - 2].name
    BY <2>1, Zenon DEF IsTraffic, IsInterface
  <2>3. k - 2 \in 1 .. n
    BY <2>1
  <2>4. t[k - 2].name \in CarriersOf(t) <=> \E j \in 1 .. n : t[j].up /\ t[k - 2].name = t[j].name
    BY Zenon DEF CarriersOf
  <2>5. (\E j \in 1 .. n : t[j].up /\ t[k - 2].name = t[j].name) <=> t[k - 2].up
    BY <2>3, Zenon DEF NamesDiffer
  <2> QED BY <2>2, <2>4, <2>5, Zenon
<1> QED BY <1>1, Zenon

NetworkOf(t) ==
  FlattenSeq([k \in 1 .. Len(t) + 2 |->
    (IF k <= 2 THEN <<73>> ELSE InterfaceLine(t[k - 2], k)) \o <<Newline>>])

(* The lines that getline returns, behind the headings.                       *)
LEMMA NetworkHasLines ==
  ASSUME NEW t \in Seq(Lines["network"]), NEW n \in Nat, n = Len(t)
  PROVE  IsTraffic(GetLines(NetworkOf(t), Newline), t, n)
<1>1. PICK m \in Nat : m = n + 2
  OBVIOUS
<1>2. PICK ls : ls = [k \in 1 .. m |-> IF k <= 2 THEN <<73>> ELSE InterfaceLine(t[k - 2], k)]
  OBVIOUS
<1>3. PICK i : i = <<73>>
  OBVIOUS
<1>4. i \in Seq(Int) /\ Len(i) = 1 /\ i[1] = 73
  BY <1>3
<1>5. IsLine(i) /\ ~ Contains(i, Colon)
  BY <1>4 DEF IsLine, Contains, Newline, Colon
<1>6. ASSUME NEW k \in 1 .. 2 PROVE k \in 1 .. m /\ ls[k] = i
  BY <1>1, <1>2, <1>3
<1>7. ASSUME NEW k \in 3 .. m
      PROVE  /\ k \in 1 .. m /\ t[k - 2] \in Lines["network"]
             /\ IsLine(ls[k]) /\ IsInterface(ls[k], t[k - 2], k)
  <2>1. k \in 1 .. m /\ k \in Nat /\ ~ (k <= 2) /\ k - 2 \in 1 .. n
    BY <1>1
  <2>2. t[k - 2] \in Lines["network"]
    BY <2>1
  <2>3. ls[k] = InterfaceLine(t[k - 2], k)
    BY <1>2, <2>1, Zenon
  <2>4. PICK l : l = t[k - 2]
    OBVIOUS
  <2>5. IsLine(ls[k]) /\ IsInterface(ls[k], l, k)
    BY <2>1, <2>2, <2>3, <2>4, OneInterface, Zenon
  <2> QED BY <2>1, <2>2, <2>4, <2>5, Zenon
<1>8. \A k \in 1 .. m : k \in 1 .. 2 \/ k \in 3 .. m
  OBVIOUS
<1>9. \A k \in 1 .. m : IsLine(ls[k])
  BY <1>5, <1>6, <1>7, <1>8, Zenon
<1>10. /\ ls \in [1 .. m -> Seq(Int)]
       /\ \A k \in 1 .. m : \A j \in 1 .. Len(ls[k]) : ls[k][j] # Newline
  BY <1>2, <1>9, Zenon DEF IsLine
<1>11. /\ DOMAIN GetLines(FileOf(ls, m), Newline) = 1 .. m
       /\ \A k \in 1 .. m : GetLines(FileOf(ls, m), Newline)[k] = ls[k]
  BY ONLY <1>10, m \in Nat, FileIsRead
<1>12. PICK file : file = FileOf(ls, m)
  OBVIOUS
<1>13. NetworkOf(t) = file
  <2>1. \A k \in 1 .. m : ls[k] = IF k <= 2 THEN <<73>> ELSE InterfaceLine(t[k - 2], k)
    BY <1>2, Zenon
  <2>2. Len(t) + 2 = m
    BY <1>1
  <2> QED BY <1>12, <2>1, <2>2, Zenon DEF FileOf, NetworkOf
<1>14. PICK lines : lines = GetLines(file, Newline)
  OBVIOUS
<1>15. DOMAIN lines = 1 .. m /\ \A k \in 1 .. m : lines[k] = ls[k]
  BY <1>11, <1>12, <1>14, Zenon
<1>16. \A k \in 1 .. 2 : ~ Contains(lines[k], Colon)
  BY <1>5, <1>6, <1>15, Zenon
<1>17. \A k \in 3 .. m : t[k - 2] \in Lines["network"] /\ IsInterface(lines[k], t[k - 2], k)
  BY <1>7, <1>15, Zenon
<1> QED BY <1>1, <1>13, <1>14, <1>15, <1>16, <1>17, Zenon DEF IsTraffic

(* The counts and the sums.                                                   *)
LEMMA NetworkIsRead ==
  ASSUME NEW t \in Seq(Lines["network"]), NEW n \in Nat, n = Len(t), NamesDiffer(t, n)
  PROVE  ReadNetworkInfo(NetworkOf(t), CarriersOf(t)) =
           [count       |-> Cardinality(Others(t, n)),
            active      |-> Cardinality({k \in Others(t, n) : t[k - 2].up}),
            received    |-> Total(1, Others(t, n)),
            transmitted |-> Total(9, Others(t, n))]
<1>1. PICK lines : lines = GetLines(NetworkOf(t), Newline)
  OBVIOUS
<1>2. IsTraffic(lines, t, n)
  BY <1>1, NetworkHasLines, Zenon
<1>3. PICK others : others = Others(t, n)
  OBVIOUS
<1>4. Interfaces(lines) = others
  BY <1>2, <1>3, InterfacesAre, Zenon
<1>5. {k \in others : NameOf(lines[k]) \in CarriersOf(t)} = {k \in others : t[k - 2].up}
  <2>1. DOMAIN t = 1 .. n
    OBVIOUS
  <2> QED BY <1>2, <1>3, <2>1, ActivesAre, Zenon
<1>6. \A k \in others : Column(lines[k], 1) = 100 * k + 1 /\ Column(lines[k], 9) = 100 * k + 9
  BY <1>2, <1>3, Zenon DEF IsTraffic, IsInterface, Others
<1>7. Traffic(lines, 1, others) = Total(1, others)
  BY <1>6, SameSum, Zenon
<1>8. Traffic(lines, 9, others) = Total(9, others)
  BY <1>6, SameSum, Zenon
<1>9. ReadNetworkInfo(NetworkOf(t), CarriersOf(t)) =
        [count       |-> Cardinality(Interfaces(lines)),
         active      |-> Cardinality({k \in Interfaces(lines) : NameOf(lines[k]) \in CarriersOf(t)}),
         received    |-> Traffic(lines, 1, Interfaces(lines)),
         transmitted |-> Traffic(lines, 9, Interfaces(lines))]
  BY <1>1, Zenon DEF ReadNetworkInfo, Traffic, MapThenSumSet, MapThenFoldSet
<1> QED BY <1>3, <1>4, <1>5, <1>7, <1>8, <1>9, Zenon

(* The kernel has one line for each interface.                                 *)
OneLineEach == kind = "network" => NamesDiffer(text, Len(text))

(* A name that is new differs from the others.                                *)
LEMMA OneMoreName ==
  ASSUME NEW t \in Seq(Lines["network"]), NamesDiffer(t, Len(t)), NEW l \in Lines["network"],
         \A k \in DOMAIN t : t[k].name # l.name
  PROVE  NamesDiffer(Append(t, l), Len(Append(t, l)))
<1>1. PICK n \in Nat : n = Len(t)
  OBVIOUS
<1>2. PICK u : u = Append(t, l)
  OBVIOUS
<1>3. /\ Len(u) = n + 1 /\ u[n + 1] = l /\ DOMAIN t = 1 .. n
      /\ \A k \in 1 .. n : u[k] = t[k]
  BY <1>1, <1>2
<1>4. \A i \in 1 .. n + 1 : i \in 1 .. n \/ i = n + 1
  OBVIOUS
<1>5. ASSUME NEW i \in 1 .. n + 1, NEW j \in 1 .. n + 1, u[i].name = u[j].name PROVE i = j
  BY <1>1, <1>3, <1>4, <1>5, Zenon DEF NamesDiffer
<1> QED BY <1>2, <1>3, <1>5, Zenon DEF NamesDiffer

(* No two lines are of one interface.                                         *)
LEMMA OneLineEachInvariant == Spec => []OneLineEach
<1>1. Init => OneLineEach
  BY DEF Init, OneLineEach, NamesDiffer
<1>2. WrittenLines /\ OneLineEach /\ [Next]_vars => OneLineEach'
  <2> SUFFICES ASSUME WrittenLines, OneLineEach, [Next]_vars, kind' = "network"
               PROVE  NamesDiffer(text', Len(text'))
    BY Zenon DEF OneLineEach
  <2>1. CASE WriteCharacter
    BY <2>1 DEF WriteCharacter, Letters
  <2>2. CASE WriteLine
    <3>1. kind = "network"
      BY <2>2, Zenon DEF WriteLine
    <3>2. text \in Seq(Lines["network"]) /\ NamesDiffer(text, Len(text))
      BY <3>1 DEF WrittenLines, OneLineEach, Lines
    <3>3. PICK l \in Lines["network"] : New(l) /\ text' = Append(text, l)
      BY <2>2, <3>1 DEF WriteLine
    <3>4. \A k \in DOMAIN text : text[k].name # l.name
      BY <3>1, <3>3 DEF New
    <3>5. NamesDiffer(Append(text, l), Len(Append(text, l)))
      BY <3>2, <3>4, OneMoreName, Zenon
    <3> QED BY <3>3, <3>5, Zenon
  <2>3. CASE Resize \/ SwitchPage \/ Refresh
    BY <2>3, Zenon DEF Resize, SwitchPage, Refresh, OneLineEach
  <2>4. CASE UNCHANGED vars
    BY <2>4, Zenon DEF vars, OneLineEach
  <2> QED BY <2>1, <2>2, <2>3, <2>4 DEF Next
<1> QED BY <1>1, <1>2, WrittenLinesInvariant, PTL DEF Spec

(* For files of every number of lines: the memory is read on its own line     *)
(* unless a line before it has no unit, and the traffic is the sum of the     *)
(* first and the ninth column over all interfaces but the loopback            *)
(* (system_info.cpp:17-31, 48-77).                                            *)
THEOREM FiguresAreFound == Spec => []FiguresAreRead
<1>1. ASSUME WrittenLines, OneLineEach PROVE FiguresAreRead
  <2>1. ASSUME kind = "meminfo"
        PROVE  LET memory == ReadMemoryInfo(MeminfoFile)
                   figure(key) == {k \in DOMAIN text : text[k].key = key /\ \A j \in 1 .. k : text[j].unit}
                   is(value, lines) == IF lines = {} THEN value = 0 ELSE value \in lines
               IN  is(memory.total, figure(MemTotal)) /\ is(memory.available, figure(MemAvailable))
    <3>1. text \in Seq(Lines["meminfo"])
      BY <1>1, <2>1 DEF WrittenLines, Lines
    <3>2. LET memory == ReadMemoryInfo(MemoryOf(text))
              is(value, lines) == IF lines = {} THEN value = 0 ELSE value \in lines
          IN  /\ is(memory.total, FigureLines(text, MemTotal))
              /\ is(memory.available, FigureLines(text, MemAvailable))
      BY <3>1, MemoryIsRead, Zenon
    <3>3. MeminfoFile = MemoryOf(text)
      BY Zenon DEF MeminfoFile, MemoryOf, MemoryLine
    <3> QED BY <3>2, <3>3, Zenon DEF FigureLines, AllUnits
  <2>2. ASSUME kind = "network"
        PROVE  LET others == {k \in 3 .. Len(text) + 2 : text[k - 2].name # Loopback}
               IN  ReadNetworkInfo(NetworkFile, Carriers) =
                     [count       |-> Cardinality(others),
                      active      |-> Cardinality({k \in others : text[k - 2].up}),
                      received    |-> MapThenSumSet(LAMBDA k : 100 * k + 1, others),
                      transmitted |-> MapThenSumSet(LAMBDA k : 100 * k + 9, others)]
    <3>1. text \in Seq(Lines["network"])
      BY <1>1, <2>2 DEF WrittenLines, Lines
    <3>2. PICK n \in Nat : n = Len(text)
      BY <3>1
    <3>3. NamesDiffer(text, n)
      BY <1>1, <2>2, <3>2, Zenon DEF OneLineEach
    <3>4. ReadNetworkInfo(NetworkOf(text), CarriersOf(text)) =
            [count       |-> Cardinality(Others(text, n)),
             active      |-> Cardinality({k \in Others(text, n) : text[k - 2].up}),
             received    |-> Total(1, Others(text, n)),
             transmitted |-> Total(9, Others(text, n))]
      BY <3>1, <3>2, <3>3, NetworkIsRead, Zenon
    <3>5. NetworkFile = NetworkOf(text) /\ Carriers = CarriersOf(text)
      BY Zenon DEF NetworkFile, NetworkOf, Carriers, CarriersOf
    <3>6. {k \in 3 .. Len(text) + 2 : text[k - 2].name # Loopback} = Others(text, n)
      BY <3>2, Zenon DEF Others
    <3> QED BY <3>4, <3>5, <3>6, Zenon DEF Total, MapThenSumSet, MapThenFoldSet
  <2> QED BY <2>1, <2>2, Zenon DEF FiguresAreRead, MapThenSumSet, MapThenFoldSet
<1> QED BY <1>1, WrittenLinesInvariant, OneLineEachInvariant, PTL
================================================================================
