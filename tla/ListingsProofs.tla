----------------------------- MODULE ListingsProofs -----------------------------
(* What a failed command printed is never shown, no row has details of         *)
(* another entry, and what a command that succeeded printed is what is shown,  *)
(* for every set of items and any number of warnings, wherever they come.      *)
EXTENDS Listings, TLAPS

Properties == {"Id", "Description", "State"}

(* The kinds of lines a command prints.                                        *)
Kinds(f) ==
  WarningsOf(f) \cup
    (IF f = "systemctl show" THEN Properties \cup {"blank"}
     ELSE IF f = "pacman -Ss" THEN {"entry", "detail"}
     ELSE {"entry"})

(* Nothing but warnings between two lines.                                     *)
OnlyWarnings(out, i, j) == \A k \in i + 1 .. j - 1 : out[k].kind \in WarningKinds

(* Between the properties of two units there is an empty line, and a detail    *)
(* comes after the entry it belongs to, with nothing but warnings before it.   *)
Grouped(out) ==
  \A i, j \in DOMAIN out :
     i < j /\ out[i].kind \in Properties /\ out[j].kind \in Properties
       /\ out[i].item # out[j].item
     => \E k \in i + 1 .. j - 1 : out[k].kind = "blank"

DetailsFollow(out) ==
  \A i \in DOMAIN out :
     out[i].kind = "detail" =>
       \E a \in DOMAIN out :
          a < i /\ out[a].kind = "entry" /\ out[a].item = out[i].item /\ OnlyWarnings(out, a, i)

WellFormed(out, f) ==
  /\ \A i \in DOMAIN out :
        out[i].kind \in Kinds(f) /\ (out[i].kind \in WarningKinds => out[i].item = None)
  /\ Grouped(out) /\ DetailsFollow(out)

NoProperties(out) == \A i \in DOMAIN out : out[i].kind \notin Properties

LEMMA Appended ==
  ASSUME NEW S, NEW s \in Seq(S), NEW e \in S
  PROVE  /\ Append(s, e) \in Seq(S)
         /\ DOMAIN Append(s, e) = 1 .. Len(s) + 1 /\ Len(Append(s, e)) = Len(s) + 1
         /\ \A i \in 1 .. Len(s) : Append(s, e)[i] = s[i]
         /\ Append(s, e)[Len(s) + 1] = e
         /\ DOMAIN s = 1 .. Len(s) /\ Len(s) \in Nat
  OBVIOUS

LEMMA Concatenated ==
  ASSUME NEW S, NEW s \in Seq(S), NEW t \in Seq(S)
  PROVE  /\ s \o t \in Seq(S) /\ Len(s) \in Nat /\ Len(t) \in Nat
         /\ DOMAIN s = 1 .. Len(s) /\ DOMAIN (s \o t) = 1 .. Len(s) + Len(t)
         /\ \A i \in 1 .. Len(s) : (s \o t)[i] = s[i]
         /\ \A i \in 1 .. Len(t) : (s \o t)[Len(s) + i] = t[i]
  OBVIOUS

(* Output that is appended keeps the form if it is about one item and begins   *)
(* with an empty line, or is the first to have properties, or has none.        *)
LEMMA AppendedIsWellFormed ==
  ASSUME NEW out \in Seq(Lines), NEW f, WellFormed(out, f),
         NEW b \in Seq(Lines), DetailsFollow(b),
         \A i \in DOMAIN b : b[i].kind \in Kinds(f) /\ b[i].kind \notin WarningKinds,
         \A i, j \in DOMAIN b :
            b[i].kind \in Properties /\ b[j].kind \in Properties => b[i].item = b[j].item,
         \/ NoProperties(out) \/ NoProperties(b) \/ b[1].kind = "blank"
  PROVE  out \o b \in Seq(Lines) /\ WellFormed(out \o b, f)
<1> DEFINE n == Len(out)
           all == out \o b
<1>1. /\ all \in Seq(Lines) /\ n \in Nat /\ Len(b) \in Nat /\ Len(all) = n + Len(b)
      /\ DOMAIN all = 1 .. n + Len(b) /\ DOMAIN out = 1 .. n /\ DOMAIN b = 1 .. Len(b)
      /\ \A i \in 1 .. n : all[i] = out[i]
      /\ \A i \in 1 .. Len(b) : all[n + i] = b[i]
  OBVIOUS
<1>2. \A i \in n + 1 .. n + Len(b) : i - n \in DOMAIN b /\ all[i] = b[i - n]
  BY <1>1
<1> HIDE DEF n, all
<1>3. \A i \in DOMAIN all :
         all[i].kind \in Kinds(f) /\ (all[i].kind \in WarningKinds => all[i].item = None)
  BY <1>1, <1>2 DEF WellFormed
<1>4. DetailsFollow(all)
  <2> SUFFICES ASSUME NEW i \in DOMAIN all, all[i].kind = "detail"
               PROVE  \E a \in DOMAIN all :
                        /\ a < i /\ all[a].kind = "entry" /\ all[a].item = all[i].item
                        /\ OnlyWarnings(all, a, i)
    BY DEF DetailsFollow
  <2>1. CASE i \in 1 .. n
    <3>1. PICK a \in 1 .. n :
             /\ a < i /\ out[a].kind = "entry" /\ out[a].item = out[i].item
             /\ OnlyWarnings(out, a, i)
      BY <1>1, <2>1 DEF WellFormed, DetailsFollow
    <3>2. \A k \in a + 1 .. i - 1 : k \in 1 .. n
      BY <1>1, <2>1
    <3>3. OnlyWarnings(all, a, i)
      BY <1>1, <3>1, <3>2 DEF OnlyWarnings
    <3> QED BY <1>1, <2>1, <3>1, <3>3
  <2>2. CASE i \in n + 1 .. n + Len(b)
    <3>1. PICK a \in 1 .. Len(b) :
             /\ a < i - n /\ b[a].kind = "entry" /\ b[a].item = all[i].item
             /\ OnlyWarnings(b, a, i - n)
      BY <1>1, <1>2, <2>2 DEF DetailsFollow
    <3>2. \A k \in n + a + 1 .. i - 1 : k - n \in a + 1 .. i - n - 1 /\ k \in n + 1 .. n + Len(b)
      BY <1>1, <2>2
    <3>3. OnlyWarnings(all, n + a, i)
      BY <1>2, <3>1, <3>2 DEF OnlyWarnings
    <3>4. n + a \in DOMAIN all /\ n + a < i /\ all[n + a] = b[a]
      BY <1>1, <2>2, <3>1
    <3> QED BY <3>1, <3>3, <3>4
  <2> QED BY <1>1, <2>1, <2>2
<1>5. Grouped(all)
  <2> SUFFICES ASSUME NEW i \in DOMAIN all, NEW j \in DOMAIN all, i < j,
                      all[i].kind \in Properties, all[j].kind \in Properties,
                      all[i].item # all[j].item
               PROVE  \E k \in i + 1 .. j - 1 : all[k].kind = "blank"
    BY DEF Grouped
  <2>1. CASE j \in 1 .. n
    <3>1. \E k \in i + 1 .. j - 1 : out[k].kind = "blank"
      BY <1>1, <2>1 DEF WellFormed, Grouped
    <3> QED BY <1>1, <2>1, <3>1
  <2>2. CASE i \in 1 .. n /\ j \in n + 1 .. n + Len(b)
    <3>1. ~NoProperties(out) /\ ~NoProperties(b)
      BY <1>1, <1>2, <2>2 DEF NoProperties
    <3>2. b[1].kind = "blank" /\ b[1] = all[n + 1]
      BY <1>1, <1>2, <2>2, <3>1
    <3>3. n + 1 # j
      BY <3>2 DEF Properties
    <3>4. n + 1 \in i + 1 .. j - 1
      BY <1>1, <2>2, <3>3
    <3> QED BY <3>2, <3>4
  <2>3. CASE i \in n + 1 .. n + Len(b)
    <3>1. j \in n + 1 .. n + Len(b)
      BY <1>1, <2>3
    <3>2. /\ i - n \in DOMAIN b /\ all[i] = b[i - n]
          /\ j - n \in DOMAIN b /\ all[j] = b[j - n]
      BY <1>2, <2>3, <3>1
    <3> QED BY <3>2
  <2> QED BY <1>1, <2>1, <2>2, <2>3
<1> QED BY <1>1, <1>3, <1>4, <1>5 DEF WellFormed, all

(* A part of the output up to some line keeps the form.                        *)
LEMMA PrefixIsWellFormed ==
  ASSUME NEW out \in Seq(Lines), NEW f, WellFormed(out, f), NEW k \in 0 .. Len(out)
  PROVE  SubSeq(out, 1, k) \in Seq(Lines) /\ WellFormed(SubSeq(out, 1, k), f)
<1> DEFINE part == SubSeq(out, 1, k)
<1>1. /\ part \in Seq(Lines) /\ DOMAIN part = 1 .. k /\ DOMAIN out = 1 .. Len(out)
      /\ \A i \in 1 .. k : part[i] = out[i]
  OBVIOUS
<1>2. \A i \in 1 .. k : i \in DOMAIN out
  BY <1>1
<1> HIDE DEF part
<1>3. Grouped(part)
  <2> SUFFICES ASSUME NEW i \in 1 .. k, NEW j \in 1 .. k, i < j,
                      out[i].kind \in Properties, out[j].kind \in Properties,
                      out[i].item # out[j].item
               PROVE  \E h \in i + 1 .. j - 1 : part[h].kind = "blank"
    BY <1>1 DEF Grouped
  <2>1. PICK h \in i + 1 .. j - 1 : out[h].kind = "blank"
    BY <1>2 DEF WellFormed, Grouped
  <2> QED BY <1>1, <2>1
<1>4. DetailsFollow(part)
  <2> SUFFICES ASSUME NEW i \in 1 .. k, out[i].kind = "detail"
               PROVE  \E a \in DOMAIN part :
                        /\ a < i /\ part[a].kind = "entry" /\ part[a].item = part[i].item
                        /\ OnlyWarnings(part, a, i)
    BY <1>1 DEF DetailsFollow
  <2>1. PICK a \in DOMAIN out :
           /\ a < i /\ out[a].kind = "entry" /\ out[a].item = out[i].item
           /\ OnlyWarnings(out, a, i)
    BY <1>2 DEF WellFormed, DetailsFollow
  <2>2. a \in 1 .. k /\ \A h \in a + 1 .. i - 1 : h \in 1 .. k
    BY <1>1, <2>1
  <2>3. OnlyWarnings(part, a, i)
    BY <1>1, <2>1, <2>2 DEF OnlyWarnings
  <2> QED BY <1>1, <2>1, <2>2, <2>3
<1> QED BY <1>1, <1>2, <1>3, <1>4 DEF WellFormed, part

(* Where a line of the output is after one was inserted after the k-th.        *)
Place(k, i) == IF i <= k THEN i ELSE i + 1

LEMMA Inserted ==
  ASSUME NEW out \in Seq(Lines), NEW k \in 0 .. Len(out), NEW e \in Lines,
         NEW all, all = InsertedAfter(out, k, e)
  PROVE  /\ all \in Seq(Lines) /\ DOMAIN all \subseteq Nat /\ DOMAIN out \subseteq Nat
         /\ k + 1 \in DOMAIN all /\ all[k + 1] = e
         /\ \A i \in DOMAIN out :
               Place(k, i) \in DOMAIN all /\ all[Place(k, i)] = out[i] /\ Place(k, i) # k + 1
         /\ \A j \in DOMAIN all : j = k + 1 \/ \E i \in DOMAIN out : j = Place(k, i)
         /\ \A i, j \in DOMAIN out :
               /\ i < j <=> Place(k, i) < Place(k, j)
               /\ i = j <=> Place(k, i) = Place(k, j)
<1> DEFINE n == Len(out)
           first == SubSeq(out, 1, k)
           rest == SubSeq(out, k + 1, n)
<1>1. n \in Nat /\ k \in Nat /\ k <= n /\ DOMAIN out = 1 .. n /\ \A i \in 1 .. n : out[i] \in Lines
  OBVIOUS
<1>2. /\ first \in Seq(Lines) /\ Len(first) = k /\ \A i \in 1 .. k : first[i] = out[i]
  BY <1>1
<1>3. /\ rest \in Seq(Lines) /\ Len(rest) = n - k /\ \A i \in 1 .. n - k : rest[i] = out[k + i]
  <2>1. \A i \in k + 1 .. n : i \in 1 .. n
    BY <1>1
  <2>2. rest = [i \in 1 .. n - k |-> out[k + i]]
    BY <1>1
  <2>3. \A i \in 1 .. n - k : out[k + i] \in Lines
    <3>1. \A i \in 1 .. n - k : k + i \in 1 .. n
      BY <1>1
    <3> QED BY <1>1, <3>1
  <2>4. n - k \in Nat
    BY <1>1
  <2> HIDE DEF rest, n
  <2> QED BY <2>2, <2>3, <2>4
<1>4. /\ first \o <<e>> \in Seq(Lines) /\ Len(first \o <<e>>) = k + 1
      /\ \A i \in 1 .. k : (first \o <<e>>)[i] = first[i]
      /\ (first \o <<e>>)[k + 1] = e
  BY <1>1, <1>2
<1>5. all = (first \o <<e>>) \o rest
  BY DEF InsertedAfter
<1> HIDE DEF n, first, rest
<1>6. /\ all \in Seq(Lines) /\ DOMAIN all = 1 .. (k + 1) + (n - k)
      /\ \A i \in 1 .. k + 1 : all[i] = (first \o <<e>>)[i]
      /\ \A i \in 1 .. n - k : all[k + 1 + i] = rest[i]
  <2>1. PICK front : front = first \o <<e>>
    OBVIOUS
  <2>2. front \in Seq(Lines) /\ Len(front) = k + 1 /\ all = front \o rest
    BY <1>4, <1>5, <2>1
  <2>3. /\ front \o rest \in Seq(Lines) /\ DOMAIN (front \o rest) = 1 .. Len(front) + Len(rest)
        /\ \A i \in 1 .. Len(front) : (front \o rest)[i] = front[i]
        /\ \A i \in 1 .. Len(rest) : (front \o rest)[Len(front) + i] = rest[i]
    <3>1. rest \in Seq(Lines)
      BY <1>3
    <3>2. front \in Seq(Lines)
      BY <2>2
    <3>3. PICK tail \in Seq(Lines) : tail = rest
      BY <3>1
    <3>4. PICK start \in Seq(Lines) : start = front
      BY <3>2
    <3>5. /\ start \o tail \in Seq(Lines) /\ DOMAIN (start \o tail) = 1 .. Len(start) + Len(tail)
          /\ \A i \in 1 .. Len(start) : (start \o tail)[i] = start[i]
          /\ \A i \in 1 .. Len(tail) : (start \o tail)[Len(start) + i] = tail[i]
      OBVIOUS
    <3> QED BY <3>3, <3>4, <3>5, Zenon
  <2> QED BY <1>3, <2>1, <2>2, <2>3
<1>7. DOMAIN all = 1 .. n + 1 /\ k + 1 \in 1 .. k + 1 /\ \A i \in 1 .. k : i \in 1 .. k + 1
  BY <1>1, <1>6
<1>8. all[k + 1] = e /\ \A i \in 1 .. k : all[i] = out[i]
  BY <1>2, <1>4, <1>6, <1>7
<1>9. ASSUME NEW i \in k + 1 .. n PROVE all[i + 1] = out[i]
  <2>1. i - k \in 1 .. n - k /\ k + 1 + (i - k) = i + 1 /\ k + (i - k) = i
    BY <1>1
  <2> QED BY <1>3, <1>6, <2>1
<1>10. ASSUME NEW i \in 1 .. n
       PROVE  Place(k, i) \in 1 .. n + 1 /\ all[Place(k, i)] = out[i] /\ Place(k, i) # k + 1
  BY <1>1, <1>8, <1>9 DEF Place
<1>11. ASSUME NEW j \in 1 .. n + 1, j # k + 1 PROVE \E i \in 1 .. n : j = Place(k, i)
  <2>1. CASE j <= k
    <3>1. j \in 1 .. n /\ j = Place(k, j)
      BY <1>1, <2>1 DEF Place
    <3> QED BY <3>1
  <2>2. CASE j > k + 1
    <3>1. j - 1 \in 1 .. n /\ j = Place(k, j - 1)
      BY <1>1, <2>2 DEF Place
    <3> QED BY <3>1
  <2> QED BY <1>1, <1>11, <2>1, <2>2
<1>12. \A i, j \in 1 .. n :
          /\ i < j <=> Place(k, i) < Place(k, j)
          /\ i = j <=> Place(k, i) = Place(k, j)
  BY <1>1 DEF Place
<1>13. DOMAIN all \subseteq Nat /\ DOMAIN out \subseteq Nat /\ k + 1 \in DOMAIN all
  BY <1>1, <1>7
<1>14. /\ \A i \in DOMAIN out :
            Place(k, i) \in DOMAIN all /\ all[Place(k, i)] = out[i] /\ Place(k, i) # k + 1
       /\ \A j \in DOMAIN all : j = k + 1 \/ \E i \in DOMAIN out : j = Place(k, i)
       /\ \A i, j \in DOMAIN out :
            /\ i < j <=> Place(k, i) < Place(k, j)
            /\ i = j <=> Place(k, i) = Place(k, j)
  <2>1. DOMAIN out = 1 .. n /\ DOMAIN all = 1 .. n + 1
    BY <1>1, <1>7
  <2> QED BY <2>1, <1>10, <1>11, <1>12, Zenon
<1> QED BY <1>6, <1>8, <1>13, <1>14

(* What lies between two lines also lies between them after the insertion of a *)
(* warning, and a warning is all that may be new.                              *)
LEMMA BetweenInserted ==
  ASSUME NEW out \in Seq(Lines), NEW k \in 0 .. Len(out), NEW e \in Lines,
         NEW all, all = InsertedAfter(out, k, e), e.kind \in WarningKinds,
         NEW p \in DOMAIN out, NEW q \in DOMAIN out
  PROVE  /\ OnlyWarnings(out, p, q) => OnlyWarnings(all, Place(k, p), Place(k, q))
         /\ \A h \in p + 1 .. q - 1 : Place(k, h) \in Place(k, p) + 1 .. Place(k, q) - 1
                                     /\ all[Place(k, h)] = out[h]
<1>1. /\ DOMAIN all \subseteq Nat /\ DOMAIN out \subseteq Nat /\ all[k + 1] = e
      /\ \A h \in DOMAIN out : Place(k, h) \in DOMAIN all /\ all[Place(k, h)] = out[h]
      /\ \A h \in DOMAIN all : h = k + 1 \/ \E g \in DOMAIN out : h = Place(k, g)
      /\ \A g, h \in DOMAIN out : g < h <=> Place(k, g) < Place(k, h)
  <2>1. DOMAIN all \subseteq Nat /\ DOMAIN out \subseteq Nat
    BY Inserted
  <2>5. all[k + 1] = e
    BY Inserted
  <2>2. \A h \in DOMAIN out : Place(k, h) \in DOMAIN all /\ all[Place(k, h)] = out[h]
    BY Inserted
  <2>3. \A h \in DOMAIN all : h = k + 1 \/ \E g \in DOMAIN out : h = Place(k, g)
    BY Inserted
  <2>4. \A g, h \in DOMAIN out : g < h <=> Place(k, g) < Place(k, h)
    <3>1. k \in Nat /\ DOMAIN out = 1 .. Len(out) /\ Len(out) \in Nat
      OBVIOUS
    <3> QED BY <3>1 DEF Place
  <2> QED BY <2>1, <2>2, <2>3, <2>4, <2>5, Zenon
<1>2. DOMAIN out = 1 .. Len(out) /\ DOMAIN all = 1 .. Len(all) /\ Len(all) \in Nat
  <2>1. all \in Seq(Lines)
    BY Inserted
  <2> QED BY <2>1
<1>3. \A h \in p + 1 .. q - 1 : h \in DOMAIN out /\ p < h /\ h < q
  BY <1>2
<1>4. /\ Place(k, p) \in DOMAIN all /\ Place(k, q) \in DOMAIN all
  BY <1>1
<1>5. ASSUME OnlyWarnings(out, p, q), NEW h \in Place(k, p) + 1 .. Place(k, q) - 1
      PROVE  all[h].kind \in WarningKinds
  <2>1. h \in DOMAIN all /\ Place(k, p) < h /\ h < Place(k, q)
    BY <1>2, <1>4
  <2>2. ASSUME NEW g \in DOMAIN out, h = Place(k, g) PROVE all[h].kind \in WarningKinds
    <3>1. p < g /\ g < q
      BY <1>1, <2>1, <2>2
    <3>2. g \in p + 1 .. q - 1
      BY <1>2, <3>1
    <3> QED BY <1>1, <1>5, <2>2, <3>2 DEF OnlyWarnings
  <2> QED BY <1>1, <2>1, <2>2
<1>6. ASSUME NEW h \in p + 1 .. q - 1
      PROVE  Place(k, h) \in Place(k, p) + 1 .. Place(k, q) - 1 /\ all[Place(k, h)] = out[h]
  <2>1. /\ Place(k, p) < Place(k, h) /\ Place(k, h) < Place(k, q) /\ all[Place(k, h)] = out[h]
        /\ Place(k, h) \in DOMAIN all
    BY <1>1, <1>3
  <2> QED BY <1>2, <1>4, <2>1
<1> QED BY <1>5, <1>6 DEF OnlyWarnings

LEMMA InsertedIsWellFormed ==
  ASSUME NEW out \in Seq(Lines), NEW f, WellFormed(out, f), NEW k \in 0 .. Len(out),
         NEW e \in Lines, e.kind \in WarningsOf(f), e.item = None,
         NEW all, all = InsertedAfter(out, k, e)
  PROVE  all \in Seq(Lines) /\ WellFormed(all, f) /\ (NoProperties(out) => NoProperties(all))
<1>1. /\ all \in Seq(Lines) /\ all[k + 1] = e
      /\ \A h \in DOMAIN out : Place(k, h) \in DOMAIN all /\ all[Place(k, h)] = out[h]
      /\ \A h \in DOMAIN all : h = k + 1 \/ \E g \in DOMAIN out : h = Place(k, g)
      /\ \A g, h \in DOMAIN out : g < h <=> Place(k, g) < Place(k, h)
  BY Inserted
<1>2. e.kind \in WarningKinds /\ e.kind \notin Properties /\ e.kind # "detail"
  BY DEF WarningsOf, WarningKinds, Properties
<1>3. \A i \in DOMAIN all :
         all[i].kind \in Kinds(f) /\ (all[i].kind \in WarningKinds => all[i].item = None)
  <2>1. e.kind \in Kinds(f)
    BY DEF Kinds
  <2> QED BY <1>1, <2>1 DEF WellFormed
<1>4. NoProperties(out) => NoProperties(all)
  BY <1>1, <1>2 DEF NoProperties
<1>5. Grouped(all)
  <2> SUFFICES ASSUME NEW i \in DOMAIN all, NEW j \in DOMAIN all, i < j,
                      all[i].kind \in Properties, all[j].kind \in Properties,
                      all[i].item # all[j].item
               PROVE  \E h \in i + 1 .. j - 1 : all[h].kind = "blank"
    BY DEF Grouped
  <2>1. PICK a \in DOMAIN out : i = Place(k, a)
    BY <1>1, <1>2
  <2>2. PICK b \in DOMAIN out : j = Place(k, b)
    BY <1>1, <1>2
  <2>3. a < b /\ all[i] = out[a] /\ all[j] = out[b]
    BY <1>1, <2>1, <2>2
  <2>4. PICK h \in a + 1 .. b - 1 : out[h].kind = "blank"
    BY <2>3 DEF WellFormed, Grouped
  <2>5. Place(k, h) \in Place(k, a) + 1 .. Place(k, b) - 1 /\ all[Place(k, h)] = out[h]
    BY <1>2, BetweenInserted
  <2> QED BY <2>1, <2>2, <2>4, <2>5
<1>6. DetailsFollow(all)
  <2> SUFFICES ASSUME NEW i \in DOMAIN all, all[i].kind = "detail"
               PROVE  \E a \in DOMAIN all :
                        /\ a < i /\ all[a].kind = "entry" /\ all[a].item = all[i].item
                        /\ OnlyWarnings(all, a, i)
    BY DEF DetailsFollow
  <2>1. PICK b \in DOMAIN out : i = Place(k, b)
    BY <1>1, <1>2
  <2>2. PICK a \in DOMAIN out :
           /\ a < b /\ out[a].kind = "entry" /\ out[a].item = out[b].item
           /\ OnlyWarnings(out, a, b)
    BY <1>1, <2>1 DEF WellFormed, DetailsFollow
  <2>3. OnlyWarnings(all, Place(k, a), i)
    BY <1>2, <2>1, <2>2, BetweenInserted
  <2> QED BY <1>1, <2>1, <2>2, <2>3
<1> QED BY <1>1, <1>3, <1>4, <1>5, <1>6 DEF WellFormed

(* Sorting arranges the units that are there.                                  *)
LEMMA SortedAreThere ==
  ASSUME NEW U, NEW units \in Seq(U), NEW s \in SortedByName(units)
  PROVE  s \in Seq(U) /\ \A i \in DOMAIN s : \E k \in DOMAIN units : s[i] = units[k]
<1>1. PICK order \in Bijection(DOMAIN units, DOMAIN units) :
             s = [i \in DOMAIN units |-> units[order[i]]]
  BY DEF SortedByName
<1>2. order \in [DOMAIN units -> DOMAIN units]
  BY <1>1 DEF Bijection, Injection
<1>3. DOMAIN units = 1 .. Len(units) /\ Len(units) \in Nat
      /\ \A k \in DOMAIN units : units[k] \in U
  OBVIOUS
<1>4. \A i \in DOMAIN units : order[i] \in DOMAIN units /\ s[i] = units[order[i]]
  BY <1>1, <1>2
<1>5. s \in [1 .. Len(units) -> U]
  BY <1>1, <1>3, <1>4
<1> QED BY <1>1, <1>3, <1>4, <1>5
--------------------------------------------------------------------------------
(* Only units are listed by systemctl.                                         *)
FormatFits == source = "systemd" <=> format = "systemctl show"

OutputFits ==
  /\ WellFormed(output, format)
  /\ at = "print" /\ printed = <<>> => NoProperties(output)

(* A value of the unit that is assembled was read since the last empty line.   *)
FromUnit(value) ==
  value # None =>
    \E i \in DOMAIN output :
       /\ i < next /\ output[i].kind \in Properties /\ output[i].item = value
       /\ \A k \in i + 1 .. next - 1 : output[k].kind # "blank"

(* When a detail may follow, the last row is the one it belongs to, or that of *)
(* a warning.                                                                  *)
LastRowIsLastEntry ==
  format = "pacman -Ss" =>
    \A a \in DOMAIN output :
       a < next /\ output[a].kind = "entry" /\ OnlyWarnings(output, a, next) =>
         rows # <<>> /\ rows[Len(rows)].name \in {None, output[a].item}

ParserFits ==
  /\ at \in {"print", "ended"} => next = 1 /\ current = NoUnit
  /\ at = "parse" =>
       /\ FromUnit(current.name) /\ FromUnit(current.desc) /\ FromUnit(current.state)
       /\ LastRowIsLastEntry

Inv == TypeOK /\ FormatFits /\ OutputFits /\ ParserFits /\ OwnDetails

LEMMA FormatsOfSources ==
  ASSUME NEW src \in DOMAIN FormatOf, NEW v \in Views
  PROVE  /\ FormatOf[src][v] \in PackageFormats \cup {"systemctl show"}
         /\ src = "systemd" <=> FormatOf[src][v] = "systemctl show"
<1>1. DOMAIN FormatOf = {"apt", "dnf", "pacman", "systemd"}
  BY DEF FormatOf
<1>2. CASE src = "systemd"
  BY <1>2 DEF FormatOf
<1>3. CASE src = "apt"
  <2>1. FormatOf["apt"]["Installed"] = "dpkg-query"
    BY DEF FormatOf
  <2>2. FormatOf["apt"]["Search"] = "apt-cache search"
    BY DEF FormatOf
  <2>3. FormatOf["apt"]["Upgradable"] = "apt list"
    BY DEF FormatOf
  <2> QED BY <1>3, <2>1, <2>2, <2>3
       DEF Views, PackageFormats, InstalledFormats, UpgradeFormats, SearchFormats
<1>4. CASE src = "dnf"
  <2>1. FormatOf["dnf"]["Installed"] = "rpm -qa"
    BY DEF FormatOf
  <2>2. FormatOf["dnf"]["Search"] = "dnf search"
    BY DEF FormatOf
  <2>3. FormatOf["dnf"]["Upgradable"] = "dnf check-update"
    BY DEF FormatOf
  <2> QED BY <1>4, <2>1, <2>2, <2>3
       DEF Views, PackageFormats, InstalledFormats, UpgradeFormats, SearchFormats
<1>5. CASE src = "pacman"
  <2>1. FormatOf["pacman"]["Installed"] = "pacman -Q"
    BY DEF FormatOf
  <2>2. FormatOf["pacman"]["Search"] = "pacman -Ss"
    BY DEF FormatOf
  <2>3. FormatOf["pacman"]["Upgradable"] = "pacman -Qu"
    BY DEF FormatOf
  <2> QED BY <1>5, <2>1, <2>2, <2>3
       DEF Views, PackageFormats, InstalledFormats, UpgradeFormats, SearchFormats
<1> QED BY <1>1, <1>2, <1>3, <1>4, <1>5

(* Two values of the unit that is assembled are of the same unit.              *)
LEMMA OneUnit ==
  ASSUME TypeOK, WellFormed(output, format), NEW x, NEW y,
         FromUnit(x), FromUnit(y), x # None, y # None
  PROVE  x = y
<1>1. PICK i \in DOMAIN output :
          /\ i < next /\ output[i].kind \in Properties /\ output[i].item = x
          /\ \A k \in i + 1 .. next - 1 : output[k].kind # "blank"
  BY DEF FromUnit
<1>2. PICK j \in DOMAIN output :
          /\ j < next /\ output[j].kind \in Properties /\ output[j].item = y
          /\ \A k \in j + 1 .. next - 1 : output[k].kind # "blank"
  BY DEF FromUnit
<1>3. i \in Nat /\ j \in Nat /\ next \in Nat
  <2>a. output \in Seq(Lines)
    BY DEF TypeOK
  <2>1. DOMAIN output = 1 .. Len(output) /\ Len(output) \in Nat
    BY <2>a
  <2>2. next \in 1 .. Len(output) + 1
    BY DEF TypeOK
  <2> QED BY <2>1, <2>2
<1>4. CASE i = j
  BY <1>1, <1>2, <1>4
<1>5. ASSUME i < j, x # y PROVE FALSE
  <2>1. PICK k \in i + 1 .. j - 1 : output[k].kind = "blank"
    BY <1>1, <1>2, <1>5 DEF WellFormed, Grouped
  <2> QED BY <1>1, <1>2, <1>3, <2>1
<1>6. ASSUME j < i, x # y PROVE FALSE
  <2>1. PICK k \in j + 1 .. i - 1 : output[k].kind = "blank"
    BY <1>1, <1>2, <1>6 DEF WellFormed, Grouped
  <2> QED BY <1>1, <1>2, <1>3, <2>1
<1> QED BY <1>3, <1>4, <1>5, <1>6

(* What a row of a unit says is about that unit.                               *)
Own(unit) == unit.desc \in {None, unit.name} /\ unit.state \in {None, unit.name}

LEMMA AppendedOwn ==
  ASSUME NEW s \in Seq(Units), NEW e \in Units, Own(e), \A i \in DOMAIN s : Own(s[i])
  PROVE  Append(s, e) \in Seq(Units) /\ \A i \in DOMAIN Append(s, e) : Own(Append(s, e)[i])
<1> DEFINE longer == Append(s, e)
<1>1. /\ longer \in Seq(Units) /\ DOMAIN longer = 1 .. Len(s) + 1
      /\ \A i \in 1 .. Len(s) : longer[i] = s[i]
      /\ longer[Len(s) + 1] = e
      /\ DOMAIN s = 1 .. Len(s) /\ Len(s) \in Nat
  OBVIOUS
<1> HIDE DEF longer
<1>2. \A i \in 1 .. Len(s) + 1 : i \in 1 .. Len(s) \/ i = Len(s) + 1
  BY <1>1
<1> QED BY <1>1, <1>2 DEF longer

LEMMA UnitsAreNamed ==
  ASSUME NEW s \in Seq(Units) PROVE \A i \in DOMAIN s : s[i].name # None
<1>1. \A i \in DOMAIN s : s[i] \in Units
  OBVIOUS
<1>2. None \notin Items
  BY ItemsAssumption DEF None
<1> QED BY <1>1, <1>2 DEF Units

(* What is stored of a unit is a unit with its own details.                    *)
LEMMA StoredIsOwn ==
  ASSUME Inv, at = "parse", format = "systemctl show"
  PROVE  Stored \in Seq(Units) /\ \A i \in DOMAIN Stored : Own(Stored[i])
<1>1. /\ rows \in Seq(Units) /\ source = "systemd"
      /\ current \in [name : Details, desc : Details, state : Details]
  BY DEF Inv, TypeOK, FormatFits
<1>2. \A i \in DOMAIN rows : Own(rows[i])
  BY <1>1, UnitsAreNamed DEF Inv, OwnDetails, Named, Own
<1>3. CASE current.name \in Items \ Foreign
  <2>1. current \in Units
    BY <1>1, <1>3 DEF Units
  <2>2. current.name # None
    BY <1>3, ItemsAssumption DEF None
  <2>3. Own(current)
    BY <2>2, OneUnit DEF Inv, OutputFits, ParserFits, Own
  <2>4. Stored = Append(rows, current)
    BY <1>3 DEF Stored
  <2> QED BY <1>1, <1>2, <2>1, <2>3, <2>4, AppendedOwn
<1>4. CASE current.name \notin Items \ Foreign
  BY <1>1, <1>2, <1>4 DEF Stored
<1> QED BY <1>3, <1>4
--------------------------------------------------------------------------------
Commands == PackageFormats \cup {"systemctl show"}

LEMMA NothingYet ==
  /\ Len(<<>>) = 0 /\ DOMAIN <<>> = {} /\ \A S : <<>> \in Seq(S)
  /\ 1 \in 1 .. 0 + 1 /\ 0 \in 0 .. MaxNotices
  BY ItemsAssumption

LEMMA InvAtFirst == Init => Inv
<1> SUFFICES ASSUME Init PROVE Inv
  OBVIOUS
<1>1. source \in DOMAIN FormatOf /\ view \in Views /\ format = FormatOf[source][view]
  BY DEF Init, FormatOf, Views
<1>2. format \in Commands /\ FormatFits
  BY <1>1, FormatsOfSources DEF FormatFits, Commands
<1>3. current \in [name : Details, desc : Details, state : Details]
  BY DEF Init, NoUnit, Details
<1>4. Len(output) = 0 /\ DOMAIN output = {} /\ DOMAIN rows = {}
  BY NothingYet DEF Init
<1>5. TypeOK
  <2>1. output \in Seq(Lines) /\ printed \in Seq(Items)
        /\ rows \in Seq(IF source = "systemd" THEN Units ELSE Packages)
    BY NothingYet DEF Init
  <2>2. next \in 1 .. Len(output) + 1 /\ notices \in 0 .. MaxNotices
    BY <1>4, ItemsAssumption DEF Init
  <2>3. installed \subseteq Items /\ exit = "ok" /\ lost = FALSE /\ at = "idle"
    BY DEF Init
  <2> QED BY <1>1, <1>2, <1>3, <2>1, <2>2, <2>3 DEF TypeOK, Commands
<1>6. OutputFits /\ ParserFits /\ OwnDetails
  BY <1>4 DEF Init, OutputFits, WellFormed, NoProperties, Grouped, DetailsFollow,
              ParserFits, OwnDetails, Named
<1> QED BY <1>2, <1>5, <1>6 DEF Inv

(* Nothing is printed, read or shown when a command starts or is not run.      *)
LEMMA FreshInv ==
  ASSUME TypeOK, NEW f \in Commands, UNCHANGED <<installed, source>>,
         view' \in Views, format' = f, source = "systemd" <=> f = "systemctl show",
         at' \in {"print", "shown"}, printed' = <<>>, notices' = 0, output' = <<>>,
         exit' \in {"ok", "failed"}, lost' = FALSE, next' = 1, rows' = <<>>, current' = NoUnit
  PROVE  Inv'
<1>1. current' \in [name : Details, desc : Details, state : Details]
  BY DEF NoUnit, Details
<1>2. Len(output') = 0 /\ DOMAIN output' = {} /\ DOMAIN rows' = {}
  BY NothingYet
<1>3. TypeOK'
  <2>1. output' \in Seq(Lines) /\ printed' \in Seq(Items)
        /\ rows' \in Seq(IF source' = "systemd" THEN Units ELSE Packages)
    BY NothingYet
  <2>2. notices' \in 0 .. MaxNotices /\ next' \in 1 .. Len(output') + 1
    BY <1>2, NothingYet, Zenon
  <2> QED BY <1>1, <2>1, <2>2 DEF TypeOK, Commands
<1>4. OutputFits' /\ ParserFits' /\ OwnDetails' /\ FormatFits'
  BY <1>2 DEF OutputFits, WellFormed, NoProperties, Grouped, DetailsFollow,
              ParserFits, OwnDetails, Named, FormatFits
<1> QED BY <1>3, <1>4 DEF Inv

LEMMA LoadInv == TypeOK /\ Load => Inv'
<1> SUFFICES ASSUME TypeOK, Load PROVE Inv'
  OBVIOUS
<1>1. UNCHANGED <<installed, source>> /\ view' \in Views /\ source \in DOMAIN FormatOf
  BY DEF Load, TypeOK
<1>2. /\ FormatOf[source][view'] \in Commands
      /\ source = "systemd" <=> FormatOf[source][view'] = "systemctl show"
  BY <1>1, FormatsOfSources DEF Commands
<1>3. CASE Run(FormatOf[source][view'])
  BY <1>1, <1>2, <1>3, FreshInv DEF Run
<1>4. CASE source = "pacman" /\ Run("checkupdates")
  <2>1. "checkupdates" \in Commands
    BY DEF Commands, PackageFormats, UpgradeFormats
  <2> QED BY <1>1, <1>4, <2>1, FreshInv DEF Run
<1>5. CASE NotRun
  BY <1>1, <1>2, <1>5, FreshInv DEF NotRun
<1> QED BY <1>3, <1>4, <1>5 DEF Load

LEMMA FallBackInv == Inv /\ FallBack => Inv'
<1> SUFFICES ASSUME Inv, FallBack PROVE Inv'
  OBVIOUS
<1>1. TypeOK /\ source # "systemd" /\ UNCHANGED <<installed, source>> /\ view' \in Views
  BY DEF Inv, TypeOK, FormatFits, FallBack
<1>2. "pacman -Qu" \in Commands
  BY DEF Commands, PackageFormats, UpgradeFormats
<1> QED BY <1>1, <1>2, FreshInv DEF FallBack, Run

(* The lines of one item: properties after an empty line, an entry with its    *)
(* detail, or an entry.                                                        *)
LEMMA PrintItemInv == Inv /\ PrintItem => Inv'
<1> SUFFICES ASSUME Inv, PrintItem PROVE Inv'
  OBVIOUS
<1>1. PICK item \in Items, sep \in Separators :
        /\ printed' = Append(printed, item)
        /\ output' = output \o
             CASE format = "systemctl show" -> Block(item)
               [] format = "pacman -Ss" -> <<Line("entry", item, sep), Line("detail", item, sep)>>
               [] OTHER -> <<Line("entry", item, sep)>>
  BY DEF PrintItem
<1>2. /\ at = "print" /\ next = 1 /\ current = NoUnit /\ output \in Seq(Lines)
      /\ WellFormed(output, format) /\ printed \in Seq(Items)
      /\ printed = <<>> => NoProperties(output)
      /\ UNCHANGED <<installed, source, view, format, at, notices, exit, lost, next, rows, current>>
  BY DEF Inv, TypeOK, OutputFits, ParserFits, PrintItem
<1>3. /\ item \in Details /\ sep \in {"tab", "space", "mixed"} /\ None \in Details
  BY DEF Details, Separators
<1>4. PICK b \in Seq(Lines) :
        /\ output' = output \o b
        /\ \A i \in DOMAIN b : b[i].kind \in Kinds(format) /\ b[i].kind \notin WarningKinds
        /\ DetailsFollow(b)
        /\ \A i, j \in DOMAIN b :
              b[i].kind \in Properties /\ b[j].kind \in Properties => b[i].item = b[j].item
        /\ printed = <<>> \/ NoProperties(b) \/ b[1].kind = "blank"
  <2> DEFINE unit == <<Line("Id", item, "tab"), Line("Description", item, "tab"),
                       Line("State", item, "tab")>>
             before == IF printed = <<>> THEN <<>> ELSE <<Line("blank", None, "tab")>>
             block == before \o unit
  <2>a. unit \in Seq(Lines) /\ DOMAIN unit = 1 .. 3 /\ Len(unit) = 3
    BY <1>3 DEF Line, Lines
  <2>b. \A i \in 1 .. 3 : unit[i].kind \in Properties /\ unit[i].item = item
    BY DEF Line, Properties
  <2>c. before \in Seq(Lines)
    <3>1. <<Line("blank", None, "tab")>> \in Seq(Lines)
      BY <1>3 DEF Line, Lines
    <3> QED BY <3>1, NothingYet
  <2>d. \A i \in DOMAIN before : before[i].kind = "blank"
    BY DEF Line
  <2>e. printed = <<>> \/ (1 \in DOMAIN before)
    OBVIOUS
  <2> HIDE DEF unit, before
  <2>1. CASE format = "systemctl show"
    <3>1. output' = output \o block
      BY <1>1, <2>1 DEF Block, unit, before
    <3>2. /\ block \in Seq(Lines) /\ DOMAIN block = 1 .. Len(before) + 3
          /\ DOMAIN before = 1 .. Len(before) /\ Len(before) \in Nat
          /\ \A i \in 1 .. Len(before) : block[i] = before[i]
          /\ \A i \in 1 .. 3 : block[Len(before) + i] = unit[i]
      BY <2>a, <2>c, Concatenated
    <3>3. \A i \in 1 .. Len(before) + 3 :
             i \in 1 .. Len(before) \/ (i - Len(before) \in 1 .. 3
                                        /\ i = Len(before) + (i - Len(before)))
      BY <3>2
    <3> HIDE DEF block
    <3>4. \A i \in DOMAIN block :
             block[i].kind = "blank" \/ (block[i].kind \in Properties /\ block[i].item = item)
      BY <2>b, <2>d, <3>2, <3>3
    <3>5. \A i \in DOMAIN block :
             /\ block[i].kind \in Kinds(format) /\ block[i].kind \notin WarningKinds
             /\ block[i].kind # "detail"
      BY <2>1, <3>4 DEF Kinds, Properties, WarningKinds
    <3>6. printed = <<>> \/ block[1].kind = "blank"
      BY <2>d, <2>e, <3>2
    <3>7. \A i \in DOMAIN block : block[i].kind \in Properties => block[i].item = item
      BY <3>4 DEF Properties
    <3> QED BY <3>1, <3>2, <3>5, <3>6, <3>7 DEF DetailsFollow
  <2>2. CASE format = "pacman -Ss"
    <3> DEFINE b == <<Line("entry", item, sep), Line("detail", item, sep)>>
    <3>1. output' = output \o b
      BY <1>1, <2>2
    <3>2. b \in Seq(Lines) /\ DOMAIN b = 1 .. 2
      BY <1>3 DEF Line, Lines
    <3>3. /\ b[1].kind = "entry" /\ b[2].kind = "detail" /\ b[1].item = item /\ b[2].item = item
      BY DEF Line
    <3> HIDE DEF b
    <3>4. \A i \in 1 .. 2 : i = 1 \/ i = 2
      OBVIOUS
    <3>5. NoProperties(b)
      BY <3>2, <3>3, <3>4 DEF NoProperties, Properties
    <3>6. \A i \in DOMAIN b : b[i].kind \in Kinds(format) /\ b[i].kind \notin WarningKinds
      BY <2>2, <3>2, <3>3, <3>4 DEF Kinds, WarningKinds
    <3>7. DetailsFollow(b)
      <4>1. OnlyWarnings(b, 1, 2)
        BY DEF OnlyWarnings
      <4> QED BY <3>2, <3>3, <3>4, <4>1 DEF DetailsFollow
    <3> QED BY <3>1, <3>2, <3>5, <3>6, <3>7 DEF NoProperties
  <2>3. CASE format \notin {"systemctl show", "pacman -Ss"}
    <3> DEFINE b == <<Line("entry", item, sep)>>
    <3>1. output' = output \o b
      BY <1>1, <2>3
    <3>2. b \in Seq(Lines) /\ DOMAIN b = {1}
      BY <1>3 DEF Line, Lines
    <3>3. b[1].kind = "entry"
      BY DEF Line
    <3> HIDE DEF b
    <3>4. NoProperties(b) /\ DetailsFollow(b)
      BY <3>2, <3>3 DEF NoProperties, Properties, DetailsFollow
    <3>5. \A i \in DOMAIN b : b[i].kind \in Kinds(format) /\ b[i].kind \notin WarningKinds
      BY <2>3, <3>2, <3>3 DEF Kinds, WarningKinds
    <3> QED BY <3>1, <3>2, <3>4, <3>5 DEF NoProperties
  <2> QED BY <2>1, <2>2, <2>3
<1>5. output' \in Seq(Lines) /\ WellFormed(output', format)
  BY <1>2, <1>4, AppendedIsWellFormed
<1>6. printed' \in Seq(Items) /\ printed' # <<>>
  <2>1. Append(printed, item) \in Seq(Items) /\ 1 \in DOMAIN Append(printed, item)
    BY <1>2, Appended
  <2> QED BY <1>1, <2>1, NothingYet
<1>7. Len(output') \in Nat
  BY <1>5
<1>8. TypeOK'
  <2>1. next' \in 1 .. Len(output') + 1
    BY <1>2, <1>7
  <2> QED BY <1>2, <1>5, <1>6, <2>1 DEF Inv, TypeOK
<1>9. OutputFits'
  BY <1>2, <1>5, <1>6 DEF OutputFits
<1>10. ParserFits' /\ FormatFits' /\ OwnDetails'
  BY <1>2 DEF Inv, ParserFits, FormatFits, OwnDetails, Named
<1> QED BY <1>8, <1>9, <1>10 DEF Inv

LEMMA NoticeInserted ==
  ASSUME PrintNotice, TypeOK
  PROVE  \E k \in 0 .. Len(output) : \E line \in Lines :
           /\ output' = InsertedAfter(output, k, line)
           /\ line.kind \in WarningsOf(format) /\ line.item = None
           /\ line.kind = "like entry" => Misread'
<1>1. PICK k \in 0 .. Len(output), kind \in WarningsOf(format) :
             output' = InsertedAfter(output, k, Line(kind, None, "space"))
  BY DEF PrintNotice
<1>2. /\ Line(kind, None, "space") \in Lines
      /\ Line(kind, None, "space").kind = kind /\ Line(kind, None, "space").item = None
  BY DEF Line, Lines, Details, WarningsOf, WarningKinds
<1>3. PICK line : line = Line(kind, None, "space")
  OBVIOUS
<1>4. k + 1 \in DOMAIN output' /\ output'[k + 1] = line
  <2>1. output \in Seq(Lines) /\ line \in Lines /\ output' = InsertedAfter(output, k, line)
    BY <1>1, <1>2, <1>3 DEF TypeOK
  <2> QED BY <2>1, Inserted
<1> QED BY <1>1, <1>2, <1>3, <1>4 DEF Misread

LEMMA PrintNoticeInv == Inv /\ PrintNotice => Inv'
<1> SUFFICES ASSUME Inv, PrintNotice PROVE Inv'
  OBVIOUS
<1>1. /\ at = "print" /\ next = 1 /\ current = NoUnit /\ output \in Seq(Lines)
      /\ WellFormed(output, format)
      /\ printed = <<>> => NoProperties(output)
      /\ UNCHANGED <<installed, source, view, format, at, printed, exit, lost, next, rows, current>>
  BY DEF Inv, TypeOK, OutputFits, ParserFits, PrintNotice
<1>2. notices' \in 0 .. MaxNotices
  <2>1. notices \in 0 .. MaxNotices /\ notices < MaxNotices /\ notices' = notices + 1
    BY DEF Inv, TypeOK, PrintNotice
  <2> QED BY <2>1, ItemsAssumption
<1>3. PICK k \in 0 .. Len(output), line \in Lines :
           /\ output' = InsertedAfter(output, k, line)
           /\ line.kind \in WarningsOf(format) /\ line.item = None
  <2>1. TypeOK
    BY DEF Inv
  <2> QED BY <2>1, NoticeInserted
<1>4. /\ output' \in Seq(Lines) /\ WellFormed(output', format)
      /\ NoProperties(output) => NoProperties(output')
  BY <1>1, <1>3, InsertedIsWellFormed
<1>5. TypeOK'
  <2>1. Len(output') \in Nat
    BY <1>4
  <2>2. next' \in 1 .. Len(output') + 1
    BY <1>1, <2>1
  <2> QED BY <1>1, <1>2, <1>4, <2>2 DEF Inv, TypeOK
<1>6. OutputFits' /\ ParserFits' /\ FormatFits' /\ OwnDetails'
  BY <1>1, <1>4 DEF Inv, OutputFits, ParserFits, FormatFits, OwnDetails, Named
<1> QED BY <1>5, <1>6 DEF Inv

LEMMA EndInv == Inv /\ End => Inv'
<1> SUFFICES ASSUME Inv, End PROVE Inv'
  OBVIOUS
<1>1. /\ output \in Seq(Lines) /\ WellFormed(output, format) /\ next = 1 /\ current = NoUnit
      /\ at' = "ended"
      /\ UNCHANGED <<installed, source, view, format, printed, notices, next, rows, current>>
  BY DEF Inv, TypeOK, OutputFits, ParserFits, End
<1>2. output' = output \/ \E k \in 0 .. Len(output) : output' = SubSeq(output, 1, k)
  BY DEF End
<1>3. output' \in Seq(Lines) /\ WellFormed(output', format)
  BY <1>1, <1>2, PrefixIsWellFormed
<1>4. exit' \in {"ok", "failed"} /\ lost' \in BOOLEAN
  BY DEF End
<1>5. next' \in 1 .. Len(output') + 1
  <2>1. Len(output') \in Nat
    BY <1>3
  <2> QED BY <1>1, <2>1
<1>6. TypeOK'
  BY <1>1, <1>3, <1>4, <1>5 DEF Inv, TypeOK
<1>7. OutputFits' /\ ParserFits' /\ FormatFits' /\ OwnDetails'
  BY <1>1, <1>3 DEF Inv, OutputFits, ParserFits, FormatFits, OwnDetails, Named
<1> QED BY <1>6, <1>7 DEF Inv

LEMMA StatusInv == Inv /\ (UseOutput \/ DropOutput) => Inv'
<1> SUFFICES ASSUME Inv, UseOutput \/ DropOutput PROVE Inv'
  OBVIOUS
<1>1. /\ at' \in {"parse", "shown"} /\ next = 1 /\ current = NoUnit
      /\ UNCHANGED <<installed, command, next, rows, current>>
  BY DEF UseOutput, DropOutput, Inv, ParserFits
<1>2. FromUnit(current.name)' /\ FromUnit(current.desc)' /\ FromUnit(current.state)'
  BY <1>1 DEF FromUnit, NoUnit
<1>3. LastRowIsLastEntry'
  <2>1. next' = 1 /\ output' = output /\ output \in Seq(Lines)
    BY <1>1 DEF command, Inv, TypeOK
  <2>2. \A a \in DOMAIN output : ~(a < 1)
    BY <2>1
  <2> QED BY <2>1, <2>2 DEF LastRowIsLastEntry
<1>4. TypeOK'
  BY <1>1 DEF Inv, TypeOK, command
<1>5. OutputFits' /\ FormatFits' /\ OwnDetails' /\ ParserFits'
  BY <1>1, <1>2, <1>3 DEF Inv, OutputFits, FormatFits, OwnDetails, Named, ParserFits, command
<1> QED BY <1>4, <1>5 DEF Inv
--------------------------------------------------------------------------------
LEMMA NextInRange ==
  ASSUME TypeOK, MoreLines, next' = next + 1, output' = output
  PROVE  next \in DOMAIN output /\ next \in Nat /\ next' \in 1 .. Len(output') + 1
<1>1. output \in Seq(Lines) /\ next \in 1 .. Len(output) + 1 /\ next <= Len(output)
  BY DEF TypeOK, MoreLines
<1>2. Len(output) \in Nat /\ DOMAIN output = 1 .. Len(output)
  BY <1>1
<1> QED BY <1>1, <1>2

(* A line that is read keeps what was read since the last empty line, unless   *)
(* it is empty itself.                                                         *)
LEMMA ReadOn ==
  ASSUME Inv, MoreLines, next' = next + 1, output' = output, CurrentLine.kind # "blank"
  PROVE  /\ next \in DOMAIN output /\ CurrentLine \in Lines /\ next' \in 1 .. Len(output') + 1
         /\ CurrentLine.kind \in Kinds(format)
         /\ \A value : FromUnit(value) => FromUnit(value)'
         /\ CurrentLine.kind \in Properties =>
               \A value : value = CurrentLine.item => FromUnit(value)'
<1>1. output \in Seq(Lines)
  BY DEF Inv, TypeOK
<1>2. Len(output) \in Nat /\ DOMAIN output = 1 .. Len(output)
  BY <1>1
<1>3. next \in DOMAIN output /\ next' \in 1 .. Len(output') + 1 /\ next \in Nat
  BY NextInRange DEF Inv
<1>4. CurrentLine \in Lines
  BY <1>1, <1>3 DEF CurrentLine
<1>5. CurrentLine.kind \in Kinds(format)
  BY <1>3 DEF Inv, OutputFits, WellFormed, CurrentLine
<1>6. ASSUME NEW value, FromUnit(value), value # None
      PROVE  \E i \in DOMAIN output :
                /\ i < next + 1 /\ output[i].kind \in Properties /\ output[i].item = value
                /\ \A k \in i + 1 .. next : output[k].kind # "blank"
  <2>1. PICK i \in DOMAIN output :
            /\ i < next /\ output[i].kind \in Properties /\ output[i].item = value
            /\ \A k \in i + 1 .. next - 1 : output[k].kind # "blank"
    BY <1>6 DEF FromUnit
  <2>2. i \in Nat
    BY <1>2
  <2>3. \A k \in i + 1 .. next : k \in i + 1 .. next - 1 \/ k = next
    BY <1>3, <2>2
  <2>4. \A k \in i + 1 .. next : output[k].kind # "blank"
    BY <2>1, <2>3 DEF CurrentLine
  <2>5. i < next + 1
    BY <1>3, <2>1, <2>2
  <2> QED BY <2>1, <2>4, <2>5
<1>7. next' - 1 = next
  BY <1>3
<1>8. \A value : FromUnit(value) => FromUnit(value)'
  BY <1>6, <1>7 DEF FromUnit
<1>9. ASSUME CurrentLine.kind \in Properties, NEW value, value = CurrentLine.item
      PROVE  FromUnit(value)'
  <2>1. next < next' /\ \A k \in next + 1 .. next' - 1 : output[k].kind # "blank"
    BY <1>3, <1>7
  <2> QED BY <1>3, <1>9, <2>1 DEF FromUnit, CurrentLine
<1> QED BY <1>3, <1>4, <1>5, <1>8, <1>9

LEMMA ParsePropertyInv == Inv /\ ParseProperty => Inv'
<1> SUFFICES ASSUME Inv, ParseProperty PROVE Inv'
  OBVIOUS
<1>1. /\ MoreLines /\ format = "systemctl show" /\ CurrentLine.kind # "blank" /\ at = "parse"
      /\ next' = next + 1 /\ UNCHANGED <<installed, command, at, rows>>
      /\ current \in [name : Details, desc : Details, state : Details]
  BY DEF ParseProperty, MoreLines, Inv, TypeOK
<1>2. output' = output
  BY <1>1 DEF command
<1>3. /\ CurrentLine \in Lines /\ next' \in 1 .. Len(output') + 1
      /\ \A value : FromUnit(value) => FromUnit(value)'
      /\ CurrentLine.kind \in Properties =>
            \A value : value = CurrentLine.item => FromUnit(value)'
  BY <1>1, <1>2, ReadOn
<1>4. CurrentLine.item \in Details
  BY <1>3 DEF Lines
<1>5. /\ current' \in [name : Details, desc : Details, state : Details]
      /\ current'.name \in {current.name, CurrentLine.item}
      /\ current'.desc \in {current.desc, CurrentLine.item}
      /\ current'.state \in {current.state, CurrentLine.item}
      /\ CurrentLine.kind \in Properties \/ current' = current
  <2>1. CASE CurrentLine.kind = "Id"
    <3>1. current' = [current EXCEPT !.name = CurrentLine.item]
      BY <2>1 DEF ParseProperty
    <3> QED BY <1>1, <1>4, <2>1, <3>1 DEF Properties
  <2>2. CASE CurrentLine.kind = "Description"
    <3>1. current' = [current EXCEPT !.desc = CurrentLine.item]
      BY <2>2 DEF ParseProperty
    <3> QED BY <1>1, <1>4, <2>2, <3>1 DEF Properties
  <2>3. CASE CurrentLine.kind = "State"
    <3>1. current' = [current EXCEPT !.state = CurrentLine.item]
      BY <2>3 DEF ParseProperty
    <3> QED BY <1>1, <1>4, <2>3, <3>1 DEF Properties
  <2>4. CASE CurrentLine.kind \notin Properties
    <3>1. current' = current
      BY <2>4 DEF ParseProperty, Properties
    <3> QED BY <1>1, <3>1
  <2> QED BY <2>1, <2>2, <2>3, <2>4 DEF Properties
<1>6. FromUnit(current.name) /\ FromUnit(current.desc) /\ FromUnit(current.state)
  BY <1>1 DEF Inv, ParserFits
<1>7. FromUnit(current.name)' /\ FromUnit(current.desc)' /\ FromUnit(current.state)'
  <2>1. \A value : FromUnit(value) \/ (CurrentLine.kind \in Properties /\ value = CurrentLine.item)
                     => FromUnit(value)'
    BY <1>3
  <2>2. \A value : value = current'.name \/ value = current'.desc \/ value = current'.state
                     => FromUnit(value)'
    BY <1>5, <1>6, <2>1
  <2> QED BY <2>2 DEF FromUnit
<1>8. LastRowIsLastEntry' /\ format' = format
  BY <1>1 DEF LastRowIsLastEntry, command
<1>9. TypeOK'
  BY <1>1, <1>2, <1>3, <1>5 DEF Inv, TypeOK, command
<1>10. OutputFits' /\ FormatFits' /\ OwnDetails' /\ ParserFits'
  BY <1>1, <1>7, <1>8 DEF Inv, OutputFits, FormatFits, OwnDetails, Named, ParserFits, command
<1> QED BY <1>9, <1>10 DEF Inv

LEMMA ParseBlankInv == Inv /\ ParseBlank => Inv'
<1> SUFFICES ASSUME Inv, ParseBlank PROVE Inv'
  OBVIOUS
<1>1. /\ MoreLines /\ format = "systemctl show" /\ at = "parse" /\ source = "systemd"
      /\ next' = next + 1 /\ UNCHANGED <<installed, command, at>>
      /\ rows' = Stored /\ current' = NoUnit
  BY DEF ParseBlank, MoreLines, Finish, Inv, FormatFits
<1>2. Stored \in Seq(Units) /\ \A i \in DOMAIN Stored : Own(Stored[i])
  BY <1>1, StoredIsOwn
<1>3. next' \in 1 .. Len(output') + 1
  BY <1>1, NextInRange DEF Inv, command
<1>4. current' \in [name : Details, desc : Details, state : Details]
  BY <1>1 DEF NoUnit, Details
<1>5. FromUnit(current.name)' /\ FromUnit(current.desc)' /\ FromUnit(current.state)'
  BY <1>1 DEF FromUnit, NoUnit
<1>6. LastRowIsLastEntry' /\ OutputFits' /\ FormatFits'
  BY <1>1 DEF LastRowIsLastEntry, Inv, OutputFits, FormatFits, command
<1>7. OwnDetails'
  BY <1>1, <1>2 DEF OwnDetails, Named, Own, command
<1>8. TypeOK'
  BY <1>1, <1>2, <1>3, <1>4 DEF Inv, TypeOK, command
<1> QED BY <1>1, <1>5, <1>6, <1>7, <1>8 DEF Inv, ParserFits

LEMMA EndOfUnitsInv == Inv /\ EndOfUnits => Inv'
<1> SUFFICES ASSUME Inv, EndOfUnits PROVE Inv'
  OBVIOUS
<1>1. /\ format = "systemctl show" /\ at = "parse" /\ at' = "shown" /\ source = "systemd"
      /\ UNCHANGED <<installed, command, next>>
      /\ rows' \in SortedByName(Stored) /\ current' = NoUnit
  BY DEF EndOfUnits, AtEnd, Inv, FormatFits
<1>2. Stored \in Seq(Units) /\ \A i \in DOMAIN Stored : Own(Stored[i])
  BY <1>1, StoredIsOwn
<1>3. rows' \in Seq(Units) /\ \A i \in DOMAIN rows' : \E k \in DOMAIN Stored : rows'[i] = Stored[k]
  BY <1>1, <1>2, SortedAreThere
<1>4. \A i \in DOMAIN rows' : Own(rows'[i])
  BY <1>2, <1>3
<1>5. current' \in [name : Details, desc : Details, state : Details]
  BY <1>1 DEF NoUnit, Details
<1>6. OwnDetails'
  BY <1>1, <1>4 DEF OwnDetails, Named, Own, command
<1>7. TypeOK'
  BY <1>1, <1>3, <1>5 DEF Inv, TypeOK, command
<1> QED BY <1>1, <1>6, <1>7 DEF Inv, OutputFits, FormatFits, ParserFits, command

LEMMA EndOfPackagesInv == Inv /\ EndOfPackages => Inv'
<1> SUFFICES ASSUME Inv, EndOfPackages PROVE Inv'
  OBVIOUS
<1>1. at' = "shown" /\ UNCHANGED <<installed, command, next, rows, current>>
  BY DEF EndOfPackages, AtEnd
<1>2. TypeOK'
  BY <1>1 DEF Inv, TypeOK, command
<1> QED BY <1>1, <1>2 DEF Inv, OutputFits, FormatFits, OwnDetails, Named, ParserFits, command
--------------------------------------------------------------------------------
(* What a row of a package says is about that package.                         *)
OwnPackage(row) ==
  row.name # None => row.desc \in {None, row.name} /\ row.version \in {None, Repo, row.name}

LEMMA RowIsOwn ==
  ASSUME NEW line \in Lines
  PROVE  Row(line) \in Packages /\ OwnPackage(Row(line)) /\ Row(line).name = line.item
<1>1. line.item \in Details /\ None \in Details
  BY DEF Lines, Details
<1>2. Version(line) \in {None, Repo, line.item}
  BY DEF Version
<1>3. Description(line) \in {None, line.item}
  BY DEF Description
<1>4. /\ Row(line).name = line.item /\ Row(line).version = Version(line)
      /\ Row(line).desc = Description(line)
  BY DEF Row
<1>5. Row(line) \in Packages
  BY <1>1, <1>2, <1>3 DEF Row, Packages
<1> QED BY <1>2, <1>3, <1>4, <1>5 DEF OwnPackage

LEMMA AppendedOwnPackage ==
  ASSUME NEW s \in Seq(Packages), NEW e \in Packages, OwnPackage(e),
         \A i \in DOMAIN s : OwnPackage(s[i])
  PROVE  /\ Append(s, e) \in Seq(Packages)
         /\ \A i \in DOMAIN Append(s, e) : OwnPackage(Append(s, e)[i])
         /\ Append(s, e) # <<>> /\ Append(s, e)[Len(Append(s, e))] = e
<1> DEFINE longer == Append(s, e)
<1>1. /\ longer \in Seq(Packages) /\ DOMAIN longer = 1 .. Len(s) + 1
      /\ \A i \in 1 .. Len(s) : longer[i] = s[i]
      /\ longer[Len(s) + 1] = e /\ Len(longer) = Len(s) + 1
      /\ DOMAIN s = 1 .. Len(s) /\ Len(s) \in Nat
  OBVIOUS
<1> HIDE DEF longer
<1>2. \A i \in 1 .. Len(s) + 1 : i \in 1 .. Len(s) \/ i = Len(s) + 1
  BY <1>1
<1>3. 1 \in DOMAIN longer
  BY <1>1
<1> QED BY <1>1, <1>2, <1>3, NothingYet DEF longer

(* A detail is of the entry before it, which is the last row, unless a warning *)
(* is; and a warning is no detail of another entry.                            *)
LEMMA DetailIsOwn ==
  ASSUME NEW s \in Seq(Packages), s # <<>>, \A i \in DOMAIN s : OwnPackage(s[i]),
         NEW d \in Details, d = None \/ s[Len(s)].name \in {None, d}
  PROVE  /\ [s EXCEPT ![Len(s)].desc = d] \in Seq(Packages)
         /\ \A i \in DOMAIN [s EXCEPT ![Len(s)].desc = d] :
               OwnPackage([s EXCEPT ![Len(s)].desc = d][i])
<1> DEFINE n == Len(s)
           row == [s[n] EXCEPT !.desc = d]
           changed == [s EXCEPT ![n] = row]
<1>1. n \in 1 .. Len(s) /\ DOMAIN s = 1 .. Len(s) /\ s[n] \in Packages /\ s \in [1 .. n -> Packages]
  OBVIOUS
<1>2. /\ row \in Packages /\ row.desc = d /\ row.name = s[n].name /\ row.version = s[n].version
  BY <1>1 DEF Packages
<1>3. OwnPackage(row)
  BY <1>1, <1>2 DEF OwnPackage
<1>4. changed \in Seq(Packages) /\ DOMAIN changed = 1 .. n
      /\ \A i \in 1 .. n : changed[i] = IF i = n THEN row ELSE s[i]
  BY <1>1, <1>2
<1>5. changed = [s EXCEPT ![Len(s)].desc = d]
  OBVIOUS
<1> HIDE DEF changed, row, n
<1> QED BY <1>1, <1>3, <1>4, <1>5 DEF n

(* The effect of an assignment to the description of the last row.             *)
LEMMA Redescribed ==
  ASSUME NEW s \in Seq(Packages), s # <<>>, NEW d \in Details,
         NEW t, t = [s EXCEPT ![Len(s)].desc = d]
  PROVE  /\ DOMAIN t = DOMAIN s /\ Len(t) = Len(s)
         /\ \A r \in DOMAIN s : t[r].name = s[r].name /\ t[r].desc \in {s[r].desc, d}
         /\ \A r \in DOMAIN s : r # Len(s) => t[r].desc = s[r].desc
         /\ t[Len(s)].desc = d
<1>1. PICK n : n = Len(s)
  OBVIOUS
<1>2. n \in Nat /\ n \in DOMAIN s /\ DOMAIN s = 1 .. n /\ \A r \in DOMAIN s : s[r] \in Packages
  BY <1>1
<1>3. PICK row : row = [s[n] EXCEPT !.desc = d]
  OBVIOUS
<1>4. row.name = s[n].name /\ row.desc = d
  BY <1>2, <1>3 DEF Packages
<1>5. t = [s EXCEPT ![n] = row]
  BY <1>1, <1>3
<1>6. /\ DOMAIN t = DOMAIN s /\ t[n] = row
      /\ \A r \in DOMAIN s : r # n => t[r] = s[r]
  BY <1>2, <1>5
<1>7. Len(t) = n
  BY <1>2, <1>6
<1> QED BY <1>1, <1>2, <1>4, <1>6, <1>7

LEMMA Successor ==
  ASSUME NEW n \in Nat
  PROVE  /\ n < n + 1 /\ (n + 1) - 1 = n /\ n + 1 \in Nat
         /\ \A i \in Nat : (i < n + 1 <=> i < n \/ i = n) /\ (i < n => i # n)
  OBVIOUS

LEMMA OneFurther ==
  ASSUME NEW n \in Nat, NEW i \in Nat, i < n
  PROVE  /\ n \in i + 1 .. (n + 1) - 1
         /\ \A k \in i + 1 .. n - 1 : k \in i + 1 .. (n + 1) - 1
         /\ \A k \in i + 1 .. (n + 1) - 1 : k \in i + 1 .. n - 1 \/ k = n
  OBVIOUS

LEMMA ParsePackageInv == Inv /\ ParsePackage => Inv'
<1> SUFFICES ASSUME Inv, ParsePackage PROVE Inv'
  OBVIOUS
<1>1. /\ MoreLines /\ format # "systemctl show" /\ at = "parse" /\ source # "systemd"
      /\ next' = next + 1 /\ output' = output /\ UNCHANGED <<installed, command, at, current>>
      /\ rows \in Seq(Packages)
  <2>1. format # "systemctl show"
    BY DEF ParsePackage, PackageFormats, InstalledFormats, UpgradeFormats, SearchFormats
  <2>2. source # "systemd"
    BY <2>1 DEF Inv, FormatFits
  <2> QED BY <2>1, <2>2 DEF ParsePackage, MoreLines, Inv, TypeOK, command
<1>2. /\ CurrentLine.kind \in {"entry", "detail"} \cup WarningKinds
      /\ CurrentLine.kind \in {"detail", "like detail"} => format = "pacman -Ss"
      /\ CurrentLine.kind \in WarningKinds => CurrentLine.item = None
  <2>1. next \in DOMAIN output
    BY <1>1, NextInRange DEF Inv
  <2> QED BY <1>1, <2>1 DEF Inv, OutputFits, WellFormed, CurrentLine, Kinds, WarningsOf, WarningKinds
<1>3. /\ CurrentLine \in Lines /\ next' \in 1 .. Len(output') + 1 /\ next \in DOMAIN output
      /\ \A value : FromUnit(value) => FromUnit(value)'
  BY <1>1, <1>2, ReadOn DEF WarningKinds
<1>4. \A i \in DOMAIN rows : OwnPackage(rows[i])
  BY <1>1 DEF Inv, OwnDetails, Named, OwnPackage
<1>a. \A a \in DOMAIN output :
        format = "pacman -Ss" /\ a < next /\ output[a].kind = "entry" /\ OnlyWarnings(output, a, next)
          => rows # <<>> /\ rows[Len(rows)].name \in {None, output[a].item}
  BY <1>1 DEF Inv, ParserFits, LastRowIsLastEntry
<1>5. /\ rows' \in Seq(Packages) /\ \A i \in DOMAIN rows' : OwnPackage(rows'[i])
      /\ CurrentLine.kind = "entry" /\ format = "pacman -Ss" =>
            rows' # <<>> /\ rows'[Len(rows')].name = CurrentLine.item
      /\ CurrentLine.kind = "like entry" => rows' # <<>> /\ rows'[Len(rows')].name = None
      /\ CurrentLine.kind \in {"warning", "like detail"} /\ rows # <<>> =>
            rows' # <<>> /\ rows'[Len(rows')].name = rows[Len(rows)].name
  <2>a. None \notin Items
    BY ItemsAssumption DEF None
  <2>1. CASE Skipped(CurrentLine)
    <3>1. rows' = rows
      BY <2>1 DEF ParsePackage
    <3>2. ~(format = "pacman -Ss" /\ CurrentLine.kind = "entry")
      BY <2>1 DEF Skipped
    <3>3. CurrentLine.kind # "like entry"
      <4>1. WithEquals \subseteq Items /\ Foreign \subseteq Items
        BY ItemsAssumption
      <4> QED BY <1>2, <2>1, <2>a, <4>1 DEF Skipped, WarningKinds
    <3> QED BY <1>1, <1>4, <3>1, <3>2, <3>3
  <2>2. CASE ~Skipped(CurrentLine) /\ CurrentLine.kind \in {"entry", "like entry"}
    <3>1. rows' = Append(rows, Row(CurrentLine))
      BY <2>2 DEF ParsePackage
    <3>2. Row(CurrentLine) \in Packages /\ OwnPackage(Row(CurrentLine))
          /\ Row(CurrentLine).name = CurrentLine.item
      BY <1>3, RowIsOwn
    <3>3. CurrentLine.kind = "like entry" => CurrentLine.item = None
      BY <1>2 DEF WarningKinds
    <3> QED BY <1>1, <1>4, <2>2, <3>1, <3>2, <3>3, AppendedOwnPackage
  <2>3. CASE ~Skipped(CurrentLine) /\ CurrentLine.kind \in {"detail", "like detail"} /\ rows = <<>>
    BY <1>1, <1>4, <2>3 DEF ParsePackage
  <2>4. CASE ~Skipped(CurrentLine) /\ CurrentLine.kind \in {"detail", "like detail"} /\ rows # <<>>
    <3>1. rows' = [rows EXCEPT ![Len(rows)].desc = CurrentLine.item]
      BY <2>4 DEF ParsePackage
    <3>2. CurrentLine.item = None \/ rows[Len(rows)].name \in {None, CurrentLine.item}
      <4>1. CASE CurrentLine.kind = "like detail"
        BY <1>2, <4>1 DEF WarningKinds
      <4>2. CASE CurrentLine.kind = "detail"
        <5>1. PICK a \in DOMAIN output :
                 /\ a < next /\ output[a].kind = "entry" /\ output[a].item = CurrentLine.item
                 /\ OnlyWarnings(output, a, next)
          BY <1>3, <4>2 DEF Inv, OutputFits, WellFormed, DetailsFollow, CurrentLine
        <5> QED BY <1>2, <1>a, <4>2, <5>1
      <4> QED BY <2>4, <4>1, <4>2
    <3>4. CurrentLine.item \in Details
      BY <1>3 DEF Lines
    <3>5. PICK d \in Details : d = CurrentLine.item
      BY <3>4
    <3>6. PICK t : t = [rows EXCEPT ![Len(rows)].desc = d]
      OBVIOUS
    <3>7. t \in Seq(Packages) /\ \A i \in DOMAIN t : OwnPackage(t[i])
      BY <1>1, <1>4, <2>4, <3>2, <3>5, <3>6, DetailIsOwn
    <3>8. /\ DOMAIN t = DOMAIN rows /\ Len(t) = Len(rows)
          /\ \A i \in DOMAIN rows : t[i].name = rows[i].name
      <4>1. rows \in Seq(Packages) /\ rows # <<>>
        BY <1>1, <2>4
      <4>2. PICK s \in Seq(Packages) : s = rows
        BY <4>1
      <4>3. s # <<>> /\ t = [s EXCEPT ![Len(s)].desc = d]
        BY <3>6, <4>1, <4>2, Zenon
      <4>4. DOMAIN t = DOMAIN s /\ Len(t) = Len(s)
        BY <4>3, Redescribed
      <4>5. \A r \in DOMAIN s : t[r].name = s[r].name
        BY <4>3, Redescribed
      <4> QED BY <4>2, <4>4, <4>5, Zenon
    <3>9. Len(rows) \in DOMAIN rows /\ t # <<>>
      <4>1. rows \in Seq(Packages) /\ rows # <<>>
        BY <1>1, <2>4
      <4>2. Len(rows) \in DOMAIN rows
        BY <4>1
      <4> QED BY <3>8, <4>2, NothingYet
    <3>10. rows' = t
      BY <3>1, <3>5, <3>6
    <3> QED BY <2>4, <3>7, <3>8, <3>9, <3>10
  <2> QED BY <1>2, <2>1, <2>2, <2>3, <2>4 DEF Skipped, WarningKinds
<1>b. next \in Nat /\ next' = next + 1 /\ DOMAIN output \subseteq Nat
  <2>1. output \in Seq(Lines)
    BY DEF Inv, TypeOK
  <2>2. DOMAIN output \subseteq Nat
    BY <2>1
  <2> QED BY <1>1, <2>2, NextInRange DEF Inv
<1>6. LastRowIsLastEntry'
  <2> SUFFICES ASSUME format = "pacman -Ss", NEW a \in DOMAIN output, a < next + 1,
                      output[a].kind = "entry", OnlyWarnings(output, a, next + 1)
               PROVE  rows' # <<>> /\ rows'[Len(rows')].name \in {None, output[a].item}
    <3>1. format' = format /\ output' = output /\ next' = next + 1
      BY <1>1 DEF command
    <3> QED BY <3>1 DEF LastRowIsLastEntry, OnlyWarnings
  <2>1. a \in Nat
    BY <1>b
  <2>2. CASE a = next
    BY <1>5, <2>2 DEF CurrentLine
  <2>3. CASE a < next
    <3>1. next \in a + 1 .. (next + 1) - 1 /\ \A k \in a + 1 .. next - 1 : k \in a + 1 .. (next + 1) - 1
      <4>1. next \in Nat
        BY <1>b
      <4> QED BY <2>1, <2>3, <4>1, OneFurther, Zenon
    <3>2. OnlyWarnings(output, a, next) /\ CurrentLine.kind \in WarningKinds
      BY <3>1 DEF OnlyWarnings, CurrentLine
    <3>3. rows # <<>> /\ rows[Len(rows)].name \in {None, output[a].item}
      BY <1>a, <2>3, <3>2
    <3> QED BY <1>5, <3>2, <3>3 DEF WarningKinds
  <2>4. a < next \/ a = next
    BY <1>b, <2>1, Successor, Zenon
  <2> QED BY <2>2, <2>3, <2>4
<1>7. FromUnit(current.name)' /\ FromUnit(current.desc)' /\ FromUnit(current.state)'
  <2>1. current' = current
    BY <1>1
  <2>2. FromUnit(current.name) /\ FromUnit(current.desc) /\ FromUnit(current.state)
    BY <1>1 DEF Inv, ParserFits
  <2>3. \A value : value = current'.name \/ value = current'.desc \/ value = current'.state
                     => FromUnit(value)'
    BY <1>3, <2>1, <2>2
  <2> QED BY <2>3 DEF FromUnit
<1>8. TypeOK'
  BY <1>1, <1>3, <1>5 DEF Inv, TypeOK, command
<1>9. OwnDetails'
  BY <1>1, <1>5 DEF OwnDetails, Named, OwnPackage, command
<1> QED BY <1>1, <1>6, <1>7, <1>8, <1>9 DEF Inv, OutputFits, FormatFits, ParserFits, command

LEMMA InvNext == Inv /\ [Next]_vars => Inv'
<1> SUFFICES ASSUME Inv, [Next]_vars PROVE Inv'
  OBVIOUS
<1>1. CASE UNCHANGED vars
  <2>1. UNCHANGED <<installed, command, at, next, rows, current>> /\ CurrentLine' = CurrentLine
    BY <1>1 DEF vars, command, CurrentLine
  <2> QED BY <2>1 DEF Inv, TypeOK, FormatFits, OutputFits, ParserFits, OwnDetails, Named,
                      FromUnit, LastRowIsLastEntry, command
<1>2. CASE Next
  BY <1>2, LoadInv, FallBackInv, PrintItemInv, PrintNoticeInv, EndInv, StatusInv,
     ParsePackageInv, EndOfPackagesInv, ParsePropertyInv, ParseBlankInv, EndOfUnitsInv
     DEF Next, Inv
<1> QED BY <1>1, <1>2

(* Every listing has the records of its view, and no unit without a name is    *)
(* stored, whatever the tools print and wherever their output breaks off.      *)
THEOREM TypeCorrect == Spec => []TypeOK
<1>1. Inv => TypeOK
  BY DEF Inv
<1> QED BY <1>1, InvAtFirst, InvNext, PTL DEF Spec

(* What a row says is about the package or the unit in its first column.       *)
THEOREM DetailsAreOwn == Spec => []OwnDetails
<1>1. Inv => OwnDetails
  BY DEF Inv
<1> QED BY <1>1, InvAtFirst, InvNext, PTL DEF Spec
--------------------------------------------------------------------------------
(* The rows are empty until the output is parsed, and only output whose status *)
(* allows it is parsed.                                                        *)
StatusDecides ==
  /\ at \in {"print", "ended"} => rows = <<>>
  /\ at = "parse" => exit = "ok" \/ format \in StatusIgnored
  /\ NothingFromFailure

LEMMA StatusDecidesAtFirst == Init => StatusDecides
  BY DEF Init, StatusDecides, NothingFromFailure

LEMMA StatusDecidesNext == StatusDecides /\ [Next]_vars => StatusDecides'
<1>. SUFFICES ASSUME StatusDecides, [Next]_vars PROVE StatusDecides'
  OBVIOUS
<1>. USE DEF StatusDecides, NothingFromFailure
<1>1. CASE Load
  <2>1. CASE NotRun
    BY <2>1 DEF NotRun
  <2>2. ASSUME NEW f, Run(f) PROVE StatusDecides'
    BY <2>2 DEF Run
  <2>. QED
    BY <1>1, <2>1, <2>2 DEF Load
<1>2. CASE PrintItem
  BY <1>2 DEF PrintItem
<1>3. CASE PrintNotice
  BY <1>3 DEF PrintNotice
<1>4. CASE End
  BY <1>4 DEF End
<1>5. CASE UseOutput
  BY <1>5 DEF UseOutput, command
<1>6. CASE DropOutput
  BY <1>6 DEF DropOutput, command
<1>7. CASE FallBack
  BY <1>7 DEF FallBack, Run
<1>8. CASE ParsePackage
  BY <1>8 DEF ParsePackage, MoreLines, command
<1>9. CASE EndOfPackages
  BY <1>9 DEF EndOfPackages, AtEnd, command
<1>10. CASE ParseProperty
  BY <1>10 DEF ParseProperty, MoreLines, command
<1>11. CASE ParseBlank
  BY <1>11 DEF ParseBlank, MoreLines, command
<1>12. CASE EndOfUnits
  <2>1. at = "parse" /\ format' = format /\ exit' = exit /\ at' = "shown"
    BY <1>12 DEF EndOfUnits, AtEnd, command
  <2>. QED
    BY <2>1
<1>13. CASE UNCHANGED vars
  BY <1>13 DEF vars, command
<1>. QED
  BY <1>1, <1>2, <1>3, <1>4, <1>5, <1>6, <1>7, <1>8, <1>9, <1>10, <1>11, <1>12,
     <1>13 DEF Next

(* A command that failed shows no rows, except where its status is ignored.    *)
THEOREM FailureShowsNothing == Spec => []NothingFromFailure
<1>1. StatusDecides => NothingFromFailure
  BY DEF StatusDecides
<1>. QED
  BY <1>1, StatusDecidesAtFirst, StatusDecidesNext, PTL DEF Spec
--------------------------------------------------------------------------------
(* The lines that begin an entry, and what they have to do with what was       *)
(* printed: there is one for each item, in the order of printing.              *)
Heads(out) == {i \in DOMAIN out : out[i].kind \in {"entry", "Id"}}

Ordered(x, y, items) ==
  \E k, l \in DOMAIN items : k < l /\ items[k] = x /\ items[l] = y

Matches(out, items) ==
  /\ \A i \in Heads(out) : \E k \in DOMAIN items : items[k] = out[i].item
  /\ \A k \in DOMAIN items : \E i \in Heads(out) : out[i].item = items[k]
  /\ \A i, j \in Heads(out) : i < j => Ordered(out[i].item, out[j].item, items)
  /\ \A i, j \in Heads(out) : out[i].item = out[j].item => i = j

(* Output that did not break off: after the name of a unit comes its           *)
(* description, after a search result its detail, with nothing but warnings in *)
(* between.                                                                    *)
ComesNext(out, i, kind) ==
  \E j \in DOMAIN out : i < j /\ out[j].kind = kind /\ OnlyWarnings(out, i, j)

Whole(out, f) ==
  \A i \in DOMAIN out :
    /\ out[i].kind \in Properties \cup {"entry", "detail"} => out[i].item \in Items
    /\ f = "pacman -Ss" /\ out[i].kind = "entry" => ComesNext(out, i, "detail")
    /\ out[i].kind = "Id" => ComesNext(out, i, "Description")

Complete == exit = "ok" /\ ~lost

(* The entries the parser has come across and does not leave out.              *)
Seen == {i \in Heads(output) : i < next /\ output[i].item \notin Unlisted}

(* Where the descriptions are promised.                                        *)
Telling == format \in Described /\ (format = "pacman -Ss" => ~Misread)

(* The last row waits for its detail.                                          *)
Awaits(r) ==
  /\ format = "pacman -Ss" /\ r = Len(rows)
  /\ \E i \in DOMAIN output :
        i < next /\ output[i].kind = "entry" /\ OnlyWarnings(output, i, next)

RowsFollow ==
  /\ \A r \in Named : \E i \in Seen : output[i].item = rows[r].name
  /\ \A i \in Seen : \E r \in Named : rows[r].name = output[i].item
  /\ \A r, t \in Named : r < t =>
       \E i, j \in Seen : i < j /\ output[i].item = rows[r].name /\ output[j].item = rows[t].name
  /\ Named = DOMAIN rows \/ Misread
  /\ Telling => \A r \in Named : rows[r].desc = rows[r].name \/ Awaits(r)

UnitsFollow ==
  /\ \A r \in DOMAIN rows :
        /\ rows[r].name # current.name /\ rows[r].desc = rows[r].name
        /\ \E i \in Seen : output[i].item = rows[r].name
  /\ \A r, t \in DOMAIN rows : rows[r].name = rows[t].name => r = t
  /\ \A i \in Seen :
        output[i].item = current.name \/ \E r \in DOMAIN rows : rows[r].name = output[i].item
  /\ current.name # None =>
       \E i \in Heads(output) :
          /\ i < next /\ output[i].item = current.name
          /\ current.desc = current.name \/ OnlyWarnings(output, i, next)

OutputMatches == Matches(output, printed) /\ Whole(output, format)

ListInv ==
  /\ at = "print" => Complete
  /\ at \in {"print", "ended"} => rows = <<>>
  /\ at \in {"print", "ended", "parse"} /\ Complete => OutputMatches
  /\ at = "parse" /\ Complete =>
       IF format = "systemctl show" THEN UnitsFollow ELSE RowsFollow
  /\ ListsWhatWasPrinted

LEMMA Joined ==
  ASSUME NEW S, NEW out \in Seq(S), NEW b \in Seq(S)
  PROVE  /\ out \o b \in Seq(S)
         /\ DOMAIN out = 1 .. Len(out) /\ Len(out) \in Nat
         /\ DOMAIN b = 1 .. Len(b) /\ Len(b) \in Nat
         /\ DOMAIN (out \o b) = 1 .. Len(out) + Len(b)
         /\ \A i \in DOMAIN out : i \in DOMAIN (out \o b) /\ (out \o b)[i] = out[i]
         /\ \A i \in DOMAIN b : Len(out) + i \in DOMAIN (out \o b) /\ (out \o b)[Len(out) + i] = b[i]
         /\ \A i \in DOMAIN (out \o b) :
               i \in DOMAIN out \/ \E h \in DOMAIN b : i = Len(out) + h
<1>1. /\ out \o b \in Seq(S)
      /\ DOMAIN out = 1 .. Len(out) /\ Len(out) \in Nat
      /\ DOMAIN b = 1 .. Len(b) /\ Len(b) \in Nat
      /\ DOMAIN (out \o b) = 1 .. Len(out) + Len(b)
      /\ \A i \in DOMAIN out : i \in DOMAIN (out \o b) /\ (out \o b)[i] = out[i]
      /\ \A i \in DOMAIN b : Len(out) + i \in DOMAIN (out \o b) /\ (out \o b)[Len(out) + i] = b[i]
  OBVIOUS
<1>2. ASSUME NEW i \in 1 .. Len(out) + Len(b), i \notin 1 .. Len(out)
      PROVE  \E h \in 1 .. Len(b) : i = Len(out) + h
  <2>1. i - Len(out) \in 1 .. Len(b) /\ i = Len(out) + (i - Len(out))
    BY <1>1, <1>2
  <2> QED BY <2>1
<1> QED BY <1>1, <1>2

(* The heads of the whole are those of the first part and those of the second. *)
LEMMA HeadsOfJoined ==
  ASSUME NEW out \in Seq(Lines), NEW b \in Seq(Lines), NEW i
  PROVE  i \in Heads(out \o b) <=>
           i \in Heads(out) \/ \E h \in Heads(b) : i = Len(out) + h
<1> DEFINE all == out \o b
<1>1. /\ \A k \in DOMAIN out : k \in DOMAIN all /\ all[k] = out[k]
      /\ \A k \in DOMAIN b : Len(out) + k \in DOMAIN all /\ all[Len(out) + k] = b[k]
      /\ \A k \in DOMAIN all : k \in DOMAIN out \/ \E h \in DOMAIN b : k = Len(out) + h
  BY Joined
<1> HIDE DEF all
<1> QED BY <1>1 DEF Heads, all

LEMMA MatchesPrinted ==
  ASSUME NEW out \in Seq(Lines), NEW items \in Seq(Items), Matches(out, items),
         NEW x \in Items, \A k \in DOMAIN items : items[k] # x,
         NEW b \in Seq(Lines), NEW h \in Heads(b), b[h].item = x,
         \A g \in Heads(b) : g = h
  PROVE  Matches(out \o b, Append(items, x))
<1> DEFINE all == out \o b
           more == Append(items, x)
           n == Len(items)
           p == Len(out) + h
<1>1. /\ n \in Nat /\ DOMAIN items = 1 .. n /\ DOMAIN more = 1 .. n + 1
      /\ \A k \in 1 .. n : more[k] = items[k]
      /\ more[n + 1] = x
  OBVIOUS
<1>2. \A i \in DOMAIN out : all[i] = out[i]
  BY Joined
<1>3. all[p] = b[h] /\ \A i \in DOMAIN out : i < p
  <2>1. h \in DOMAIN b
    BY DEF Heads
  <2> QED BY <2>1, Joined
<1>4. \A i : i \in Heads(all) <=> i \in Heads(out) \/ i = p
  BY HeadsOfJoined
<1>5. \A i \in Heads(out) : i \in DOMAIN out /\ i \in Nat
  <2>1. DOMAIN out \subseteq Nat
    BY Joined
  <2> QED BY <2>1 DEF Heads
<1>6. p \in Nat
  <2>1. h \in DOMAIN b
    BY DEF Heads
  <2> QED BY <2>1, Joined
<1> HIDE DEF all, more, n, p
<1>7. \A i \in Heads(out) : \E k \in 1 .. n : items[k] = out[i].item
  BY <1>1 DEF Matches
<1>8. \A i \in Heads(all) : \E k \in DOMAIN more : more[k] = all[i].item
  <2>1. ASSUME NEW i \in Heads(out) PROVE \E k \in DOMAIN more : more[k] = all[i].item
    BY <1>1, <1>2, <1>5, <1>7
  <2>2. \E k \in DOMAIN more : more[k] = all[p].item
    BY <1>1, <1>3
  <2> QED BY <1>4, <2>1, <2>2
<1>9. \A k \in DOMAIN more : \E i \in Heads(all) : all[i].item = more[k]
  <2>1. ASSUME NEW k \in 1 .. n PROVE \E i \in Heads(all) : all[i].item = more[k]
    <3>1. PICK i \in Heads(out) : out[i].item = items[k]
      BY <1>1 DEF Matches
    <3> QED BY <1>1, <1>2, <1>4, <1>5, <3>1
  <2>2. \E i \in Heads(all) : all[i].item = more[n + 1]
    BY <1>1, <1>3, <1>4
  <2> QED BY <1>1, <2>1, <2>2
<1>10. \A i, j \in Heads(all) : i < j => Ordered(all[i].item, all[j].item, more)
  <2>1. ASSUME NEW i \in Heads(out), NEW j \in Heads(out), i < j
        PROVE  Ordered(all[i].item, all[j].item, more)
    <3>1. PICK k \in 1 .. n, l \in 1 .. n : k < l /\ items[k] = out[i].item /\ items[l] = out[j].item
      BY <1>1, <2>1 DEF Matches, Ordered
    <3>2. k \in DOMAIN more /\ l \in DOMAIN more
      BY <1>1
    <3> QED BY <1>1, <1>2, <1>5, <3>1, <3>2 DEF Ordered
  <2>2. ASSUME NEW i \in Heads(out) PROVE Ordered(all[i].item, all[p].item, more)
    <3>1. PICK k \in 1 .. n : items[k] = out[i].item
      BY <1>7
    <3>2. k \in DOMAIN more /\ n + 1 \in DOMAIN more /\ k < n + 1 /\ more[k] = all[i].item
      BY <1>1, <1>2, <1>5, <3>1
    <3> QED BY <1>1, <1>3, <3>2 DEF Ordered
  <2>3. \A j \in Heads(out) : ~(p < j)
    BY <1>3, <1>5, <1>6
  <2> QED BY <1>4, <1>6, <2>1, <2>2, <2>3
<1>11. \A i, j \in Heads(all) : all[i].item = all[j].item => i = j
  <2>1. \A i \in Heads(out) : all[i].item # all[p].item
    BY <1>1, <1>2, <1>3, <1>5, <1>7
  <2>2. \A i, j \in Heads(out) : all[i].item = all[j].item => i = j
    BY <1>2, <1>5 DEF Matches
  <2> QED BY <1>4, <2>1, <2>2
<1> QED BY <1>8, <1>9, <1>10, <1>11 DEF Matches, all, more

(* A line that begins no entry changes nothing.                                *)
LEMMA MatchesInserted ==
  ASSUME NEW out \in Seq(Lines), NEW items, Matches(out, items),
         NEW k \in 0 .. Len(out), NEW e \in Lines, e.kind \in WarningKinds,
         NEW all, all = InsertedAfter(out, k, e)
  PROVE  Matches(all, items)
<1>1. /\ all[k + 1] = e
      /\ \A i \in DOMAIN out : Place(k, i) \in DOMAIN all /\ all[Place(k, i)] = out[i]
      /\ \A j \in DOMAIN all : j = k + 1 \/ \E i \in DOMAIN out : j = Place(k, i)
      /\ \A i, j \in DOMAIN out :
            /\ i < j <=> Place(k, i) < Place(k, j)
            /\ i = j <=> Place(k, i) = Place(k, j)
  BY Inserted
<1>2. e.kind \notin {"entry", "Id"}
  BY DEF WarningKinds
<1>3. \A j \in Heads(all) : \E i \in Heads(out) : j = Place(k, i) /\ all[j] = out[i]
  BY <1>1, <1>2 DEF Heads
<1>4. \A i \in Heads(out) : Place(k, i) \in Heads(all) /\ all[Place(k, i)] = out[i]
  BY <1>1 DEF Heads
<1>5. \A i, j \in Heads(out) :
         /\ i < j <=> Place(k, i) < Place(k, j)
         /\ i = j <=> Place(k, i) = Place(k, j)
  BY <1>1 DEF Heads
<1>6. /\ \A i \in Heads(out) : \E h \in DOMAIN items : items[h] = out[i].item
      /\ \A h \in DOMAIN items : \E i \in Heads(out) : out[i].item = items[h]
      /\ \A i, j \in Heads(out) : i < j => Ordered(out[i].item, out[j].item, items)
      /\ \A i, j \in Heads(out) : out[i].item = out[j].item => i = j
  BY DEF Matches
<1>7. \A j \in Heads(all) : \E h \in DOMAIN items : items[h] = all[j].item
  BY <1>3, <1>6
<1>8. \A h \in DOMAIN items : \E j \in Heads(all) : all[j].item = items[h]
  BY <1>4, <1>6
<1>9. ASSUME NEW g \in Heads(all), NEW h \in Heads(all)
      PROVE  /\ g < h => Ordered(all[g].item, all[h].item, items)
             /\ all[g].item = all[h].item => g = h
  <2>1. PICK i \in Heads(out) : g = Place(k, i) /\ all[g] = out[i]
    BY <1>3
  <2>2. PICK j \in Heads(out) : h = Place(k, j) /\ all[h] = out[j]
    BY <1>3
  <2> QED BY <1>5, <1>6, <2>1, <2>2
<1> QED BY <1>7, <1>8, <1>9 DEF Matches

LEMMA WholeInserted ==
  ASSUME NEW out \in Seq(Lines), NEW f, Whole(out, f),
         NEW k \in 0 .. Len(out), NEW e \in Lines, e.kind \in WarningKinds,
         NEW all, all = InsertedAfter(out, k, e)
  PROVE  Whole(all, f)
<1>1. /\ all[k + 1] = e
      /\ \A i \in DOMAIN out : Place(k, i) \in DOMAIN all /\ all[Place(k, i)] = out[i]
      /\ \A j \in DOMAIN all : j = k + 1 \/ \E i \in DOMAIN out : j = Place(k, i)
      /\ \A i, j \in DOMAIN out : i < j <=> Place(k, i) < Place(k, j)
  BY Inserted
<1>2. e.kind \notin Properties \cup {"entry", "detail"}
  BY DEF WarningKinds, Properties
<1>3. ASSUME NEW i \in DOMAIN out, NEW kind, ComesNext(out, i, kind)
      PROVE  ComesNext(all, Place(k, i), kind)
  <2>1. PICK j \in DOMAIN out : i < j /\ out[j].kind = kind /\ OnlyWarnings(out, i, j)
    BY <1>3 DEF ComesNext
  <2>2. OnlyWarnings(all, Place(k, i), Place(k, j))
    BY <2>1, BetweenInserted
  <2> QED BY <1>1, <2>1, <2>2 DEF ComesNext
<1> SUFFICES ASSUME NEW h \in DOMAIN all, all[h].kind \in Properties \cup {"entry", "detail"}
             PROVE  /\ all[h].item \in Items
                    /\ f = "pacman -Ss" /\ all[h].kind = "entry" => ComesNext(all, h, "detail")
                    /\ all[h].kind = "Id" => ComesNext(all, h, "Description")
  BY DEF Whole, Properties
<1>4. PICK i \in DOMAIN out : h = Place(k, i)
  BY <1>1, <1>2
<1>5. all[h] = out[i]
  BY <1>1, <1>4
<1> QED BY <1>3, <1>4, <1>5 DEF Whole

LEMMA WholeJoined ==
  ASSUME NEW out \in Seq(Lines), NEW b \in Seq(Lines), NEW f, Whole(out, f), Whole(b, f)
  PROVE  Whole(out \o b, f)
<1> DEFINE all == out \o b
           n == Len(out)
<1>1. /\ \A i \in DOMAIN out : i \in DOMAIN all /\ all[i] = out[i]
      /\ \A i \in DOMAIN b : n + i \in DOMAIN all /\ all[n + i] = b[i]
      /\ \A i \in DOMAIN all : i \in DOMAIN out \/ \E h \in DOMAIN b : i = n + h
      /\ DOMAIN out = 1 .. n /\ n \in Nat /\ DOMAIN b = 1 .. Len(b) /\ Len(b) \in Nat
  BY Joined
<1> HIDE DEF all, n
<1>2. ASSUME NEW i \in DOMAIN out, NEW kind, ComesNext(out, i, kind)
      PROVE  ComesNext(all, i, kind)
  <2>1. PICK j \in DOMAIN out : i < j /\ out[j].kind = kind /\ OnlyWarnings(out, i, j)
    BY <1>2 DEF ComesNext
  <2>2. \A h \in i + 1 .. j - 1 : h \in DOMAIN out
    BY <1>1, <2>1
  <2>3. OnlyWarnings(all, i, j)
    BY <1>1, <2>1, <2>2 DEF OnlyWarnings
  <2> QED BY <1>1, <2>1, <2>3 DEF ComesNext
<1>3. ASSUME NEW i \in DOMAIN b, NEW kind, ComesNext(b, i, kind)
      PROVE  ComesNext(all, n + i, kind)
  <2>1. PICK j \in DOMAIN b : i < j /\ b[j].kind = kind /\ OnlyWarnings(b, i, j)
    BY <1>3 DEF ComesNext
  <2>2. \A h \in n + i + 1 .. (n + j) - 1 :
           h - n \in i + 1 .. j - 1 /\ h - n \in DOMAIN b /\ n + (h - n) = h
    BY <1>1, <2>1
  <2>3. OnlyWarnings(all, n + i, n + j)
    <3>1. ASSUME NEW h \in n + i + 1 .. (n + j) - 1 PROVE all[h].kind \in WarningKinds
      <4>1. PICK g : g = h - n
        OBVIOUS
      <4>2. g \in i + 1 .. j - 1 /\ g \in DOMAIN b /\ n + g = h
        BY <2>2, <4>1
      <4>3. all[n + g] = b[g]
        BY <1>1, <4>2, Zenon
      <4>4. b[g].kind \in WarningKinds
        BY <2>1, <4>2 DEF OnlyWarnings
      <4> QED BY <4>2, <4>3, <4>4, Zenon
    <3>2. \A h \in n + i + 1 .. (n + j) - 1 : all[h].kind \in WarningKinds
      BY <3>1
    <3> QED BY <3>2, Zenon DEF OnlyWarnings
  <2>4. n + i < n + j
    BY <1>1, <2>1
  <2> QED BY <1>1, <2>1, <2>3, <2>4 DEF ComesNext
<1> SUFFICES ASSUME NEW i \in DOMAIN all
             PROVE  /\ all[i].kind \in Properties \cup {"entry", "detail"} => all[i].item \in Items
                    /\ f = "pacman -Ss" /\ all[i].kind = "entry" => ComesNext(all, i, "detail")
                    /\ all[i].kind = "Id" => ComesNext(all, i, "Description")
  BY DEF Whole, all
<1>4. CASE i \in DOMAIN out
  BY <1>1, <1>2, <1>4 DEF Whole
<1>5. ASSUME NEW h \in DOMAIN b, i = n + h
      PROVE  /\ all[i].kind \in Properties \cup {"entry", "detail"} => all[i].item \in Items
             /\ f = "pacman -Ss" /\ all[i].kind = "entry" => ComesNext(all, i, "detail")
             /\ all[i].kind = "Id" => ComesNext(all, i, "Description")
  BY <1>1, <1>3, <1>5 DEF Whole
<1> QED BY <1>1, <1>4, <1>5

(* A block of lines that begins one entry.                                     *)
Begins(b, item, f) ==
  /\ b \in Seq(Lines)
  /\ \E h \in Heads(b) : b[h].item = item /\ \A g \in Heads(b) : g = h
  /\ Whole(b, f)

LEMMA LineType ==
  ASSUME NEW item \in Details, NEW sep \in {"tab", "space", "mixed"},
         NEW kind \in {"entry", "detail", "blank", "Id", "Description", "State"}
  PROVE  /\ Line(kind, item, sep) \in Lines
         /\ Line(kind, item, sep).kind = kind /\ Line(kind, item, sep).item = item
  BY DEF Line, Lines

UnitLines(item) ==
  <<Line("Id", item, "tab"), Line("Description", item, "tab"), Line("State", item, "tab")>>

LEMMA UnitLinesAre ==
  ASSUME NEW item \in Details, NEW unit, unit = UnitLines(item)
  PROVE  /\ unit \in Seq(Lines) /\ DOMAIN unit = 1 .. 3 /\ Len(unit) = 3
         /\ unit[1].kind = "Id" /\ unit[2].kind = "Description" /\ unit[3].kind = "State"
         /\ unit[1].item = item /\ unit[2].item = item /\ unit[3].item = item
<1>1. PICK x, y, z :
        /\ x = Line("Id", item, "tab") /\ y = Line("Description", item, "tab")
        /\ z = Line("State", item, "tab")
  OBVIOUS
<1>2. x \in Lines /\ y \in Lines /\ z \in Lines
  BY <1>1, LineType
<1>3. unit = <<x, y, z>>
  BY <1>1 DEF UnitLines
<1>4. /\ x.kind = "Id" /\ y.kind = "Description" /\ z.kind = "State"
      /\ x.item = item /\ y.item = item /\ z.item = item
  BY <1>1, LineType
<1> QED BY <1>2, <1>3, <1>4

LEMMA ThreeMore ==
  ASSUME NEW n \in Nat
  PROVE  /\ \A i \in 1 .. n + 3 : i \in 1 .. n \/ i = n + 1 \/ i = n + 2 \/ i = n + 3
         /\ n + 1 + 1 = n + 2 /\ n + 1 \in 1 .. n + 3 /\ n + 2 \in 1 .. n + 3
         /\ n + 1 \in 1 .. n + 1 /\ n + 1 \in 1 .. n + 2
         /\ n + 1 \notin 1 .. n /\ n + 1 # n + 2 /\ n + 1 # n + 3
  OBVIOUS

(* Nothing lies between a number and the next.                                 *)
LEMMA NothingBetween ==
  ASSUME NEW n \in Nat
  PROVE  n + 1 \in Nat /\ n < n + 1 /\ n + 1 .. (n + 1) - 1 = {}
OBVIOUS

LEMMA UnitBegins ==
  ASSUME NEW item \in Items, NEW f, f # "pacman -Ss",
         NEW n \in Nat, NEW b \in Seq(Lines), DOMAIN b = 1 .. n + 3,
         \A i \in 1 .. n : b[i].kind = "blank",
         b[n + 1].kind = "Id", b[n + 2].kind = "Description", b[n + 3].kind = "State",
         b[n + 1].item = item, b[n + 2].item = item, b[n + 3].item = item
  PROVE  Begins(b, item, f)
<1>1. \A i \in DOMAIN b : i \in 1 .. n \/ i = n + 1 \/ i = n + 2 \/ i = n + 3
  BY ThreeMore, Zenon
<1>2. /\ n + 1 \in DOMAIN b /\ n + 2 \in DOMAIN b
      /\ n + 1 + 1 = n + 2
      /\ n + 1 \in 1 .. n + 1 /\ n + 1 \in 1 .. n + 2 /\ n + 1 \in 1 .. n + 3
  BY ThreeMore, Zenon
<1>3. \A i \in DOMAIN b : b[i].kind \in {"entry", "Id"} <=> i = n + 1
  BY <1>1, <1>2
<1>4. Heads(b) = {n + 1}
  BY <1>2, <1>3 DEF Heads
<1>5. Whole(b, f)
  <2> SUFFICES ASSUME NEW i \in DOMAIN b
               PROVE  /\ b[i].kind \in Properties \cup {"entry", "detail"} => b[i].item \in Items
                      /\ b[i].kind = "Id" => ComesNext(b, i, "Description")
    BY DEF Whole
  <2>0. ComesNext(b, n + 1, "Description")
    <3>0. n + 1 \in Nat
      BY NothingBetween, Zenon
    <3>1. PICK h \in Nat : h = n + 1
      BY <3>0, Zenon
    <3>2. h < h + 1 /\ h + 1 .. (h + 1) - 1 = {}
      BY NothingBetween, Zenon
    <3>3. OnlyWarnings(b, h, h + 1) /\ h + 1 = n + 2
      BY <1>2, <3>1, <3>2 DEF OnlyWarnings
    <3> QED BY <1>2, <3>1, <3>2, <3>3 DEF ComesNext
  <2>1. CASE i \in 1 .. n
    BY <2>1 DEF Properties
  <2>2. CASE i = n + 1
    BY <1>2, <2>0, <2>2
  <2>3. CASE i = n + 2
    BY <1>2, <2>3
  <2>4. CASE i = n + 3
    BY <1>2, <2>4
  <2> QED BY <1>1, <2>1, <2>2, <2>3, <2>4
<1>6. b[n + 1].item = item /\ n + 1 \in Heads(b) /\ \A g \in Heads(b) : g = n + 1
  BY <1>4
<1> QED BY <1>5, <1>6 DEF Begins

(* The lines of a unit are preceded by an empty one unless it is the first.    *)
LEMMA BlockIs ==
  ASSUME NEW item \in Items
  PROVE  \E n \in Nat : \E b \in Seq(Lines) :
           /\ b = Block(item) /\ DOMAIN b = 1 .. n + 3
           /\ \A i \in 1 .. n : b[i].kind = "blank"
           /\ b[n + 1].kind = "Id" /\ b[n + 2].kind = "Description" /\ b[n + 3].kind = "State"
           /\ b[n + 1].item = item /\ b[n + 2].item = item /\ b[n + 3].item = item
<1>1. item \in Details /\ None \in Details
  BY DEF Details
<1>2. PICK unit : unit = UnitLines(item)
  OBVIOUS
<1>3. /\ unit \in Seq(Lines) /\ DOMAIN unit = 1 .. 3 /\ Len(unit) = 3
      /\ unit[1].kind = "Id" /\ unit[2].kind = "Description" /\ unit[3].kind = "State"
      /\ unit[1].item = item /\ unit[2].item = item /\ unit[3].item = item
  BY <1>1, <1>2, UnitLinesAre
<1>4. PICK line : line = Line("blank", None, "tab")
  OBVIOUS
<1>5. line \in Lines /\ line.kind = "blank"
  BY <1>1, <1>4, LineType
<1>6. Block(item) = (IF printed = <<>> THEN <<>> ELSE <<line>>) \o unit
  BY <1>2, <1>4, Zenon DEF Block, UnitLines
<1>7. CASE printed = <<>>
  <2>1. Block(item) = unit
    BY <1>3, <1>6, <1>7
  <2>2. 0 + 1 = 1 /\ 0 + 2 = 2 /\ 0 + 3 = 3 /\ 1 .. 0 = {} /\ 0 \in Nat
    OBVIOUS
  <2> QED BY <1>3, <2>1, <2>2, Zenon
<1>8. CASE printed # <<>>
  <2>1. Block(item) = <<line>> \o unit
    BY <1>6, <1>8
  <2>2. <<line>> \in Seq(Lines) /\ Len(<<line>>) = 1 /\ <<line>>[1] = line
    BY <1>5
  <2>3. /\ <<line>> \o unit \in Seq(Lines)
        /\ DOMAIN (<<line>> \o unit) = 1 .. Len(<<line>>) + Len(unit)
        /\ \A i \in 1 .. Len(<<line>>) : (<<line>> \o unit)[i] = <<line>>[i]
        /\ \A i \in 1 .. Len(unit) : (<<line>> \o unit)[Len(<<line>>) + i] = unit[i]
    BY <1>3, <2>2, Concatenated
  <2>4. PICK b : b = <<line>> \o unit
    OBVIOUS
  <2>5. /\ b \in Seq(Lines) /\ DOMAIN b = 1 .. 1 + 3 /\ \A i \in 1 .. 1 : b[i] = line
        /\ b[1 + 1] = unit[1] /\ b[1 + 2] = unit[2] /\ b[1 + 3] = unit[3]
    BY <1>3, <2>2, <2>3, <2>4
  <2>6. /\ \A i \in 1 .. 1 : b[i].kind = "blank"
        /\ b[1 + 1].kind = "Id" /\ b[1 + 2].kind = "Description" /\ b[1 + 3].kind = "State"
        /\ b[1 + 1].item = item /\ b[1 + 2].item = item /\ b[1 + 3].item = item
    BY <1>3, <1>5, <2>5, Zenon
  <2>7. 1 \in Nat /\ b = Block(item)
    BY <2>1, <2>4
  <2> QED BY <2>5, <2>6, <2>7, Zenon
<1> QED BY <1>7, <1>8

LEMMA BlockBegins ==
  ASSUME NEW item \in Items, NEW f, f # "pacman -Ss"
  PROVE  Begins(Block(item), item, f)
<1>1. PICK n \in Nat, b \in Seq(Lines) :
           /\ b = Block(item) /\ DOMAIN b = 1 .. n + 3
           /\ \A i \in 1 .. n : b[i].kind = "blank"
           /\ b[n + 1].kind = "Id" /\ b[n + 2].kind = "Description" /\ b[n + 3].kind = "State"
           /\ b[n + 1].item = item /\ b[n + 2].item = item /\ b[n + 3].item = item
  BY BlockIs, Zenon
<1>2. Begins(b, item, f)
  BY <1>1, UnitBegins, Zenon
<1> QED BY <1>1, <1>2, Zenon

LEMMA EntryBegins ==
  ASSUME NEW item \in Items, NEW sep \in {"tab", "space", "mixed"}, NEW f
  PROVE  /\ f # "pacman -Ss" => Begins(<<Line("entry", item, sep)>>, item, f)
         /\ Begins(<<Line("entry", item, sep), Line("detail", item, sep)>>, item, f)
<1>1. ASSUME f # "pacman -Ss" PROVE Begins(<<Line("entry", item, sep)>>, item, f)
  <2> DEFINE b == <<Line("entry", item, sep)>>
  <2>1. b \in Seq(Lines) /\ DOMAIN b = {1}
    BY DEF Line, Lines, Details
  <2>2. b[1].kind = "entry" /\ b[1].item = item
    BY DEF Line
  <2> HIDE DEF b
  <2>3. Heads(b) = {1}
    BY <2>1, <2>2 DEF Heads
  <2>4. Whole(b, f)
    BY <1>1, <2>1, <2>2 DEF Whole, Properties
  <2> QED BY <2>1, <2>2, <2>3, <2>4 DEF Begins, b
<1>2. Begins(<<Line("entry", item, sep), Line("detail", item, sep)>>, item, f)
  <2> DEFINE b == <<Line("entry", item, sep), Line("detail", item, sep)>>
  <2>1. b \in Seq(Lines) /\ DOMAIN b = {1, 2}
    BY DEF Line, Lines, Details
  <2>2. /\ b[1].kind = "entry" /\ b[1].item = item
        /\ b[2].kind = "detail" /\ b[2].item = item
    BY DEF Line
  <2> HIDE DEF b
  <2>3. Heads(b) = {1}
    BY <2>1, <2>2 DEF Heads
  <2>4. Whole(b, f)
    <3>1. 2 = 1 + 1 /\ \A i \in DOMAIN b : i = 1 \/ i = 2
      BY <2>1
    <3>2. \A i \in DOMAIN b : b[i].item \in Items /\ b[i].kind \notin Properties
      BY <2>2, <3>1 DEF Properties
    <3>3. \A i \in DOMAIN b : b[i].kind = "entry" => ComesNext(b, i, "detail")
      <4>1. 1 < 2 /\ 1 + 1 .. 2 - 1 = {}
        OBVIOUS
      <4>2. ComesNext(b, 1, "detail")
        BY <2>1, <2>2, <4>1 DEF ComesNext, OnlyWarnings
      <4> QED BY <2>2, <3>1, <4>2
    <3>4. \A i \in DOMAIN b : b[i].kind # "Id"
      BY <3>2 DEF Properties
    <3> QED BY <3>2, <3>3, <3>4 DEF Whole
  <2> QED BY <2>1, <2>2, <2>3, <2>4 DEF Begins, b
<1> QED BY <1>1, <1>2

LEMMA PrintedBegins ==
  ASSUME TypeOK, PrintItem
  PROVE  \E item \in Items : \E b :
           /\ Begins(b, item, format) /\ output' = output \o b
           /\ printed' = Append(printed, item)
           /\ \A k \in DOMAIN printed : printed[k] # item
<1>1. PICK item \in Items, sep \in Separators :
        /\ \A k \in DOMAIN printed : printed[k] # item
        /\ printed' = Append(printed, item)
        /\ output' = output \o
             CASE format = "systemctl show" -> Block(item)
               [] format = "pacman -Ss" -> <<Line("entry", item, sep), Line("detail", item, sep)>>
               [] OTHER -> <<Line("entry", item, sep)>>
  BY DEF PrintItem
<1>2. sep \in {"tab", "space", "mixed"}
  BY DEF Separators
<1>3. CASE format = "systemctl show"
  <2>1. output' = output \o Block(item)
    BY <1>1, <1>3
  <2> QED BY <1>1, <1>3, <2>1, BlockBegins
<1>4. CASE format = "pacman -Ss"
  BY <1>1, <1>2, <1>4, EntryBegins
<1>5. CASE format \notin {"systemctl show", "pacman -Ss"}
  <2>1. output' = output \o <<Line("entry", item, sep)>>
    BY <1>1, <1>5
  <2> QED BY <1>1, <1>2, <1>5, <2>1, EntryBegins
<1> QED BY <1>3, <1>4, <1>5

LEMMA PrintItemLists == Inv /\ ListInv /\ PrintItem => ListInv'
<1> SUFFICES ASSUME Inv, ListInv, PrintItem PROVE ListInv'
  OBVIOUS
<1>1. /\ output \in Seq(Lines) /\ printed \in Seq(Items) /\ TypeOK
      /\ Matches(output, printed) /\ Whole(output, format)
      /\ rows = <<>> /\ Complete
  BY DEF Inv, TypeOK, ListInv, OutputMatches, PrintItem
<1>2. UNCHANGED <<installed, source, view, format, at, notices, exit, lost, next, rows, current>>
      /\ at = "print"
  BY DEF PrintItem
<1>3. PICK item, b :
           /\ item \in Items /\ Begins(b, item, format) /\ output' = output \o b
           /\ printed' = Append(printed, item)
           /\ \A k \in DOMAIN printed : printed[k] # item
  BY <1>1, PrintedBegins
<1>4. Matches(output', printed')
  BY <1>1, <1>3, MatchesPrinted DEF Begins
<1>5. Whole(output', format)
  BY <1>1, <1>3, WholeJoined DEF Begins
<1> QED BY <1>1, <1>2, <1>4, <1>5 DEF ListInv, OutputMatches, Complete, ListsWhatWasPrinted

LEMMA PrintNoticeLists == Inv /\ ListInv /\ PrintNotice => ListInv'
<1> SUFFICES ASSUME Inv, ListInv, PrintNotice PROVE ListInv'
  OBVIOUS
<1>1. /\ output \in Seq(Lines) /\ TypeOK
      /\ Matches(output, printed) /\ Whole(output, format)
      /\ rows = <<>> /\ Complete
  BY DEF Inv, TypeOK, ListInv, OutputMatches, PrintNotice
<1>2. /\ UNCHANGED <<installed, source, view, format, at, printed, exit, lost, next, rows, current>>
      /\ at = "print"
  BY DEF PrintNotice
<1>3. PICK k \in 0 .. Len(output), line \in Lines :
           output' = InsertedAfter(output, k, line) /\ line.kind \in WarningsOf(format)
  BY <1>1, NoticeInserted
<1>4. line.kind \in WarningKinds
  BY <1>3 DEF WarningsOf, WarningKinds
<1>5. Matches(output', printed)
  BY <1>1, <1>3, <1>4, MatchesInserted
<1>6. Whole(output', format)
  BY <1>1, <1>3, <1>4, WholeInserted
<1> QED BY <1>1, <1>2, <1>5, <1>6 DEF ListInv, OutputMatches, Complete, ListsWhatWasPrinted
--------------------------------------------------------------------------------
(* A command that starts, or is not run, has nothing to account for.           *)
LEMMA StartLists ==
  ASSUME at' \in {"print", "shown"}, printed' = <<>>, output' = <<>>, rows' = <<>>,
         lost' = FALSE, at' = "print" => exit' = "ok", at' = "shown" => exit' = "failed"
  PROVE  ListInv'
<1>1. DOMAIN output' = {} /\ DOMAIN printed' = {}
  BY NothingYet
<1>2. Matches(output', printed') /\ Whole(output', format')
  BY <1>1 DEF Matches, Heads, Whole
<1> QED BY <1>2 DEF ListInv, OutputMatches, Complete, ListsWhatWasPrinted

LEMMA EndLists == Inv /\ ListInv /\ End => ListInv'
<1> SUFFICES ASSUME Inv, ListInv, End PROVE ListInv'
  OBVIOUS
<1>1. /\ at = "print" /\ at' = "ended" /\ Complete /\ OutputMatches /\ rows = <<>>
      /\ UNCHANGED <<format, printed, notices, rows>>
  BY DEF End, ListInv
<1>2. Complete' => output' = output
  BY DEF End, Complete
<1> QED BY <1>1, <1>2 DEF ListInv, OutputMatches, ListsWhatWasPrinted

LEMMA NothingReadLists ==
  ASSUME Inv, next = 1, rows = <<>>, current = NoUnit
  PROVE  UnitsFollow /\ RowsFollow
<1>1. DOMAIN rows = {} /\ current.name = None
  BY NothingYet DEF NoUnit
<1>2. \A i \in DOMAIN output : ~(i < 1)
  <2>1. output \in Seq(Lines)
    BY DEF Inv, TypeOK
  <2> QED BY <2>1
<1>3. Seen = {}
  BY <1>2 DEF Seen, Heads
<1> QED BY <1>1, <1>3 DEF UnitsFollow, RowsFollow, Named

LEMMA SameLists ==
  ASSUME UNCHANGED <<command, next, rows, current>>
  PROVE  /\ UnitsFollow' = UnitsFollow /\ RowsFollow' = RowsFollow
         /\ Complete' = Complete /\ OutputMatches' = OutputMatches
<1>1. Seen' = Seen
  BY DEF Seen, Unlisted, command
<1>2. /\ output' = output /\ rows' = rows /\ current' = current /\ next' = next
      /\ format' = format /\ printed' = printed /\ notices' = notices
      /\ exit' = exit /\ lost' = lost
  BY DEF command
<1>3. UnitsFollow' = UnitsFollow
  BY <1>1, <1>2 DEF UnitsFollow, Heads
<1>4. RowsFollow' = RowsFollow
  <2>1. /\ Named' = Named /\ Misread' = Misread /\ Telling' = Telling
        /\ \A r : Awaits(r)' = Awaits(r)
    BY <1>2 DEF Named, Misread, Telling, Described, Awaits
  <2> QED BY <1>1, <1>2, <2>1 DEF RowsFollow
<1>5. Complete' = Complete /\ OutputMatches' = OutputMatches
  BY <1>2 DEF Complete, OutputMatches
<1> QED BY <1>3, <1>4, <1>5

LEMMA StatusLists == Inv /\ ListInv /\ (UseOutput \/ DropOutput) => ListInv'
<1> SUFFICES ASSUME Inv, ListInv, UseOutput \/ DropOutput PROVE ListInv'
  OBVIOUS
<1>1. /\ at = "ended" /\ next = 1 /\ current = NoUnit /\ rows = <<>>
      /\ UNCHANGED <<command, next, rows, current>>
      /\ Complete => OutputMatches
  BY DEF UseOutput, DropOutput, Inv, ParserFits, ListInv
<1>2. UnitsFollow /\ RowsFollow
  BY <1>1, NothingReadLists
<1>3. /\ UnitsFollow' /\ RowsFollow'
      /\ Complete' => OutputMatches'
  BY <1>1, <1>2, SameLists
<1>4. at' = "parse" \/ (at' = "shown" /\ exit' = "failed")
  <2>1. exit' = exit
    BY <1>1 DEF command
  <2>2. CASE UseOutput
    BY <2>2 DEF UseOutput
  <2>3. CASE DropOutput
    BY <2>1, <2>3 DEF DropOutput
  <2> QED BY <2>2, <2>3
<1> QED BY <1>3, <1>4 DEF ListInv, ListsWhatWasPrinted
--------------------------------------------------------------------------------
(* What is known while complete output is read.                                *)
Reading ==
  Inv /\ at = "parse" /\ Complete /\ OutputMatches

LEMMA ReadingOn ==
  ASSUME ListInv, Inv, at = "parse", UNCHANGED command,
         at' = "parse",
         Reading => IF format = "systemctl show" THEN UnitsFollow' ELSE RowsFollow'
  PROVE  ListInv'
<1>1. format' = format /\ Complete' = Complete /\ OutputMatches' = OutputMatches
  BY DEF command, Complete, OutputMatches
<1>2. Complete => OutputMatches
  BY DEF ListInv
<1>3. Complete => Reading
  BY <1>2 DEF Reading
<1> QED BY <1>1, <1>2, <1>3 DEF ListInv, ListsWhatWasPrinted

(* One more line is read.                                                      *)
LEMMA OneMore ==
  ASSUME TypeOK, MoreLines, next' = next + 1, UNCHANGED command
  PROVE  /\ next \in DOMAIN output /\ next \in Nat /\ DOMAIN output \subseteq Nat
         /\ next < next' /\ next' - 1 = next /\ next' > 1
         /\ \A i \in Nat : i < next' <=> i < next \/ i = next
         /\ \A i \in Seen' : i \in Seen \/ i = next
         /\ \A i \in Seen : i \in Seen' /\ i # next /\ i \in DOMAIN output /\ i < next
         /\ next \in Seen' <=> CurrentLine.kind \in {"entry", "Id"} /\ CurrentLine.item \notin Unlisted
<1>1. output' = output /\ format' = format
  BY DEF command
<1>2. next \in DOMAIN output /\ next \in Nat
  BY <1>1, NextInRange
<1>3. DOMAIN output \subseteq Nat
  <2>1. output \in Seq(Lines)
    BY DEF TypeOK
  <2> QED BY <2>1
<1>4. /\ next < next' /\ next' - 1 = next
      /\ \A i \in Nat : (i < next' <=> i < next \/ i = next) /\ (i < next => i # next)
  <2>1. next' = next + 1
    OBVIOUS
  <2>2. PICK n \in Nat : n = next
    BY <1>2
  <2>3. next' = n + 1
    BY <2>1, <2>2
  <2>4. n < n + 1 /\ (n + 1) - 1 = n
        /\ \A i \in Nat : (i < n + 1 <=> i < n \/ i = n) /\ (i < n => i # n)
    BY Successor
  <2> QED BY <2>2, <2>3, <2>4
<1>11. next' > 1
  <2>1. output \in Seq(Lines)
    BY DEF TypeOK
  <2>2. 1 <= next
    BY <1>2, <2>1
  <2> QED BY <1>2, <1>4, <2>2
<1>5. \A i \in Heads(output) : i \in Nat
  BY <1>3 DEF Heads
<1>6. Unlisted' = Unlisted /\ Heads(output)' = Heads(output)
  BY <1>1 DEF Unlisted, Heads
<1>7. Heads(output) \subseteq DOMAIN output
  BY DEF Heads
<1>8. \A i : i \in Seen' <=> i \in Heads(output) /\ i < next' /\ output[i].item \notin Unlisted
  BY <1>1, <1>6 DEF Seen
<1>9. /\ \A i \in Seen' : i \in Seen \/ i = next
      /\ \A i \in Seen : i \in Seen' /\ i # next /\ i \in DOMAIN output /\ i < next
  <2>1. \A i : i \in Seen <=> i \in Heads(output) /\ i < next /\ output[i].item \notin Unlisted
    BY DEF Seen
  <2> QED BY <1>4, <1>5, <1>7, <1>8, <2>1
<1>10. next \in Seen' <=> CurrentLine.kind \in {"entry", "Id"} /\ CurrentLine.item \notin Unlisted
  BY <1>2, <1>4, <1>8 DEF Heads, CurrentLine
<1> QED BY <1>2, <1>3, <1>4, <1>9, <1>10, <1>11
--------------------------------------------------------------------------------
(* What must come next with only warnings in between is still to come, if only *)
(* warnings came so far: it is the line that is read, or that is a warning.    *)
LEMMA Awaited ==
  ASSUME TypeOK, NEW i \in DOMAIN output, i < next, OnlyWarnings(output, i, next),
         NEW kind, kind \notin WarningKinds, ComesNext(output, i, kind)
  PROVE  next \in DOMAIN output /\ CurrentLine.kind \in {kind} \cup WarningKinds
<1>1. PICK n : n = next
  OBVIOUS
<1>2. output \in Seq(Lines) /\ n \in 1 .. Len(output) + 1
  BY <1>1 DEF TypeOK
<1>3. DOMAIN output = 1 .. Len(output) /\ Len(output) \in Nat /\ n \in Nat
  BY <1>2
<1>4. PICK j \in DOMAIN output : i < j /\ output[j].kind = kind /\ OnlyWarnings(output, i, j)
  BY DEF ComesNext
<1>5. i \in Nat /\ j \in Nat /\ i < n
  BY <1>1, <1>3
<1>6. ~(j < n)
  <2>1. ASSUME j < n PROVE FALSE
    <3>1. j \in i + 1 .. n - 1
      BY <1>3, <1>4, <1>5, <2>1
    <3> QED BY <1>1, <1>4, <3>1 DEF OnlyWarnings
  <2> QED BY <2>1
<1>7. n \in DOMAIN output
  BY <1>2, <1>3, <1>5, <1>6
<1>8. CASE j = n
  BY <1>1, <1>4, <1>7, <1>8 DEF CurrentLine
<1>9. CASE n < j
  <2>1. n \in i + 1 .. j - 1
    BY <1>3, <1>5, <1>9
  <2> QED BY <1>1, <1>4, <1>7, <2>1 DEF OnlyWarnings, CurrentLine
<1> QED BY <1>3, <1>5, <1>6, <1>8, <1>9

(* Only warnings came, and one more.                                           *)
LEMMA OneMoreWarning ==
  ASSUME NEW n \in Nat, NEW out, NEW i \in Nat, i < n,
         OnlyWarnings(out, i, n), out[n].kind \in WarningKinds
  PROVE  OnlyWarnings(out, i, n + 1)
BY OneFurther DEF OnlyWarnings

(* The line that is read, when what is listed should be what was printed.      *)
LEMMA PackageLine ==
  ASSUME Reading, format # "systemctl show", next \in DOMAIN output
  PROVE  /\ CurrentLine.kind \in {"entry", "detail"} \cup WarningKinds
         /\ CurrentLine.kind \in WarningKinds => CurrentLine.item = None
         /\ CurrentLine.kind = "warning" => Skipped(CurrentLine)
         /\ CurrentLine.kind \in {"like entry", "like detail"} => ~Skipped(CurrentLine) /\ Misread
         /\ CurrentLine.kind \in {"entry", "detail"} =>
              CurrentLine.item \in Items /\ (Skipped(CurrentLine) <=> CurrentLine.item \in Unlisted)
         /\ CurrentLine.kind \in {"detail", "like detail"} => format = "pacman -Ss"
<1>1. /\ CurrentLine.kind \in {"entry", "detail"} \cup WarningKinds
      /\ CurrentLine.kind \in {"detail", "like detail"} => format = "pacman -Ss"
      /\ CurrentLine.kind \in WarningKinds => CurrentLine.item = None
  BY DEF Reading, Inv, OutputFits, WellFormed, CurrentLine, Kinds, WarningsOf, WarningKinds
<1>2. CurrentLine.kind = "warning" => Skipped(CurrentLine)
  BY DEF Skipped
<1>3. CurrentLine.kind \in {"entry", "detail"} => CurrentLine.item \in Items
  BY DEF Reading, OutputMatches, Whole, CurrentLine
<1>4. CurrentLine.kind \in {"entry", "detail"} =>
         (Skipped(CurrentLine) <=> CurrentLine.item \in Unlisted)
  BY DEF Skipped, Unlisted
<1>5. CurrentLine.kind \in {"like entry", "like detail"} => ~Skipped(CurrentLine) /\ Misread
  <2>1. None \notin WithEquals /\ None \notin Foreign
    BY ItemsAssumption DEF None
  <2> QED BY <1>1, <2>1 DEF Skipped, Misread, CurrentLine, WarningKinds
<1> QED BY <1>1, <1>2, <1>3, <1>4, <1>5

LEMMA EntryDescribed ==
  ASSUME NEW line \in Lines, format \in Described, format # "pacman -Ss", format # "systemctl show"
  PROVE  Row(line).desc = line.item
<1>1. format \in (InstalledFormats \ {"pacman -Q"}) \cup {"apt-cache search", "dnf search"}
                 \cup (UpgradeFormats \ {"dnf check-update"})
  BY DEF Described, PackageFormats, SearchFormats
<1>2. Description(line) = line.item
  BY <1>1 DEF Description
<1> QED BY <1>2 DEF Row

LEMMA OneLonger ==
  ASSUME NEW n \in Nat
  PROVE  /\ \A r \in 1 .. n + 1 : r \in 1 .. n \/ r = n + 1
         /\ n + 1 \in 1 .. n + 1 /\ ~(n + 1 < n + 1)
         /\ \A r \in 1 .. n : r \in 1 .. n + 1 /\ ~(n + 1 < r) /\ r # n + 1
  OBVIOUS

LEMMA RowsFollowNext ==
  ASSUME UNCHANGED command,
         \A r \in Named' : \E i \in Seen' : output[i].item = rows'[r].name,
         \A i \in Seen' : \E r \in Named' : rows'[r].name = output[i].item,
         \A r, t \in Named' : r < t =>
            \E i, j \in Seen' :
               i < j /\ output[i].item = rows'[r].name /\ output[j].item = rows'[t].name,
         Named' = DOMAIN rows' \/ Misread,
         Telling => \A r \in Named' : rows'[r].desc = rows'[r].name \/ Awaits(r)'
  PROVE  RowsFollow'
<1>1. output' = output /\ format' = format
  BY DEF command
<1>2. Misread' = Misread /\ Telling' = Telling
  BY <1>1 DEF Misread, Telling, Described
<1> QED BY <1>1, <1>2 DEF RowsFollow

(* A row for the entry just read.                                              *)
LEMMA EntryLists ==
  ASSUME Reading, RowsFollow, MoreLines, next' = next + 1, UNCHANGED command,
         format # "systemctl show",
         CurrentLine.kind = "entry", CurrentLine.item \notin Unlisted,
         NEW n \in Nat, DOMAIN rows = 1 .. n, DOMAIN rows' = 1 .. n + 1, Len(rows') = n + 1,
         \A r \in 1 .. n : rows'[r] = rows[r],
         rows'[n + 1].name = CurrentLine.item,
         format \in Described /\ format # "pacman -Ss" => rows'[n + 1].desc = CurrentLine.item
  PROVE  RowsFollow'
<1>1. /\ n \in Nat /\ DOMAIN rows = 1 .. n /\ DOMAIN rows' = 1 .. n + 1
      /\ \A r \in 1 .. n : rows'[r] = rows[r]
      /\ rows'[n + 1].name = CurrentLine.item /\ Len(rows') = n + 1
  OBVIOUS
<1>2. CurrentLine = output[next]
  BY DEF CurrentLine
<1>3. /\ next \in DOMAIN output /\ next \in Nat /\ next < next' /\ next' - 1 = next
      /\ \A i \in Seen' : i \in Seen \/ i = next
      /\ \A i \in Seen : i \in Seen' /\ i < next
      /\ next \in Seen'
  BY OneMore DEF Reading, Inv
<1>4. output' = output /\ format' = format /\ Misread' = Misread
  BY DEF command, Misread
<1>5. \A r \in 1 .. n + 1 : r \in 1 .. n \/ r = n + 1
  BY <1>1, OneLonger, Zenon
<1>6. n + 1 \in 1 .. n + 1 /\ \A r \in 1 .. n : r \in 1 .. n + 1 /\ ~(n + 1 < r) /\ r # n + 1
  BY <1>1, OneLonger, Zenon
<1>7. ~(n + 1 < n + 1)
  BY <1>1, OneLonger, Zenon
<1>a. CurrentLine.item # None
  <2>1. CurrentLine.item \in Items
    BY <1>3, PackageLine
  <2> QED BY <2>1, ItemsAssumption DEF None
<1>b. /\ \A r \in Named' : (r \in 1 .. n /\ r \in Named) \/ r = n + 1
      /\ \A r \in Named : r \in 1 .. n /\ r \in Named' /\ rows'[r] = rows[r]
      /\ n + 1 \in Named'
  BY <1>1, <1>5, <1>6, <1>a DEF Named
<1>8. \A r \in Named' : \E i \in Seen' : output[i].item = rows'[r].name
  <2>1. ASSUME NEW r \in Named PROVE \E i \in Seen' : output[i].item = rows'[r].name
    <3>1. PICK i \in Seen : output[i].item = rows[r].name
      BY DEF RowsFollow
    <3> QED BY <1>3, <1>b, <3>1
  <2> QED BY <1>1, <1>2, <1>3, <1>b, <2>1
<1>9. \A i \in Seen' : \E r \in Named' : rows'[r].name = output[i].item
  <2>1. ASSUME NEW i \in Seen PROVE \E r \in Named' : rows'[r].name = output[i].item
    <3>1. PICK r \in Named : rows[r].name = output[i].item
      BY DEF RowsFollow
    <3> QED BY <1>b, <3>1, Zenon
  <2> QED BY <1>1, <1>2, <1>3, <1>b, <2>1
<1>10. \A r, t \in Named' : r < t =>
         \E i, j \in Seen' :
            i < j /\ output[i].item = rows'[r].name /\ output[j].item = rows'[t].name
  <2> SUFFICES ASSUME NEW r \in Named', NEW t \in Named', r < t
               PROVE  \E i, j \in Seen' :
                        i < j /\ output[i].item = rows'[r].name /\ output[j].item = rows'[t].name
    OBVIOUS
  <2>1. r \in Named
    BY <1>1, <1>6, <1>7, <1>b
  <2>2. CASE t \in Named
    <3>1. PICK i \in Seen, j \in Seen :
             i < j /\ output[i].item = rows[r].name /\ output[j].item = rows[t].name
      BY <2>1, <2>2 DEF RowsFollow
    <3> QED BY <1>3, <1>b, <2>1, <2>2, <3>1
  <2>3. CASE t = n + 1
    <3>1. PICK i \in Seen : output[i].item = rows[r].name
      BY <2>1 DEF RowsFollow
    <3> QED BY <1>1, <1>2, <1>3, <1>b, <2>1, <2>3, <3>1
  <2> QED BY <1>b, <2>2, <2>3
<1>11. Named' = DOMAIN rows' \/ Misread
  <2>1. ASSUME Named = DOMAIN rows, NEW r \in DOMAIN rows' PROVE r \in Named'
    BY <1>1, <1>5, <1>b, <2>1
  <2> QED BY <2>1 DEF RowsFollow, Named
<1>12. ASSUME Telling, NEW r \in Named'
       PROVE  rows'[r].desc = rows'[r].name \/ Awaits(r)'
  <2>1. CASE r \in Named
    <3>1. ~Awaits(r)
      <4> SUFFICES ASSUME Awaits(r) PROVE FALSE
        OBVIOUS
      <4>1. PICK i \in DOMAIN output :
               i < next /\ output[i].kind = "entry" /\ OnlyWarnings(output, i, next)
        BY DEF Awaits
      <4>2. ComesNext(output, i, "detail")
        BY <4>1 DEF Awaits, Reading, OutputMatches, Whole
      <4>3. "detail" \notin WarningKinds /\ "entry" \notin {"detail"} \cup WarningKinds
        BY DEF WarningKinds
      <4> QED BY <4>1, <4>2, <4>3, Awaited DEF Reading, Inv
    <3> QED BY <1>12, <1>b, <2>1, <3>1 DEF RowsFollow
  <2>2. CASE r = n + 1 /\ format = "pacman -Ss"
    <3>1. next + 1 .. next' - 1 = {}
      <4>1. PICK k \in Nat : k = next
        BY <1>3
      <4>2. next' = k + 1
        BY <1>3, <4>1
      <4>3. k + 1 .. (k + 1) - 1 = {}
        BY NothingBetween, Zenon
      <4> QED BY <4>1, <4>2, <4>3, Zenon
    <3>2. /\ next \in DOMAIN output' /\ next < next' /\ output'[next].kind = "entry"
          /\ OnlyWarnings(output', next, next')
      BY <1>2, <1>3, <1>4, <3>1 DEF OnlyWarnings
    <3> QED BY <1>1, <1>4, <2>2, <3>2 DEF Awaits
  <2>3. CASE r = n + 1 /\ format # "pacman -Ss"
    BY <1>1, <1>2, <1>12, <2>3 DEF Telling
  <2> QED BY <1>b, <2>1, <2>2, <2>3
<1> QED BY <1>8, <1>9, <1>10, <1>11, <1>12, RowsFollowNext

(* A line that begins no entry leaves the rows of packages as they are.        *)
LEMMA NoEntryLists ==
  ASSUME Reading, RowsFollow, MoreLines, next' = next + 1, UNCHANGED command,
         next \notin Seen', Named' = Named,
         \A r \in Named : rows'[r].name = rows[r].name,
         Named' = DOMAIN rows' \/ Misread,
         Telling => \A r \in Named' : rows'[r].desc = rows'[r].name \/ Awaits(r)'
  PROVE  RowsFollow'
<1>1. /\ next \in DOMAIN output /\ next \in Nat
      /\ \A i \in Seen' : i \in Seen \/ i = next
      /\ \A i \in Seen : i \in Seen'
  BY OneMore DEF Reading, Inv
<1>2. Seen' = Seen
  BY <1>1
<1>3. \A r \in Named' : r \in Named /\ rows'[r].name = rows[r].name
  OBVIOUS
<1>4. ASSUME NEW r \in Named' PROVE \E i \in Seen' : output[i].item = rows'[r].name
  <2>1. PICK i \in Seen : output[i].item = rows[r].name
    BY <1>3 DEF RowsFollow
  <2> QED BY <1>1, <1>3, <2>1
<1>5. ASSUME NEW i \in Seen' PROVE \E r \in Named' : rows'[r].name = output[i].item
  <2>1. PICK r \in Named : rows[r].name = output[i].item
    BY <1>2 DEF RowsFollow
  <2> QED BY <1>3, <2>1
<1>6. ASSUME NEW r \in Named', NEW t \in Named', r < t
      PROVE  \E i, j \in Seen' :
               i < j /\ output[i].item = rows'[r].name /\ output[j].item = rows'[t].name
  <2>1. PICK i \in Seen, j \in Seen :
           i < j /\ output[i].item = rows[r].name /\ output[j].item = rows[t].name
    BY <1>3, <1>6 DEF RowsFollow
  <2> QED BY <1>1, <1>3, <2>1
<1> QED BY <1>4, <1>5, <1>6, RowsFollowNext

(* After a warning the last row still waits for its detail; an entry that is   *)
(* left out and has none changes nothing.                                      *)
LEMMA StillAwaits ==
  ASSUME Reading, MoreLines, next' = next + 1, UNCHANGED command, NEW r, Awaits(r),
         Len(rows') = Len(rows), CurrentLine.kind \in WarningKinds
  PROVE  Awaits(r)'
<1>1. PICK i \in DOMAIN output :
         i < next /\ output[i].kind = "entry" /\ OnlyWarnings(output, i, next)
  BY DEF Awaits
<1>2. /\ next \in Nat /\ DOMAIN output \subseteq Nat /\ next < next'
      /\ \A k \in Nat : k < next' <=> k < next \/ k = next
  BY OneMore DEF Reading, Inv
<1>3. OnlyWarnings(output, i, next + 1)
  <2>1. PICK n \in Nat : n = next
    BY <1>2
  <2> QED BY <1>1, <1>2, <2>1, OneMoreWarning DEF CurrentLine
<1>4. output' = output /\ format' = format /\ i < next'
  BY <1>1, <1>2 DEF command
<1> QED BY <1>1, <1>3, <1>4 DEF Awaits

LEMMA ParsePackageLists == Inv /\ ListInv /\ ParsePackage => ListInv'
<1> SUFFICES ASSUME Inv, ListInv, ParsePackage PROVE ListInv'
  OBVIOUS
<1>1. /\ MoreLines /\ format # "systemctl show" /\ at = "parse" /\ at' = "parse" /\ source # "systemd"
      /\ next' = next + 1 /\ UNCHANGED command /\ TypeOK
  <2>1. format # "systemctl show"
    BY DEF ParsePackage, PackageFormats, InstalledFormats, UpgradeFormats, SearchFormats
  <2>2. source # "systemd"
    BY <2>1 DEF Inv, FormatFits
  <2> QED BY <2>1, <2>2 DEF ParsePackage, MoreLines, Inv
<1>2. rows \in Seq(Packages) /\ output \in Seq(Lines)
  BY <1>1 DEF TypeOK
<1> SUFFICES ASSUME Reading PROVE RowsFollow'
  BY <1>1, ReadingOn
<1>3. RowsFollow
  BY <1>1 DEF ListInv, Reading
<1>4. /\ next \in DOMAIN output /\ next \in Nat
      /\ next \in Seen' <=> CurrentLine.kind \in {"entry", "Id"} /\ CurrentLine.item \notin Unlisted
  BY <1>1, OneMore
<1>5. CurrentLine \in Lines
  BY <1>2, <1>4 DEF CurrentLine
<1>6. /\ CurrentLine.kind \in {"entry", "detail"} \cup WarningKinds
      /\ CurrentLine.kind \in WarningKinds => CurrentLine.item = None
      /\ CurrentLine.kind = "warning" => Skipped(CurrentLine)
      /\ CurrentLine.kind \in {"like entry", "like detail"} => ~Skipped(CurrentLine) /\ Misread
      /\ CurrentLine.kind \in {"entry", "detail"} =>
           CurrentLine.item \in Items /\ (Skipped(CurrentLine) <=> CurrentLine.item \in Unlisted)
      /\ CurrentLine.kind \in {"detail", "like detail"} => format = "pacman -Ss"
  BY <1>1, <1>4, PackageLine
<1>a. \A r \in Named : r \in DOMAIN rows /\ (Telling => rows[r].desc = rows[r].name \/ Awaits(r))
  BY <1>3 DEF RowsFollow, Named
<1>7. CASE Skipped(CurrentLine)
  <2>1. rows' = rows /\ Named' = Named
    BY <1>7 DEF ParsePackage, Named
  <2>2. next \notin Seen'
    BY <1>4, <1>6, <1>7 DEF WarningKinds
  <2>3. format = "pacman -Ss" => CurrentLine.kind \in WarningKinds
    BY <1>7 DEF Skipped, WarningKinds
  <2>4. ASSUME Telling, NEW r \in Named' PROVE rows'[r].desc = rows'[r].name \/ Awaits(r)'
    <3>1. CASE rows[r].desc = rows[r].name
      BY <2>1, <3>1
    <3>2. CASE Awaits(r)
      <4>1. CurrentLine.kind \in WarningKinds
        BY <2>3, <3>2 DEF Awaits
      <4> QED BY <1>1, <2>1, <3>2, <4>1, StillAwaits
    <3> QED BY <1>a, <2>1, <2>4, <3>1, <3>2
  <2>5. Named' = DOMAIN rows' \/ Misread
    BY <1>3, <2>1 DEF RowsFollow
  <2> QED BY <1>1, <1>3, <2>1, <2>2, <2>4, <2>5, NoEntryLists
<1>8. CASE ~Skipped(CurrentLine) /\ CurrentLine.kind \in {"entry", "like entry"}
  <2>1. rows' = Append(rows, Row(CurrentLine))
    BY <1>8 DEF ParsePackage
  <2>3. PICK e : e = Row(CurrentLine)
    OBVIOUS
  <2>4. e \in Packages /\ e.name = CurrentLine.item
    BY <1>5, <2>3, RowIsOwn
  <2>5. format \in Described /\ format # "pacman -Ss" => e.desc = CurrentLine.item
    BY <1>1, <1>5, <2>3, EntryDescribed
  <2>6. PICK n \in Nat : n = Len(rows)
    BY <1>2
  <2>7. /\ DOMAIN rows' = 1 .. n + 1 /\ Len(rows') = n + 1
        /\ \A r \in 1 .. n : rows'[r] = rows[r]
        /\ rows'[n + 1] = e /\ DOMAIN rows = 1 .. n
    BY <1>2, <2>1, <2>3, <2>4, <2>6, Appended
  <2>8. CASE CurrentLine.kind = "entry"
    <3>1. CurrentLine.item \notin Unlisted
      BY <1>6, <1>8, <2>8
    <3> QED BY <1>1, <1>3, <2>4, <2>5, <2>7, <2>8, <3>1, EntryLists
  <2>9. CASE CurrentLine.kind = "like entry"
    <3>1. e.name = None /\ Misread /\ next \notin Seen'
      BY <1>4, <1>6, <2>4, <2>9 DEF WarningKinds
    <3>2. \A r \in 1 .. n + 1 : r \in 1 .. n \/ r = n + 1
      BY OneLonger
    <3>3. \A r \in 1 .. n : r \in 1 .. n + 1
      BY OneLonger
    <3>4. /\ \A r \in Named' : r \in Named
          /\ \A r \in Named : r \in Named' /\ rows'[r] = rows[r]
      BY <2>7, <3>1, <3>2, <3>3 DEF Named
    <3>5. ASSUME Telling, NEW r \in Named' PROVE rows'[r].desc = rows'[r].name
      <4>1. ~Awaits(r)
        BY <3>1, <3>5 DEF Telling, Awaits
      <4> QED BY <1>a, <3>4, <3>5, <4>1
    <3>6. Named' = Named
      BY <3>4
    <3> QED BY <1>1, <1>3, <3>1, <3>4, <3>5, <3>6, NoEntryLists
  <2> QED BY <1>8, <2>8, <2>9
<1>9. CASE ~Skipped(CurrentLine) /\ CurrentLine.kind \in {"detail", "like detail"}
  <2>1. next \notin Seen' /\ format = "pacman -Ss"
    BY <1>4, <1>6, <1>9
  <2>2. CASE rows = <<>>
    <3>1. rows' = rows /\ Named' = Named /\ Named = {} /\ DOMAIN rows = {}
      BY <1>9, <2>2, NothingYet DEF ParsePackage, Named
    <3> QED BY <1>1, <1>3, <2>1, <3>1, NoEntryLists
  <2>3. CASE rows # <<>>
    <3>1. rows' = [rows EXCEPT ![Len(rows)].desc = CurrentLine.item]
      BY <1>9, <2>3 DEF ParsePackage
    <3>2. PICK d \in Details : d = CurrentLine.item
      BY <1>5 DEF Lines
    <3>3. PICK t : t = [rows EXCEPT ![Len(rows)].desc = d]
      OBVIOUS
    <3>4. /\ DOMAIN t = DOMAIN rows /\ Len(t) = Len(rows)
          /\ \A r \in DOMAIN rows : t[r].name = rows[r].name
          /\ \A r \in DOMAIN rows : r # Len(rows) => t[r].desc = rows[r].desc
          /\ t[Len(rows)].desc = d
      BY <1>2, <2>3, <3>3, Redescribed
    <3>5. rows' = t
      BY <3>1, <3>2, <3>3
    <3>6. Named' = Named
      BY <3>4, <3>5 DEF Named
    <3>7. Named' = DOMAIN rows' \/ Misread
      BY <1>3, <3>4, <3>5, <3>6 DEF RowsFollow
    <3>8. ASSUME Telling, NEW r \in Named' PROVE rows'[r].desc = rows'[r].name
      <4>1. CurrentLine.kind = "detail"
        BY <1>6, <1>9, <2>1, <3>8 DEF Telling
      <4>2. PICK a \in DOMAIN output :
               /\ a < next /\ output[a].kind = "entry" /\ output[a].item = CurrentLine.item
               /\ OnlyWarnings(output, a, next)
        BY <1>4, <4>1 DEF Inv, OutputFits, WellFormed, DetailsFollow, CurrentLine
      <4>3. rows[Len(rows)].name \in {None, CurrentLine.item}
        BY <1>1, <2>1, <4>2 DEF Inv, ParserFits, LastRowIsLastEntry
      <4>4. r \in Named /\ rows[r].name # None /\ r \in DOMAIN rows
        BY <3>6, <3>8 DEF Named
      <4>5. CASE r = Len(rows)
        BY <3>2, <3>4, <3>5, <4>3, <4>4, <4>5
      <4>6. CASE r # Len(rows)
        <5>1. rows[r].desc = rows[r].name
          BY <1>a, <3>8, <4>4, <4>6 DEF Awaits
        <5> QED BY <3>4, <3>5, <4>4, <4>6, <5>1
      <4> QED BY <4>5, <4>6
    <3> QED BY <1>1, <1>3, <2>1, <3>4, <3>5, <3>6, <3>7, <3>8, NoEntryLists DEF Named
  <2> QED BY <2>2, <2>3
<1> QED BY <1>6, <1>7, <1>8, <1>9 DEF WarningKinds
--------------------------------------------------------------------------------
LEMMA LinePlaces ==
  ASSUME NEW out \in Seq(Lines)
  PROVE  DOMAIN out \subseteq Nat /\ \A k \in DOMAIN out : ~(k < k)
OBVIOUS

(* The line that is read, when units are assembled from complete output.       *)
LEMMA UnitLine ==
  ASSUME Reading, UnitsFollow, format = "systemctl show", next \in DOMAIN output
  PROVE  /\ CurrentLine.kind \in Properties \cup {"blank", "warning"}
         /\ CurrentLine.kind \in Properties => CurrentLine.item \in Items
         /\ CurrentLine.kind \in Properties /\ current.name # None => CurrentLine.item = current.name
         /\ CurrentLine.kind = "Id" => current.name = None
         /\ CurrentLine.kind \notin {"Description", "warning"} /\ current.name # None =>
              current.desc = current.name
<1>1. CurrentLine = output[next]
  BY DEF CurrentLine
<1>2. CurrentLine.kind \in Properties \cup {"blank", "warning"}
  BY <1>1 DEF Reading, Inv, OutputFits, WellFormed, Kinds, WarningsOf
<1>3. CurrentLine.kind \in Properties => CurrentLine.item \in Items
  BY <1>1 DEF Reading, OutputMatches, Whole
<1>4. ASSUME CurrentLine.kind \in Properties, current.name # None, CurrentLine.item # current.name
      PROVE  FALSE
  <2>1. FromUnit(current.name)
    BY DEF Reading, Inv, ParserFits
  <2>2. PICK j \in DOMAIN output :
          /\ j < next /\ output[j].kind \in Properties /\ output[j].item = current.name
          /\ \A k \in j + 1 .. next - 1 : output[k].kind # "blank"
    BY <1>4, <2>1 DEF FromUnit
  <2>3. \E k \in j + 1 .. next - 1 : output[k].kind = "blank"
    BY <1>1, <1>4, <2>2 DEF Reading, Inv, OutputFits, WellFormed, Grouped
  <2> QED BY <2>2, <2>3
<1>5. ASSUME current.name # None
      PROVE  \E i \in Heads(output) :
                /\ i < next /\ output[i].item = current.name
                /\ output[i].kind = "Id"
                /\ current.desc = current.name \/ CurrentLine.kind \in {"Description", "warning"}
  <2>1. PICK i \in Heads(output) :
          /\ i < next /\ output[i].item = current.name
          /\ current.desc = current.name \/ OnlyWarnings(output, i, next)
    BY <1>5 DEF UnitsFollow
  <2>2. output[i].kind = "Id" /\ i \in DOMAIN output
    BY <2>1 DEF Heads, Reading, Inv, OutputFits, WellFormed, Kinds, WarningsOf, Properties
  <2>3. ComesNext(output, i, "Description")
    BY <2>2 DEF Reading, OutputMatches, Whole
  <2>4. OnlyWarnings(output, i, next) => CurrentLine.kind \in {"Description"} \cup WarningKinds
    <3>1. "Description" \notin WarningKinds
      BY DEF WarningKinds
    <3> QED BY <2>1, <2>2, <2>3, <3>1, Awaited DEF Reading, Inv
  <2>5. CurrentLine.kind \in WarningKinds => CurrentLine.kind = "warning"
    BY <1>2 DEF Properties, WarningKinds
  <2> QED BY <2>1, <2>2, <2>4, <2>5
<1>6. ASSUME CurrentLine.kind = "Id", current.name # None PROVE FALSE
  <2>1. PICK i \in Heads(output) : i < next /\ output[i].item = current.name
    BY <1>5, <1>6
  <2>2. next \in Heads(output) /\ output[next].item = current.name
    BY <1>1, <1>4, <1>6 DEF Heads, Properties
  <2>3. i = next
    BY <2>1, <2>2 DEF Reading, OutputMatches, Matches
  <2>4. output \in Seq(Lines)
    BY DEF Reading, Inv, TypeOK
  <2> QED BY <2>1, <2>3, <2>4, LinePlaces, Zenon
<1> QED BY <1>2, <1>3, <1>4, <1>5, <1>6

LEMMA ParsePropertyLists == Inv /\ ListInv /\ ParseProperty => ListInv'
<1> SUFFICES ASSUME Inv, ListInv, ParseProperty PROVE ListInv'
  OBVIOUS
<1>1. /\ MoreLines /\ format = "systemctl show" /\ at = "parse" /\ at' = "parse"
      /\ next' = next + 1 /\ UNCHANGED command /\ rows' = rows /\ TypeOK
      /\ CurrentLine.kind # "blank"
  BY DEF ParseProperty, MoreLines, Inv
<1> SUFFICES ASSUME Reading PROVE UnitsFollow'
  BY <1>1, ReadingOn
<1>2. UnitsFollow
  BY <1>1 DEF ListInv, Reading
<1>3. /\ next \in DOMAIN output /\ next \in Nat /\ next < next'
      /\ \A i \in Seen' : i \in Seen \/ i = next
      /\ \A i \in Seen : i \in Seen' /\ i # next /\ i \in DOMAIN output /\ i < next
      /\ next \in Seen' <=> CurrentLine.kind \in {"entry", "Id"} /\ CurrentLine.item \notin Unlisted
  BY <1>1, OneMore
<1>4. /\ CurrentLine.kind \in {"Id", "Description", "State", "warning"}
      /\ CurrentLine.kind \in Properties => CurrentLine.item \in Items
      /\ CurrentLine.kind \in Properties /\ current.name # None => CurrentLine.item = current.name
      /\ CurrentLine.kind = "Id" => current.name = None
      /\ CurrentLine.kind \notin {"Description", "warning"} /\ current.name # None =>
              current.desc = current.name
  <2>1. /\ CurrentLine.kind \in Properties \cup {"blank", "warning"}
        /\ CurrentLine.kind \in Properties => CurrentLine.item \in Items
        /\ CurrentLine.kind \in Properties /\ current.name # None => CurrentLine.item = current.name
        /\ CurrentLine.kind = "Id" => current.name = None
        /\ CurrentLine.kind \notin {"Description", "warning"} /\ current.name # None =>
              current.desc = current.name
    BY <1>1, <1>2, <1>3, UnitLine
  <2>2. CurrentLine.kind \in {"Id", "Description", "State", "warning"}
    BY <1>1, <2>1 DEF Properties
  <2> QED BY <2>1, <2>2
<1>5. output' = output /\ Heads(output)' = Heads(output)
  BY <1>1 DEF command, Heads
<1>6. current \in [name : Details, desc : Details, state : Details]
  BY <1>1 DEF TypeOK
<1>7. \A i \in Heads(output) : output[i].item \in Items /\ output[i].item # None
  <2>1. \A i \in Heads(output) : output[i].item \in Items
    BY DEF Heads, Properties, Reading, OutputMatches, Whole
  <2>2. None \notin Items
    BY ItemsAssumption DEF None
  <2> QED BY <2>1, <2>2
<1>8. CASE CurrentLine.kind = "Id"
  <2>1. current' = [current EXCEPT !.name = CurrentLine.item]
    BY <1>8 DEF ParseProperty
  <2>2. current.name = None /\ current'.name = CurrentLine.item /\ CurrentLine = output[next]
    BY <1>4, <1>6, <1>8, <2>1 DEF CurrentLine
  <2>3. next \in Heads(output) /\ \A i \in Seen : output[i].item # output[next].item
    <3>1. next \in Heads(output)
      BY <1>3, <1>8, <2>2 DEF Heads
    <3>2. \A i \in Seen : i \in Heads(output) /\ i # next
      BY <1>3 DEF Seen
    <3> QED BY <3>1, <3>2 DEF Reading, OutputMatches, Matches
  <2>4. ASSUME NEW r \in DOMAIN rows
        PROVE  /\ rows[r].name # current'.name /\ rows[r].desc = rows[r].name
               /\ \E i \in Seen' : output[i].item = rows[r].name
    <3>1. rows[r].desc = rows[r].name /\ \E i \in Seen : output[i].item = rows[r].name
      BY <1>2 DEF UnitsFollow
    <3> QED BY <1>3, <2>2, <2>3, <3>1
  <2>5. ASSUME NEW i \in Seen'
        PROVE  output[i].item = current'.name \/ \E r \in DOMAIN rows : rows[r].name = output[i].item
    <3>1. CASE i = next
      BY <2>2, <3>1
    <3>2. CASE i \in Seen
      <4>1. output[i].item = current.name \/ \E r \in DOMAIN rows : rows[r].name = output[i].item
        BY <1>2, <3>2 DEF UnitsFollow
      <4>2. output[i].item # current.name
        BY <1>7, <2>2, <3>2 DEF Seen
      <4> QED BY <4>1, <4>2
    <3> QED BY <1>3, <3>1, <3>2
  <2>6. \E i \in Heads(output) :
           i < next' /\ output[i].item = current'.name /\ OnlyWarnings(output, i, next')
    <3>1. next + 1 .. next' - 1 = {}
      <4>1. PICK k \in Nat : k = next
        BY <1>1, <1>3
      <4>2. next' = k + 1
        BY <1>1, <1>3, <4>1
      <4>3. k + 1 .. (k + 1) - 1 = {}
        BY NothingBetween, Zenon
      <4> QED BY <4>1, <4>2, <4>3, Zenon
    <3>2. OnlyWarnings(output, next, next')
      BY <3>1 DEF OnlyWarnings
    <3> QED BY <1>1, <1>3, <2>2, <2>3, <3>2
  <2>7. \A r, t \in DOMAIN rows : rows[r].name = rows[t].name => r = t
    BY <1>2 DEF UnitsFollow
  <2> QED BY <1>1, <1>5, <2>4, <2>5, <2>6, <2>7 DEF UnitsFollow
<1>9. CASE CurrentLine.kind # "Id"
  <2>1. /\ current'.name = current.name
        /\ current.name # None /\ CurrentLine.kind # "warning" => current'.desc = current.name
        /\ CurrentLine.kind = "warning" => current' = current
    <3>1. CASE CurrentLine.kind = "Description"
      <4>1. current' = [current EXCEPT !.desc = CurrentLine.item]
        BY <3>1 DEF ParseProperty
      <4> QED BY <1>4, <1>6, <3>1, <4>1 DEF Properties
    <3>2. CASE CurrentLine.kind = "State"
      <4>1. current' = [current EXCEPT !.state = CurrentLine.item]
        BY <3>2 DEF ParseProperty
      <4> QED BY <1>4, <1>6, <3>2, <4>1
    <3>3. CASE CurrentLine.kind = "warning"
      <4>1. current' = current
        BY <3>3 DEF ParseProperty
      <4> QED BY <3>3, <4>1
    <3> QED BY <1>4, <1>9, <3>1, <3>2, <3>3
  <2>2. Seen' = Seen
    <3>1. next \notin Seen'
      BY <1>3, <1>4, <1>9
    <3> QED BY <1>3, <3>1
  <2>3. ASSUME current.name # None
        PROVE  \E i \in Heads(output) :
                  /\ i < next' /\ output[i].item = current.name
                  /\ current'.desc = current.name \/ OnlyWarnings(output, i, next')
    <3>1. PICK i \in Heads(output) :
             /\ i < next /\ output[i].item = current.name
             /\ current.desc = current.name \/ OnlyWarnings(output, i, next)
      BY <1>2, <2>3 DEF UnitsFollow
    <3>2. /\ i < next' /\ i \in Nat
      <4>1. /\ DOMAIN output \subseteq Nat
            /\ \A k \in Nat : k < next' <=> k < next \/ k = next
        BY <1>1, OneMore
      <4> QED BY <3>1, <4>1 DEF Heads
    <3>3. CASE CurrentLine.kind # "warning"
      BY <2>1, <2>3, <3>1, <3>2, <3>3
    <3>4. CASE CurrentLine.kind = "warning"
      <4>1. OnlyWarnings(output, i, next) => OnlyWarnings(output, i, next + 1)
        <5>1. output[next].kind \in WarningKinds
          BY <3>4 DEF CurrentLine, WarningKinds
        <5>2. PICK n \in Nat : n = next
          BY <1>3
        <5> QED BY <3>1, <3>2, <5>1, <5>2, OneMoreWarning
      <4> QED BY <1>1, <2>1, <3>1, <3>2, <3>4, <4>1
    <3> QED BY <3>3, <3>4
  <2>4. /\ \A r \in DOMAIN rows' :
               /\ rows'[r].name # current'.name /\ rows'[r].desc = rows'[r].name
               /\ \E i \in Seen' : output'[i].item = rows'[r].name
        /\ \A r, t \in DOMAIN rows' : rows'[r].name = rows'[t].name => r = t
        /\ \A i \in Seen' :
               output'[i].item = current'.name \/ \E r \in DOMAIN rows' : rows'[r].name = output'[i].item
    <3>1. rows' = rows /\ output' = output /\ current'.name = current.name
      BY <1>1, <1>5, <2>1
    <3> QED BY <1>2, <2>2, <3>1 DEF UnitsFollow
  <2>5. current'.name # None =>
          \E i \in Heads(output') :
             /\ i < next' /\ output'[i].item = current'.name
             /\ current'.desc = current'.name \/ OnlyWarnings(output', i, next')
    BY <1>5, <2>1, <2>3
  <2> QED BY <2>4, <2>5 DEF UnitsFollow
<1> QED BY <1>8, <1>9
--------------------------------------------------------------------------------
LEMMA Places ==
  ASSUME NEW S, NEW s \in Seq(S)
  PROVE  DOMAIN s \subseteq Nat /\ Len(s) \in Nat /\ DOMAIN s = 1 .. Len(s)
         /\ \A i \in DOMAIN s : s[i] \in S
OBVIOUS

LEMMA OneMorePlace ==
  ASSUME NEW S, NEW s \in Seq(S), NEW e \in S, NEW t, t = Append(s, e), NEW n, n = Len(s)
  PROVE  /\ n \in Nat /\ DOMAIN s = 1 .. n /\ DOMAIN t = 1 .. n + 1 /\ Len(t) = n + 1
         /\ \A r \in 1 .. n : t[r] = s[r]
         /\ t[n + 1] = e
OBVIOUS

Settled ==
  /\ UnitsFollow /\ format = "systemctl show" /\ rows \in Seq(Units)
  /\ current \in [name : Details, desc : Details, state : Details]
  /\ current.name # None => current.desc = current.name

(* What is stored of complete output: the units read so far, each once.        *)
LEMMA StoredLists ==
  ASSUME Reading, Settled, NEW stored, stored = Stored
  PROVE  /\ \A r \in DOMAIN stored :
               /\ stored[r].name # None /\ stored[r].desc = stored[r].name
               /\ \E i \in Seen : output[i].item = stored[r].name
         /\ \A r, t \in DOMAIN stored : stored[r].name = stored[t].name => r = t
         /\ \A i \in Seen : \E r \in DOMAIN stored : stored[r].name = output[i].item
<1>1. PICK n : n = Len(rows)
  OBVIOUS
<1>2. n \in Nat /\ DOMAIN rows = 1 .. n /\ \A r \in 1 .. n : rows[r].name # None
  <2>1. None \notin Items
    BY ItemsAssumption DEF None
  <2>2. \A unit \in Units : unit.name \in Items
    BY DEF Units
  <2>3. rows \in Seq(Units)
    BY DEF Settled
  <2>4. n \in Nat /\ DOMAIN rows = 1 .. n /\ \A r \in 1 .. n : rows[r] \in Units
    BY <1>1, <2>3, Places
  <2> QED BY <2>1, <2>2, <2>4
<1>3. /\ \A r \in DOMAIN rows :
            /\ rows[r].name # current.name /\ rows[r].desc = rows[r].name
            /\ \E i \in Seen : output[i].item = rows[r].name
      /\ \A r, t \in DOMAIN rows : rows[r].name = rows[t].name => r = t
      /\ \A i \in Seen :
            output[i].item = current.name \/ \E r \in DOMAIN rows : rows[r].name = output[i].item
      /\ current.name # None =>
            \E i \in Heads(output) : i < next /\ output[i].item = current.name
  BY DEF Settled, UnitsFollow
<1>4. Unlisted = Foreign
  BY DEF Settled, Unlisted
<1>5. \A i \in Seen : output[i].item \in Items \ Foreign
  BY <1>4 DEF Seen, Heads, Properties, Reading, OutputMatches, Whole
<1>6. CASE current.name \in Items \ Foreign
  <2>1. current \in Units /\ current.name # None
    <3>1. None \notin Items
      BY ItemsAssumption DEF None
    <3> QED BY <1>6, <3>1 DEF Units, Settled
  <2>2. stored = Append(rows, current)
    BY <1>6 DEF Stored
  <2>3. /\ DOMAIN stored = 1 .. n + 1 /\ stored[n + 1] = current
        /\ \A r \in 1 .. n : stored[r] = rows[r]
    <3>1. rows \in Seq(Units)
      BY DEF Settled
    <3> QED BY <1>1, <2>1, <2>2, <3>1, OneMorePlace
  <2>4. /\ \A r \in 1 .. n + 1 : r \in 1 .. n \/ r = n + 1
        /\ n + 1 \in 1 .. n + 1 /\ \A r \in 1 .. n : r \in 1 .. n + 1
    BY <1>2, OneLonger
  <2>5. PICK h \in Heads(output) : h < next /\ output[h].item = current.name
    BY <1>3, <2>1
  <2>6. h \in Seen
    BY <1>4, <1>6, <2>5 DEF Seen
  <2>7. \A r \in DOMAIN stored :
           /\ stored[r].name # None /\ stored[r].desc = stored[r].name
           /\ \E i \in Seen : output[i].item = stored[r].name
    <3>1. ASSUME NEW r \in 1 .. n
          PROVE  /\ stored[r].name # None /\ stored[r].desc = stored[r].name
                 /\ \E i \in Seen : output[i].item = stored[r].name
      <4>1. r \in DOMAIN rows /\ stored[r] = rows[r]
        BY <1>2, <2>3
      <4> QED BY <1>2, <1>3, <4>1
    <3>2. /\ stored[n + 1].name # None /\ stored[n + 1].desc = stored[n + 1].name
          /\ \E i \in Seen : output[i].item = stored[n + 1].name
      <4>1. current.desc = current.name
        BY <2>1 DEF Settled
      <4> QED BY <2>1, <2>3, <2>5, <2>6, <4>1
    <3> QED BY <2>3, <2>4, <3>1, <3>2
  <2>8. ASSUME NEW r \in DOMAIN stored, NEW t \in DOMAIN stored, stored[r].name = stored[t].name
        PROVE  r = t
    <3>0. \A q \in 1 .. n : q \in DOMAIN rows /\ stored[q] = rows[q]
      BY <1>2, <2>3
    <3>1. r \in 1 .. n /\ t \in 1 .. n => r = t
      BY <1>3, <2>8, <3>0
    <3>2. \A q \in 1 .. n : stored[q].name # stored[n + 1].name
      BY <1>3, <2>3, <3>0
    <3>3. (r \in 1 .. n => t # n + 1) /\ (t \in 1 .. n => r # n + 1)
      BY <2>8, <3>2
    <3> QED BY <2>3, <2>4, <3>1, <3>2, <3>3
  <2>9. ASSUME NEW i \in Seen PROVE \E r \in DOMAIN stored : stored[r].name = output[i].item
    <3>1. CASE output[i].item = current.name
      BY <2>3, <2>4, <3>1
    <3>2. CASE output[i].item # current.name
      <4>1. PICK r \in DOMAIN rows : rows[r].name = output[i].item
        BY <1>3, <3>2
      <4> QED BY <1>2, <2>3, <2>4, <4>1
    <3> QED BY <3>1, <3>2
  <2> QED BY <2>7, <2>8, <2>9
<1>7. CASE current.name \notin Items \ Foreign
  <2>1. stored = rows
    BY <1>7 DEF Stored
  <2>2. \A i \in Seen : output[i].item # current.name
    BY <1>5, <1>7
  <2>3. \A r \in DOMAIN rows :
           /\ rows[r].name # None /\ rows[r].desc = rows[r].name
           /\ \E i \in Seen : output[i].item = rows[r].name
    BY <1>2, <1>3
  <2>4. \A i \in Seen : \E r \in DOMAIN rows : rows[r].name = output[i].item
    BY <1>3, <2>2
  <2> QED BY <1>3, <2>1, <2>3, <2>4
<1> QED BY <1>6, <1>7

LEMMA ParseBlankLists == Inv /\ ListInv /\ ParseBlank => ListInv'
<1> SUFFICES ASSUME Inv, ListInv, ParseBlank PROVE ListInv'
  OBVIOUS
<1>1. /\ MoreLines /\ format = "systemctl show" /\ at = "parse" /\ at' = "parse"
      /\ source = "systemd" /\ next' = next + 1 /\ UNCHANGED command /\ TypeOK
      /\ rows' = Stored /\ current' = NoUnit /\ CurrentLine.kind = "blank"
  BY DEF ParseBlank, Finish, MoreLines, Inv, FormatFits
<1> SUFFICES ASSUME Reading PROVE UnitsFollow'
  BY <1>1, ReadingOn
<1>2. UnitsFollow
  BY <1>1 DEF ListInv, Reading
<1>3. /\ next \in DOMAIN output
      /\ \A i \in Seen' : i \in Seen \/ i = next
      /\ \A i \in Seen : i \in Seen'
      /\ next \in Seen' <=> CurrentLine.kind \in {"entry", "Id"} /\ CurrentLine.item \notin Unlisted
  BY <1>1, OneMore
<1>4. Seen' = Seen
  BY <1>1, <1>3
<1>5. current.name # None => current.desc = current.name
  BY <1>1, <1>2, <1>3, UnitLine
<1>6. rows \in Seq(Units) /\ current \in [name : Details, desc : Details, state : Details]
  BY <1>1 DEF TypeOK
<1>7. PICK stored : stored = Stored
  OBVIOUS
<1>8. /\ \A r \in DOMAIN stored :
            /\ stored[r].name # None /\ stored[r].desc = stored[r].name
            /\ \E i \in Seen : output[i].item = stored[r].name
      /\ \A r, t \in DOMAIN stored : stored[r].name = stored[t].name => r = t
      /\ \A i \in Seen : \E r \in DOMAIN stored : stored[r].name = output[i].item
  <2>1. Settled
    BY <1>1, <1>2, <1>5, <1>6 DEF Settled
  <2> QED BY <1>7, <2>1, StoredLists
<1>9. rows' = stored /\ output' = output /\ current'.name = None
  BY <1>1, <1>7 DEF command, NoUnit
<1> QED BY <1>4, <1>8, <1>9 DEF UnitsFollow

(* When nothing is left to read, every head has been seen or is left out.      *)
LEMMA AllSeen ==
  ASSUME TypeOK, next > Len(output)
  PROVE  /\ \A i \in Heads(output) : i \in Seen \/ output[i].item \in Unlisted
         /\ \A i \in Seen : i \in Heads(output) /\ output[i].item \notin Unlisted
         /\ next \notin DOMAIN output
<1>1. output \in Seq(Lines) /\ next \in Nat
  <2>1. output \in Seq(Lines) /\ next \in 1 .. Len(output) + 1
    BY DEF TypeOK
  <2> QED BY <2>1
<1>2. \A i \in DOMAIN output : i < next
  BY <1>1
<1>3. next \notin DOMAIN output
  BY <1>1
<1> QED BY <1>2, <1>3 DEF Seen, Heads

(* What is shown accounts for what was printed.                                *)
Shown ==
  /\ {rows[i].name : i \in Named} = {printed[k] : k \in DOMAIN printed} \ Unlisted
  /\ \A i, j \in Named : i < j =>
        IF source = "systemd" THEN rows[i].name < rows[j].name
        ELSE PrintedInOrder(rows[i].name, rows[j].name)
  /\ \A i, j \in Named : rows[i].name = rows[j].name => i = j
  /\ Named = DOMAIN rows \/ Misread
  /\ format \in Described /\ (format = "pacman -Ss" => ~Misread) =>
        \A i \in Named : rows[i].desc = rows[i].name

LEMMA ShownAgain ==
  ASSUME UNCHANGED <<rows, printed, format, source, output>>
  PROVE  Shown' = Shown
<1>1. Unlisted' = Unlisted /\ Described' = Described /\ Named' = Named /\ Misread' = Misread
  BY DEF Unlisted, Described, Named, Misread
<1>2. \A x, y : PrintedInOrder(x, y)' = PrintedInOrder(x, y)
  BY DEF PrintedInOrder
<1>3. rows' = rows /\ printed' = printed /\ format' = format /\ source' = source
  OBVIOUS
<1>4. \A S, s, t : s = t => {s[i].name : i \in S} = {t[i].name : i \in S}
  OBVIOUS
<1>5. \A s, t : s = t => {s[i] : i \in DOMAIN s} = {t[i] : i \in DOMAIN t}
  OBVIOUS
<1>6. PICK r, n, p : r = rows /\ n = Named /\ p = printed
  OBVIOUS
<1>7. {rows'[i].name : i \in n} = {r[i].name : i \in n}
  BY <1>3, <1>4, <1>6, Zenon
<1>8. {printed'[k] : k \in DOMAIN printed'} = {p[k] : k \in DOMAIN p}
  BY <1>3, <1>5, <1>6, Zenon
<1>9. Named' = n /\ Named = n
  BY <1>1, <1>6
<1>10. ({rows[i].name : i \in Named} = {printed[k] : k \in DOMAIN printed} \ Unlisted)'
         <=> {rows[i].name : i \in Named} = {printed[k] : k \in DOMAIN printed} \ Unlisted
  BY <1>1, <1>6, <1>7, <1>8, <1>9
<1>11. (\A i, j \in Named : i < j =>
          IF source = "systemd" THEN rows[i].name < rows[j].name
          ELSE PrintedInOrder(rows[i].name, rows[j].name))'
         <=> \A i, j \in Named : i < j =>
               IF source = "systemd" THEN rows[i].name < rows[j].name
               ELSE PrintedInOrder(rows[i].name, rows[j].name)
  BY <1>1, <1>2, <1>3
<1>12. (\A i, j \in Named : rows[i].name = rows[j].name => i = j)'
         <=> \A i, j \in Named : rows[i].name = rows[j].name => i = j
  BY <1>1, <1>3
<1>13. (Named = DOMAIN rows \/ Misread)' <=> Named = DOMAIN rows \/ Misread
  BY <1>1, <1>3
<1>14. (format \in Described /\ (format = "pacman -Ss" => ~Misread) =>
          \A i \in Named : rows[i].desc = rows[i].name)'
         <=> (format \in Described /\ (format = "pacman -Ss" => ~Misread) =>
                \A i \in Named : rows[i].desc = rows[i].name)
  BY <1>1, <1>3
<1> QED BY <1>10, <1>11, <1>12, <1>13, <1>14 DEF Shown

LEMMA EndOfPackagesLists == Inv /\ ListInv /\ EndOfPackages => ListInv'
<1> SUFFICES ASSUME Inv, ListInv, EndOfPackages PROVE ListInv'
  OBVIOUS
<1>1. /\ at = "parse" /\ at' = "shown" /\ UNCHANGED <<command, rows>> /\ next > Len(output)
      /\ format # "systemctl show" /\ source # "systemd" /\ TypeOK
  <2>1. format # "systemctl show"
    BY DEF EndOfPackages, PackageFormats, InstalledFormats, UpgradeFormats, SearchFormats
  <2> QED BY <2>1 DEF EndOfPackages, AtEnd, Inv, FormatFits
<1>2. /\ rows' = rows /\ output' = output /\ format' = format /\ source' = source
      /\ printed' = printed /\ exit' = exit /\ lost' = lost /\ notices' = notices
  BY <1>1 DEF command
<1> SUFFICES ASSUME Complete PROVE ListsWhatWasPrinted'
  BY <1>1, <1>2 DEF ListInv, ListsWhatWasPrinted, Complete
<1>3. RowsFollow /\ OutputMatches
  BY <1>1 DEF ListInv
<1>4. /\ \A i \in Heads(output) : i \in Seen \/ output[i].item \in Unlisted
      /\ \A i \in Seen : i \in Heads(output) /\ output[i].item \notin Unlisted
      /\ next \notin DOMAIN output
  BY <1>1, AllSeen
<1>5. Matches(output, printed)
  BY <1>3 DEF OutputMatches
<1>6. \A r \in Named :
         rows[r].name \notin Unlisted /\ \E k \in DOMAIN printed : printed[k] = rows[r].name
  <2> SUFFICES ASSUME NEW r \in Named
               PROVE  rows[r].name \notin Unlisted /\ \E k \in DOMAIN printed : printed[k] = rows[r].name
    OBVIOUS
  <2>1. PICK i \in Seen : output[i].item = rows[r].name
    BY <1>3 DEF RowsFollow
  <2>2. i \in Heads(output) /\ output[i].item \notin Unlisted
    BY <1>4
  <2>3. \E k \in DOMAIN printed : printed[k] = output[i].item
    BY <1>5, <2>2 DEF Matches
  <2> QED BY <2>1, <2>2, <2>3
<1>7. \A k \in DOMAIN printed : printed[k] \notin Unlisted =>
         \E r \in Named : rows[r].name = printed[k]
  <2> SUFFICES ASSUME NEW k \in DOMAIN printed, printed[k] \notin Unlisted
               PROVE  \E r \in Named : rows[r].name = printed[k]
    OBVIOUS
  <2>1. PICK i \in Heads(output) : output[i].item = printed[k]
    BY <1>5 DEF Matches
  <2>2. i \in Seen
    BY <1>4, <2>1
  <2>3. \E r \in Named : rows[r].name = output[i].item
    BY <1>3, <2>2 DEF RowsFollow
  <2> QED BY <2>1, <2>3
<1>8. \A r, t \in Named : r < t =>
         PrintedInOrder(rows[r].name, rows[t].name) /\ rows[r].name # rows[t].name
  <2> SUFFICES ASSUME NEW r \in Named, NEW t \in Named, r < t
               PROVE  PrintedInOrder(rows[r].name, rows[t].name) /\ rows[r].name # rows[t].name
    OBVIOUS
  <2>1. PICK i \in Seen, j \in Seen :
           i < j /\ output[i].item = rows[r].name /\ output[j].item = rows[t].name
    BY <1>3 DEF RowsFollow
  <2>2. i \in Heads(output) /\ j \in Heads(output)
    BY <1>4
  <2>3. PrintedInOrder(rows[r].name, rows[t].name)
    BY <1>5, <2>1, <2>2 DEF Matches, Ordered, PrintedInOrder
  <2>4. i # j
    <3>1. output \in Seq(Lines)
      BY <1>1 DEF TypeOK
    <3> QED BY <2>1, <2>2, <3>1, LinePlaces DEF Heads
  <2> QED BY <1>5, <2>1, <2>2, <2>3, <2>4 DEF Matches
<1>9. \A r, t \in Named : rows[r].name = rows[t].name => r = t
  <2>1. Named \subseteq Nat
    <3>1. rows \in Seq(IF source = "systemd" THEN Units ELSE Packages)
      BY <1>1 DEF TypeOK
    <3>2. DOMAIN rows \subseteq Nat
      BY <3>1, Places, Zenon
    <3> QED BY <3>2 DEF Named
  <2>2. \A r, t \in Nat : r < t \/ t < r \/ r = t
    OBVIOUS
  <2> QED BY <1>8, <2>1, <2>2, Zenon
<1>10. Telling => \A r \in Named : rows[r].desc = rows[r].name
  <2>1. ASSUME NEW r, Awaits(r) PROVE FALSE
    <3>1. PICK i \in DOMAIN output :
             i < next /\ output[i].kind = "entry" /\ OnlyWarnings(output, i, next)
      BY <2>1 DEF Awaits
    <3>2. ComesNext(output, i, "detail")
      BY <1>3, <2>1, <3>1 DEF Awaits, OutputMatches, Whole
    <3>3. "detail" \notin WarningKinds
      BY DEF WarningKinds
    <3> QED BY <1>1, <1>4, <3>1, <3>2, <3>3, Awaited
  <2> QED BY <1>3, <2>1 DEF RowsFollow
<1>11. {rows[i].name : i \in Named} = {printed[k] : k \in DOMAIN printed} \ Unlisted
  BY <1>6, <1>7
<1>12. \A r, t \in Named : r < t =>
          IF source = "systemd" THEN rows[r].name < rows[t].name
          ELSE PrintedInOrder(rows[r].name, rows[t].name)
  BY <1>1, <1>8
<1>13. Shown
  BY <1>3, <1>9, <1>10, <1>11, <1>12 DEF Shown, Telling, RowsFollow
<1>14. Shown' = Shown
  BY <1>2, ShownAgain
<1> QED BY <1>13, <1>14 DEF ListsWhatWasPrinted, Shown

(* Sorting loses nothing, adds nothing, and repeats nothing.                   *)
LEMMA SortedOnce ==
  ASSUME NEW units, NEW s \in SortedByName(units)
  PROVE  \E order \in [DOMAIN units -> DOMAIN units] :
           /\ DOMAIN s = DOMAIN units
           /\ \A i \in DOMAIN s : order[i] \in DOMAIN units /\ s[i] = units[order[i]]
           /\ \A i, j \in DOMAIN s : order[i] = order[j] => i = j
           /\ \A k \in DOMAIN units : \E i \in DOMAIN s : order[i] = k
           /\ \A i, j \in DOMAIN s : i < j => s[i].name <= s[j].name
<1>1. PICK order \in Bijection(DOMAIN units, DOMAIN units) :
             s = [i \in DOMAIN units |-> units[order[i]]]
  BY DEF SortedByName
<1>2. /\ order \in [DOMAIN units -> DOMAIN units]
      /\ \A i, j \in DOMAIN units : order[i] = order[j] => i = j
      /\ \A k \in DOMAIN units : \E i \in DOMAIN units : order[i] = k
  BY <1>1 DEF Bijection, Injection, Surjection, IsInjective
<1>3. \A i, j \in DOMAIN s : i < j => s[i].name <= s[j].name
  BY DEF SortedByName
<1>4. DOMAIN s = DOMAIN units /\ \A i \in DOMAIN s : order[i] \in DOMAIN units /\ s[i] = units[order[i]]
  BY <1>1, <1>2
<1> QED BY <1>2, <1>3, <1>4

LEMMA EndOfUnitsLists == Inv /\ ListInv /\ EndOfUnits => ListInv'
<1> SUFFICES ASSUME Inv, ListInv, EndOfUnits PROVE ListInv'
  OBVIOUS
<1>1. /\ at = "parse" /\ at' = "shown" /\ UNCHANGED command /\ next > Len(output)
      /\ format = "systemctl show" /\ source = "systemd" /\ TypeOK
      /\ rows' \in SortedByName(Stored)
  BY DEF EndOfUnits, AtEnd, Inv, FormatFits
<1>2. /\ output' = output /\ format' = format /\ source' = source
      /\ printed' = printed /\ exit' = exit /\ lost' = lost /\ notices' = notices
  BY <1>1 DEF command
<1> SUFFICES ASSUME Complete PROVE Shown'
  BY <1>1, <1>2 DEF ListInv, ListsWhatWasPrinted, Complete, Shown
<1>3. UnitsFollow /\ OutputMatches /\ Reading
  BY <1>1 DEF ListInv, Reading
<1>4. /\ \A i \in Heads(output) : i \in Seen \/ output[i].item \in Unlisted
      /\ \A i \in Seen : i \in Heads(output) /\ output[i].item \notin Unlisted
      /\ next \notin DOMAIN output
  BY <1>1, AllSeen
<1>5. Settled
  <2>1. rows \in Seq(Units) /\ current \in [name : Details, desc : Details, state : Details]
    BY <1>1 DEF TypeOK
  <2>2. ASSUME current.name # None PROVE current.desc = current.name
    <3>1. PICK i \in Heads(output) :
             i < next /\ (current.desc = current.name \/ OnlyWarnings(output, i, next))
      BY <1>3, <2>2 DEF UnitsFollow
    <3>2. output[i].kind = "Id" /\ i \in DOMAIN output
      BY <1>1 DEF Heads, Inv, OutputFits, WellFormed, Kinds, WarningsOf, Properties
    <3>3. ComesNext(output, i, "Description")
      BY <1>3, <3>2 DEF OutputMatches, Whole
    <3>4. "Description" \notin WarningKinds
      BY DEF WarningKinds
    <3> QED BY <1>1, <1>4, <3>1, <3>2, <3>3, <3>4, Awaited
  <2> QED BY <1>1, <1>3, <2>1, <2>2 DEF Settled
<1>6. PICK stored : stored = Stored
  OBVIOUS
<1>7. /\ \A r \in DOMAIN stored :
            /\ stored[r].name # None /\ stored[r].desc = stored[r].name
            /\ \E i \in Seen : output[i].item = stored[r].name
      /\ \A r, t \in DOMAIN stored : stored[r].name = stored[t].name => r = t
      /\ \A i \in Seen : \E r \in DOMAIN stored : stored[r].name = output[i].item
  BY <1>3, <1>5, <1>6, StoredLists
<1>8. PICK s : s = rows'
  OBVIOUS
<1>9. PICK order \in [DOMAIN stored -> DOMAIN stored] :
           /\ DOMAIN s = DOMAIN stored
           /\ \A i \in DOMAIN s : order[i] \in DOMAIN stored /\ s[i] = stored[order[i]]
           /\ \A i, j \in DOMAIN s : order[i] = order[j] => i = j
           /\ \A k \in DOMAIN stored : \E i \in DOMAIN s : order[i] = k
           /\ \A i, j \in DOMAIN s : i < j => s[i].name <= s[j].name
  <2>1. s \in SortedByName(stored)
    BY <1>1, <1>6, <1>8
  <2> QED BY <2>1, SortedOnce
<1>10. Matches(output, printed)
  BY <1>3 DEF OutputMatches
<1>11. ASSUME NEW i \in DOMAIN s
       PROVE  /\ s[i].desc = s[i].name /\ s[i].name \notin Unlisted
              /\ \E k \in DOMAIN printed : printed[k] = s[i].name
  <2>1. order[i] \in DOMAIN stored /\ s[i] = stored[order[i]]
    BY <1>9
  <2>2. PICK h \in Seen : output[h].item = s[i].name
    BY <1>7, <2>1
  <2>3. h \in Heads(output) /\ output[h].item \notin Unlisted
    BY <1>4
  <2>4. \E k \in DOMAIN printed : printed[k] = output[h].item
    BY <1>10, <2>3 DEF Matches
  <2> QED BY <1>7, <2>1, <2>2, <2>3, <2>4
<1>12. ASSUME NEW k \in DOMAIN printed, printed[k] \notin Unlisted
       PROVE  \E i \in DOMAIN s : s[i].name = printed[k]
  <2>1. PICK h \in Heads(output) : output[h].item = printed[k]
    BY <1>10 DEF Matches
  <2>2. h \in Seen
    BY <1>4, <1>12, <2>1
  <2>3. PICK r \in DOMAIN stored : stored[r].name = printed[k]
    BY <1>7, <2>1, <2>2
  <2>4. PICK i \in DOMAIN s : order[i] = r
    BY <1>9
  <2> QED BY <1>9, <2>3, <2>4
<1>13. ASSUME NEW i \in DOMAIN s, NEW j \in DOMAIN s, s[i].name = s[j].name PROVE i = j
  <2>1. order[i] = order[j]
    BY <1>7, <1>9, <1>13
  <2> QED BY <1>9, <2>1
<1>14. \A i \in DOMAIN s : s[i].name \in Nat
  <2>1. \A k \in DOMAIN printed : printed[k] \in Nat
    <3>1. printed \in Seq(Items)
      BY <1>1 DEF TypeOK
    <3>2. \A k \in DOMAIN printed : printed[k] \in Items
      BY <3>1, Places
    <3> QED BY <3>2, ItemsAssumption
  <2> QED BY <1>11, <2>1
<1>15. stored \in Seq(Units)
  BY <1>1, <1>6, StoredIsOwn
<1>16. ASSUME NEW i \in DOMAIN s, NEW j \in DOMAIN s, i < j PROVE s[i].name < s[j].name
  <2>1. i # j
    <3>1. DOMAIN stored \subseteq Nat
      BY <1>15, Places, Zenon
    <3> QED BY <1>9, <1>16, <3>1
  <2>2. s[i].name <= s[j].name /\ s[i].name # s[j].name
    BY <1>9, <1>13, <1>16, <2>1
  <2> QED BY <1>14, <2>2
<1>17. /\ {s[i].name : i \in DOMAIN s} = {printed[k] : k \in DOMAIN printed} \ Unlisted
       /\ \A i \in DOMAIN s : s[i].desc = s[i].name
  BY <1>11, <1>12
<1>18. Unlisted' = Unlisted
  BY <1>2 DEF Unlisted
<1>19. /\ {rows'[i].name : i \in DOMAIN rows'} = {printed'[k] : k \in DOMAIN printed'} \ Unlisted'
       /\ \A i \in DOMAIN rows' : rows'[i].desc = rows'[i].name
       /\ \A i, j \in DOMAIN rows' : rows'[i].name = rows'[j].name => i = j
  BY <1>2, <1>8, <1>13, <1>17, <1>18
<1>20. /\ source' = "systemd"
       /\ \A i, j \in DOMAIN rows' : i < j => rows'[i].name < rows'[j].name
  BY <1>1, <1>2, <1>8, <1>16
<1>21. Named' = DOMAIN rows'
  <2>1. rows' \in Seq(Units)
    BY <1>1, <1>15, <1>6, SortedAreThere
  <2>2. \A i \in DOMAIN rows' : rows'[i].name # None
    BY <2>1, UnitsAreNamed
  <2> QED BY <2>2 DEF Named
<1> QED BY <1>19, <1>20, <1>21 DEF Shown

LEMMA ListInvAtFirst == Init => ListInv
<1> SUFFICES ASSUME Init PROVE ListInv
  OBVIOUS
<1>1. DOMAIN output = {} /\ DOMAIN printed = {} /\ at = "idle"
  BY NothingYet DEF Init
<1> QED BY <1>1 DEF ListInv, ListsWhatWasPrinted

LEMMA ListInvNext == Inv /\ ListInv /\ [Next]_vars => ListInv'
<1> SUFFICES ASSUME Inv, ListInv, [Next]_vars PROVE ListInv'
  OBVIOUS
<1>1. ASSUME NEW f, Run(f) PROVE ListInv'
  BY <1>1, StartLists DEF Run
<1>2. CASE NotRun
  BY <1>2, StartLists DEF NotRun
<1>3. CASE Load
  BY <1>1, <1>2, <1>3 DEF Load
<1>4. CASE FallBack
  BY <1>1, <1>4 DEF FallBack
<1>5. CASE UNCHANGED vars
  <2>1. UNCHANGED <<command, at, next, rows, current>>
    BY <1>5 DEF vars
  <2>2. /\ UnitsFollow' = UnitsFollow /\ RowsFollow' = RowsFollow
        /\ Complete' = Complete /\ OutputMatches' = OutputMatches
    BY <2>1, SameLists
  <2>3. ListsWhatWasPrinted' = ListsWhatWasPrinted
    <3>1. UNCHANGED <<rows, printed, format, source, exit, lost, output, at>>
      BY <2>1 DEF command
    <3>2. Shown' = Shown
      BY <3>1, ShownAgain
    <3> QED BY <3>1, <3>2 DEF ListsWhatWasPrinted, Shown
  <2>4. at' = at /\ rows' = rows /\ format' = format
    BY <2>1 DEF command
  <2> QED BY <2>2, <2>3, <2>4 DEF ListInv
<1> QED BY <1>3, <1>4, <1>5, PrintItemLists, PrintNoticeLists, EndLists, StatusLists,
           ParsePackageLists, EndOfPackagesLists, ParsePropertyLists, ParseBlankLists,
           EndOfUnitsLists DEF Next

(* What is shown of a command that succeeded is what it printed.               *)
THEOREM PrintedIsListed == Spec => []ListsWhatWasPrinted
<1>1. Inv /\ ListInv => ListsWhatWasPrinted
  BY DEF ListInv
<1> QED BY <1>1, InvAtFirst, InvNext, ListInvAtFirst, ListInvNext, PTL DEF Spec
================================================================================
