------------------------------ MODULE StorageProofs ------------------------------
(* Proofs about the list of file systems, for any mount points, any sizes and  *)
(* any number of mounts made while it is read.                                 *)
EXTENDS Storage, FiniteSetTheorems, TLAPS

(* What Finish makes of the entries: the ones with capacity, each at one place. *)
LEMMA Arranged ==
  ASSUME TypeOK, Finish
  PROVE  \E order : /\ DOMAIN order = DOMAIN table'
                    /\ \E n \in Nat : DOMAIN order = 1 .. n
                    /\ \A i \in DOMAIN order : /\ order[i] \in WithCapacity
                                               /\ table'[i] = entries[order[i]]
                    /\ \A i, j \in DOMAIN order : order[i] = order[j] => i = j
                    /\ \A k \in WithCapacity : \E i \in DOMAIN order : order[i] = k
<1>1. PICK order \in Bijection(1 .. Cardinality(WithCapacity), WithCapacity) :
             table' = [i \in DOMAIN order |-> entries[order[i]]]
  BY DEF Finish
<1>2. Cardinality(WithCapacity) \in Nat
  <2>1. DOMAIN entries = 1 .. Len(entries) /\ Len(entries) \in Nat
    BY DEF TypeOK
  <2>2. IsFiniteSet(DOMAIN entries)
    BY <2>1, FS_Interval
  <2>3. IsFiniteSet(WithCapacity)
    BY <2>2, FS_Subset DEF WithCapacity
  <2> QED BY <2>3, FS_CardinalityType
<1>3. /\ order \in [1 .. Cardinality(WithCapacity) -> WithCapacity]
      /\ \A i, j \in DOMAIN order : order[i] = order[j] => i = j
      /\ \A k \in WithCapacity : \E i \in 1 .. Cardinality(WithCapacity) : order[i] = k
  BY <1>1 DEF Bijection, Injection, Surjection, IsInjective
<1> QED BY <1>1, <1>2, <1>3

LEMMA TypeInit == Init => TypeOK
<1> SUFFICES ASSUME Init PROVE TypeOK
  OBVIOUS
<1>1. PICK size \in Sizes : mounted = {Root(size)}
  BY DEF Init
<1>2. mounted \in SUBSET MountRecord
  BY <1>1 DEF Root, Mount, MountRecord
<1> QED BY <1>2 DEF Init, TypeOK

LEMMA EntryType ==
  ASSUME NEW m \in MountRecord
  PROVE  /\ Entry(m) \in EntryRecord
         /\ Entry(m).mount = m.id /\ Entry(m).dir = Decoded(m.dir)
         /\ Entry(m).total = 0 /\ Entry(m).of = 0
BY DEF Entry, Decoded, MountRecord, EntryRecord

LEMMA TypeStep == TypeOK /\ [Next]_vars => TypeOK'
<1> SUFFICES ASSUME TypeOK, [Next]_vars PROVE TypeOK'
  OBVIOUS
<1>a. \A m \in mounted : m \in MountRecord /\ m.id \in Nat /\ m.size \in Nat
  BY SizesAssumption DEF TypeOK, MountRecord
<1>1. CASE Refresh
  <2>1. Covered \in SUBSET Nat
    BY <1>a DEF Covered
  <2> QED BY <1>1, <2>1 DEF Refresh, Begin, host, TypeOK
<1>2. CASE CannotOpen
  BY <1>2, <1>a DEF CannotOpen, host, history, TypeOK
<1>3. CASE SkipPseudo
  BY <1>3, <1>a DEF SkipPseudo, host, history, TypeOK
<1>4. CASE ReadMount
  <2>1. PICK m \in mounted : cursor' = m.id /\ entries' = Append(entries, Entry(m))
    BY <1>4 DEF ReadMount
  <2>2. entries' \in Seq(EntryRecord) /\ Len(entries') = Len(entries) + 1
    BY <1>a, <2>1, EntryType DEF TypeOK
  <2> QED BY <1>4, <1>a, <2>1, <2>2 DEF ReadMount, host, history, TypeOK
<1>5. CASE EndOfMounts
  BY <1>5 DEF EndOfMounts, host, listing, history, TypeOK
<1>6. CASE StatMount
  <2>1. PICK m \in Reached(entries[next].dir) :
              entries' = [entries EXCEPT ![next] = [@ EXCEPT !.total = m.size, !.of = m.id]]
    BY <1>6 DEF StatMount
  <2>2. m \in mounted /\ next \in DOMAIN entries
    BY <1>6, <2>1 DEF StatMount, Pending, Reached, MountsAt, TypeOK
  <2>a. entries[next] \in EntryRecord /\ m.size \in Nat /\ m.id \in Nat
    BY <1>a, <2>2 DEF TypeOK
  <2>3. [entries[next] EXCEPT !.total = m.size, !.of = m.id] \in EntryRecord
    BY <2>a DEF EntryRecord
  <2>4. entries' \in Seq(EntryRecord) /\ Len(entries') = Len(entries)
    BY <2>1, <2>2, <2>3 DEF TypeOK
  <2>5. next' \in 1 .. Len(entries') + 1
    BY <1>6, <2>2, <2>4 DEF StatMount, Pending, TypeOK
  <2>6. UNCHANGED <<host, at, cursor, refused, table, history>>
    BY <1>6 DEF StatMount
  <2> QED BY <2>4, <2>5, <2>6 DEF host, history, TypeOK
<1>7. CASE StatFails
  <2>1. entries[next] \in EntryRecord
    BY <1>7 DEF StatFails, Pending, TypeOK
  <2>2. next' \in 1 .. Len(entries') + 1 /\ entries' = entries
    BY <1>7 DEF StatFails, Pending, TypeOK
  <2>3. refused' \in SUBSET Nat
    BY <1>7, <2>1 DEF StatFails, TypeOK, EntryRecord
  <2>4. UNCHANGED <<host, at, cursor, table, history>>
    BY <1>7 DEF StatFails
  <2> QED BY <2>2, <2>3, <2>4 DEF host, history, TypeOK
<1>8. CASE Finish
  <2>1. PICK order : /\ DOMAIN order = DOMAIN table'
                     /\ \E n \in Nat : DOMAIN order = 1 .. n
                     /\ \A i \in DOMAIN order : /\ order[i] \in WithCapacity
                                                /\ table'[i] = entries[order[i]]
    BY <1>8, Arranged
  <2>2. \A i \in DOMAIN table' : table'[i] \in {e \in EntryRecord : e.total # 0}
    BY <2>1 DEF WithCapacity, TypeOK
  <2>3. table' = [i \in DOMAIN table' |-> table'[i]]
    BY <1>8 DEF Finish
  <2>4. table' \in Seq({e \in EntryRecord : e.total # 0})
    BY <2>1, <2>2, <2>3
  <2> QED BY <1>8, <2>4 DEF Finish, host, listing, history, TypeOK
<1>9. CASE Mounting
  <2>1. PICK dir \in Dirs, type \in {"real", "pseudo"}, size \in Sizes :
             /\ mounted' = mounted \cup {Mount(made + 1, dir, type, size)}
             /\ hidden' = hidden \cup {m.id : m \in MountsAt(dir)}
    BY <1>9 DEF Mounting
  <2>2. Mount(made + 1, dir, type, size) \in MountRecord
    BY DEF Mount, MountRecord, TypeOK
  <2>3. {m.id : m \in MountsAt(dir)} \in SUBSET Nat
    BY <1>a DEF MountsAt
  <2>4. mounted' \in SUBSET MountRecord /\ hidden' \in SUBSET Nat
    BY <2>1, <2>2, <2>3 DEF TypeOK
  <2>5. made' \in Nat /\ UNCHANGED <<at, listing, table, startMade, gone>>
    BY <1>9 DEF Mounting, TypeOK
  <2> QED BY <2>4, <2>5 DEF listing, TypeOK
<1>10. CASE Unmounting
  BY <1>10, <1>a DEF Unmounting, listing, TypeOK
<1>11. CASE UNCHANGED vars
  BY <1>11 DEF vars, host, listing, history, TypeOK
<1> QED BY <1>1, <1>2, <1>3, <1>4, <1>5, <1>6, <1>7, <1>8, <1>9, <1>10, <1>11 DEF Next

(* Every variable keeps its type, and no row without capacity is shown.        *)
THEOREM TypeCorrect == Spec => []TypeOK
BY TypeInit, TypeStep, PTL DEF Spec
--------------------------------------------------------------------------------
(* The mount table and the histories kept of it.                               *)
MountsAreDistinct ==
  /\ startMade <= made /\ cursor <= made
  /\ \A g \in gone : g <= made
  /\ \A m \in mounted : m.id <= made /\ m.id \notin gone
  /\ \A m, n \in mounted : m.id = n.id => m = n
  /\ \A m, n \in mounted : m.dir = n.dir /\ m.id < n.id => m.id \in hidden

(* The entries follow the mount table up to the cursor.                        *)
Known(e) ==
  \/ e.mount \in gone
  \/ \E m \in mounted : m.id = e.mount /\ e.dir = Decoded(m.dir)

EntriesFollowMounts ==
  /\ \A i \in DOMAIN entries : entries[i].mount <= cursor /\ Known(entries[i])
  /\ \A i, j \in DOMAIN entries : i < j => entries[i].mount < entries[j].mount
  /\ \A m \in mounted :
        m.type = "real" /\ m.id <= cursor => \E i \in DOMAIN entries : entries[i].mount = m.id
  /\ at = "stat" => \A m \in mounted : m.id <= startMade => m.id <= cursor

(* The entries statvfs was asked about have the figures of their mount.        *)
Own(e) ==
  \/ e.mount \in gone \cup hidden
  \/ \E m \in mounted : m.id = e.mount /\ m.id = e.of /\ m.size = e.total

EntriesHaveFigures ==
  \A i \in DOMAIN entries :
     /\ entries[i].total = 0 \/ Own(entries[i])
     /\ i < next => entries[i].mount \in refused \/ Own(entries[i])
     /\ i >= next => entries[i].total = 0

Inv ==
  /\ TypeOK
  /\ MountsAreDistinct /\ EntriesFollowMounts /\ EntriesHaveFigures
  /\ MountsAreListed /\ EachMountOnce /\ OwnCapacity

LEMMA InvInit == Init => Inv
<1> SUFFICES ASSUME Init PROVE Inv
  OBVIOUS
<1>1. PICK size \in Sizes : mounted = {Root(size)}
  BY DEF Init
<1>2. MountsAreDistinct
  BY <1>1 DEF Init, MountsAreDistinct, Root, Mount
<1>3. EntriesFollowMounts /\ EntriesHaveFigures
  BY <1>1 DEF Init, EntriesFollowMounts, EntriesHaveFigures, Root, Mount
<1> QED BY <1>2, <1>3, TypeInit DEF Init, Inv, MountsAreListed, EachMountOnce, OwnCapacity

(* What is known of the mounts survives a change of the mount table.           *)
HostStep == Mounting \/ Unmounting

LEMMA HostKeepsMounts ==
  ASSUME TypeOK, MountsAreDistinct, HostStep
  PROVE  /\ MountsAreDistinct'
         /\ \A m \in mounted : m \in mounted' \/ m.id \in gone'
         /\ \A m \in mounted' : m \in mounted \/ m.id > made
         /\ gone \subseteq gone' /\ hidden \subseteq hidden'
         /\ UNCHANGED <<at, listing, table, startMade>>
<1>a. /\ made \in Nat /\ startMade \in Nat /\ cursor \in Nat
      /\ \A m \in mounted : m.id \in Nat
      /\ gone \in SUBSET Nat
  BY DEF TypeOK, MountRecord
<1>1. CASE Mounting
  <2>1. PICK dir \in Dirs, type \in {"real", "pseudo"}, size \in Sizes :
             /\ mounted' = mounted \cup {Mount(made + 1, dir, type, size)}
             /\ hidden' = hidden \cup {m.id : m \in MountsAt(dir)}
    BY <1>1 DEF Mounting
  <2>2. made' = made + 1 /\ UNCHANGED <<at, listing, table, startMade, gone>>
    BY <1>1 DEF Mounting
  <2> DEFINE new == Mount(made + 1, dir, type, size)
  <2>3. new.id = made + 1 /\ new.dir = dir
    BY DEF Mount
  <2>4. made + 1 \notin gone /\ \A m \in mounted : m.id # made + 1
    BY <1>a DEF MountsAreDistinct
  <2>5. \A m \in mounted : m.dir = dir => m.id \in hidden'
    BY <2>1 DEF MountsAt
  <2>6. startMade' <= made' /\ cursor' <= made' /\ \A g \in gone' : g <= made'
    BY <1>a, <2>2 DEF MountsAreDistinct, listing
  <2>7. \A m \in mounted' : m.id <= made' /\ m.id \notin gone'
    BY <1>a, <2>1, <2>2, <2>3, <2>4 DEF MountsAreDistinct
  <2>8. \A m, n \in mounted' : m.id = n.id => m = n
    BY <2>1, <2>3, <2>4 DEF MountsAreDistinct
  <2>9. ASSUME NEW m \in mounted', NEW n \in mounted', m.dir = n.dir, m.id < n.id
        PROVE  m.id \in hidden'
    <3>1. CASE m \in mounted /\ n \in mounted
      BY <2>1, <2>9, <3>1 DEF MountsAreDistinct
    <3>2. CASE m \in mounted /\ n = new
      BY <2>3, <2>5, <2>9, <3>2
    <3>3. CASE m = new
      BY <1>a, <2>1, <2>3, <2>9, <3>3 DEF MountsAreDistinct
    <3> QED BY <2>1, <3>1, <3>2, <3>3
  <2>10. MountsAreDistinct'
    BY <2>6, <2>7, <2>8, <2>9 DEF MountsAreDistinct
  <2>11. \A m \in mounted' : m \in mounted \/ m.id > made
    BY <1>a, <2>1, <2>3
  <2> QED BY <2>1, <2>2, <2>10, <2>11
<1>2. CASE Unmounting
  <2>1. PICK m \in mounted : mounted' = mounted \ {m} /\ gone' = gone \cup {m.id}
    BY <1>2 DEF Unmounting
  <2>2. UNCHANGED <<made, at, listing, table, startMade, hidden>>
    BY <1>2 DEF Unmounting
  <2>3. MountsAreDistinct'
    BY <1>a, <2>1, <2>2 DEF MountsAreDistinct, listing
  <2> QED BY <2>1, <2>2, <2>3
<1> QED BY <1>1, <1>2 DEF HostStep

LEMMA HostKeepsInv ==
  ASSUME Inv, HostStep
  PROVE  /\ EntriesFollowMounts' /\ EntriesHaveFigures'
         /\ MountsAreListed' /\ EachMountOnce' /\ OwnCapacity'
<1>1. /\ MountsAreDistinct'
      /\ \A m \in mounted : m \in mounted' \/ m.id \in gone'
      /\ \A m \in mounted' : m \in mounted \/ m.id > made
      /\ gone \subseteq gone' /\ hidden \subseteq hidden'
      /\ UNCHANGED <<at, cursor, entries, next, refused, table, startMade>>
  BY HostKeepsMounts DEF Inv, listing
<1>2. /\ made \in Nat /\ startMade \in Nat /\ cursor \in Nat
      /\ startMade <= made /\ cursor <= made
      /\ \A m \in mounted' : m.id \in Nat
  <2>1. \A m \in mounted' : m.id \in Nat
    BY TypeStep DEF Inv, HostStep, Next, TypeOK, MountRecord
  <2> QED BY <2>1 DEF Inv, TypeOK, MountsAreDistinct
<1>3. \A m \in mounted' : m.id <= startMade \/ m.id <= cursor => m \in mounted
  BY <1>1, <1>2
<1>4. ASSUME NEW e, Known(e) PROVE Known(e)'
  BY <1>1, <1>4 DEF Known
<1>5. ASSUME NEW e, Own(e) PROVE Own(e)'
  BY <1>1, <1>5 DEF Own
<1>6. EntriesFollowMounts'
  BY <1>1, <1>3, <1>4 DEF Inv, EntriesFollowMounts
<1>7. EntriesHaveFigures'
  BY <1>1, <1>5 DEF Inv, EntriesHaveFigures
<1>8. MountsAreListed'
  BY <1>1, <1>3 DEF Inv, MountsAreListed
<1>9. EachMountOnce'
  BY <1>1 DEF Inv, EachMountOnce
<1>10. OwnCapacity'
  BY <1>1 DEF Inv, OwnCapacity
<1> QED BY <1>6, <1>7, <1>8, <1>9, <1>10

(* The loop of parse_mounts.                                                   *)
LEMMA ReadKeepsInv ==
  ASSUME Inv, SkipPseudo \/ ReadMount \/ EndOfMounts
  PROVE  /\ MountsAreDistinct' /\ EntriesFollowMounts' /\ EntriesHaveFigures'
         /\ at' # "shown"
<1>a. /\ made \in Nat /\ startMade \in Nat /\ cursor \in Nat /\ startMade <= made
      /\ entries \in Seq(EntryRecord) /\ next \in 1 .. Len(entries) + 1
      /\ \A m \in mounted : m \in MountRecord /\ m.id \in Nat /\ m.id <= made
  BY DEF Inv, TypeOK, MountRecord, MountsAreDistinct
<1>b. \A i \in DOMAIN entries : entries[i] \in EntryRecord /\ entries[i].mount \in Nat
  <2>1. \A i \in DOMAIN entries : entries[i] \in EntryRecord
    BY <1>a
  <2> QED BY <2>1 DEF EntryRecord
<1>1. CASE SkipPseudo
  <2>1. PICK m \in mounted : NextMount(m) /\ m.type = "pseudo" /\ cursor' = m.id
    BY <1>1 DEF SkipPseudo
  <2>2. UNCHANGED <<mounted, made, at, entries, next, refused, startMade, gone, hidden>>
    BY <1>1 DEF SkipPseudo, host, history
  <2>3. \A n \in mounted : n.id <= cursor' => n = m \/ n.id <= cursor
    BY <1>a, <2>1 DEF NextMount, Inv, MountsAreDistinct
  <2>4. MountsAreDistinct'
    BY <1>a, <2>1, <2>2 DEF Inv, MountsAreDistinct
  <2>5. \A i \in DOMAIN entries : entries[i].mount <= cursor'
    BY <1>a, <1>b, <2>1 DEF Inv, EntriesFollowMounts, NextMount
  <2>6. EntriesFollowMounts'
    BY <1>1, <2>1, <2>2, <2>3, <2>5 DEF Inv, EntriesFollowMounts, Known, SkipPseudo
  <2>7. EntriesHaveFigures'
    BY <2>2 DEF Inv, EntriesHaveFigures, Own
  <2> QED BY <1>1, <2>4, <2>6, <2>7 DEF SkipPseudo
<1>2. CASE ReadMount
  <2>1. PICK m \in mounted : /\ NextMount(m) /\ m.type = "real" /\ cursor' = m.id
                             /\ entries' = Append(entries, Entry(m))
    BY <1>2 DEF ReadMount
  <2>2. UNCHANGED <<mounted, made, at, next, refused, startMade, gone, hidden>>
    BY <1>2 DEF ReadMount, host, history
  <2> DEFINE last == Len(entries) + 1
  <2>3. /\ Entry(m) \in EntryRecord /\ Entry(m).mount = m.id
        /\ Entry(m).dir = Decoded(m.dir) /\ Entry(m).total = 0
    BY <1>a, EntryType
  <2>4. /\ DOMAIN entries' = 1 .. last /\ DOMAIN entries = 1 .. Len(entries)
        /\ entries'[last] = Entry(m)
        /\ \A i \in DOMAIN entries : entries'[i] = entries[i]
    BY <1>a, <2>1, <2>3
  <2>5. \A n \in mounted : n.id <= cursor' => n = m \/ n.id <= cursor
    BY <1>a, <2>1 DEF NextMount, Inv, MountsAreDistinct
  <2>6. MountsAreDistinct'
    BY <1>a, <2>1, <2>2 DEF Inv, MountsAreDistinct
  <2>7. \A i \in DOMAIN entries : /\ entries[i].mount < m.id /\ entries[i].mount <= cursor'
                                 /\ Known(entries[i])
    BY <1>a, <1>b, <2>1 DEF Inv, EntriesFollowMounts, NextMount
  <2>8. Known(Entry(m))
    BY <2>3 DEF Known
  <2>9. \A i \in DOMAIN entries' : entries'[i].mount <= cursor' /\ Known(entries'[i])
    BY <1>a, <2>1, <2>3, <2>4, <2>7, <2>8
  <2>10. \A i, j \in DOMAIN entries' : i < j => entries'[i].mount < entries'[j].mount
    BY <1>a, <2>3, <2>4, <2>7 DEF Inv, EntriesFollowMounts
  <2>11. \A n \in mounted : n.type = "real" /\ n.id <= cursor'
           => \E i \in DOMAIN entries' : entries'[i].mount = n.id
    BY <1>a, <2>3, <2>4, <2>5 DEF Inv, EntriesFollowMounts
  <2>12. EntriesFollowMounts'
    BY <1>2, <2>2, <2>9, <2>10, <2>11 DEF EntriesFollowMounts, Known, ReadMount
  <2>13. EntriesHaveFigures'
    BY <1>a, <2>2, <2>3, <2>4 DEF Inv, EntriesHaveFigures, Own
  <2> QED BY <1>2, <2>6, <2>12, <2>13 DEF ReadMount
<1>3. CASE EndOfMounts
  <2>1. /\ UNCHANGED <<mounted, made, cursor, entries, next, refused, startMade, gone, hidden>>
        /\ at' = "stat" /\ \A m \in mounted : m.id <= cursor
    BY <1>3 DEF EndOfMounts, host, listing, history
  <2> QED BY <2>1 DEF Inv, MountsAreDistinct, EntriesFollowMounts, EntriesHaveFigures, Known, Own
<1> QED BY <1>1, <1>2, <1>3

(* The loop over statvfs.                                                      *)
LEMMA StatKeepsInv ==
  ASSUME Inv, StatMount \/ StatFails
  PROVE  /\ MountsAreDistinct' /\ EntriesFollowMounts' /\ EntriesHaveFigures'
         /\ at' # "shown"
<1>a. /\ entries \in Seq(EntryRecord) /\ next \in Nat /\ next \in DOMAIN entries
      /\ at = "stat" /\ next' = next + 1
      /\ UNCHANGED <<mounted, made, at, cursor, startMade, gone, hidden>>
  <2>1. entries \in Seq(EntryRecord) /\ next \in 1 .. Len(entries) + 1
    BY DEF Inv, TypeOK
  <2>2. Pending /\ next' = next + 1
    BY DEF StatMount, StatFails
  <2>3. UNCHANGED <<mounted, made, at, cursor, startMade, gone, hidden>>
    BY DEF StatMount, StatFails, host, history
  <2> QED BY <2>1, <2>2, <2>3 DEF Pending
<1>b. MountsAreDistinct'
  BY <1>a DEF Inv, MountsAreDistinct
<1>c. \A i \in DOMAIN entries : i \in Nat
  BY <1>a
<1>1. CASE StatMount
  <2> DEFINE e == entries[next]
  <2>1. PICK m \in Reached(e.dir) :
              entries' = [entries EXCEPT ![next] = [@ EXCEPT !.total = m.size, !.of = m.id]]
    BY <1>1 DEF StatMount
  <2>a. e \in EntryRecord
    BY <1>a
  <2>2. e \in EntryRecord /\ e.dir # NoDir /\ refused' = refused
    BY <1>1, <2>a DEF StatMount
  <2>3. /\ DOMAIN entries' = DOMAIN entries
        /\ \A i \in DOMAIN entries : i # next => entries'[i] = entries[i]
        /\ entries'[next].mount = e.mount /\ entries'[next].dir = e.dir
        /\ entries'[next].total = m.size /\ entries'[next].of = m.id
    BY <1>a, <2>1, <2>2 DEF EntryRecord
  <2>4. \A i \in DOMAIN entries : entries'[i].mount = entries[i].mount
                                 /\ entries'[i].dir = entries[i].dir
    BY <2>3
  <2>5. EntriesFollowMounts'
    BY <1>a, <2>3, <2>4 DEF Inv, EntriesFollowMounts, Known
  <2>6. Own(entries'[next])
    <3>1. CASE e.mount \in gone \cup hidden
      BY <2>3, <3>1 DEF Own
    <3>2. CASE e.mount \notin gone \cup hidden
      <4>1. PICK n \in mounted : n.id = e.mount /\ e.dir = Decoded(n.dir)
        BY <1>a, <3>2 DEF Inv, EntriesFollowMounts, Known
      <4>2. e.dir = n.dir
        BY <2>2, <4>1 DEF Decoded
      <4>3. m \in mounted /\ m.dir = n.dir /\ n.id <= m.id
        BY <2>1, <4>1, <4>2 DEF Reached, MountsAt, OnTop
      <4>4. ~(n.id < m.id)
        BY <3>2, <4>1, <4>3 DEF Inv, MountsAreDistinct
      <4>5. n.id \in Nat /\ m.id \in Nat
        BY <4>1, <4>3 DEF Inv, TypeOK, MountRecord
      <4>6. m.id = e.mount
        BY <4>1, <4>3, <4>4, <4>5
      <4> QED BY <2>3, <4>3, <4>6 DEF Own
    <3> QED BY <3>1, <3>2
  <2>7. EntriesHaveFigures'
    BY <1>a, <1>c, <2>2, <2>3, <2>6 DEF Inv, EntriesHaveFigures, Own
  <2> QED BY <1>a, <1>b, <2>5, <2>7
<1>2. CASE StatFails
  <2>1. entries' = entries /\ refused' = refused \cup {entries[next].mount}
    BY <1>2 DEF StatFails
  <2>2. EntriesFollowMounts'
    BY <1>a, <2>1 DEF Inv, EntriesFollowMounts, Known
  <2>3. EntriesHaveFigures'
    BY <1>a, <1>c, <2>1 DEF Inv, EntriesHaveFigures, Own
  <2> QED BY <1>a, <1>b, <2>2, <2>3
<1> QED BY <1>1, <1>2

(* Erasing and sorting make the table of the entries.                          *)
LEMMA FinishKeepsInv ==
  ASSUME Inv, Finish
  PROVE  Inv'
<1>1. PICK order : /\ DOMAIN order = DOMAIN table'
                   /\ \A i \in DOMAIN order : /\ order[i] \in WithCapacity
                                              /\ table'[i] = entries[order[i]]
                   /\ \A i, j \in DOMAIN order : order[i] = order[j] => i = j
                   /\ \A k \in WithCapacity : \E i \in DOMAIN order : order[i] = k
  BY Arranged DEF Inv
<1>2. /\ at = "stat" /\ next > Len(entries)
      /\ at' = "shown"
      /\ UNCHANGED <<mounted, made, cursor, entries, next, refused, startMade, gone, hidden>>
  BY DEF Finish, host, listing, history
<1>3. TypeOK'
  BY TypeStep DEF Inv, Next
<1>4. /\ entries \in Seq(EntryRecord) /\ DOMAIN entries = 1 .. Len(entries)
      /\ Len(entries) \in Nat /\ next \in Nat
      /\ \A i \in DOMAIN entries : i < next /\ entries[i].mount \in Nat
  <2>1. entries \in Seq(EntryRecord) /\ next \in 1 .. Len(entries) + 1
    BY DEF Inv, TypeOK
  <2>2. \A i \in DOMAIN entries : entries[i] \in EntryRecord
    BY <2>1
  <2>3. \A i \in DOMAIN entries : entries[i].mount \in Nat
    BY <2>2 DEF EntryRecord
  <2> QED BY <1>2, <2>1, <2>3
<1>5. MountsAreDistinct'
  BY <1>2 DEF Inv, MountsAreDistinct
<1>6. EntriesFollowMounts'
  BY <1>2 DEF Inv, EntriesFollowMounts, Known
<1>7. EntriesHaveFigures'
  BY <1>2 DEF Inv, EntriesHaveFigures, Own
<1>8. \A i \in DOMAIN order : /\ order[i] \in DOMAIN entries
                              /\ entries[order[i]].total # 0 /\ Own(entries[order[i]])
                              /\ Known(entries[order[i]])
  BY <1>1 DEF WithCapacity, Inv, EntriesHaveFigures, EntriesFollowMounts
<1>9. ASSUME NEW m \in mounted, m.type = "real", m.size > 0, m.id <= startMade,
             m.id \notin refused \cup hidden
      PROVE  \E i \in DOMAIN table' : table'[i].mount = m.id
  <2>1. PICK k \in DOMAIN entries : entries[k].mount = m.id
    BY <1>2, <1>9 DEF Inv, EntriesFollowMounts
  <2>2. m.id \notin gone
    BY DEF Inv, MountsAreDistinct
  <2>3. Own(entries[k])
    BY <1>4, <1>9, <2>1 DEF Inv, EntriesHaveFigures
  <2>4. entries[k].total = m.size
    BY <1>9, <2>1, <2>2, <2>3 DEF Own, Inv, MountsAreDistinct
  <2>5. k \in WithCapacity
    BY <1>9, <2>4, SizesAssumption DEF WithCapacity, Inv, TypeOK, MountRecord
  <2> QED BY <1>1, <2>1, <2>5
<1>10. MountsAreListed'
  BY <1>2, <1>9 DEF MountsAreListed
<1>11. \A i, j \in DOMAIN table' : table'[i].mount = table'[j].mount => i = j
  <2>1. \A i, j \in DOMAIN entries : entries[i].mount = entries[j].mount => i = j
    BY <1>4 DEF Inv, EntriesFollowMounts
  <2> QED BY <1>1, <1>8, <2>1
<1>12. EachMountOnce'
  BY <1>1, <1>2, <1>8, <1>11 DEF EachMountOnce, Known
<1>13. OwnCapacity'
  BY <1>1, <1>2, <1>8 DEF OwnCapacity, Own
<1> QED BY <1>3, <1>5, <1>6, <1>7, <1>10, <1>12, <1>13 DEF Inv

LEMMA BeginKeepsInv ==
  ASSUME Inv, Refresh \/ CannotOpen
  PROVE  Inv'
<1>1. TypeOK'
  BY TypeStep DEF Inv, Next
<1>2. CASE Refresh
  <2>1. /\ mounted' = mounted /\ made' = made /\ at' = "read" /\ cursor' = 0
        /\ entries' = <<>> /\ startMade' = made /\ gone' = {} /\ hidden' = Covered
    BY <1>2 DEF Refresh, Begin, host
  <2>2. \A m, n \in mounted : m.dir = n.dir /\ m.id < n.id => m.id \in hidden'
    BY <2>1 DEF Covered, OnTop, MountsAt, Inv, TypeOK, MountRecord
  <2>3. MountsAreDistinct'
    BY <2>1, <2>2 DEF Inv, TypeOK, MountsAreDistinct
  <2>4. EntriesFollowMounts' /\ EntriesHaveFigures'
    BY <2>1 DEF Inv, TypeOK, MountRecord, EntriesFollowMounts, EntriesHaveFigures
  <2> QED BY <1>1, <2>1, <2>3, <2>4 DEF Inv, MountsAreListed, EachMountOnce, OwnCapacity
<1>3. CASE CannotOpen
  <2>1. /\ at' = "shown" /\ table' = <<>> /\ refused' = {m.id : m \in mounted} /\ cursor = 0
        /\ UNCHANGED <<mounted, made, cursor, entries, next, startMade, gone, hidden>>
    BY <1>3 DEF CannotOpen, host, history
  <2>2. MountsAreDistinct' /\ EntriesFollowMounts'
    BY <2>1 DEF Inv, MountsAreDistinct, EntriesFollowMounts, Known
  <2>3. \A i \in DOMAIN entries : FALSE
    <3>1. \A i \in DOMAIN entries : entries[i] \in EntryRecord
      BY DEF Inv, TypeOK
    <3> QED BY <2>1, <3>1 DEF Inv, EntriesFollowMounts, EntryRecord
  <2>4. EntriesHaveFigures'
    BY <2>1, <2>3 DEF EntriesHaveFigures
  <2> QED BY <1>1, <2>1, <2>2, <2>4 DEF Inv, MountsAreListed, EachMountOnce, OwnCapacity
<1> QED BY <1>2, <1>3

LEMMA InvStep == Inv /\ [Next]_vars => Inv'
<1> SUFFICES ASSUME Inv, [Next]_vars PROVE Inv'
  OBVIOUS
<1>1. TypeOK'
  BY TypeStep DEF Inv
<1>2. CASE SkipPseudo \/ ReadMount \/ EndOfMounts
  BY <1>1, <1>2, ReadKeepsInv DEF Inv, MountsAreListed, EachMountOnce, OwnCapacity
<1>3. CASE StatMount \/ StatFails
  BY <1>1, <1>3, StatKeepsInv DEF Inv, MountsAreListed, EachMountOnce, OwnCapacity
<1>4. CASE Finish
  BY <1>4, FinishKeepsInv
<1>5. CASE Refresh \/ CannotOpen
  BY <1>5, BeginKeepsInv
<1>6. CASE Mounting \/ Unmounting
  BY <1>1, <1>6, HostKeepsMounts, HostKeepsInv DEF Inv, HostStep
<1>7. CASE UNCHANGED vars
  BY <1>1, <1>7 DEF vars, host, listing, history, Inv, MountsAreDistinct, EntriesFollowMounts,
        EntriesHaveFigures, Known, Own, MountsAreListed, EachMountOnce, OwnCapacity
<1> QED BY <1>2, <1>3, <1>4, <1>5, <1>6, <1>7 DEF Next

(* Each real file system with capacity that was mounted through a listing is   *)
(* in it, unless statvfs refused it or another mount lay over it.              *)
THEOREM RealMountsAreListed == Spec => []MountsAreListed
<1>1. Inv => MountsAreListed
  BY DEF Inv
<1> QED BY <1>1, InvInit, InvStep, PTL DEF Spec

(* No mount has two rows, and no row is older than its listing.                *)
THEOREM MountsAppearOnce == Spec => []EachMountOnce
<1>1. Inv => EachMountOnce
  BY DEF Inv
<1> QED BY <1>1, InvInit, InvStep, PTL DEF Spec

(* The figures of a row are those of its mount, unless that was unmounted or   *)
(* covered since the listing began.                                            *)
THEOREM RowsHaveOwnCapacity == Spec => []OwnCapacity
<1>1. Inv => OwnCapacity
  BY DEF Inv
<1> QED BY <1>1, InvInit, InvStep, PTL DEF Spec
================================================================================
