-------------------------------- MODULE Storage --------------------------------
(* StorageManager::list_filesystems against a mount table that changes: the    *)
(* table is read entry by entry, then statvfs is asked about each entry, by    *)
(* path.  A path leads to the mount that lies on top there, or, where nothing  *)
(* is mounted any more, to the file system of the directory itself.            *)
(* Mounts are numbered in the order in which they are made, which is the order *)
(* of the mount table; number 1 is the root and is never undone.               *)
EXTENDS Integers, FiniteSets, Sequences, Functions

CONSTANTS
  Dirs,         \* mount points but the root, numbered in the order of their names
  Backslashed,  \* the ones whose name contains a backslash
  Sizes,        \* total sizes a file system can have
  MaxMounts     \* bound: mounts made over time

RootDir == 1
NoDir   == 0    \* a path at which there is nothing

ASSUME DirsAssumption  == Dirs \subseteq Nat \ {NoDir, RootDir} /\ Backslashed \subseteq Dirs
ASSUME SizesAssumption == Sizes \subseteq Nat /\ Sizes # {} /\ MaxMounts \in Nat

VARIABLES
  mounted,    \* the mount table
  made,       \* mounts made so far
  at,         \* "read", "stat" or "shown"
  cursor,     \* the last mount read from /proc/self/mounts
  entries,    \* the file systems collected, in the order of the mount table
  next,       \* the entry statvfs is asked about next
  table,      \* the records of the page
  startMade,  \* history: mounts made before the listing began
  gone,       \* history: mounts undone since the listing began
  hidden,     \* history: mounts that lay under another one since it began
  refused     \* history: mounts this listing could not ask about

host    == <<mounted, made>>
listing == <<cursor, entries, next, refused>>
history == <<startMade, gone, hidden>>
vars == <<host, at, listing, table, history>>

Mount(id, dir, type, size) == [id |-> id, dir |-> dir, type |-> type, size |-> size]
Root(size) == Mount(1, RootDir, "real", size)

MountsAt(dir)    == {m \in mounted : m.dir = dir}
OnTop(m)         == \A n \in MountsAt(m.dir) : n.id <= m.id
Covered          == {m.id : m \in {n \in mounted : ~OnTop(n)}}
--------------------------------------------------------------------------------
Begin ==
  /\ at' = "read" /\ cursor' = 0 /\ entries' = <<>> /\ next' = 1 /\ refused' = {}
  /\ startMade' = made /\ gone' = {} /\ hidden' = Covered

(* The page is opened, and its first listing begins.                           *)
Init ==
  /\ \E size \in Sizes : mounted = {Root(size)}
  /\ made = 1
  /\ at = "read" /\ cursor = 0 /\ entries = <<>> /\ next = 1 /\ refused = {}
  /\ startMade = 1 /\ gone = {} /\ hidden = {}
  /\ table = <<>>

(* Mutant of Refresh: the entries of the last listing are still there.         *)
RefreshAppends ==
  /\ at = "shown"
  /\ at' = "read" /\ cursor' = 0 /\ next' = 1 /\ refused' = {}
  /\ startMade' = made /\ gone' = {} /\ hidden' = Covered
  /\ UNCHANGED <<host, entries, table>>

(* r on the storage page.                                                      *)
Refresh ==
  /\ at = "shown" /\ Begin
  /\ UNCHANGED <<host, table>>

(* /proc/self/mounts cannot be opened: no file systems.                        *)
CannotOpen ==
  /\ at = "read" /\ cursor = 0
  /\ at' = "shown" /\ table' = <<>>
  /\ refused' = {m.id : m \in mounted}
  /\ UNCHANGED <<host, cursor, entries, next, history>>

NextMount(m) ==
  /\ m \in mounted /\ m.id > cursor
  /\ \A n \in mounted : n.id > cursor => m.id <= n.id

(* The mount point as decode_mount_path returns it: \134, the escape of a      *)
(* backslash, is left as it is.                                                *)
Decoded(dir) == IF dir \in Backslashed THEN NoDir ELSE dir

Entry(m) == [mount |-> m.id, dir |-> Decoded(m.dir), total |-> 0, of |-> 0]

(* Mutant of SkipPseudo: a pseudo file system ends the loop.                   *)
StopAtPseudo ==
  /\ at = "read"
  /\ \E m \in mounted : NextMount(m) /\ m.type = "pseudo" /\ cursor' = m.id
  /\ at' = "stat"
  /\ UNCHANGED <<host, entries, next, refused, table, history>>

(* parse_mounts, one line: a pseudo file system is left out.                   *)
SkipPseudo ==
  /\ at = "read"
  /\ \E m \in mounted : NextMount(m) /\ m.type = "pseudo" /\ cursor' = m.id
  /\ UNCHANGED <<host, at, entries, next, refused, table, history>>

ReadMount ==
  /\ at = "read"
  /\ \E m \in mounted :
        /\ NextMount(m) /\ m.type = "real"
        /\ cursor' = m.id
        /\ entries' = Append(entries, Entry(m))
  /\ UNCHANGED <<host, at, next, refused, table, history>>

EndOfMounts ==
  /\ at = "read" /\ \A m \in mounted : m.id <= cursor
  /\ at' = "stat"
  /\ UNCHANGED <<host, listing, table, history>>
--------------------------------------------------------------------------------
(* What the path of the entry leads to: the mount on top there, or what the    *)
(* empty directory is on.                                                      *)
Reached(dir) ==
  IF MountsAt(dir) # {} THEN {m \in MountsAt(dir) : OnTop(m)} ELSE MountsAt(RootDir)

Pending == at = "stat" /\ next <= Len(entries)

StatMount ==
  /\ Pending /\ entries[next].dir # NoDir
  /\ \E m \in Reached(entries[next].dir) :
        entries' = [entries EXCEPT ![next] = [@ EXCEPT !.total = m.size, !.of = m.id]]
  /\ next' = next + 1
  /\ UNCHANGED <<host, at, cursor, refused, table, history>>

(* Mutant of StatFails: the figures of the entry before it are taken.          *)
StatKeepsOld ==
  /\ Pending
  /\ entries' = IF next = 1 THEN entries
                ELSE [entries EXCEPT ![next].total = entries[next - 1].total,
                                     ![next].of = entries[next - 1].of]
  /\ next' = next + 1
  /\ refused' = refused \cup {entries[next].mount}
  /\ UNCHANGED <<host, at, cursor, table, history>>

(* There is nothing at the path, or it may not be looked at: no capacity.      *)
StatFails ==
  /\ Pending
  /\ next' = next + 1
  /\ refused' = refused \cup {entries[next].mount}
  /\ UNCHANGED <<host, at, cursor, entries, table, history>>

(* Largest first, then by mount point.                                         *)
InOrder(e, f) == e.total > f.total \/ (e.total = f.total /\ e.dir <= f.dir)

(* Mutant of WithCapacity: the entries without capacity are not erased.        *)
AnyCapacity == DOMAIN entries

WithCapacity == {i \in DOMAIN entries : entries[i].total # 0}

(* Entries without capacity are erased and the others sorted.                  *)
Finish ==
  /\ at = "stat" /\ next > Len(entries)
  /\ \E order \in Bijection(1 .. Cardinality(WithCapacity), WithCapacity) :
        /\ \A i, j \in DOMAIN order : i < j => InOrder(entries[order[i]], entries[order[j]])
        /\ table' = [i \in DOMAIN order |-> entries[order[i]]]
  /\ at' = "shown"
  /\ UNCHANGED <<host, listing, history>>
--------------------------------------------------------------------------------
(* The rest of the system mounts and unmounts.                                 *)
Mounting ==
  /\ made < MaxMounts
  /\ made' = made + 1
  /\ \E dir \in Dirs, type \in {"real", "pseudo"}, size \in Sizes :
        /\ mounted' = mounted \cup {Mount(made + 1, dir, type, size)}
        /\ hidden' = hidden \cup {m.id : m \in MountsAt(dir)}
  /\ UNCHANGED <<at, listing, table, startMade, gone>>

Unmounting ==
  /\ \E m \in mounted :
        /\ OnTop(m) /\ m.dir # RootDir
        /\ mounted' = mounted \ {m}
        /\ gone' = gone \cup {m.id}
  /\ UNCHANGED <<made, at, listing, table, startMade, hidden>>

Next ==
  \/ Refresh \/ CannotOpen \/ SkipPseudo \/ ReadMount \/ EndOfMounts
  \/ StatMount \/ StatFails \/ Finish
  \/ Mounting \/ Unmounting

Spec == Init /\ [][Next]_vars
--------------------------------------------------------------------------------
MountRecord ==
  [id : Nat \ {0}, dir : Dirs \cup {RootDir}, type : {"real", "pseudo"}, size : Sizes]
EntryRecord == [mount : Nat \ {0}, dir : Dirs \cup {RootDir, NoDir}, total : Nat, of : Nat]

(* Types; every row of the page has a capacity.                                *)
TypeOK ==
  /\ mounted \in SUBSET MountRecord /\ made \in Nat
  /\ at \in {"read", "stat", "shown"} /\ cursor \in Nat
  /\ entries \in Seq(EntryRecord) /\ next \in 1 .. Len(entries) + 1
  /\ table \in Seq({e \in EntryRecord : e.total # 0})
  /\ startMade \in Nat
  /\ gone \in SUBSET Nat /\ hidden \in SUBSET Nat /\ refused \in SUBSET Nat

(* storage_manager.hpp:22 "Real filesystems with capacity": each one that was   *)
(* mounted through the whole of a listing has a row in it, however the table   *)
(* changes while it is read and asked about (storage_manager.cpp:44-101);       *)
(* unless statvfs refused it, as it does when the name has a backslash, or it  *)
(* lay under another mount.                                                    *)
MountsAreListed ==
  at = "shown" =>
    \A m \in mounted :
       m.type = "real" /\ m.size > 0 /\ m.id <= startMade /\ m.id \notin refused \cup hidden
         => \E i \in DOMAIN table : table[i].mount = m.id

(* No mount has two rows, and each row is of a mount that still existed when    *)
(* its listing began.                                                          *)
EachMountOnce ==
  at = "shown" =>
    /\ \A i, j \in DOMAIN table : table[i].mount = table[j].mount => i = j
    /\ \A i \in DOMAIN table :
          table[i].mount \in gone \/ \E m \in mounted : m.id = table[i].mount

(* The figures of a row are those of its own file system, although they are     *)
(* asked for by path after the table was read (storage_manager.cpp:85-93),     *)
(* unless that one was unmounted or covered in between.                        *)
OwnCapacity ==
  at = "shown" =>
    \A i \in DOMAIN table :
       \/ table[i].mount \in gone \cup hidden
       \/ \E m \in mounted : /\ m.id = table[i].mount /\ m.id = table[i].of
                             /\ m.size = table[i].total
================================================================================
