----------------------------- MODULE Files_proofs -----------------------------
(***************************************************************************)
(* Safety of the static files of a worker, for every set of names, every     *)
(* number of changes to the disk, entries and responses.                     *)
(***************************************************************************)
EXTENDS Files, SequenceTheorems, FiniteSetTheorems, WellFoundedInduction, TLAPS

-----------------------------------------------------------------------------
(* The disk *)

Inode == [ver : Nat, len : Nat, over : BOOLEAN]

\* Two paths never share an inode, and no version is from the future.
DiskOK ==
  /\ inodes \in Seq(Inode) /\ changes \in Nat
  /\ disk \in [Files -> 0 .. Len(inodes)]
  /\ \A f, g \in Files : disk[f] = disk[g] => f = g \/ disk[f] = Absent
  /\ \A i \in 1 .. Len(inodes) : inodes[i].ver <= changes

(* Entries *)

Entry == [file : Files, extra : BOOLEAN, inode : Nat \ {0}, info : Inode, fresh : Inode,
          updated : BOOLEAN, seen : {Gone} \cup (Nat \X Inode), missed : BOOLEAN,
          alive : BOOLEAN]

\* What info() gives for an entry.
Current(e) == IF e.updated THEN e.fresh ELSE e.info

\* The inode behind the entry's descriptor exists and is behind no other path.
Owned(e) ==
  /\ e.inode \in 1 .. Len(inodes)
  /\ \A f \in Files : disk[f] = e.inode => f = e.file

\* A length is at most the file's, unless the file was made shorter.
Fits(e, len) == e.file \in shrunk \/ len <= inodes[e.inode].len

\* Contents are of a version, or were written in place after a change.
Right(ver, since, c) == c.ver = ver \/ (c.over /\ c.ver > since)

\* What an entry announces is of the file it has open, unless its watcher saw another.
Vouched(e) ==
  Swapped(e) \/ ~e.alive \/ LET i == Current(e)
                           IN /\ i.ver <= changes /\ Fits(e, i.len)
                              /\ Right(i.ver, i.ver, inodes[e.inode])

\* An entry whose path leads nowhere had its file vanish; one that was erased,
\* a file of its name.
Missing(e) ==
  /\ disk[e.file] = Absent => e.file \in vanished
  /\ ~e.alive => \E f \in vanished : f \in Files /\ f[1] = e.file[1]

EntryOK(e) == Owned(e) /\ Vouched(e) /\ Missing(e)

\* The watcher of an entry has not begun.
Fresh(e) == ~e.updated /\ e.seen = Gone

\* What an entry announces is what its watcher saw last.
Synced(e) == e.alive /\ ~e.missed => e.seen # Gone /\ Current(e) = e.seen[2]

(* Responses *)

Stream == [entry : Nat, ver : Nat, length : Nat, pos : Nat, read : SUBSET Inode,
           since : Nat, other : BOOLEAN]

\* The bytes a response announces are there, and those it reads and has read are of the
\* version it announces or a later one, unless what its history says happened.
StreamOK(st, e) ==
  st.other \/ /\ Fits(e, st.length) /\ st.since <= changes
              /\ Right(st.ver, st.since, inodes[e.inode])
              /\ \A c \in st.read : Right(st.ver, st.since, c)

(* The invariant *)

\* The entry a lookup has made and whose watcher it has yet to start.
Starting(i) == pc \in {"watch_plain", "watch_br"} /\ i = got

Control ==
  /\ pc \in {"loop", "plain", "watch_plain", "br", "watch_br", "found"}
  /\ pc \in {"watch_plain", "watch_br", "found"} => got \in 1 .. Len(entries)
  /\ pc = "br" => got \in 0 .. Len(entries)
  /\ pc \in {"loop", "plain"} => got = None
  /\ pc # "loop" => req.name \in Names
  /\ got # None => entries[got].alive

Table ==
  /\ entries \in Seq(Entry)
  /\ \A i \in 1 .. Len(entries) :
       /\ EntryOK(entries[i])
       /\ IF Starting(i) THEN Fresh(entries[i]) ELSE Synced(entries[i])

Responses ==
  \A s \in DOMAIN streams :
    /\ streams[s] \in Stream /\ streams[s].entry \in 1 .. Len(entries)
    /\ StreamOK(streams[s], entries[streams[s].entry])

\* Why a response hangs, or read freed memory.
Stopped ==
  /\ hung # None => /\ hung \in DOMAIN streams
                    /\ FileOf(hung) \in shrunk \/ streams[hung].other
  /\ freed # None => /\ freed \in DOMAIN streams
                     /\ ~entries[streams[freed].entry].alive

FilesInv == DiskOK /\ Control /\ Table /\ Responses /\ Stopped

-----------------------------------------------------------------------------
(* The least and the greatest of a set of positions *)

LEMMA LeastOf == ASSUME NEW N \in SUBSET Nat, N # {} PROVE \E i \in N : \A j \in N : i <= j
<1> DEFINE Less == {ss \in Nat \X Nat : ss[1] < ss[2]}
<1>1. IsWellFoundedOn(Less, Nat)
  BY NatLessThanWellFounded DEF OpToRel
<1>2. PICK i \in N : \A j \in N : <<j, i>> \notin Less
  <2> HIDE DEF Less
  <2> QED
    BY <1>1, WFMin
<1>3. \A j \in N : ~(j < i)
  BY <1>2
<1> QED
  BY <1>3

\* Both are members.
LEMMA MinMaxIn ==
  ASSUME NEW n \in Nat, NEW S \in SUBSET (1 .. n), S # {}
  PROVE  Min(S) \in S /\ Max(S) \in S
<1>1. \E i \in S : \A j \in S : i <= j
  <2>1. S \in SUBSET Nat
    OBVIOUS
  <2> QED
    BY <2>1, LeastOf
<1>2. \E i \in S : \A j \in S : i >= j
  <2> DEFINE R == {n - i : i \in S}
  <2>1. R \in SUBSET Nat /\ R # {}
    <3>1. \A i \in S : n - i \in Nat
      OBVIOUS
    <3> QED
      BY <3>1
  <2>2. PICK m \in R : \A j \in R : m <= j
    BY <2>1, LeastOf
  <2>3. PICK i \in S : m = n - i
    OBVIOUS
  <2>4. \A j \in S : n - i <= n - j
    BY <2>2, <2>3
  <2> QED
    BY <2>4
<1> QED
  BY <1>1, <1>2 DEF Min, Max

-----------------------------------------------------------------------------
(* What the changes of the disk keep *)

\* No change takes an inode away; one that an entry holds open is changed in place only,
\* and its length becomes less only as the history says.
Kept(e) ==
  /\ Len(inodes) <= Len(inodes') /\ shrunk \subseteq shrunk' /\ vanished \subseteq vanished'
  /\ changes <= changes'
  /\ Owned(e) => /\ Owned(e)'
                 /\ e.file \in shrunk' \/ inodes[e.inode].len <= inodes'[e.inode].len
                 /\ \/ inodes'[e.inode] = inodes[e.inode]
                    \/ inodes'[e.inode].over /\ inodes'[e.inode].ver > changes
  /\ disk[e.file]' = Absent => disk[e.file] = Absent \/ e.file \in vanished'

\* A new inode behind a path, which Appear and Replace make.
LEMMA NewInodeKeeps ==
  ASSUME DiskOK, NEW f \in Files, NEW new \in Inode, new.ver = changes', changes' = changes + 1,
         inodes' = Append(inodes, new),
         disk' = [disk EXCEPT ![f] = Len(inodes) + 1],
         shrunk' = shrunk, vanished' = vanished
  PROVE  DiskOK' /\ \A e \in Entry : Kept(e)
<1> DEFINE n == Len(inodes)
<1>1. /\ n \in Nat /\ inodes \in Seq(Inode)
      /\ changes \in Nat /\ changes' \in Nat /\ changes <= changes'
  BY DEF DiskOK
<1>2. /\ inodes' \in Seq(Inode) /\ Len(inodes') = n + 1
      /\ inodes'[n + 1] = new
      /\ \A i \in 1 .. n : inodes'[i] = inodes[i]
  BY <1>1, AppendProperties
<1>3. /\ disk \in [Files -> 0 .. n] /\ disk'[f] = n + 1
      /\ \A g \in Files : g # f => disk'[g] = disk[g]
  BY DEF DiskOK
<1>4. disk' \in [Files -> 0 .. n + 1]
  BY <1>1, <1>3
<1>5. \A g \in Files : disk[g] # n + 1 /\ (disk'[g] = n + 1 => g = f)
  BY <1>1, <1>3
<1> HIDE DEF n
<1>6. \A g, h \in Files : disk'[g] = disk'[h] => g = h \/ disk'[g] = Absent
  BY <1>3, <1>5 DEF DiskOK
<1>9. ASSUME NEW i \in 1 .. n + 1 PROVE inodes'[i].ver <= changes'
  <2>1. CASE i = n + 1
    BY <1>1, <1>2, <2>1
  <2>2. CASE i # n + 1
    <3>1. i \in 1 .. n /\ inodes[i] \in Inode
      BY <1>1, <2>2 DEF n
    <3>2. inodes[i].ver \in Nat /\ inodes[i].ver <= changes
      BY <3>1 DEF Inode, DiskOK, n
    <3>3. inodes'[i] = inodes[i]
      BY <1>2, <3>1
    <3> QED
      BY <1>1, <3>2, <3>3
  <2> QED
    BY <2>1, <2>2
<1>7. DiskOK'
  BY <1>1, <1>2, <1>4, <1>6, <1>9 DEF DiskOK
<1>8. ASSUME NEW e \in Entry PROVE Kept(e)
  <2>1. e.file \in Files
    BY DEF Entry
  <2>2. Len(inodes) <= Len(inodes') /\ shrunk \subseteq shrunk' /\ vanished \subseteq vanished'
    BY <1>1, <1>2 DEF n
  <2>3. disk'[e.file] = Absent => disk[e.file] = Absent
    BY <1>1, <1>3, <2>1 DEF Absent
  <2>4. ASSUME Owned(e)
        PROVE  Owned(e)' /\ inodes'[e.inode] = inodes[e.inode]
    <3>1. e.inode \in 1 .. n /\ e.inode # n + 1 /\ e.inode \in 1 .. n + 1
      BY <1>1, <2>4 DEF Owned, n
    <3>2. \A g \in Files : disk'[g] = e.inode => disk[g] = e.inode
      BY <1>3, <3>1
    <3> QED
      BY <1>2, <2>1, <2>4, <3>1, <3>2 DEF Owned
  <2>5. Owned(e) => inodes[e.inode].len <= inodes'[e.inode].len
    <3> SUFFICES ASSUME Owned(e) PROVE inodes[e.inode].len <= inodes'[e.inode].len
      OBVIOUS
    <3>1. inodes[e.inode] \in Inode
      BY <1>1 DEF Owned
    <3>2. inodes[e.inode].len \in Nat
      BY <3>1 DEF Inode
    <3>3. inodes'[e.inode] = inodes[e.inode]
      BY <2>4
    <3> QED
      BY <3>2, <3>3
  <2> QED
    BY <1>1, <2>2, <2>3, <2>4, <2>5 DEF Kept
<1> QED
  BY <1>7, <1>8

\* A file written in place.
LEMMA OverwriteKeeps ==
  ASSUME DiskOK, NEW f \in Files, NEW len \in Lens, Overwrite(f, len)
  PROVE  DiskOK' /\ \A e \in Entry : Kept(e)
<1> DEFINE n == Len(inodes)
           new == NewInode(len, TRUE)
           k == disk[f]
<1>1. /\ n \in Nat /\ new \in Inode /\ inodes \in Seq(Inode) /\ len \in Nat
      /\ changes \in Nat /\ changes' = changes + 1 /\ new.ver = changes' /\ new.over
      /\ new.len = len
  BY FilesAssumption DEF DiskOK, NewInode, Inode, Overwrite, Change
<1>2. k \in 1 .. n
  BY <1>1 DEF DiskOK, Overwrite, Absent
<1>3. /\ inodes' = [inodes EXCEPT ![k] = new] /\ disk' = disk /\ vanished' = vanished
      /\ shrunk' = IF len < inodes[k].len THEN shrunk \cup {f} ELSE shrunk
  BY DEF Overwrite
<1>4. /\ inodes' \in Seq(Inode) /\ Len(inodes') = n
      /\ \A i \in 1 .. n : inodes'[i] = IF k = i THEN new ELSE inodes[i]
  <2> HIDE DEF new, k
  <2> QED
    BY <1>1, <1>2, <1>3, ExceptSeq
<1> HIDE DEF n, new
<1>7. ASSUME NEW i \in 1 .. n PROVE inodes'[i].ver <= changes'
  <2>1. inodes[i] \in Inode /\ inodes[i].ver <= changes
    BY <1>1 DEF DiskOK, n
  <2>2. inodes[i].ver \in Nat
    BY <2>1 DEF Inode
  <2> QED
    BY <1>1, <1>4, <2>1, <2>2
<1>5. DiskOK'
  BY <1>1, <1>3, <1>4, <1>7 DEF DiskOK, n
<1>6. ASSUME NEW e \in Entry PROVE Kept(e)
  <2>1. /\ Len(inodes) <= Len(inodes') /\ shrunk \subseteq shrunk' /\ vanished \subseteq vanished'
        /\ changes <= changes'
    BY <1>1, <1>3, <1>4 DEF n
  <2>2. Owned(e) => Owned(e)'
    BY <1>3, <1>4 DEF Owned, n
  <2>3. ASSUME Owned(e)
        PROVE  e.file \in shrunk' \/ inodes[e.inode].len <= inodes'[e.inode].len
    <3>1. e.inode \in 1 .. n /\ (k = e.inode => f = e.file)
      BY <2>3 DEF Owned, n
    <3>2. inodes[e.inode] \in Inode
      BY <1>1, <3>1 DEF n
    <3>3. inodes[e.inode].len \in Nat
      BY <3>2 DEF Inode
    <3>4. CASE e.inode = k
      BY <1>1, <1>3, <1>4, <3>1, <3>3, <3>4
    <3>5. CASE e.inode # k
      BY <1>4, <3>1, <3>3, <3>5
    <3> QED
      BY <3>4, <3>5
  <2>4. ASSUME Owned(e)
        PROVE  \/ inodes'[e.inode] = inodes[e.inode]
               \/ inodes'[e.inode].over /\ inodes'[e.inode].ver > changes
    BY <1>1, <1>4, <2>4 DEF Owned, n
  <2> QED
    BY <1>3, <2>1, <2>2, <2>3, <2>4 DEF Kept
<1> QED
  BY <1>5, <1>6

\* A file that vanishes.
LEMMA VanishKeeps ==
  ASSUME DiskOK, NEW f \in Files, Vanish(f)
  PROVE  DiskOK' /\ \A e \in Entry : Kept(e)
<1>1. /\ inodes' = inodes /\ shrunk' = shrunk /\ vanished' = vanished \cup {f}
      /\ changes \in Nat /\ changes' = changes + 1 /\ disk' = [disk EXCEPT ![f] = Absent]
  BY DEF Vanish, Change, DiskOK
<1>2. inodes \in Seq(Inode) /\ Len(inodes) \in Nat /\ disk \in [Files -> 0 .. Len(inodes)]
  BY DEF DiskOK
<1>3. disk'[f] = Absent /\ \A g \in Files : g # f => disk'[g] = disk[g]
  BY <1>1, <1>2
<1>4. disk' \in [Files -> 0 .. Len(inodes)]
  BY <1>1, <1>2 DEF Absent
<1>7. ASSUME NEW i \in 1 .. Len(inodes) PROVE inodes[i].ver <= changes'
  <2>1. inodes[i] \in Inode /\ inodes[i].ver <= changes
    BY <1>2 DEF DiskOK
  <2> QED
    BY <1>1, <2>1 DEF Inode
<1>5. DiskOK'
  BY <1>1, <1>2, <1>3, <1>4, <1>7 DEF DiskOK
<1>6. ASSUME NEW e \in Entry PROVE Kept(e)
  <2>1. e.file \in Files /\ e.inode \in Nat \ {0}
    BY DEF Entry
  <2>2. \A g \in Files : disk'[g] = e.inode => disk[g] = e.inode
    BY <1>3, <2>1 DEF Absent
  <2>3. Owned(e) => Owned(e)'
    BY <1>1, <2>2 DEF Owned
  <2>4. Owned(e) => inodes[e.inode].len <= inodes'[e.inode].len
    <3> SUFFICES ASSUME Owned(e) PROVE inodes[e.inode].len <= inodes[e.inode].len
      BY <1>1
    <3>1. inodes[e.inode] \in Inode
      BY <1>2 DEF Owned
    <3> QED
      BY <3>1 DEF Inode
  <2>5. disk'[e.file] = Absent => disk[e.file] = Absent \/ e.file \in vanished'
    BY <1>1, <1>3, <2>1
  <2> QED
    BY <1>1, <1>2, <2>1, <2>2, <2>3, <2>4, <2>5 DEF Kept
<1> QED
  BY <1>5, <1>6

\* What Fits and Right say survives a change of the disk.
LEMMA FitsKept ==
  ASSUME DiskOK, DiskOK', NEW e \in Entry, Owned(e), Kept(e), NEW len \in Nat, Fits(e, len)
  PROVE  Fits(e, len)'
<1>1. inodes[e.inode] \in Inode /\ inodes'[e.inode] \in Inode
  BY DEF Owned, Kept, DiskOK
<1>2. inodes[e.inode].len \in Nat /\ inodes'[e.inode].len \in Nat
  BY <1>1 DEF Inode
<1> QED
  BY <1>2 DEF Kept, Fits

LEMMA RightKept ==
  ASSUME DiskOK, DiskOK', NEW e \in Entry, Owned(e), Kept(e), NEW ver \in Nat,
         NEW since \in Nat, since <= changes, Right(ver, since, inodes[e.inode])
  PROVE  Right(ver, since, inodes'[e.inode])
<1>1. inodes'[e.inode] \in Inode /\ changes \in Nat
  BY DEF Owned, Kept, DiskOK
<1>2. inodes'[e.inode].ver \in Nat
  BY <1>1 DEF Inode
<1> QED
  BY <1>1, <1>2 DEF Kept, Right

\* What EntryOK says survives a change of the disk, too ...
LEMMA EntryKept ==
  ASSUME DiskOK, DiskOK', NEW e \in Entry, EntryOK(e), Kept(e)
  PROVE  EntryOK(e)'
<1>1. /\ Owned(e) /\ Owned(e)' /\ shrunk \subseteq shrunk' /\ vanished \subseteq vanished'
      /\ changes <= changes' /\ changes \in Nat /\ changes' \in Nat
      /\ disk'[e.file] = Absent => disk[e.file] = Absent \/ e.file \in vanished'
  BY DEF EntryOK, Kept, DiskOK
<1>2. Current(e).len \in Nat /\ Current(e).ver \in Nat
  <2>1. Current(e) \in Inode
    BY DEF Entry, Current
  <2> QED
    BY <2>1 DEF Inode
<1>3. ASSUME Fits(e, Current(e).len) PROVE Fits(e, Current(e).len)'
  BY <1>2, <1>3, FitsKept DEF EntryOK, Current
<1>4. ASSUME Current(e).ver <= changes, Right(Current(e).ver, Current(e).ver, inodes[e.inode])
      PROVE  Right(Current(e).ver, Current(e).ver, inodes'[e.inode])
  BY <1>2, <1>4, RightKept DEF EntryOK
<1>5. Vouched(e)'
  <2>1. CASE Swapped(e) \/ ~e.alive
    BY <2>1 DEF Vouched, Swapped
  <2>2. CASE ~Swapped(e) /\ e.alive
    <3>1. /\ Current(e).ver <= changes /\ Fits(e, Current(e).len)
          /\ Right(Current(e).ver, Current(e).ver, inodes[e.inode])
      BY <2>2 DEF EntryOK, Vouched
    <3>2. Current(e).ver <= changes'
      BY <1>1, <1>2, <3>1
    <3> QED
      BY <1>3, <1>4, <3>1, <3>2 DEF Vouched, Current, Right
  <2> QED
    BY <2>1, <2>2
<1>6. Missing(e)'
  BY <1>1 DEF EntryOK, Missing
<1> QED
  BY <1>1, <1>5, <1>6 DEF EntryOK

\* ... and so does what StreamOK says.
LEMMA StreamKept ==
  ASSUME DiskOK, DiskOK', NEW e \in Entry, EntryOK(e), Kept(e), NEW st \in Stream,
         StreamOK(st, e)
  PROVE  StreamOK(st, e)'
<1>1. st.length \in Nat /\ st.ver \in Nat /\ st.since \in Nat
  BY DEF Stream
<1>2. CASE st.other
  BY <1>2 DEF StreamOK
<1>3. CASE ~st.other
  <2>1. /\ Fits(e, st.length) /\ st.since <= changes /\ Right(st.ver, st.since, inodes[e.inode])
        /\ \A c \in st.read : Right(st.ver, st.since, c)
    BY <1>3 DEF StreamOK
  <2>2. Fits(e, st.length)'
    BY <1>1, <2>1, FitsKept DEF EntryOK
  <2>3. Right(st.ver, st.since, inodes'[e.inode])
    BY <1>1, <2>1, RightKept DEF EntryOK
  <2>4. st.since <= changes'
    BY <1>1, <2>1 DEF Kept, DiskOK
  <2> QED
    BY <2>1, <2>2, <2>3, <2>4 DEF StreamOK, Right
<1> QED
  BY <1>2, <1>3

\* The types of what entries hold.
LEMMA EntryTypes ==
  ASSUME DiskOK, NEW e \in Entry
  PROVE  /\ e.file \in Files /\ e.inode \in Nat \ {0} /\ Current(e) \in Inode
         /\ e.info \in Inode /\ e.fresh \in Inode /\ e.missed \in BOOLEAN
         /\ disk[e.file] \in 0 .. Len(inodes)
         /\ disk[e.file] # Absent
              => /\ Stat(e.file) = <<disk[e.file], inodes[disk[e.file]]>>
                 /\ inodes[disk[e.file]] \in Inode /\ Stat(e.file) # Gone
                 /\ Stat(e.file) \in Nat \X Inode /\ Stat(e.file)[2] = inodes[disk[e.file]]
                 /\ Stat(e.file)[1] = disk[e.file]
         /\ disk[e.file] = Absent => Stat(e.file) = Gone
<1>1. /\ e.file \in Files /\ e.inode \in Nat \ {0} /\ e.info \in Inode /\ e.fresh \in Inode
      /\ e.missed \in BOOLEAN
  BY DEF Entry
<1>2. Current(e) \in Inode
  BY <1>1 DEF Current
<1>3. disk[e.file] \in 0 .. Len(inodes) /\ inodes \in Seq(Inode)
  BY <1>1 DEF DiskOK
<1>4. disk[e.file] # Absent => inodes[disk[e.file]] \in Inode
  BY <1>3 DEF Absent
<1>5. disk[e.file] # Absent => Stat(e.file) = <<disk[e.file], inodes[disk[e.file]]>>
  BY DEF Stat
<1>6. disk[e.file] = Absent => Stat(e.file) = Gone
  BY DEF Stat
<1>7. disk[e.file] \in Nat
  BY <1>3
<1> QED
  BY <1>1, <1>2, <1>3, <1>4, <1>5, <1>6, <1>7 DEF Gone

-----------------------------------------------------------------------------
(* What the worker does to one entry *)

\* The entry d is what became of e.
Same(e, d) == d.file = e.file /\ d.inode = e.inode /\ (~e.alive => ~d.alive)

\* update_info, for one entry.
LEMMA UpdatedOK ==
  ASSUME DiskOK, NEW e \in Entry, EntryOK(e), Stat(e.file) # Gone, NEW d,
         d = [e EXCEPT !.fresh = Stat(e.file)[2], !.updated = TRUE,
                       !.missed = FALSE, !.seen = Stat(e.file)]
  PROVE  d \in Entry /\ EntryOK(d) /\ Synced(d) /\ Same(e, d)
<1>1. /\ disk[e.file] # Absent /\ inodes[disk[e.file]] \in Inode
      /\ Stat(e.file) \in Nat \X Inode /\ Stat(e.file)[2] = inodes[disk[e.file]]
  BY EntryTypes
<1>2. d \in Entry
  BY <1>1 DEF Entry
<1>3. /\ d.file = e.file /\ d.inode = e.inode /\ d.alive = e.alive /\ d.missed = FALSE
      /\ d.fresh = inodes[disk[e.file]] /\ d.updated = TRUE /\ d.seen = Stat(e.file)
  BY <1>1 DEF Entry
<1>4. Vouched(d)
  <2>1. CASE disk[e.file] # e.inode
    <3>1. d.seen[1] # d.inode /\ d.seen # Gone
      BY <1>3, <2>1, EntryTypes
    <3> QED
      BY <1>3, <3>1 DEF Vouched, Swapped
  <2>2. CASE disk[e.file] = e.inode
    <3>1. Current(d) = inodes[d.inode]
      BY <1>3, <2>2 DEF Current
    <3>2. inodes[d.inode].ver <= changes /\ inodes[d.inode].len \in Nat
      BY <1>1, <1>3, <2>2 DEF EntryOK, Owned, DiskOK, Inode
    <3> QED
      BY <3>1, <3>2 DEF Vouched, Fits, Right
  <2> QED
    BY <2>1, <2>2
<1>6. EntryOK(d)
  BY <1>3, <1>4 DEF EntryOK, Owned, Missing
<1>7. Synced(d)
  BY <1>1, <1>3 DEF Synced, Current
<1> QED
  BY <1>2, <1>3, <1>6, <1>7 DEF Same

\* remove_self, for one of the entries it erases.
LEMMA ErasedOK ==
  ASSUME NEW e \in Entry, EntryOK(e), NEW f \in vanished, f \in Files, f[1] = e.file[1], NEW d,
         d = [e EXCEPT !.alive = FALSE, !.seen = Gone]
  PROVE  d \in Entry /\ EntryOK(d) /\ Synced(d) /\ Same(e, d)
<1>1. d \in Entry
  BY DEF Entry
<1>2. /\ d.file = e.file /\ d.inode = e.inode /\ d.alive = FALSE /\ d.info = e.info
      /\ d.fresh = e.fresh
  BY DEF Entry
<1>3. Owned(d) /\ Vouched(d)
  BY <1>2 DEF EntryOK, Owned, Vouched
<1>4. Missing(d)
  BY <1>2 DEF EntryOK, Missing
<1> QED
  BY <1>1, <1>2, <1>3, <1>4 DEF EntryOK, Synced, Same

\* info(), for the entry it is asked of.
LEMMA ToldOK ==
  ASSUME DiskOK, NEW e \in Entry, EntryOK(e), Synced(e), NEW d,
         d = [e EXCEPT !.info = Current(e), !.updated = FALSE]
  PROVE  d \in Entry /\ EntryOK(d) /\ Synced(d) /\ Same(e, d) /\ d.alive = e.alive
<1>1. Current(e) \in Inode
  BY EntryTypes
<1>2. d \in Entry
  BY <1>1 DEF Entry
<1>3. /\ d.file = e.file /\ d.inode = e.inode /\ d.alive = e.alive /\ d.info = Current(e)
      /\ d.fresh = e.fresh /\ d.updated = FALSE /\ d.seen = e.seen /\ d.missed = e.missed
  BY DEF Entry
<1>4. Current(d) = Current(e)
  BY <1>3 DEF Current
<1>5. EntryOK(d)
  BY <1>3, <1>4 DEF EntryOK, Owned, Vouched, Swapped, Fits, Missing
<1>6. Synced(d)
  BY <1>3 DEF Synced, Current
<1> QED
  BY <1>2, <1>3, <1>5, <1>6 DEF Same

\* The start of the stat watcher.
LEMMA WatchedOK ==
  ASSUME DiskOK, NEW e \in Entry, EntryOK(e), Fresh(e)
  PROVE  /\ Watched(e) \in Entry /\ EntryOK(Watched(e)) /\ Synced(Watched(e))
         /\ Same(e, Watched(e)) /\ Watched(e).alive = e.alive
<1> DEFINE d == Watched(e)
<1>1. Stat(e.file) \in {Gone} \cup (Nat \X Inode)
  BY EntryTypes
<1>2. d \in Entry
  BY <1>1 DEF Entry, Watched
<1>3. /\ d.file = e.file /\ d.inode = e.inode /\ d.alive = e.alive /\ d.info = e.info
      /\ d.fresh = e.fresh /\ d.updated = e.updated /\ d.seen = Stat(e.file)
      /\ d.missed = (Stat(e.file) # <<e.inode, e.info>>)
  BY DEF Entry, Watched
<1> HIDE DEF d
<1>4. EntryOK(d)
  <2>1. Current(d) = Current(e) /\ ~Swapped(e)
    BY <1>3 DEF Current, Fresh, Swapped
  <2> QED
    BY <1>3, <2>1 DEF EntryOK, Owned, Vouched, Fits, Missing
<1>5. ASSUME ~d.missed PROVE d.seen # Gone /\ Current(d) = d.seen[2]
  <2>1. d.seen = <<e.inode, e.info>>
    BY <1>3, <1>5, Zenon
  <2>2. Current(d) = e.info
    BY <1>3 DEF Current, Fresh
  <2> QED
    BY <2>1, <2>2 DEF Gone
<1> QED
  BY <1>2, <1>3, <1>4, <1>5 DEF Same, Synced, d

\* A file that is opened.
LEMMA NewEntryOK ==
  ASSUME DiskOK, NEW f \in Files, disk[f] # Absent
  PROVE  /\ NewEntry(f, TRUE) \in Entry /\ EntryOK(NewEntry(f, TRUE))
         /\ Fresh(NewEntry(f, TRUE)) /\ NewEntry(f, TRUE).alive
<1> DEFINE e == NewEntry(f, TRUE)
<1>1. disk[f] \in 1 .. Len(inodes) /\ disk[f] \in Nat \ {0} /\ inodes[disk[f]] \in Inode
  BY DEF DiskOK, Absent
<1>2. e \in Entry
  BY <1>1 DEF Entry, NewEntry
<1>3. /\ e.file = f /\ e.inode = disk[f] /\ e.info = inodes[disk[f]]
      /\ e.fresh = inodes[disk[f]] /\ e.updated = FALSE /\ e.alive = TRUE
      /\ e.seen = Gone
  BY DEF NewEntry
<1> HIDE DEF e
<1>4. inodes[disk[f]].len \in Nat /\ inodes[disk[f]].ver <= changes
  BY <1>1 DEF Inode, DiskOK
<1>5. Owned(e)
  BY <1>1, <1>3 DEF DiskOK, Owned
<1>6. Vouched(e) /\ Missing(e)
  BY <1>3, <1>4 DEF Vouched, Current, Fits, Right, Missing
<1> QED
  BY <1>2, <1>3, <1>5, <1>6 DEF EntryOK, Fresh, e

\* A response that begins.
LEMMA NewStreamOK ==
  ASSUME DiskOK, NEW e \in Entry, e.alive, EntryOK(e), Synced(e), NEW k \in Nat, NEW st,
         st = [entry |-> k, ver |-> Current(e).ver, length |-> Current(e).len, pos |-> 0,
               read |-> {}, since |-> IF e.missed \/ e.seen # Stat(e.file)
                                      THEN Current(e).ver ELSE changes,
               other |-> Swapped(e)]
  PROVE  st \in Stream /\ st.entry = k /\ StreamOK(st, e)
<1>1. Current(e) \in Inode /\ changes \in Nat
  BY EntryTypes DEF DiskOK
<1>2. Current(e).ver \in Nat /\ Current(e).len \in Nat
  BY <1>1 DEF Inode
<1>3. st \in Stream
  BY <1>1, <1>2 DEF Stream, Swapped
<1>4. /\ st.ver = Current(e).ver /\ st.length = Current(e).len /\ st.read = {}
      /\ st.since = IF e.missed \/ e.seen # Stat(e.file) THEN Current(e).ver ELSE changes
      /\ st.other = Swapped(e)
  OBVIOUS
<1>5. ASSUME ~Swapped(e)
      PROVE  /\ Fits(e, st.length) /\ st.since <= changes
             /\ Right(st.ver, st.since, inodes[e.inode])
  <2>1. /\ Current(e).ver <= changes /\ Fits(e, Current(e).len)
        /\ Right(Current(e).ver, Current(e).ver, inodes[e.inode])
    BY <1>5 DEF EntryOK, Vouched
  <2>2. CASE e.missed \/ e.seen # Stat(e.file)
    BY <1>4, <2>1, <2>2
  <2>3. CASE ~e.missed /\ e.seen = Stat(e.file)
    <3>1. e.seen # Gone /\ Current(e) = e.seen[2] /\ e.seen[1] = e.inode
      BY <1>5, <2>3 DEF Synced, Swapped
    <3>2. Current(e) = inodes[e.inode]
      BY <2>3, <3>1, EntryTypes
    <3>3. Right(st.ver, st.since, inodes[e.inode])
      BY <1>4, <3>2 DEF Right
    <3> QED
      BY <1>1, <1>4, <2>1, <2>3, <3>3
  <2> QED
    BY <2>2, <2>3
<1> QED
  BY <1>3, <1>4, <1>5 DEF StreamOK
-----------------------------------------------------------------------------
(* The steps *)

\* The table between the steps that start watchers.
LEMMA Settled ==
  ASSUME FilesInv, pc \notin {"watch_plain", "watch_br"}
  PROVE  /\ entries \in Seq(Entry) /\ Len(entries) \in Nat
         /\ \A i \in 1 .. Len(entries) :
              entries[i] \in Entry /\ EntryOK(entries[i]) /\ Synced(entries[i])
<1>1. entries \in Seq(Entry)
  BY DEF FilesInv, Table
<1>2. Len(entries) \in Nat /\ \A i \in 1 .. Len(entries) : entries[i] \in Entry
  BY <1>1, LenProperties
<1>3. \A i \in 1 .. Len(entries) : ~Starting(i)
  BY DEF Starting
<1>4. \A i \in 1 .. Len(entries) : EntryOK(entries[i]) /\ Synced(entries[i])
  BY <1>3 DEF FilesInv, Table
<1> QED
  BY <1>1, <1>2, <1>4

\* Responses depend on the disk and on the file and inode of their entries; the
\* table may grow and an erased entry stays erased.
LEMMA ResponsesFollow ==
  ASSUME DiskOK, Table, Responses, Stopped, UNCHANGED world, streams' = streams,
         hung' = hung, freed' = freed, Len(entries) <= Len(entries'), Len(entries') \in Nat,
         \A i \in 1 .. Len(entries) : Same(entries[i], entries'[i])
  PROVE  Responses' /\ Stopped'
<1>0. Len(entries) \in Nat
  BY DEF Table
<1>1. \A i \in 1 .. Len(entries) : i \in 1 .. Len(entries')
  BY <1>0
<1>2. ASSUME NEW s \in DOMAIN streams, NEW e, NEW d, e = entries[streams[s].entry],
             d = entries'[streams[s].entry]
      PROVE  /\ streams[s].entry \in 1 .. Len(entries) /\ Same(e, d)
             /\ StreamOK(streams[s], e) /\ StreamOK(streams[s], d)'
  BY <1>2 DEF Responses, Same, StreamOK, Fits, world
<1>3. Responses'
  BY <1>1, <1>2 DEF Responses
<1>4. hung # None => FileOf(hung)' = FileOf(hung)
  BY <1>2 DEF Stopped, FileOf, Same
<1>5. freed # None => ~entries'[streams[freed].entry].alive
  BY <1>2 DEF Stopped, Same
<1>6. Stopped'
  BY <1>4, <1>5 DEF Stopped, world
<1> QED
  BY <1>3, <1>6

\* The disk may change at any moment.
LEMMA WorldKeeps == FilesInv /\ World => FilesInv'
<1> SUFFICES ASSUME FilesInv, World PROVE FilesInv'
  OBVIOUS
<1>1. PICK f \in Files : \/ Vanish(f)
                         \/ \E len \in Lens : Appear(f, len) \/ Overwrite(f, len) \/ Replace(f, len)
  BY DEF World
<1>2. DiskOK' /\ \A e \in Entry : Kept(e)
  <2>1. CASE Vanish(f)
    BY <2>1, VanishKeeps DEF FilesInv
  <2>2. ASSUME NEW len \in Lens, Appear(f, len) \/ Replace(f, len)
        PROVE  DiskOK' /\ \A e \in Entry : Kept(e)
    <3> DEFINE new == NewInode(len, FALSE)
    <3>1. new \in Inode /\ new.ver = changes' /\ changes' = changes + 1
      BY <2>2, FilesAssumption DEF FilesInv, DiskOK, Appear, Replace, Change, NewInode, Inode
    <3>2. /\ inodes' = Append(inodes, new) /\ disk' = [disk EXCEPT ![f] = Len(inodes) + 1]
          /\ shrunk' = shrunk /\ vanished' = vanished
      BY <2>2, Zenon DEF Appear, Replace
    <3> HIDE DEF new
    <3> QED
      BY <3>1, <3>2, NewInodeKeeps DEF FilesInv
  <2>3. ASSUME NEW len \in Lens, Overwrite(f, len)
        PROVE  DiskOK' /\ \A e \in Entry : Kept(e)
    BY <2>3, OverwriteKeeps DEF FilesInv
  <2> QED
    BY <1>1, <2>1, <2>2, <2>3
<1>3. /\ entries' = entries /\ pc' = pc /\ req' = req /\ got' = got /\ streams' = streams
      /\ hung' = hung /\ freed' = freed
  BY <1>1 DEF Vanish, Appear, Overwrite, Replace, Change, worker
<1>4. Control'
  BY <1>3 DEF FilesInv, Control
<1>5. ASSUME NEW i \in 1 .. Len(entries), NEW e, e = entries[i]
      PROVE  e \in Entry /\ EntryOK(e) /\ EntryOK(e)' /\ Kept(e)
  <2>1. e \in Entry /\ EntryOK(e)
    BY <1>5 DEF FilesInv, Table
  <2> QED
    BY <1>2, <2>1, EntryKept DEF FilesInv
<1>6. Table'
  BY <1>3, <1>5 DEF FilesInv, Table, Starting, Synced, Current
<1>7. ASSUME NEW s \in DOMAIN streams, NEW e, e = entries[streams[s].entry], NEW st, st = streams[s]
      PROVE  StreamOK(st, e)'
  <2>1. /\ st \in Stream /\ st.entry \in 1 .. Len(entries) /\ StreamOK(st, e)
    BY <1>7 DEF FilesInv, Responses
  <2>2. e \in Entry /\ EntryOK(e) /\ Kept(e)
    BY <1>5, <1>7, <2>1
  <2> QED
    BY <1>2, <2>1, <2>2, StreamKept DEF FilesInv
<1>8. Responses'
  BY <1>3, <1>7 DEF FilesInv, Responses
<1>9. Stopped'
  <2>1. shrunk \subseteq shrunk'
    BY <1>1 DEF Vanish, Appear, Overwrite, Replace
  <2> QED
    BY <1>3, <2>1 DEF FilesInv, Stopped, FileOf
<1> QED
  BY <1>2, <1>4, <1>6, <1>8, <1>9 DEF FilesInv

\* A stat watcher reports.
LEMMA WatcherKeeps == ASSUME FilesInv, NEW e \in DOMAIN entries, update_cb(e) PROVE FilesInv'
<1> DEFINE n == Len(entries)
<1>0. /\ entries \in Seq(Entry) /\ n \in Nat /\ DOMAIN entries = 1 .. n /\ e \in 1 .. n
      /\ \A i \in 1 .. n : entries[i] \in Entry /\ EntryOK(entries[i]) /\ Synced(entries[i])
  <2>1. pc = "loop"
    BY DEF update_cb
  <2> QED
    BY <2>1, LenProperties DEF FilesInv, Table, Starting
<1>1. /\ UNCHANGED world /\ pc' = pc /\ got' = got /\ streams' = streams /\ hung' = hung
      /\ freed' = freed /\ pc = "loop" /\ got = None
  BY DEF update_cb, FilesInv, Control
<1>2. DiskOK' /\ DiskOK
  BY <1>1 DEF FilesInv, DiskOK, world
<1>3. Stat(entries[e].file) = Gone => disk[entries[e].file] = Absent
  BY <1>0, <1>2, EntryTypes
<1>4. /\ entries' \in Seq(Entry) /\ Len(entries') = n
      /\ \A i \in 1 .. n : /\ EntryOK(entries'[i]) /\ Synced(entries'[i])
                           /\ Same(entries[i], entries'[i])
  <2>1. CASE Stat(entries[e].file) # Gone
    <3> DEFINE d == [entries[e] EXCEPT !.fresh = Stat(entries[e].file)[2], !.updated = TRUE,
                                      !.missed = FALSE, !.seen = Stat(entries[e].file)]
    <3>1. entries' = [entries EXCEPT ![e] = d]
      BY <2>1 DEF update_cb, update_info
    <3>2. d \in Entry /\ EntryOK(d) /\ Synced(d) /\ Same(entries[e], d)
      BY <1>0, <1>2, <2>1, UpdatedOK
    <3> HIDE DEF d
    <3>3. /\ entries' \in Seq(Entry) /\ Len(entries') = n
          /\ \A i \in 1 .. n : entries'[i] = IF e = i THEN d ELSE entries[i]
      BY <1>0, <3>1, <3>2, ExceptSeq
    <3> QED
      BY <1>0, <3>2, <3>3 DEF Same
  <2>2. CASE Stat(entries[e].file) = Gone
    <3>1. entries' = [i \in 1 .. n |-> IF Key(i) = Key(e)
                                         THEN [entries[i] EXCEPT !.alive = FALSE, !.seen = Gone]
                                         ELSE entries[i]]
      BY <1>0, <2>2 DEF update_cb, remove_self
    <3>2. entries[e].file \in vanished /\ entries[e].file \in Files
      BY <1>0, <1>3, <2>2 DEF EntryOK, Missing, Entry
    <3>3. ASSUME NEW i \in 1 .. n
          PROVE  /\ entries'[i] \in Entry /\ EntryOK(entries'[i]) /\ Synced(entries'[i])
                 /\ Same(entries[i], entries'[i])
      <4>1. CASE Key(i) = Key(e)
        <5>1. entries[i].file[1] = entries[e].file[1]
          BY <4>1 DEF Key
        <5>2. entries'[i] = [entries[i] EXCEPT !.alive = FALSE, !.seen = Gone]
          BY <3>1, <4>1
        <5> QED
          BY <1>0, <3>2, <5>1, <5>2, ErasedOK
      <4>2. CASE Key(i) # Key(e)
        <5>1. entries'[i] = entries[i]
          BY <3>1, <4>2
        <5> QED
          BY <1>0, <5>1 DEF Same
      <4> QED
        BY <4>1, <4>2
    <3>4. entries' \in Seq(Entry) /\ Len(entries') = n
      <4>1. entries' \in [1 .. n -> Entry]
        BY <3>1, <3>3
      <4> QED
        BY <1>0, <4>1
    <3> QED
      BY <3>3, <3>4
  <2> QED
    BY <2>1, <2>2
<1> HIDE DEF n
<1>5. Responses' /\ Stopped'
  BY <1>0, <1>1, <1>2, <1>4, ResponsesFollow DEF FilesInv, n
<1>6. Table'
  <2>1. ASSUME NEW i \in 1 .. n, NEW d, d = entries'[i] PROVE EntryOK(d)' /\ Synced(d)'
    BY <1>1, <1>4, <2>1 DEF EntryOK, Owned, Vouched, Fits, Right, Missing, Synced, world
  <2> QED
    BY <1>1, <1>4, <2>1 DEF Table, Starting
<1>7. Control'
  BY <1>1 DEF Control, None
<1> QED
  BY <1>2, <1>5, <1>6, <1>7 DEF FilesInv
\* A response begins, with what info() gives.
LEMMA RespondKeeps ==
  ASSUME FilesInv, Up, pc \notin {"watch_plain", "watch_br"}, NEW e \in 1 .. Len(entries),
         entries[e].alive, Respond(e)
  PROVE  FilesInv'
<1> DEFINE n == Len(entries)
           old == entries[e]
           d == [old EXCEPT !.info = Current(old), !.updated = FALSE]
<1>0. entries \in Seq(Entry) /\ n \in Nat /\ e \in 1 .. n
  BY Settled
<1>1. /\ old \in Entry /\ EntryOK(old) /\ Synced(old)
      /\ \A i \in 1 .. n : entries[i] \in Entry /\ EntryOK(entries[i]) /\ Synced(entries[i])
  BY Settled
<1>2. /\ UNCHANGED world /\ pc' = "loop" /\ got' = None /\ hung' = None /\ freed' = None
      /\ DiskOK /\ DiskOK'
  BY DEF Respond, Up, FilesInv, DiskOK, world
<1>3. info(e) = Current(old)
  BY DEF info, Current
<1>4. d \in Entry /\ EntryOK(d) /\ Synced(d) /\ Same(old, d)
  BY <1>1, <1>2, ToldOK
<1>5. entries' = [entries EXCEPT ![e] = d]
  BY <1>0, <1>3 DEF Respond
<1>18. d \in Entry
  BY <1>4
<1> HIDE DEF d, old
<1>6. /\ entries' \in Seq(Entry) /\ Len(entries') = n
      /\ \A i \in 1 .. n : entries'[i] = IF i = e THEN d ELSE entries[i]
  BY <1>0, <1>18, <1>5, ExceptSeq
<1> HIDE DEF n
<1>7. \A i \in 1 .. n : /\ EntryOK(entries'[i]) /\ Synced(entries'[i])
                        /\ Same(entries[i], entries'[i])
  BY <1>1, <1>4, <1>6 DEF Same, old
<1>8. ASSUME NEW i \in 1 .. n, NEW x, x = entries'[i] PROVE EntryOK(x)' /\ Synced(x)'
  BY <1>2, <1>7, <1>8 DEF EntryOK, Owned, Vouched, Fits, Right, Missing, Synced, world
<1>9. Table'
  BY <1>2, <1>6, <1>8 DEF Table, Starting
<1>10. ASSUME NEW s \in DOMAIN streams, NEW st, st = streams[s], NEW x, x = entries'[st.entry]
       PROVE  st \in Stream /\ st.entry \in 1 .. n /\ StreamOK(st, x)'
  <2>1. st \in Stream /\ st.entry \in 1 .. n /\ StreamOK(st, entries[st.entry])
    BY <1>10 DEF FilesInv, Responses, n
  <2>2. Same(entries[st.entry], x)
    BY <1>7, <1>10, <2>1
  <2> QED
    BY <1>2, <2>1, <2>2 DEF Same, StreamOK, Fits, world
<1>11. ASSUME NEW st, st = NewStream(e), NEW x, x = entries'[st.entry]
       PROVE  st \in Stream /\ st.entry \in 1 .. n /\ StreamOK(st, x)'
  <2>1. st = [entry |-> e, ver |-> Current(old).ver, length |-> Current(old).len, pos |-> 0,
              read |-> {}, since |-> IF old.missed \/ old.seen # Stat(old.file)
                                     THEN Current(old).ver ELSE changes,
              other |-> Swapped(old)]
    BY <1>3, <1>11, Zenon DEF NewStream, old
  <2>2. st \in Stream /\ st.entry = e /\ StreamOK(st, old)
    <3>1. e \in Nat /\ old.alive
      BY <1>0 DEF old, n
    <3> HIDE DEF Stream
    <3> QED
      BY <1>1, <1>2, <2>1, <3>1, NewStreamOK
  <2>3. Same(old, x) /\ st.entry \in 1 .. n
    BY <1>0, <1>7, <1>11, <2>2 DEF old
  <2> QED
    BY <1>2, <2>2, <2>3 DEF Same, StreamOK, Fits, world
<1>12. \/ streams' = streams
       \/ \E s \in Slots :
            streams' = [t \in DOMAIN streams \cup {s} |->
                          IF t = s THEN NewStream(e) ELSE streams[t]]
  BY DEF Respond
<1>13. ASSUME NEW s \in DOMAIN streams'
       PROVE  \/ streams'[s] = NewStream(e)
              \/ s \in DOMAIN streams /\ streams'[s] = streams[s]
  BY <1>12, <1>13
<1>14. Responses'
  <2> SUFFICES ASSUME NEW s \in DOMAIN streams', NEW st, st = streams'[s],
                      NEW x, x = entries'[st.entry]
               PROVE  st \in Stream /\ st.entry \in 1 .. n /\ StreamOK(st, x)'
    BY <1>6 DEF Responses
  <2> QED
    BY <1>10, <1>11, <1>13
<1>15. Control' /\ Stopped'
  BY <1>2 DEF Control, Stopped, None
<1> QED
  BY <1>2, <1>9, <1>14, <1>15 DEF FilesInv

\* A file not in the table is opened and added.
LEMMA AddKeeps ==
  ASSUME FilesInv, pc \in {"plain", "br"}, NEW f \in Files, disk[f] # Absent,
         NEW after \in {"watch_plain", "watch_br"}, Add(f, after)
  PROVE  FilesInv'
<1> DEFINE n == Len(entries)
           d == NewEntry(f, TRUE)
<1>0. entries \in Seq(Entry) /\ n \in Nat
  BY Settled
<1>1. \A i \in 1 .. n : entries[i] \in Entry /\ EntryOK(entries[i]) /\ Synced(entries[i])
  BY Settled
<1>2. /\ UNCHANGED world /\ pc' = after /\ req' = req /\ got' = n + 1 /\ streams' = streams
      /\ hung' = hung /\ freed' = freed /\ DiskOK /\ DiskOK'
  BY DEF Add, FilesInv, DiskOK, world
<1>3. d \in Entry /\ EntryOK(d) /\ Fresh(d) /\ d.alive
  BY <1>2, NewEntryOK
<1>4. entries' = Append(entries, d)
  BY DEF Add
<1>5. /\ entries' \in Seq(Entry) /\ Len(entries') = n + 1 /\ entries'[n + 1] = d
      /\ \A i \in 1 .. n : entries'[i] = entries[i]
  <2>1. d \in Entry
    BY <1>3
  <2> HIDE DEF d
  <2> QED
    BY <1>0, <1>4, <2>1, AppendProperties
<1> HIDE DEF d, n
<1>6. \A i \in 1 .. n + 1 : i = n + 1 \/ (i \in 1 .. n /\ i # n + 1)
  BY <1>0
<1>7. ASSUME NEW i \in 1 .. n + 1, NEW x, x = entries'[i]
      PROVE  EntryOK(x)' /\ IF i = n + 1 THEN Fresh(x) ELSE Synced(x)'
  <2>1. EntryOK(x) /\ IF i = n + 1 THEN Fresh(x) ELSE Synced(x)
    BY <1>1, <1>3, <1>5, <1>6, <1>7
  <2> QED
    BY <1>2, <2>1 DEF EntryOK, Owned, Vouched, Fits, Right, Missing, Synced, world
<1>8. Table'
  BY <1>2, <1>5, <1>7 DEF Table, Starting
<1>9. n + 1 \in 1 .. n + 1 /\ n + 1 # 0 /\ n <= n + 1 /\ n + 1 \in Nat
  BY <1>0
<1>10. Control'
  BY <1>2, <1>3, <1>5, <1>9 DEF FilesInv, Control, None
<1>11. \A i \in 1 .. n : Same(entries[i], entries'[i])
  BY <1>5 DEF Same
<1>12. Responses' /\ Stopped'
  BY <1>2, <1>5, <1>9, <1>11, ResponsesFollow DEF FilesInv, n
<1> QED
  BY <1>2, <1>8, <1>10, <1>12 DEF FilesInv

\* The stat watcher of a new entry is started.
LEMMA WatchKeeps ==
  ASSUME FilesInv, pc \in {"watch_plain", "watch_br"}, NEW after \in {"br", "found"}, Watch(after)
  PROVE  FilesInv'
<1> DEFINE n == Len(entries)
           d == Watched(entries[got])
<1>1. /\ entries \in Seq(Entry) /\ n \in Nat /\ got \in 1 .. n
      /\ got # None /\ entries[got].alive
      /\ entries[got] \in Entry /\ EntryOK(entries[got]) /\ Fresh(entries[got])
      /\ \A i \in 1 .. n : entries[i] \in Entry /\ EntryOK(entries[i])
                           /\ (i # got => Synced(entries[i]))
  <2>1. entries \in Seq(Entry) /\ got \in 1 .. n
    BY DEF FilesInv, Table, Control
  <2>2. n \in Nat /\ \A i \in 1 .. n : entries[i] \in Entry
    BY <2>1, LenProperties
  <2>3. got # None
    BY <2>1, <2>2 DEF None
  <2>6. entries[got].alive
    BY <2>3, Zenon DEF FilesInv, Control
  <2>4. Starting(got) /\ \A i \in 1 .. n : i # got => ~Starting(i)
    BY DEF Starting
  <2>5. \A i \in 1 .. n : /\ EntryOK(entries[i])
                          /\ IF Starting(i) THEN Fresh(entries[i]) ELSE Synced(entries[i])
    BY DEF FilesInv, Table
  <2> QED
    BY <2>1, <2>2, <2>3, <2>4, <2>5, <2>6
<1>2. /\ UNCHANGED world /\ pc' = after /\ req' = req /\ got' = got /\ streams' = streams
      /\ hung' = hung /\ freed' = freed /\ DiskOK /\ DiskOK'
  BY DEF Watch, FilesInv, DiskOK, world
<1>3. d \in Entry /\ EntryOK(d) /\ Synced(d) /\ Same(entries[got], d) /\ d.alive
  BY <1>1, <1>2, WatchedOK
<1>4. entries' = [entries EXCEPT ![got] = d]
  BY DEF Watch
<1>5. /\ entries' \in Seq(Entry) /\ Len(entries') = n
      /\ \A i \in 1 .. n : entries'[i] = IF i = got THEN d ELSE entries[i]
  <2>1. d \in Entry /\ entries \in Seq(Entry) /\ got \in 1 .. n
    BY <1>1, <1>3
  <2> HIDE DEF d
  <2> QED
    BY <1>4, <2>1, ExceptSeq
<1> HIDE DEF d, n
<1>6. \A i \in 1 .. n : /\ EntryOK(entries'[i]) /\ Synced(entries'[i])
                        /\ Same(entries[i], entries'[i])
  BY <1>1, <1>3, <1>5 DEF Same
<1>7. ASSUME NEW i \in 1 .. n, NEW x, x = entries'[i] PROVE EntryOK(x)' /\ Synced(x)'
  BY <1>2, <1>6, <1>7 DEF EntryOK, Owned, Vouched, Fits, Right, Missing, Synced, world
<1>8. Table'
  BY <1>2, <1>5, <1>7 DEF Table, Starting
<1>9. Control'
  <2>1. n \in Nat /\ got \in 1 .. n /\ got \in 0 .. n
    BY <1>1
  <2>2. entries'[got] = d
    BY <1>5, <2>1
  <2> QED
    BY <1>2, <1>3, <1>5, <2>1, <2>2 DEF FilesInv, Control, None
<1>10. Responses' /\ Stopped'
  <2>1. Len(entries) <= Len(entries') /\ Len(entries') \in Nat
    BY <1>1, <1>5 DEF n
  <2> QED
    BY <1>2, <1>6, <2>1, ResponsesFollow DEF FilesInv, n
<1> QED
  BY <1>2, <1>8, <1>9, <1>10 DEF FilesInv

\* A step of a lookup that only moves on.
LEMMA LookupMoves ==
  ASSUME FilesInv, UNCHANGED <<world, entries, streams, hung, freed>>,
         pc \notin {"watch_plain", "watch_br"}, pc' \in {"loop", "plain", "br"}, got' = None,
         pc' # "loop" => req'.name \in Names
  PROVE  FilesInv'
<1>1. DiskOK' /\ Responses' /\ Stopped'
  BY DEF FilesInv, DiskOK, Responses, StreamOK, Fits, Stopped, FileOf, world
<1>2. Control'
  <2>1. Len(entries) \in Nat
    BY Settled
  <2>2. pc' = "br" => got' \in 0 .. Len(entries')
    BY <2>1 DEF None
  <2> QED
    BY <2>2 DEF Control
<1>3. \A i \in 1 .. Len(entries) : EntryOK(entries[i]) /\ Synced(entries[i])
  BY Settled
<1>4. ASSUME NEW i \in 1 .. Len(entries), NEW x, x = entries[i] PROVE EntryOK(x)' /\ Synced(x)'
  BY <1>3, <1>4 DEF EntryOK, Owned, Vouched, Fits, Right, Missing, Synced, world
<1>5. Table'
  BY <1>4 DEF FilesInv, Table, Starting
<1> QED
  BY <1>1, <1>2, <1>5 DEF FilesInv

\* Every step of a request.
LEMMA RequestKeeps == FilesInv /\ Requests => FilesInv'
<1> SUFFICES ASSUME FilesInv, Requests PROVE FilesInv'
  OBVIOUS
<1>0. entries \in Seq(Entry) /\ Len(entries) \in Nat /\ DOMAIN entries = 1 .. Len(entries)
  BY LenProperties DEF FilesInv, Table
<1>1. ASSUME NEW name \in Names, NEW br \in BOOLEAN, get_static_file(name, br) PROVE FilesInv'
  <2> DEFINE wanted == {e \in Hits(name) : compressed(e) = br}
             e == IF wanted # {} THEN Min(wanted) ELSE Max(Hits(name))
  <2>1. Up /\ pc = "loop"
    BY <1>1 DEF get_static_file
  <2>2. CASE Hits(name) = {}
    <3>1. /\ UNCHANGED <<world, entries, got, streams, hung, freed>> /\ pc' = "plain"
          /\ req'.name = name
      BY <1>1, <2>2 DEF get_static_file
    <3>2. got = None
      BY <2>1 DEF FilesInv, Control
    <3> QED
      BY <2>1, <3>1, <3>2, LookupMoves
  <2>3. CASE Hits(name) # {}
    <3>1. Respond(e)
      BY <1>1, <2>3 DEF get_static_file
    <3>2. Hits(name) \in SUBSET (1 .. Len(entries)) /\ wanted \in SUBSET (1 .. Len(entries))
      BY <1>0 DEF Hits
    <3>3. e \in Hits(name)
      BY <1>0, <2>3, <3>2, MinMaxIn
    <3>4. e \in 1 .. Len(entries) /\ entries[e].alive
      BY <3>2, <3>3 DEF Hits, InTable
    <3> HIDE DEF e
    <3> QED
      BY <2>1, <3>1, <3>4, RespondKeeps
  <2> QED
    BY <2>2, <2>3
<1>2. CASE AddPlain
  <2> DEFINE f == <<req.name, "plain">>
  <2>1. pc = "plain" /\ got = None /\ f \in Files /\ req.name \in Names
    BY <1>2 DEF AddPlain, FilesInv, Control, Files
  <2>2. CASE disk[f] # Absent
    <3>1. Add(f, "watch_plain")
      BY <1>2, <2>2 DEF AddPlain
    <3> HIDE DEF f
    <3> QED
      BY <2>1, <2>2, <3>1, AddKeeps
  <2>3. CASE disk[f] = Absent
    <3>1. pc' = "br" /\ UNCHANGED <<world, entries, req, got, streams, hung, freed>>
      BY <1>2, <2>3 DEF AddPlain
    <3> QED
      BY <2>1, <3>1, LookupMoves
  <2> QED
    BY <2>2, <2>3
<1>3. CASE WatchPlain
  BY <1>3, WatchKeeps DEF WatchPlain
<1>4. CASE AddBr
  <2> DEFINE f == <<req.name, "br">>
  <2>1. Up /\ pc = "br" /\ got \in 0 .. Len(entries) /\ f \in Files
    BY <1>4 DEF AddBr, FilesInv, Control, Files
  <2>2. CASE req.br /\ disk[f] # Absent
    <3>1. Add(f, "watch_br")
      BY <1>4, <2>2 DEF AddBr
    <3> HIDE DEF f
    <3> QED
      BY <2>1, <2>2, <3>1, AddKeeps
  <2>3. CASE ~(req.br /\ disk[f] # Absent) /\ got # None
    <3>1. Respond(got)
      BY <1>4, <2>3 DEF AddBr
    <3>2. got \in 1 .. Len(entries) /\ entries[got].alive
      BY <1>0, <2>1, <2>3 DEF FilesInv, Control, None
    <3> QED
      BY <2>1, <3>1, <3>2, RespondKeeps
  <2>4. CASE ~(req.br /\ disk[f] # Absent) /\ got = None
    <3>1. Answer404
      BY <1>4, <2>4 DEF AddBr
    <3> QED
      BY <2>1, <2>4, <3>1, LookupMoves DEF Answer404
  <2> QED
    BY <2>2, <2>3, <2>4
<1>5. CASE WatchBr
  BY <1>5, WatchKeeps DEF WatchBr
<1>6. CASE Found
  <2>1. Up /\ pc = "found" /\ Respond(got)
    BY <1>6 DEF Found
  <2>2. got \in 1 .. Len(entries) /\ entries[got].alive
    BY <1>0, <2>1 DEF FilesInv, Control, None
  <2> QED
    BY <2>1, <2>2, RespondKeeps
<1> QED
  BY <1>1, <1>2, <1>3, <1>4, <1>5, <1>6 DEF Requests

\* FileStream::send, and the end of a response.
LEMMA SendKeeps == ASSUME FilesInv, NEW r \in Slots, send(r) PROVE FilesInv'
<1>1. /\ UNCHANGED <<world, entries, pc, req, got>> /\ Up /\ r \in DOMAIN streams
      /\ DiskOK /\ DiskOK' /\ Control'
  BY DEF send, FilesInv, DiskOK, Control, world
<1>2. Table'
  <2>1. ASSUME NEW i \in 1 .. Len(entries), NEW x, x = entries[i]
        PROVE  /\ EntryOK(x)'
               /\ IF Starting(i) THEN Fresh(x) ELSE Synced(x)'
    BY <1>1, <2>1 DEF FilesInv, Table, EntryOK, Owned, Vouched, Fits, Right, Missing, Synced,
                      world
  <2> QED
    BY <1>1, <2>1 DEF FilesInv, Table, Starting
<1>3. ASSUME NEW s \in DOMAIN streams, NEW st, st = streams[s], NEW e, e = entries[st.entry]
      PROVE  /\ st \in Stream /\ st.entry \in 1 .. Len(entries)
             /\ StreamOK(st, e) /\ StreamOK(st, e)'
  BY <1>1, <1>3 DEF FilesInv, Responses, StreamOK, Fits, world
<1>4. CASE ~entries[streams[r].entry].alive /\ freed' = r /\ UNCHANGED <<hung, streams>>
  <2>1. Responses'
    BY <1>1, <1>3, <1>4 DEF Responses
  <2>2. Stopped'
    BY <1>1, <1>4 DEF Stopped, Up
  <2> QED
    BY <1>1, <1>2, <2>1, <2>2 DEF FilesInv
<1>7. PICK c : c = Contents(streams[r].entry)
  OBVIOUS
<1>5. CASE /\ streams' = [streams EXCEPT ![r].pos = @ + 1, ![r].read = @ \cup {c}]
           /\ UNCHANGED <<hung, freed>>
  <2> DEFINE st == streams[r]
             d == [st EXCEPT !.pos = @ + 1, !.read = @ \cup {c}]
  <2>1. d \in Stream /\ d.entry = st.entry
        /\ d.other = st.other /\ d.length = st.length /\ d.ver = st.ver /\ d.since = st.since
        /\ d.read = st.read \cup {c} /\ c = inodes[entries[st.entry].inode]
    <3>1. st \in Stream /\ st.entry \in 1 .. Len(entries)
      BY <1>1, <1>3
    <3>2. c = inodes[entries[st.entry].inode]
      BY <1>7 DEF Contents
    <3>3. c \in Inode
      BY <1>1, <3>1, <3>2 DEF FilesInv, Table, EntryOK, Owned, DiskOK
    <3>4. st.pos + 1 \in Nat /\ st.read \cup {c} \in SUBSET Inode
      BY <3>1, <3>3 DEF Stream
    <3> HIDE DEF Inode
    <3> QED
      BY <3>1, <3>2, <3>4 DEF Stream
  <2>2. DOMAIN streams' = DOMAIN streams /\ streams'[r] = d
        /\ \A s \in DOMAIN streams : s # r => streams'[s] = streams[s]
    BY <1>1, <1>5
  <2> HIDE DEF d
  <2>3. ASSUME NEW s \in DOMAIN streams, NEW t, t = streams'[s], NEW e, e = entries[t.entry]
        PROVE  t \in Stream /\ t.entry \in 1 .. Len(entries) /\ StreamOK(t, e)'
    <3>1. CASE s = r
      <4>1. t = d /\ e = entries[st.entry]
        BY <2>1, <2>2, <2>3, <3>1
      <4>2. st.entry \in 1 .. Len(entries) /\ StreamOK(st, e)
        BY <1>1, <1>3, <4>1
      <4>3. c = inodes[e.inode]
        BY <2>1, <4>1
      <4>4. StreamOK(t, e)
        BY <2>1, <4>1, <4>2, <4>3 DEF StreamOK
      <4>5. StreamOK(t, e)'
        <5>1. inodes' = inodes /\ changes' = changes /\ shrunk' = shrunk
          BY <1>1 DEF world
        <5> QED
          BY <4>4, <5>1 DEF StreamOK, Fits
      <4>6. t \in Stream /\ t.entry \in 1 .. Len(entries)
        BY <2>1, <4>1, <4>2
      <4> QED
        BY <4>5, <4>6
    <3>2. CASE s # r
      BY <1>3, <2>2, <2>3, <3>2
    <3> QED
      BY <3>1, <3>2
  <2>4. Responses'
    BY <1>1, <2>2, <2>3 DEF Responses
  <2>5. Stopped'
    BY <1>1, <1>5 DEF Stopped, Up
  <2> QED
    BY <1>1, <1>2, <2>4, <2>5 DEF FilesInv
<1>6. CASE /\ streams[r].pos < streams[r].length
           /\ streams[r].pos >= Contents(streams[r].entry).len
           /\ hung' = r /\ UNCHANGED <<streams, freed>>
  <2> DEFINE st == streams[r]
             e == entries[st.entry]
  <2>1. st \in Stream /\ st.entry \in 1 .. Len(entries) /\ StreamOK(st, e)
    BY <1>1, <1>3
  <2>2. e \in Entry /\ EntryOK(e)
    BY <2>1 DEF FilesInv, Table
  <2>3. inodes[e.inode] \in Inode
    BY <1>1, <2>2 DEF EntryOK, Owned, DiskOK
  <2>4. inodes[e.inode].len \in Nat /\ st.pos \in Nat /\ st.length \in Nat
    BY <2>1, <2>3 DEF Inode, Stream
  <2>5. ~(st.length <= inodes[e.inode].len)
    BY <1>6, <2>4 DEF Contents
  <2>6. FileOf(r) \in shrunk \/ streams[r].other
    BY <2>1, <2>5 DEF StreamOK, Fits, FileOf
  <2>7. Responses'
    BY <1>1, <1>3, <1>6 DEF Responses
  <2>8. Stopped'
    BY <1>1, <1>6, <2>6 DEF Stopped, FileOf, Up, world
  <2> QED
    BY <1>1, <1>2, <2>7, <2>8 DEF FilesInv
<1> QED
  BY <1>4, <1>5, <1>6, <1>7 DEF send

LEMMA CloseKeeps == ASSUME FilesInv, NEW r \in Slots, Close(r) PROVE FilesInv'
<1>1. /\ UNCHANGED <<world, entries, pc, req, got, hung, freed>> /\ Up
      /\ streams' = [s \in DOMAIN streams \ {r} |-> streams[s]]
      /\ DiskOK /\ DiskOK' /\ Control'
  BY DEF Close, Restrict, FilesInv, DiskOK, Control, world
<1>2. Table'
  <2>1. ASSUME NEW i \in 1 .. Len(entries), NEW x, x = entries[i]
        PROVE  /\ EntryOK(x)'
               /\ IF Starting(i) THEN Fresh(x) ELSE Synced(x)'
    BY <1>1, <2>1 DEF FilesInv, Table, EntryOK, Owned, Vouched, Fits, Right, Missing, Synced,
                      world
  <2> QED
    BY <1>1, <2>1 DEF FilesInv, Table, Starting
<1>3. ASSUME NEW s \in DOMAIN streams, NEW st, st = streams[s], NEW e, e = entries[st.entry]
      PROVE  /\ st \in Stream /\ st.entry \in 1 .. Len(entries) /\ StreamOK(st, e)'
  BY <1>1, <1>3 DEF FilesInv, Responses, StreamOK, Fits, world
<1>4. Responses'
  BY <1>1, <1>3 DEF Responses
<1>5. Stopped'
  BY <1>1 DEF Stopped, Up
<1> QED
  BY <1>1, <1>2, <1>4, <1>5 DEF FilesInv

\* Every step of Next.
LEMMA FilesStep == FilesInv /\ [Next]_vars => FilesInv'
<1> SUFFICES ASSUME FilesInv, [Next]_vars PROVE FilesInv'
  OBVIOUS
<1>1. CASE World
  BY <1>1, WorldKeeps
<1>2. CASE Requests
  BY <1>2, RequestKeeps
<1>3. CASE Watchers
  BY <1>3, WatcherKeeps DEF Watchers
<1>4. CASE Streams
  BY <1>4, SendKeeps, CloseKeeps DEF Streams
<1>5. CASE UNCHANGED vars
  <2>1. /\ UNCHANGED <<world, entries, pc, req, got, streams, hung, freed>>
        /\ DiskOK' /\ Control' /\ Stopped'
    BY <1>5 DEF vars, world, worker, FilesInv, DiskOK, Control, Stopped, FileOf
  <2>2. ASSUME NEW i \in 1 .. Len(entries), NEW x, x = entries[i]
        PROVE  EntryOK(x)' /\ (IF Starting(i) THEN Fresh(x) ELSE Synced(x)')
    BY <2>1, <2>2 DEF FilesInv, Table, EntryOK, Owned, Vouched, Fits, Right, Missing, Synced,
                      world
  <2>3. Table'
    BY <2>1, <2>2 DEF FilesInv, Table, Starting
  <2>4. Responses'
    BY <2>1 DEF FilesInv, Responses, StreamOK, Fits, world
  <2> QED
    BY <2>1, <2>3, <2>4 DEF FilesInv
<1> QED
  BY <1>1, <1>2, <1>3, <1>4, <1>5 DEF Next

\* A directory has finitely many files, so the scan ends.
LEMMA ScanEnds == ASSUME NEW there \in SUBSET Files PROVE Cardinality(there) \in Nat
<1>1. IsFiniteSet({"plain", "br"})
  <2>1. IsFiniteSet({"br"})
    BY FS_Singleton
  <2>2. {"plain", "br"} = {"br"} \cup {"plain"}
    OBVIOUS
  <2> QED
    BY <2>1, <2>2, FS_AddElement
<1>2. IsFiniteSet(Files)
  BY <1>1, FilesAssumption, FS_Product DEF Files
<1> QED
  BY <1>2, FS_Subset, FS_CardinalityType

LEMMA FilesInit == Init => FilesInv
<1> SUFFICES ASSUME Init PROVE FilesInv
  OBVIOUS
<1>1. PICK there \in SUBSET Files, len \in Lens :
        LET n == Cardinality(there)
        IN \E order \in [1 .. n -> there] :
             /\ \A f \in there : \E i \in 1 .. n : order[i] = f
             /\ disk = [f \in Files |-> IF f \in there THEN CHOOSE i \in 1 .. n : order[i] = f
                                        ELSE Absent]
             /\ inodes = [i \in 1 .. n |-> [ver |-> 0, len |-> len, over |-> FALSE]]
             /\ entries = [i \in 1 .. n |->
                  [file |-> order[i], extra |-> FALSE, inode |-> i, info |-> inodes[i],
                   fresh |-> inodes[i], updated |-> FALSE, seen |-> <<i, inodes[i]>>,
                   missed |-> FALSE, alive |-> TRUE]]
  BY Zenon DEF Init
<1> DEFINE n == Cardinality(there)
           info0 == [ver |-> 0, len |-> len, over |-> FALSE]
<1>2. PICK order \in [1 .. n -> there] :
        /\ \A f \in there : \E i \in 1 .. n : order[i] = f
        /\ disk = [f \in Files |-> IF f \in there THEN CHOOSE i \in 1 .. n : order[i] = f
                                   ELSE Absent]
        /\ inodes = [i \in 1 .. n |-> info0]
        /\ entries = [i \in 1 .. n |->
             [file |-> order[i], extra |-> FALSE, inode |-> i, info |-> inodes[i],
              fresh |-> inodes[i], updated |-> FALSE, seen |-> <<i, inodes[i]>>,
              missed |-> FALSE, alive |-> TRUE]]
  BY <1>1
<1>3. n \in Nat
  BY ScanEnds
<1>4. info0 \in Inode /\ info0.len \in Nat /\ info0.ver = 0 /\ changes = 0
  BY FilesAssumption DEF Inode, Init
<1> HIDE DEF n, info0
<1>5. ASSUME NEW f \in there PROVE disk[f] \in 1 .. n /\ order[disk[f]] = f
  BY <1>2, <1>5
<1>6. ASSUME NEW f \in Files \ there PROVE disk[f] = Absent
  BY <1>2, <1>6
<1>7. inodes \in Seq(Inode) /\ Len(inodes) = n /\ \A i \in 1 .. n : inodes[i] = info0
  <2>1. inodes \in [1 .. n -> Inode]
    BY <1>2, <1>4
  <2>2. inodes \in Seq(Inode) /\ Len(inodes) = n
    BY <1>3, <2>1
  <2> QED
    BY <1>2, <2>2
<1>8. DiskOK
  <2>1. disk \in [Files -> 0 .. n]
    <3>1. \A f \in Files : disk[f] \in 0 .. n
      BY <1>3, <1>5, <1>6 DEF Absent
    <3> QED
      BY <1>2, <3>1
  <2>2. \A f, g \in Files : disk[f] = disk[g] => f = g \/ disk[f] = Absent
    BY <1>5, <1>6
  <2>3. changes \in Nat /\ \A i \in 1 .. n : inodes[i].ver <= changes
    BY <1>4, <1>7
  <2> QED
    BY <1>7, <2>1, <2>2, <2>3 DEF DiskOK
<1>9. ASSUME NEW i \in 1 .. n, NEW e, e = entries[i]
      PROVE  e \in Entry /\ EntryOK(e) /\ Synced(e)
  <2>1. e = [file |-> order[i], extra |-> FALSE, inode |-> i, info |-> info0,
             fresh |-> info0, updated |-> FALSE, seen |-> <<i, info0>>,
             missed |-> FALSE, alive |-> TRUE]
    BY <1>2, <1>7, <1>9
  <2>2. i \in Nat \ {0} /\ order[i] \in there /\ order[i] \in Files
    BY <1>2, <1>3
  <2>3. e \in Entry
    BY <1>4, <2>1, <2>2 DEF Entry
  <2>4. /\ e.file = order[i] /\ e.inode = i /\ e.info = info0 /\ e.fresh = info0
        /\ e.updated = FALSE /\ e.seen = <<i, info0>> /\ e.alive = TRUE
    BY <2>1
  <2>5. Owned(e)
    <3>1. \A f \in Files : disk[f] = i => f = order[i]
      BY <1>5, <1>6, <2>2 DEF Absent
    <3> QED
      BY <1>7, <2>4, <3>1 DEF Owned
  <2>6. Vouched(e)
    BY <1>4, <1>7, <2>4 DEF Vouched, Current, Fits, Right
  <2>7. Missing(e)
    <3>1. disk[e.file] # Absent
      BY <1>3, <1>5, <2>2, <2>4 DEF Absent
    <3> QED
      BY <2>4, <3>1 DEF Missing
  <2>8. Synced(e)
    BY <2>4 DEF Synced, Current, Gone
  <2> QED
    BY <2>3, <2>5, <2>6, <2>7, <2>8 DEF EntryOK
<1>10. entries \in Seq(Entry) /\ Len(entries) = n
  <2>1. entries \in [1 .. n -> Entry]
    BY <1>2, <1>9
  <2> QED
    BY <1>3, <2>1
<1>11. pc = "loop" /\ got = None /\ streams = <<>> /\ hung = None /\ freed = None
  BY DEF Init
<1>12. Table
  BY <1>9, <1>10, <1>11 DEF Table, Starting
<1>13. Control
  BY <1>11 DEF Control
<1>14. Responses
  BY <1>11 DEF Responses
<1>15. Stopped
  BY <1>11 DEF Stopped
<1> QED
  BY <1>8, <1>12, <1>13, <1>14, <1>15 DEF FilesInv

LEMMA FilesInvHolds == Spec => []FilesInv
<1>1. FilesInv /\ [Next]_vars => FilesInv'
  BY FilesStep
<1> QED
  BY <1>1, FilesInit, PTL DEF Spec

-----------------------------------------------------------------------------
(* The theorems *)

\* What info() gives is what stat gives when the watcher has nothing left to report, unless
\* the file changed before the watcher began (FileEntry::info, update_cb, add_static_file).
THEOREM FreshInfo == Spec => []InfoIsFresh
<1>1. FilesInv => InfoIsFresh
  <2> SUFFICES ASSUME FilesInv, pc = "loop", NEW i \in DOMAIN entries, NEW e, e = entries[i],
                      e.alive, ~e.missed, e.seen = Stat(e.file)
               PROVE  info(i) = Stat(e.file)[2]
    BY DEF InfoIsFresh, InTable
  <2>1. i \in 1 .. Len(entries) /\ Synced(e)
    BY Settled
  <2>2. info(i) = Current(e)
    BY DEF info, Current
  <2> QED
    BY <2>1, <2>2 DEF Synced
<1> QED
  BY <1>1, FilesInvHolds, PTL

\* Every byte FileStream::send reads is of the version that submit_file_response announced,
\* or was written over it in place after the response began, unless the watcher had given the
\* entry the attributes of another file.
THEOREM AnnouncedVersion == Spec => []AnnouncedIsSent
<1>1. FilesInv => AnnouncedIsSent
  BY DEF FilesInv, Responses, StreamOK, Right, AnnouncedIsSent
<1> QED
  BY <1>1, FilesInvHolds, PTL

\* A response hangs at the end of its file only if the file was made shorter, or the
\* length is that of another file its watcher saw, and
\* reads a freed entry only if a file of its name vanished (FileStream::send, remove_self).
THEOREM SafeReader == Spec => []ReaderIsSafe
<1>1. FilesInv => ReaderIsSafe
  <2> SUFFICES ASSUME FilesInv
               PROVE  /\ hung # None => FileOf(hung) \in shrunk \/ streams[hung].other
                      /\ freed # None => Under(streams[freed].entry) \cap vanished # {}
    BY DEF ReaderIsSafe
  <2>1. hung # None => FileOf(hung) \in shrunk \/ streams[hung].other
    BY DEF FilesInv, Stopped
  <2>2. ASSUME freed # None PROVE Under(streams[freed].entry) \cap vanished # {}
    <3>1. freed \in DOMAIN streams /\ ~entries[streams[freed].entry].alive
      BY <2>2, Zenon DEF FilesInv, Stopped
    <3>2. streams[freed].entry \in 1 .. Len(entries)
      BY <3>1 DEF FilesInv, Responses
    <3>3. Missing(entries[streams[freed].entry])
      BY <3>2 DEF FilesInv, Table, EntryOK
    <3>4. PICK f \in vanished : f \in Files /\ f[1] = entries[streams[freed].entry].file[1]
      BY <3>1, <3>3, Zenon DEF Missing
    <3> QED
      BY <3>4 DEF Under
  <2> QED
    BY <2>1, <2>2
<1> QED
  BY <1>1, FilesInvHolds, PTL

=============================================================================
