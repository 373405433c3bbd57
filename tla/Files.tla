-------------------------------- MODULE Files --------------------------------
(***************************************************************************)
(* Static files of one worker: the table files_ and its lookups              *)
(* (src/src/worker.cc:121-178), FileEntry with its stat watcher              *)
(* (fileentry.cc), and FileStream, which sends a file (filestream.cc).  The  *)
(* disk is environment: files appear, are written in place, replaced by a    *)
(* rename, and vanish at any moment.                                         *)
(*                                                                         *)
(* A file is a name and an encoding: plain, or br for the one with the       *)
(* suffix .br.  Contents are a version and a length.  Reading a file that is *)
(* open does not fail (Streams has the failure).                             *)
(***************************************************************************)
EXTENDS Integers, Sequences, FiniteSets, FiniteSetsExt, Functions

CONSTANTS
  Names,        \* paths requests ask for
  Lens,         \* lengths of files
  MaxChanges,   \* bound: changes made to the disk
  MaxEntries,   \* bound: entries made
  Slots         \* responses under way at a time

ASSUME FilesAssumption ==
  /\ IsFiniteSet(Names) /\ Lens \subseteq Nat
  /\ MaxChanges \in Nat /\ MaxEntries \in Nat

Files == Names \X {"plain", "br"}
Absent == 0

VARIABLES
  disk,         \* the inode behind each file, or Absent
  inodes,       \* what each inode holds: version, length, whether it was written in place
  entries,      \* every FileEntry made, those destroyed included, in order
  pc, req, got, \* the place in get_static_file, its request, what add_static_file gave
  streams,      \* the FileStream of each response
  hung, freed,  \* history: the response whose send never returns, or read a freed entry
  changes, shrunk, vanished   \* history: changes, and the files that became shorter
                \* in place, and that vanished

world == <<disk, inodes, changes, shrunk, vanished>>
worker == <<entries, pc, req, got, streams, hung, freed>>
vars == <<world, worker>>

None == 0
NoRequest == [name |-> "none", br |-> FALSE]
Up == hung = None /\ freed = None

\* What stat says of a path.
Gone == <<>>
Stat(f) == IF disk[f] = Absent THEN Gone ELSE <<disk[f], inodes[disk[f]]>>

-----------------------------------------------------------------------------
(* The disk *)

NewInode(len, over) == [ver |-> changes + 1, len |-> len, over |-> over]
Change == changes < MaxChanges /\ changes' = changes + 1 /\ UNCHANGED worker

Appear(f, len) ==
  /\ Change /\ disk[f] = Absent
  /\ inodes' = Append(inodes, NewInode(len, FALSE))
  /\ disk' = [disk EXCEPT ![f] = Len(inodes) + 1]
  /\ UNCHANGED <<shrunk, vanished>>

\* Written in place, longer or shorter.
Overwrite(f, len) ==
  /\ Change /\ disk[f] # Absent
  /\ inodes' = [inodes EXCEPT ![disk[f]] = NewInode(len, TRUE)]
  /\ shrunk' = IF len < inodes[disk[f]].len THEN shrunk \cup {f} ELSE shrunk
  /\ UNCHANGED <<disk, vanished>>

\* Another file is renamed to the path.
Replace(f, len) ==
  /\ Change /\ disk[f] # Absent
  /\ inodes' = Append(inodes, NewInode(len, FALSE))
  /\ disk' = [disk EXCEPT ![f] = Len(inodes) + 1]
  /\ UNCHANGED <<shrunk, vanished>>

Vanish(f) ==
  /\ Change /\ disk[f] # Absent
  /\ disk' = [disk EXCEPT ![f] = Absent]
  /\ vanished' = vanished \cup {f}
  /\ UNCHANGED <<inodes, shrunk>>

-----------------------------------------------------------------------------
(* Entries *)

\* The key in files_: a file found by the directory scan has its path for key, one added
\* on request has a second slash in it ("extra"), because static_root_ ends in a slash.
Key(e) == <<entries[e].file[1], entries[e].extra>>
InTable(e) == entries[e].alive
compressed(e) == entries[e].file[2] = "br"

\* open and fstat.  The stat watcher is started a moment later: seen is Gone till then.
NewEntry(f, extra) ==
  [file |-> f, extra |-> extra, inode |-> disk[f], info |-> inodes[disk[f]],
   fresh |-> inodes[disk[f]], updated |-> FALSE, seen |-> Gone, missed |-> FALSE,
   alive |-> TRUE]
Watched(entry) ==
  [entry EXCEPT !.seen = Stat(entry.file),
                !.missed = Stat(entry.file) # <<entry.inode, entry.info>>]

\* The directory scan when the server starts, in the order readdir gives.  It also takes
\* symbolic links, whose watcher sees the link (lstat) and whose descriptor the target:
\* the disk here has none.
Init ==
  /\ changes = 0 /\ shrunk = {} /\ vanished = {}
  /\ \E there \in SUBSET Files, len \in Lens :
       LET n == Cardinality(there)
       IN \E order \in [1 .. n -> there] :
            /\ \A f \in there : \E i \in 1 .. n : order[i] = f
            /\ disk = [f \in Files |-> IF f \in there THEN CHOOSE i \in 1 .. n : order[i] = f
                                       ELSE Absent]
            /\ inodes = [i \in 1 .. n |-> [ver |-> 0, len |-> len, over |-> FALSE]]
            /\ entries = [i \in 1 .. n |->
                 [file |-> order[i], extra |-> FALSE, inode |-> i, info |-> inodes[i],
                  fresh |-> inodes[i], updated |-> FALSE, seen |-> <<i, inodes[i]>>,
                  missed |-> FALSE, alive |-> TRUE]]
  /\ pc = "loop" /\ req = NoRequest /\ got = None
  /\ streams = <<>> /\ hung = None /\ freed = None

\* info(): takes over what the watcher left.
info(e) == IF entries[e].updated THEN entries[e].fresh ELSE entries[e].info

\* Mutants: the flag is not set; the first entry under the key is erased.
update_infoSilently(e) ==
  [entries EXCEPT ![e].fresh = Stat(entries[e].file)[2], ![e].missed = FALSE,
                  ![e].seen = Stat(entries[e].file)]
remove_selfFirst(e) ==
  [entries EXCEPT ![Min({d \in DOMAIN entries : InTable(d) /\ Key(d) = Key(e)})].alive = FALSE,
                  ![e].seen = Gone]

update_info(e) ==
  [entries EXCEPT ![e].fresh = Stat(entries[e].file)[2], ![e].updated = TRUE,
                  ![e].missed = FALSE, ![e].seen = Stat(entries[e].file)]

\* remove_static_file erases every entry under the key, and so destroys it.
remove_self(e) ==
  [d \in DOMAIN entries |->
     IF Key(d) = Key(e) THEN [entries[d] EXCEPT !.alive = FALSE, !.seen = Gone]
     ELSE entries[d]]

\* Mutant: a path that is another file removes the entry too.
update_cbByInode(e) ==
  /\ Up /\ pc = "loop" /\ InTable(e)
  /\ entries[e].seen # Stat(entries[e].file)
  /\ entries' = IF disk[entries[e].file] = entries[e].inode THEN update_info(e)
                ELSE remove_self(e)
  /\ UNCHANGED <<world, pc, req, got, streams, hung, freed>>

\* The watcher sees that its path is not what it was.
update_cb(e) ==
  /\ Up /\ pc = "loop" /\ InTable(e)
  /\ entries[e].seen # Stat(entries[e].file)
  /\ entries' = IF Stat(entries[e].file) # Gone THEN update_info(e) ELSE remove_self(e)
  /\ UNCHANGED <<world, pc, req, got, streams, hung, freed>>

-----------------------------------------------------------------------------
(* Requests *)

\* The watcher gave the entry the attributes of another file than the one it has open.
Swapped(entry) ==
  ~entry.missed /\ entry.seen # Gone /\ entry.seen[1] # entry.inode

\* A FileStream, and of its history: the contents its bytes were read from, the last change
\* info() can know of, and whether the entry was swapped.
NewStream(e) ==
  [entry |-> e, ver |-> info(e).ver, length |-> info(e).len, pos |-> 0, read |-> {},
   since |-> IF entries[e].missed \/ entries[e].seen # Stat(entries[e].file)
             THEN info(e).ver ELSE changes,
   other |-> Swapped(entries[e])]

\* submit_file_response with an entry: a FileStream of the length that is announced;
\* 304 if the client knows (If-Modified-Since) a version that is not older.
Respond(e) ==
  /\ entries' = [entries EXCEPT ![e].info = info(e), ![e].updated = FALSE]
  /\ \E known \in -1 .. changes :
     IF info(e).ver <= known THEN UNCHANGED streams
     ELSE \E s \in Slots \ DOMAIN streams :
            streams' = [t \in DOMAIN streams \cup {s} |->
                          IF t = s THEN NewStream(e) ELSE streams[t]]
  /\ pc' = "loop" /\ req' = NoRequest /\ got' = None
  /\ UNCHANGED <<world, hung, freed>>

Hits(name) == {e \in DOMAIN entries : InTable(e) /\ Key(e) = <<name, FALSE>>}

\* The first entry of the encoding that is preferred, else the last there is, else the
\* disk is asked.
get_static_file(name, br) ==
  /\ Up /\ pc = "loop"
  /\ DOMAIN streams # Slots /\ Len(entries) + 2 <= MaxEntries
  /\ LET wanted == {e \in Hits(name) : compressed(e) = br}
     IN IF Hits(name) = {}
        THEN /\ pc' = "plain" /\ req' = [name |-> name, br |-> br]
             /\ UNCHANGED <<world, entries, got, streams, hung, freed>>
        ELSE Respond(IF wanted # {} THEN Min(wanted) ELSE Max(Hits(name)))

\* add_static_file, up to the stat watcher.
Add(f, then) ==
  /\ entries' = Append(entries, NewEntry(f, TRUE))
  /\ got' = Len(entries) + 1
  /\ pc' = then
  /\ UNCHANGED <<world, req, streams, hung, freed>>
Watch(then) ==
  /\ entries' = [entries EXCEPT ![got] = Watched(@)]
  /\ pc' = then
  /\ UNCHANGED <<world, req, got, streams, hung, freed>>

Answer404 ==
  /\ pc' = "loop" /\ req' = NoRequest
  /\ UNCHANGED <<world, entries, got, streams, hung, freed>>

\* The plain file first; then, if compressed files are preferred, the one with .br, which
\* wins.
AddPlain ==
  /\ Up /\ pc = "plain"
  /\ LET f == <<req.name, "plain">> IN
     IF disk[f] # Absent THEN Add(f, "watch_plain")
     ELSE pc' = "br" /\ UNCHANGED <<world, entries, req, got, streams, hung, freed>>
WatchPlain == Up /\ pc = "watch_plain" /\ Watch("br")
AddBr ==
  /\ Up /\ pc = "br"
  /\ LET f == <<req.name, "br">> IN
     IF req.br /\ disk[f] # Absent THEN Add(f, "watch_br")
     ELSE IF got # None THEN Respond(got) ELSE Answer404
WatchBr == Up /\ pc = "watch_br" /\ Watch("found")
Found == Up /\ pc = "found" /\ Respond(got)

-----------------------------------------------------------------------------
(* Sending *)

\* What the descriptor of an entry gives.  Mutant: what the path of the entry has.
ContentsOfPath(e) ==
  inodes[IF disk[entries[e].file] = Absent THEN entries[e].inode ELSE disk[entries[e].file]]
Contents(e) == inodes[entries[e].inode]

\* FileStream::send.  At the end of the file pread gives 0 and the loop goes on for ever;
\* an entry that was erased is memory that was freed.
send(s) ==
  /\ Up /\ pc = "loop" /\ s \in DOMAIN streams
  /\ LET st == streams[s]
         alive == entries[st.entry].alive
         c == Contents(st.entry)
     IN /\ st.pos < st.length
        /\ \/ ~alive /\ freed' = s /\ UNCHANGED <<hung, streams>>
           \/ /\ alive /\ st.pos < c.len
              /\ streams' = [streams EXCEPT ![s].pos = @ + 1, ![s].read = @ \cup {c}]
              /\ UNCHANGED <<hung, freed>>
           \/ /\ alive /\ st.pos >= c.len
              /\ hung' = s /\ UNCHANGED <<streams, freed>>
  /\ UNCHANGED <<world, entries, pc, req, got>>

\* The response is sent, or its stream is closed before.
Close(s) ==
  /\ Up /\ pc = "loop" /\ s \in DOMAIN streams
  /\ streams' = Restrict(streams, DOMAIN streams \ {s})
  /\ UNCHANGED <<world, entries, pc, req, got, hung, freed>>

World ==
  \E f \in Files :
    \/ Vanish(f)
    \/ \E len \in Lens : Appear(f, len) \/ Overwrite(f, len) \/ Replace(f, len)
Requests ==
  \/ \E name \in Names, br \in BOOLEAN : get_static_file(name, br)
  \/ AddPlain \/ WatchPlain \/ AddBr \/ WatchBr \/ Found
Streams == \E s \in Slots : send(s) \/ Close(s)
Watchers == \E e \in DOMAIN entries : update_cb(e)

Next == World \/ Requests \/ Watchers \/ Streams

Spec == Init /\ [][Next]_vars

\* Some stat watcher that has a change to report fires sooner or later, and a lookup that
\* began ends.
FairSpec ==
  /\ Spec
  /\ WF_vars(AddPlain \/ WatchPlain \/ AddBr \/ WatchBr \/ Found)
  /\ SF_vars(Watchers)

-----------------------------------------------------------------------------
(* Properties *)

FileOf(s) == entries[streams[s].entry].file
Under(e) == {f \in Files : f[1] = entries[e].file[1]}

\* When no notification is outstanding an entry announces what the disk has, unless the
\* file changed between the entry's fstat and its watcher's first stat.
InfoIsFresh ==
  (pc = "loop" /\ Up) =>
    \A e \in DOMAIN entries :
      (InTable(e) /\ ~entries[e].missed /\ entries[e].seen = Stat(entries[e].file))
        => info(e) = Stat(entries[e].file)[2]

\* Every byte that send() reads is of the version the response announced (Last-Modified,
\* length), or of one written over it in place after the response began (after what the
\* watcher last saw, if it was behind): never of a file renamed to the path, nor of a version
\* that was gone by then.  Not so when the watcher gave the entry the attributes of another
\* file, which are announced with the contents of the one that is open.
AnnouncedIsSent ==
  \A s \in DOMAIN streams : \A c \in streams[s].read :
    \/ c.ver = streams[s].ver
    \/ c.over /\ c.ver > streams[s].since
    \/ streams[s].other

\* A response waits for bytes that will never be there only if its file was made shorter,
\* or it announces another file's length; it reads a freed entry only if a file of its name
\* vanished.
ReaderIsSafe ==
  /\ hung # None => FileOf(hung) \in shrunk \/ streams[hung].other
  /\ freed # None => Under(streams[freed].entry) \cap vanished # {}

\* A file that is gone for good is forgotten, unless it went before its watcher began.
VanishedIsForgotten ==
  \A f \in Files :
    <>[](disk[f] = Absent)
      => <>[](~Up \/ \A e \in DOMAIN entries :
                       (InTable(e) /\ entries[e].file = f) => entries[e].missed)
=============================================================================
