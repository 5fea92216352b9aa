----------------------------- MODULE StableFiles -----------------------------
(***************************************************************************)
(* One file of the audit state and its directory: AtomicWrite and          *)
(* ReadJSONFile (internal/audit/util.go) with SameStat (internal/safe/     *)
(* safe.go), between other processes that edit in place and a machine that *)
(* may lose power.  The k-th file ever created is inode k; it is to hold   *)
(* document k, of Length blocks.  What is in memory reaches the disk at    *)
(* any time and in any order, and at the latest with fsync.  Every change  *)
(* of an inode gives it a change time of its own.                          *)
(***************************************************************************)
EXTENDS Naturals, Sequences, FiniteSets, FiniteSetsExt

CONSTANTS
  Writers, Readers,
  Length,      \* blocks of a document
  FileBounds   \* bounds a behaviour may have, [writes, edits, crashes]

ASSUME FileConstants ==
  Length \in Nat \ {0} /\ FileBounds \subseteq [writes : Nat, edits : Nat, crashes : Nat]

VARIABLES
  inodes,    \* per inode, [blocks, ctime, links]; a block is the document it is of
  entry,     \* the inode of the name, or 0
  durable,   \* what is on disk: [blocks, entry, linked], the last for the directory
  writer,    \* per writer, [at, inode]
  reader,    \* per reader, [at, inode, before, got]
  returned,  \* history: inodes whose AtomicWrite returned without an error
  renamed,   \* history: the inodes the name had, in order
  seen,      \* per reader, the blocks its inode had since it was opened
  tampered,  \* edits made by another program
  crashes,
  bounds

fileVars == <<inodes, entry, durable, writer, reader, returned, renamed, seen, tampered, crashes, bounds>>

Idle == [at |-> "idle", inode |-> 0]
Closed == [at |-> "closed", inode |-> 0, before |-> <<>>, got |-> <<>>]
Whole(k) == [b \in 1 .. Length |-> k]

FilesInit ==
  /\ inodes = <<>> /\ entry = 0
  /\ \E linked \in BOOLEAN : durable = [blocks |-> <<>>, entry |-> 0, linked |-> linked]
  /\ writer = [w \in Writers |-> Idle] /\ reader = [r \in Readers |-> Closed]
  /\ returned = {} /\ renamed = <<>> /\ seen = [r \in Readers |-> {}]
  /\ tampered = 0 /\ crashes = 0 /\ bounds \in FileBounds

\* A change of an inode, as every reader that has it open may see it.
Change(i, new) ==
  /\ inodes' = [inodes EXCEPT ![i] = [new EXCEPT !.ctime = @ + 1]]
  /\ seen' = [r \in Readers |-> IF reader[r].inode = i THEN seen[r] \cup {new.blocks} ELSE seen[r]]

At(w, place) == writer[w].at = place
Goto(w, place) == writer' = [writer EXCEPT ![w].at = place]

----------------------------------------------------------------------------
\* CreateTemp, in the directory of the file.
CreateTemp(w) ==
  /\ At(w, "idle") /\ Len(inodes) < bounds.writes
  /\ inodes' = Append(inodes, [blocks |-> <<>>, ctime |-> 0, links |-> 1])
  /\ durable' = [durable EXCEPT !.blocks = Append(@, <<>>)]
  /\ writer' = [writer EXCEPT ![w] = [at |-> "write", inode |-> Len(inodes) + 1]]
  /\ UNCHANGED <<entry, reader, returned, renamed, seen, tampered, crashes, bounds>>

WriteBlock(w) ==
  /\ At(w, "write")
  /\ LET i == writer[w].inode IN
     /\ Change(i, [inodes[i] EXCEPT !.blocks = Append(@, i)])
     /\ Goto(w, IF Len(inodes[i].blocks) + 1 = Length THEN "sync" ELSE "write")
  /\ UNCHANGED <<entry, durable, reader, returned, renamed, tampered, crashes, bounds>>

\* Mutant of Sync: the contents are left to the kernel.
Sync_skipped(w) ==
  /\ At(w, "sync") /\ Goto(w, "rename")
  /\ UNCHANGED <<inodes, entry, durable, reader, returned, renamed, seen, tampered, crashes, bounds>>

Sync(w) ==
  /\ At(w, "sync") /\ Goto(w, "rename")
  /\ durable' = [durable EXCEPT !.blocks[writer[w].inode] = inodes[writer[w].inode].blocks]
  /\ UNCHANGED <<inodes, entry, reader, returned, renamed, seen, tampered, crashes, bounds>>

\* rename takes the name from the inode that had it, which changes that inode.
Rename(w) ==
  /\ At(w, "rename") /\ Goto(w, "sync directory")
  /\ entry' = writer[w].inode /\ renamed' = Append(renamed, entry')
  /\ \/ entry = 0 /\ UNCHANGED <<inodes, seen>>
     \/ entry # 0 /\ Change(entry, [inodes[entry] EXCEPT !.links = 0])
  /\ UNCHANGED <<durable, reader, returned, tampered, crashes, bounds>>

\* Mutant of SyncDirectory: the rename is left to the kernel.
SyncDirectory_skipped(w) ==
  /\ At(w, "sync directory") /\ writer' = [writer EXCEPT ![w] = Idle]
  /\ returned' = returned \cup {writer[w].inode}
  /\ UNCHANGED <<inodes, entry, durable, reader, renamed, seen, tampered, crashes, bounds>>

\* The directory is synced, the entry that leads to it is not.
SyncDirectory(w) ==
  /\ At(w, "sync directory") /\ writer' = [writer EXCEPT ![w] = Idle]
  /\ durable' = [durable EXCEPT !.entry = entry]
  /\ returned' = returned \cup {writer[w].inode}
  /\ UNCHANGED <<inodes, entry, reader, renamed, seen, tampered, crashes, bounds>>

\* A step of AtomicWrite fails and what the name no longer needs is removed; after
\* the rename the document is there all the same.
WriteFails(w) ==
  /\ writer[w].at # "idle" /\ writer' = [writer EXCEPT ![w] = Idle]
  /\ UNCHANGED <<inodes, entry, durable, reader, returned, renamed, seen, tampered, crashes, bounds>>

----------------------------------------------------------------------------
\* ReadJSONFile.
OpenFile(r) ==
  /\ reader[r].at = "closed" /\ entry # 0
  /\ reader' = [reader EXCEPT ![r] = [at |-> "stat", inode |-> entry, before |-> <<>>, got |-> <<>>]]
  /\ seen' = [seen EXCEPT ![r] = {inodes[entry].blocks}]
  /\ UNCHANGED <<inodes, entry, durable, writer, returned, renamed, tampered, crashes, bounds>>

Stat(i) == <<i, Len(inodes[i].blocks), inodes[i].ctime, inodes[i].links>>
SameStat(a, b) == a = b

FstatBefore(r) ==
  /\ reader[r].at = "stat"
  /\ reader' = [reader EXCEPT ![r].at = "read", ![r].before = Stat(reader[r].inode)]
  /\ UNCHANGED <<inodes, entry, durable, writer, returned, renamed, seen, tampered, crashes, bounds>>

ReadBlock(r) ==
  /\ reader[r].at = "read"
  /\ LET blocks == inodes[reader[r].inode].blocks
         n == Len(reader[r].got) + 1 IN
     /\ n <= Len(blocks)
     /\ reader' = [reader EXCEPT ![r].got = Append(@, blocks[n]),
                                 ![r].at = IF n = Len(blocks) THEN "check" ELSE "read"]
  /\ UNCHANGED <<inodes, entry, durable, writer, returned, renamed, seen, tampered, crashes, bounds>>

\* Mutant of FstatAfter: only the size is compared.
FstatAfter_sizeOnly(r) ==
  /\ reader[r].at = "check"
  /\ reader' = [reader EXCEPT ![r].at =
       IF Len(reader[r].got) = Len(inodes[reader[r].inode].blocks) THEN "accepted" ELSE "closed"]
  /\ UNCHANGED <<inodes, entry, durable, writer, returned, renamed, seen, tampered, crashes, bounds>>

\* A read that met any change is refused, one that lost its name included.
FstatAfter(r) ==
  /\ reader[r].at = "check"
  /\ reader' = [reader EXCEPT ![r] =
       IF /\ SameStat(reader[r].before, Stat(reader[r].inode))
          /\ Len(reader[r].got) = Len(inodes[reader[r].inode].blocks)
       THEN [@ EXCEPT !.at = "accepted"] ELSE Closed]
  /\ UNCHANGED <<inodes, entry, durable, writer, returned, renamed, seen, tampered, crashes, bounds>>

CloseFile(r) ==
  /\ reader[r].at = "accepted" /\ reader' = [reader EXCEPT ![r] = Closed]
  /\ UNCHANGED <<inodes, entry, durable, writer, returned, renamed, seen, tampered, crashes, bounds>>

----------------------------------------------------------------------------
\* Another program writes the file in place, a block at a time.
EditBlock(b) ==
  /\ tampered < bounds.edits /\ entry # 0 /\ tampered' = tampered + 1
  /\ \E document \in {0, entry} :
       Change(entry, [inodes[entry] EXCEPT !.blocks[b] = document])
  /\ UNCHANGED <<entry, durable, writer, reader, returned, renamed, crashes, bounds>>

\* The kernel writes something back.
Writeback ==
  /\ crashes < bounds.crashes
  /\ \/ durable' = [durable EXCEPT !.entry = entry]
     \/ durable' = [durable EXCEPT !.linked = TRUE]
     \/ \E i \in DOMAIN inodes : durable' = [durable EXCEPT !.blocks[i] = inodes[i].blocks]
  /\ UNCHANGED <<inodes, entry, writer, reader, returned, renamed, seen, tampered, crashes, bounds>>

\* The machine loses power and starts with what is on disk.
Crash ==
  /\ crashes < bounds.crashes /\ crashes' = crashes + 1
  /\ inodes' = [i \in DOMAIN inodes |-> [inodes[i] EXCEPT !.blocks = durable.blocks[i]]]
  /\ entry' = IF durable.linked THEN durable.entry ELSE 0
  /\ durable' = [durable EXCEPT !.entry = entry', !.linked = TRUE]
  /\ writer' = [w \in Writers |-> Idle] /\ reader' = [r \in Readers |-> Closed]
  /\ seen' = [r \in Readers |-> {}]
  /\ UNCHANGED <<returned, renamed, tampered, bounds>>

FilesNext ==
  \/ \E w \in Writers : CreateTemp(w) \/ WriteBlock(w) \/ Sync(w) \/ Rename(w)
                          \/ SyncDirectory(w) \/ WriteFails(w)
  \/ \E r \in Readers : OpenFile(r) \/ FstatBefore(r) \/ ReadBlock(r) \/ FstatAfter(r)
                          \/ CloseFile(r)
  \/ \E b \in 1 .. Length : EditBlock(b)
  \/ Writeback \/ Crash

----------------------------------------------------------------------------
\* What a reader accepts is what the file held at one instant of the read, not a
\* mixture of before and after an edit (ReadJSONFile, SameStat).
ReadsAreOfOneInstant ==
  \A r \in Readers : reader[r].at = "accepted" => reader[r].got \in seen[r]

Place(i) == Max({k \in DOMAIN renamed : renamed[k] = i})

\* Whenever power is lost, the name has a whole document or none where only
\* AtomicWrite writes, and, in a directory that is itself on disk, none older than
\* any that was returned as written (AtomicWrite).
WritesSurvive ==
  tampered = 0 =>
    /\ durable.entry # 0 => durable.blocks[durable.entry] = Whole(durable.entry)
    /\ entry # 0 => inodes[entry].blocks = Whole(entry)
    /\ durable.linked /\ crashes = 0 => \A i \in returned :
         durable.entry # 0 /\ Place(i) <= Place(durable.entry)

----------------------------------------------------------------------------
(* What is inductive: a document belongs to its writer until it is renamed *)
(* and is whole from then on, on disk too; the name has the last of them   *)
(* until power is lost; and what a reader has got is the beginning of the  *)
(* file as long as nothing changed it.                                     *)

Named == {renamed[k] : k \in DOMAIN renamed}
Writing(w) == writer[w].at \in {"write", "sync", "rename"}

Inodes == [blocks : Seq(Nat), ctime : Nat, links : Nat]
Disks == [blocks : Seq(Seq(Nat)), entry : Nat, linked : BOOLEAN]
WriterStates == [at : {"idle", "write", "sync", "rename", "sync directory"}, inode : Nat]
ReaderStates ==
  [at : {"closed", "stat", "read", "check", "accepted"}, inode : Nat, before : Seq(Nat), got : Seq(Nat)]

FileTypes ==
  /\ inodes \in Seq(Inodes)
  /\ entry \in Nat /\ durable \in Disks
  /\ Len(durable.blocks) = Len(inodes)
  /\ writer \in [Writers -> WriterStates] /\ reader \in [Readers -> ReaderStates]
  /\ renamed \in Seq(DOMAIN inodes) /\ seen \in [Readers -> SUBSET Seq(Nat)]
  /\ tampered \in Nat /\ crashes \in Nat

DocumentsAreOwned ==
  /\ \A w \in Writers : Writing(w) =>
       /\ writer[w].inode \in DOMAIN inodes \ Named
       /\ \A v \in Writers \ {w} : Writing(v) => writer[v].inode # writer[w].inode
  /\ \A w \in Writers : writer[w].at = "sync directory" => writer[w].inode \in Named
  /\ \A p, q \in DOMAIN renamed : renamed[p] = renamed[q] => p = q
  /\ entry \in Named \cup {0} /\ durable.entry \in Named \cup {0}

DocumentsAreWhole ==
  /\ \A w \in Writers :
       LET i == writer[w].inode IN
       /\ writer[w].at = "write" =>
            Len(inodes[i].blocks) < Length /\ \A b \in DOMAIN inodes[i].blocks : inodes[i].blocks[b] = i
       /\ writer[w].at \in {"sync", "rename"} => inodes[i].blocks = Whole(i)
       /\ writer[w].at = "rename" => durable.blocks[i] = Whole(i)
  /\ \A i \in Named : inodes[i].blocks = Whole(i) /\ durable.blocks[i] = Whole(i)

ReturnedIsNoNewer ==
  /\ entry = IF renamed = <<>> THEN 0 ELSE renamed[Len(renamed)]
  /\ \A i \in returned : \E p, q \in DOMAIN renamed :
       renamed[p] = i /\ renamed[q] = durable.entry /\ p <= q

Begins(a, b) == Len(a) <= Len(b) /\ \A k \in 1 .. Len(a) : a[k] = b[k]

ReaderIsConsistent(r) ==
  LET i == reader[r].inode IN
  reader[r].at # "closed" =>
    /\ i \in DOMAIN inodes /\ inodes[i].blocks \in seen[r]
    /\ reader[r].at = "stat" => reader[r].got = <<>>
    /\ reader[r].at \in {"read", "check"} =>
         /\ reader[r].before[3] \in Nat /\ reader[r].before[3] <= inodes[i].ctime
         /\ reader[r].before[3] = inodes[i].ctime => Begins(reader[r].got, inodes[i].blocks)
    /\ reader[r].at = "accepted" => reader[r].got \in seen[r]

FilesInv ==
  /\ FileTypes /\ DocumentsAreOwned
  /\ tampered = 0 => DocumentsAreWhole
  /\ crashes = 0 => ReturnedIsNoNewer
  /\ \A r \in Readers : ReaderIsConsistent(r)
=============================================================================
