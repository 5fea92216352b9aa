------------------------------ MODULE TreeScan ------------------------------
(***************************************************************************)
(* The inventory of a checkout and of the transaction's source store, and  *)
(* the later binding that shows both unchanged (internal/brief/scanner.go, *)
(* sources.go; audit/policy.go: VerifyMarker).  The full pass inspects and *)
(* binds, the second pass only binds; another process may change a file at *)
(* any time.  An item is a name at the top of a root; one descendant       *)
(* stands for the contents of a directory.                                 *)
(***************************************************************************)
EXTENDS ArchiveScan, FiniteSets

CONSTANTS
  MaxFiles, MaxArchives, MaxEntries, MaxBytes,  \* the aggregate limits
  Worlds       \* what a transaction may consist of, see `world`

NoDeclaration == {"none"}

\* A declaration names finitely many sources; the plan of the freeze is given to the
\* phase after the sources are there, not to the one before.
ASSUME TreeConstants ==
  /\ {MaxFiles, MaxArchives, MaxEntries, MaxBytes} \subseteq Nat
  /\ \A w \in Worlds :
       /\ IsFiniteSet(w.plan) /\ IsFiniteSet(w.committed)
       /\ w.plan # NoDeclaration => w.phase = "post" /\ "none" \notin w.plan

\* In the order the walks visit them.
Items == <<[root |-> "checkout", name |-> "PKGBUILD"], [root |-> "checkout", name |-> "old.pkg.tar"],
           [root |-> "checkout", name |-> "src"], [root |-> "checkout", name |-> "vendor.tar"],
           [root |-> "store", name |-> "vendor.tar"]>>
ItemIndexes == DOMAIN Items

VARIABLES
  world,     \* [phase, plan, committed, depth, kind, edits]: the phase, the names
             \* declared by the regenerated plan and by .SRCINFO or NoDeclaration, the
             \* depth to which vendored content is inspected, the kind of every item,
             \* the bound on changes made by others
  content,   \* per item, which of two contents it has
  edits,     \* changes made by others, also the stamp a file's metadata carries
  pass,      \* "full", "bind", then how it ended: "same", "changed", "refused", or
             \* "broken" by the deadline or the file system
  at,        \* the item the pass is at
  reading,   \* edits when the item at hand was opened, or NotOpen
  records,   \* per item, [sha, inspected]: the contents hashed and inspected, or 0
  inv,       \* the totals as one ArchiveScan, and `files`
  reviewed   \* what the full pass returned: records and inventory

treeVars == <<world, content, edits, pass, at, reading, records, inv, reviewed>>
scanVars == <<treeVars, archiveVars>>

NotOpen == -1
NoRecords == [i \in ItemIndexes |-> [sha |-> 0, inspected |-> 0]]
EmptyInventory == [files |-> 0, scan |-> NoReport]
Nothing == [records |-> NoRecords, inv |-> EmptyInventory]

Name(i) == Items[i].name
Kind(i) == world.kind[i]
BindingOnly == pass = "bind"

\* The declaration a pass works from: the full pass has the text regenerated by
\* the freeze where there is one, the binding always reads .SRCINFO.
Declared ==
  IF pass = "full" /\ world.plan # NoDeclaration THEN world.plan ELSE world.committed
vendorPaths == Declared \ NoDeclaration

ScanInit ==
  /\ world \in Worlds
  /\ content = [i \in ItemIndexes |-> 1] /\ edits = 0
  /\ pass = "full" /\ at = 1 /\ reading = NotOpen
  /\ records = NoRecords /\ inv = EmptyInventory /\ reviewed = Nothing
  /\ stack = <<>> /\ report = NoReport
  /\ allowed = [entries |-> 0, bytes |-> 0, archives |-> 0, policy |-> -1, base |-> 0]

----------------------------------------------------------------------------
\* Mutant of Excluded: declared sources are left out of both phases.
Excluded_always(i) ==
  \/ Name(i) \in vendorPaths /\ Kind(i) \notin {"link", "escaping link", "special"}
  \/ world.phase = "pre" /\ Name(i) = "src" /\ Kind(i) = "directory"

\* What the walk leaves out at the top of a root.
Excluded(i) ==
  /\ world.phase = "pre"
  /\ \/ Name(i) \in vendorPaths /\ Kind(i) \notin {"link", "escaping link", "special"}
     \/ Name(i) = "src" /\ Kind(i) = "directory"

\* Vendored content is a declared source or lies in src; below a directory its
\* depth starts at 1.
Vendor(i) == world.phase = "post" /\ (Name(i) \in vendorPaths \/ Name(i) = "src")
BaseDepth(i) == IF Kind(i) = "directory" THEN 1 ELSE 0
generatedPackage(i) == Name(i) = "old.pkg.tar" /\ Name(i) \notin vendorPaths

contentInspectionEnabled(i) == ~BindingOnly /\ (Vendor(i) => world.depth >= 1)
ContentInspected(i) == contentInspectionEnabled(i) /\ ~generatedPackage(i)
archiveInspection(i) ==
  /\ ~BindingOnly /\ ~generatedPackage(i) /\ Kind(i) = "archive"
  /\ Vendor(i) => world.depth > BaseDepth(i)

\* The branches of checkBudget after its first, see Break.
checkBudget(v) ==
  /\ v.files <= MaxFiles
  /\ v.scan.hard + v.scan.coverage <= MaxFindings
  /\ v.scan.archives <= MaxArchives /\ v.scan.entries <= MaxEntries /\ v.scan.bytes <= MaxBytes

\* An error ends the pass, and the transaction gets no decision.
Refuse == pass' = "refused" /\ UNCHANGED <<at, inv>>

\* So do the deadline of the scan (the first branch of checkBudget) and whatever the
\* file system refuses.
Break == pass' = "broken" /\ UNCHANGED <<at, inv>>

\* An item is done: the budget is checked and the walk goes on.
Proceed(v) ==
  \/ Break
  \/ ~checkBudget(v) /\ Refuse
  \/ checkBudget(v) /\ inv' = v /\ at' = at + 1 /\ UNCHANGED pass

Walking == pass \in {"full", "bind"} /\ at \in ItemIndexes /\ stack = <<>> /\ report = NoReport

SkipItem ==
  /\ Walking /\ reading = NotOpen
  /\ Excluded(at) \/ Kind(at) \in {"absent", "empty directory"}
  /\ at' = at + 1
  /\ UNCHANGED <<world, content, edits, pass, reading, records, inv, reviewed, archiveVars>>

Record(sha, inspected) == records' = [records EXCEPT ![at] = [sha |-> sha, inspected |-> inspected]]

\* recordSymlink, and what is neither file, link nor directory.
RecordSpecial ==
  /\ Walking /\ reading = NotOpen /\ Kind(at) \in {"link", "escaping link", "special"}
  /\ LET found == CASE Kind(at) = "special" -> Incomplete(Hard(inv.scan))
                    [] Kind(at) = "escaping link" /\ contentInspectionEnabled(at) -> Hard(inv.scan)
                    [] OTHER -> inv.scan
     IN  Proceed([files |-> inv.files + 1, scan |-> found])
  /\ Record(content[at], content[at])
  /\ UNCHANGED <<world, content, edits, reading, reviewed, archiveVars>>

\* readRegular up to the first bytes.
OpenItem ==
  /\ Walking /\ reading = NotOpen /\ ~Excluded(at)
  /\ Kind(at) \in {"text", "bad control", "archive", "foreign", "directory"}
  /\ \/ inv.files >= MaxFiles /\ Refuse /\ UNCHANGED reading
     \/ inv.files < MaxFiles /\ reading' = edits /\ UNCHANGED <<pass, at, inv>>
  /\ UNCHANGED <<world, content, edits, records, reviewed, archiveVars>>

\* Mutant of Remaining: every archive has the whole of the limits.
Remaining_whole ==
  [entries |-> MaxEntries, bytes |-> MaxBytes, archives |-> MaxArchives,
   policy |-> IF Vendor(at) THEN world.depth ELSE -1, base |-> BaseDepth(at)]

\* What the files before left of the aggregate limits.
Remaining ==
  [entries |-> MaxEntries - inv.scan.entries, bytes |-> MaxBytes - inv.scan.bytes,
   archives |-> MaxArchives - inv.scan.archives,
   policy |-> IF Vendor(at) THEN world.depth ELSE -1, base |-> BaseDepth(at)]

\* The rest of readRegular: one reading hashes and inspects the content, and a
\* change meanwhile is an error.  An archive is then given to its reader.
HashItem ==
  /\ Walking /\ reading # NotOpen
  /\ reading' = NotOpen
  /\ LET found == IF Kind(at) = "bad control" /\ ContentInspected(at)
                  THEN Incomplete(Hard(inv.scan)) ELSE inv.scan
         read == [files |-> inv.files + 1, scan |-> found] IN
     \/ /\ reading # edits \/ (archiveInspection(at) /\ inv.scan.archives >= MaxArchives)
        /\ Refuse /\ UNCHANGED <<records, archiveVars>>
     \/ /\ reading = edits /\ ~archiveInspection(at)
        /\ Record(content[at], IF ContentInspected(at) THEN content[at] ELSE 0)
        /\ Proceed(read) /\ UNCHANGED archiveVars
     \/ /\ reading = edits /\ archiveInspection(at) /\ inv.scan.archives < MaxArchives
        /\ Record(content[at], 0)
        /\ inv' = read /\ StartArchive(Remaining) /\ UNCHANGED <<pass, at>>
  /\ UNCHANGED <<world, content, edits, reviewed>>

\* A step of the reader of the archive, which sees it as it is now.
InspectArchive ==
  /\ pass = "full" /\ ArchiveStep
  /\ records' = [records EXCEPT ![at].inspected = content[at]]
  /\ UNCHANGED <<world, content, edits, pass, at, reading, inv, reviewed>>

\* The archive's totals are added; what its reader could not finish makes the
\* inventory incomplete.
CollectArchive ==
  /\ report # NoReport /\ stack = <<>>
  /\ Proceed([inv EXCEPT !.scan =
       [Merged(@, report) EXCEPT !.complete = inv.scan.complete /\ report.complete /\ report.supported]])
  /\ report' = NoReport
  /\ UNCHANGED <<world, content, edits, reading, records, reviewed, stack, allowed>>

\* An item cannot be listed, opened or read, or the time is up before it; the reader
\* of an archive reports its errors instead.
ScanBreaks ==
  /\ pass \in {"full", "bind"} /\ stack = <<>> /\ report = NoReport
  /\ Break /\ reading' = NotOpen
  /\ UNCHANGED <<world, content, edits, records, reviewed, archiveVars>>

----------------------------------------------------------------------------
AtEnd == pass \in {"full", "bind"} /\ at = Len(Items) + 1

\* walkSourceStore: a path recorded in both roots.
SamePath(i, j) ==
  /\ Name(i) = Name(j) /\ Items[i].root # Items[j].root
  /\ (Kind(i) = "directory") = (Kind(j) = "directory")
  /\ records[i].sha # 0 /\ records[j].sha # 0
Collision == \E i, j \in ItemIndexes : SamePath(i, j)

\* sourceRootFor: the item of a declared source, checkout first.
Candidates(name) == {i \in ItemIndexes : Name(i) = name /\ Kind(i) # "absent"}
SourceItem(name) == CHOOSE i \in Candidates(name) : \A j \in Candidates(name) : i <= j

\* Mutant of verifySource: what only makepkg recognises as an archive is let pass.
verifySource_trusting(name) ==
  /\ Candidates(name) # {}
  /\ Kind(SourceItem(name)) \notin {"link", "escaping link", "special"}

\* One declared source makepkg would extract is there, a regular file, and no archive
\* for bsdtar only.
verifySource(name) ==
  /\ Candidates(name) # {}
  /\ Kind(SourceItem(name)) \notin {"link", "escaping link", "special"}
  /\ world.depth > 0 => Kind(SourceItem(name)) # "foreign"

ChangedSince(name) ==
  /\ Candidates(name) # {} /\ world.depth > 0
  /\ Kind(SourceItem(name)) \in {"text", "bad control", "archive", "foreign"}
  /\ content[SourceItem(name)] # records[SourceItem(name)].sha

\* verifyExtractableSources: every one that is not is a finding.
Verified(s) ==
  LET bad == {name \in vendorPaths : ~verifySource(name)}
  IN  IF bad = {} THEN s
      ELSE Incomplete([s EXCEPT !.hard = @ + Cardinality(bad), !.met = @ + Cardinality(bad)])

\* It gives up on a source that changed since it was read, and on more findings than
\* are allowed.
SourcesRefused ==
  /\ world.phase = "post"
  /\ \/ \E n \in vendorPaths : ChangedSince(n)
     \/ Declared # NoDeclaration /\ ~checkBudget([inv EXCEPT !.scan = Verified(@)])

\* compareSRCINFO needs both files; verifyExtractableSources a declaration.
Checked(s) ==
  CASE world.phase = "pre" -> IF Declared = NoDeclaration \/ Kind(1) # "text"
                              THEN Incomplete(Gap(s)) ELSE s
    [] world.phase = "post" /\ Declared = NoDeclaration -> Incomplete(Hard(s))
    [] OTHER -> Verified(s)

\* Mutant of finalize: a coverage finding alone leaves the inventory complete.
finalize_lenient(s) == s

\* Any coverage finding makes the inventory incomplete.
finalize(s) == IF s.coverage > 0 THEN Incomplete(s) ELSE s

\* The end of the full pass; the aggregate budget for text under review may leave
\* mandatory text out.
ReturnInventory ==
  /\ AtEnd /\ pass = "full"
  /\ \/ /\ Collision \/ SourcesRefused
        /\ Refuse /\ UNCHANGED <<records, reviewed>>
     \/ /\ ~Collision /\ ~SourcesRefused
        /\ \E s \in {Checked(inv.scan), Gap(Checked(inv.scan))} :
             reviewed' = [records |-> records, inv |-> [inv EXCEPT !.scan = finalize(s)]]
        /\ pass' = "bind" /\ at' = 1 /\ inv' = EmptyInventory /\ records' = NoRecords
  /\ UNCHANGED <<world, content, edits, reading, archiveVars>>

\* VerifyMarker: the binding of now is compared with the one of the report.
VerifyMarker ==
  /\ AtEnd /\ pass = "bind"
  /\ pass' = IF Collision THEN "refused"
             ELSE IF \A i \in ItemIndexes : records[i].sha = reviewed.records[i].sha
             THEN "same" ELSE "changed"
  /\ UNCHANGED <<world, content, edits, at, reading, records, inv, reviewed, archiveVars>>

\* Another process rewrites a file, with new content or what it had before.
Edit ==
  /\ edits < world.edits /\ pass \in {"full", "bind"}
  /\ \E i \in ItemIndexes :
       /\ Kind(i) \in {"text", "archive", "foreign", "directory"}
       /\ content' = [content EXCEPT ![i] = 3 - @]
  /\ edits' = edits + 1
  /\ UNCHANGED <<world, pass, at, reading, records, inv, reviewed, archiveVars>>

ScanNext ==
  \/ SkipItem \/ RecordSpecial \/ OpenItem \/ HashItem \/ InspectArchive \/ CollectArchive
  \/ ScanBreaks \/ ReturnInventory \/ VerifyMarker \/ Edit

----------------------------------------------------------------------------
\* A complete inventory names every hazard any reader came across, at whatever
\* depth, and no byte a reader had to read stayed unread; makepkg extracts no
\* declared source the scanner took for a plain file.  What ByDesign names is left
\* out without a gap, and a compressed tar read again as a stream is the exception,
\* see NothingIsForgotten (finalize, unsupportedArchive, verifyExtractableSources).
CompleteMeansNothingWasMissed ==
  LET s == reviewed.inv.scan IN
  reviewed # Nothing /\ s.complete =>
    /\ ~s.redone => s.hard = s.met /\ s.unread \subseteq ByDesign
    /\ world.phase = "post" /\ world.depth > 0 /\ world.plan # NoDeclaration =>
         \A n \in world.plan : Candidates(n) # {} /\ Kind(SourceItem(n)) # "foreign"

\* Every member a reader takes up is scanned whole, as scanArchiveMember says.  It
\* does not hold: what follows the head of a binary is discarded.
MembersAreScannedWhole ==
  reviewed # Nothing /\ reviewed.inv.scan.complete => "binary" \notin reviewed.inv.scan.unread

\* Does not hold: the second reading of a compressed tar without a signature
\* starts from nothing, so what the first had found is not in the result.
NothingIsForgotten ==
  reviewed # Nothing /\ reviewed.inv.scan.complete => reviewed.inv.scan.hard = reviewed.inv.scan.met

\* The archives of a transaction share its limits.  A reader has no more than what
\* the files before left.  Each nested one starts over, so readers at work may
\* together count an allowance and a member for every level, but one that waits is
\* within the limits, and what claims to be complete is, however deep it was read
\* (readRegular, checkArchiveLimits, scanArchiveMember).
ArchivesShareTheLimits ==
  /\ stack # <<>> =>
       /\ allowed.entries >= 0 /\ allowed.entries + inv.scan.entries <= MaxEntries
       /\ allowed.bytes >= 0 /\ allowed.bytes + inv.scan.bytes <= MaxBytes
       /\ allowed.archives + inv.scan.archives <= MaxArchives
       /\ \A n \in 1 .. Len(stack) - 1 :
            WithinLimits(stack[n].scan, 0) /\ stack[n].scan.archives <= allowed.archives
       /\ FoldLeft(LAMBDA n, f : n + f.scan.entries, 0, stack)
            <= MaxArchiveDepth * (allowed.entries + 1)
  /\ report # NoReport => InAllowance(report)
  /\ reviewed # Nothing => checkBudget([reviewed.inv EXCEPT !.scan.hard = 0, !.scan.coverage = 0])

\* A binding that is made of a transaction nobody touched is found the same,
\* whichever declaration either pass worked from: unless the deadline or the file
\* system breaks it off, it is refused or found changed only after an edit.  Found
\* the same, every file that is not left out has the bytes it had under review,
\* inspected or not (VerifyMarker).
BindingDecidesChange ==
  /\ reviewed # Nothing /\ pass \in {"changed", "refused"} => edits > 0
  /\ pass = "same" =>
       \A i \in ItemIndexes : /\ ~Excluded(i)
                              /\ Kind(i) \in {"text", "archive", "foreign", "directory"}
                              => /\ records[i].sha \in {1, 2}
                                 /\ records[i].sha = reviewed.records[i].sha

\* Does not hold: an archive is inspected after its metadata was compared, so what
\* was inspected may have been there for that moment only (readRegular).
InspectedIsBound ==
  pass = "same" => \A i \in ItemIndexes :
    reviewed.records[i].inspected \in {0, reviewed.records[i].sha}

\* Does not hold: a directory and a file, or two directories of different
\* contents, pass under one name (walkSourceStore).
NoNameInBothRoots ==
  reviewed # Nothing =>
    \A i, j \in ItemIndexes :
      i # j /\ Name(i) = Name(j) => Kind(i) = "absent" \/ Kind(j) = "absent" \/ Excluded(i)

----------------------------------------------------------------------------
(* What is inductive: a pass has recorded, and counted, the items before    *)
(* the one it is at that the walk does not leave out, whichever pass it is; *)
(* so the second finds no more than the first, which was within the limits. *)

Recorded(i) ==
  /\ Kind(i) \in {"link", "escaping link", "special", "text", "bad control", "archive",
                  "foreign", "directory"}
  /\ ~ /\ world.phase = "pre"
       /\ \/ /\ Name(i) \in world.committed \ NoDeclaration
             /\ Kind(i) \notin {"link", "escaping link", "special"}
          \/ Name(i) = "src" /\ Kind(i) = "directory"
InArchive == stack # <<>> \/ report # NoReport
Passed(i) == Recorded(i) /\ (i < at \/ (i = at /\ InArchive))
Specials == {i \in ItemIndexes : Kind(i) = "special"}
Clash(i, j) ==
  /\ Name(i) = Name(j) /\ Items[i].root # Items[j].root
  /\ (Kind(i) = "directory") = (Kind(j) = "directory")

Bindings == [ItemIndexes -> [sha : 0 .. 2, inspected : 0 .. 2]]
Inventory == [files : Nat, scan : Scans]

TreeTypeOK ==
  /\ world \in Worlds /\ content \in [ItemIndexes -> 1 .. 2] /\ edits \in Nat
  /\ pass \in {"full", "bind", "same", "changed", "refused", "broken"} /\ at \in 1 .. Len(Items) + 1
  /\ reading \in {NotOpen} \cup 0 .. edits
  /\ records \in Bindings /\ inv \in Inventory
  /\ reviewed \in [records : Bindings, inv : Inventory]

\* The item at hand.
AtHand ==
  /\ reading # NotOpen =>
       /\ at \in ItemIndexes /\ Recorded(at) /\ at \notin Specials
       /\ inv.files < MaxFiles /\ ~InArchive
  /\ InArchive => pass = "full" /\ at \in ItemIndexes /\ Recorded(at) /\ at \notin Specials
  /\ stack # <<>> => /\ allowed.entries + inv.scan.entries <= MaxEntries
                     /\ allowed.bytes + inv.scan.bytes <= MaxBytes
                     /\ allowed.archives + inv.scan.archives <= MaxArchives

\* Either pass.
Counts ==
  pass \in {"full", "bind"} =>
    /\ inv.files = Cardinality({i \in ItemIndexes : Passed(i)})
    /\ inv.scan.hard >= Cardinality({i \in Specials : i < at})
    /\ \A i \in ItemIndexes : records[i].sha # 0 <=> Passed(i)
    /\ edits = 0 => \A i \in ItemIndexes : content[i] = 1 /\ records[i].sha < 2

\* The first pass has no result yet, the second counts nothing but what it records.
SecondPass ==
  /\ pass = "full" => reviewed = Nothing
  /\ pass = "bind" =>
       /\ inv.scan = [NoReport EXCEPT !.hard = inv.scan.hard, !.met = inv.scan.hard,
                                      !.complete = inv.scan.complete]
       /\ inv.scan.hard = Cardinality({i \in Specials : i < at})
       /\ Cardinality({i \in ItemIndexes : Recorded(i)}) <= MaxFiles
       /\ Cardinality(Specials) <= MaxFindings
       /\ \A i \in ItemIndexes : reviewed.records[i].sha # 0 <=> Recorded(i)
       /\ edits = 0 => \A i \in ItemIndexes : reviewed.records[i].sha < 2
       /\ ~ \E i, j \in ItemIndexes : Clash(i, j) /\ Recorded(i) /\ Recorded(j)

Outcome ==
  /\ pass = "changed" \/ (pass = "refused" /\ reviewed # Nothing) => edits > 0
  /\ pass = "same" => \A i \in ItemIndexes : Recorded(i) =>
       records[i].sha # 0 /\ records[i].sha = reviewed.records[i].sha

TreeInv ==
  /\ TreeTypeOK /\ ArchiveInv /\ checkBudget(inv) /\ Told(inv.scan)
  /\ AtHand /\ Counts /\ SecondPass /\ Outcome
  /\ CompleteMeansNothingWasMissed
  /\ reviewed # Nothing => checkBudget([reviewed.inv EXCEPT !.scan.hard = 0, !.scan.coverage = 0])
=============================================================================
